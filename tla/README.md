# Globed, specified and verified

This directory specifies the parts of Globed (a multiplayer mod for Geometry
Dash, and its servers) whose correctness depends on the order in which
concurrent things happen. The specifications are TLA+ modules written from the
source code; TLC checks them on small instances, and TLAPS proves some of their
properties for instances of any size.

    tlc -workers 4 -config gs_serial.cfg MCGameServer   # one of the runs below
    tlapm GameServerProofs.tla                          # one of the proofs

Paths are relative to the repository; `server.rs`, `level.rs` and `generic.rs`
are those of `server/game/src/` and its `handlers/`, all `.cpp` and `.hpp` files
are below `src/`. `PROJECT.json` lists, for machines, the components, the runs,
the theorems, the source lines of every definition, the hazards, and for each
checked property a small mutation of the model that violates it.

## 1. The system

A **central server** hands out a list of game servers over HTTP. A **game
server** relays the positions of the players on a level over UDP. The **client**
is a mod inside the game: a UI thread driven by the game engine and three
threads of its own that talk to the game server. Nothing but the client's saved
values (last server, chat lists) outlives a process.

| Component | State | Operations | Talks to |
|---|---|---|---|
| Game server (`server.rs`, `level.rs`, `generic.rs`, `packets.rs`) | `connected_clients` (key, address, level id, last keepalive, account data), `levels` (level id to players), each under a tokio RwLock, and a lock per level | one task per datagram: CheckIn, Keepalive, Disconnect, UserLevelEntry, UserLevelExit, UserLevelData, SpectateNoData, and requests that only read; the janitor; `tick`; the reaper of empty levels on the blocking pool | clients over UDP; the tasks among each other through the two tables |
| Network handler (`net/network_handler.cpp`) | `g_gameServerId`, `g_gameServers` under `g_gameServerMutex`; `g_gameServerLastHeartbeat`; the saved `last-server-id` | `connectToServer`, `disconnect`, the loops `tMain`, `tRecv`, `tKeepalive`, `pingAllServers` | UI through `g_netMsgQueue`, calls and globals; game servers through the socket; the corrector |
| Game and UDP socket (`net/game_socket.cpp`, `net/udp_socket.cpp`) | `destAddr_`, `connected`, `established`, `pingTimes`; `sendMutex` | connect, disconnect, send, `sendAllTo` for pings, receive and decode | called by all four threads |
| Queues and locks (`smart_message_queue.hpp`, `data/capped_queue.hpp`, `wrapping_mutex.hpp`, `wrapping_rwlock.hpp`) | the queued items | push, pop, wait; a ring of the last chat lines | used everywhere in the client |
| Player corrector (`correction/corrector.cpp`) | two frames and a clock per remote player, the lists of new and gone players | `feedRealData` (receive thread), `interpolate`, `getNewPlayers`, `getGonePlayers`, `joinedLevel` (UI thread) | receive thread and play layer |
| Play layer hook (`hooked/play_layer.hpp`) | the remote players and progress icons on screen, spectating | `init`, `updateTick` (every frame), `updateStuff` (every second), `sendPlayerData`, `onQuit` | corrector, message queues, remote players |
| Remote player (`ui/game/remote_player.cpp`) | seven sprites of which one is shown, status icons, name; what was last drawn | `updateData`, `tick`, `setVisible`, `playDeathEffect` | called by the play layer and the corrector |
| Chat (`hooked/play_layer.hpp`, `ui/game/chat_message.cpp`, `ui/popup/spectate_user_cell.cpp`) | the chat box, the block lists (saved with the mod), the friend list | `updateMessages`, `onToggleChat`, `isUserBlocked`, `onBlock` | `g_messages`, the game's user list fetch |
| Levels screen (`ui/levels/globed_levels_layer.cpp`) | `g_levelsLoading`, `g_levelsList`, the level cache, the layer's flags | refresh, fetch, leave | receive thread, the game's own level fetch |
| Server list and menu (`ui/menu/*`, `hooked/menu_layer.hpp`, `ui/popup/central_url_popup.cpp`) | the cells, each with what it last showed, and its button | refresh ten times a second, remake, connect, disconnect, ping every 5 s | network handler through globals |
| Central server fetch, address parsing (`util.cpp`) | `g_gameServers` | version test, list update | central server |
| Central server (`server/central/src`) | a file, reread on a timer | `/version`, `/servers` | clients |
| Codecs (`net/bytebuffer.cpp`, `data/*`, `server/game/src/data/*`) | none | encode and decode | |
| Drawing, popups, settings (`ui/game/*`, `ui/popup/*`, `main.cpp`) | nodes of the engine | | engine |

What makes it hard:

* Game server: a handler gives one lock up before it takes the next, awaits
  sends in between, and its two tables describe the same thing. The handlers of
  one client's packets are separate tasks, so they overlap and overtake each
  other. The removal of an empty level is detached from its cause.
* Client connection: four threads change a handful of unlocked fields; the
  address of the current server doubles as the buffer for every datagram's
  sender and is lent to pings; any datagram may be late or lost; the same
  operation (disconnect) is the reaction to three events that can coincide.
* Play layer: one thread appends to the lists that another one copies and
  clears; joins and leaves reach the screen once a second, in the order
  "leaves, then joins".
* Another player's icons: frames are made up for packets that are lost, and what
  is drawn is the difference to what was drawn before, while the icons
  themselves are replaced between two frames.
* Chat: who is blocked depends on two lists, a friend list that arrives at any
  time and a setting, over several levels.
* Menus: what is shown is a copy of globals that three threads write; answers
  come to screens that were left and opened again.

What would make the components correct, in short: the two server tables agree;
a session is touched by its own packets only; limits hold under simultaneous
arrivals; nobody who has left stays anywhere; nothing empty, silent or lost
stays for ever; the client sends to the server it is connected to; its flags,
ids and saved values tell the same story; the screen shows the players who are
there, as they are, and what happens to them once; what the user chose about
whom to hear is kept; a screen that loads will stop loading.

## 2. Modules

| Module | What it is |
|---|---|
| `GameServer` | the game server, one action per critical section |
| `PlayerPlaces` | what it promises: each player is away, in the lobby or on one level |
| `GameServerProperties` | its invariants, action and liveness properties, and the refinement mapping to `PlayerPlaces` |
| `GameServerProofs` | TLAPS: types, capacity, reaping, nameless clients |
| `GameServerSerialProofs` | TLAPS, for jobs on a client that do not overlap: agreement of the two tables, the refinement of `PlayerPlaces`, and whose packets move a session |
| `NetworkHandler` | the client's connection with its four threads, the datagrams, and the servers as one client sees them |
| `NetworkHandlerProperties` | its properties |
| `NetworkHandlerProofs` | TLAPS: types, saved server, socket flag, known pings |
| `PlayLayer` | the corrector's lists and the play layer: who is on the screen, and spectating |
| `PlayLayerProperties` | its properties |
| `PlayLayerProofs` | TLAPS: types, the corrector's mutex, the lists, spectating, what is sent |
| `PlayerCodec` | the bytes of player data and icons, on clients of either byte order and on the server |
| `RemotePlayer` | one icon on the screen, as operators on a record |
| `OtherPlayer` | one other player from its client to the screen: extends `RemotePlayer`, with the corrector's frames |
| `PlayerCodecProperties`, `OtherPlayerProperties` | their properties; the first has the two properties of the codec, over any sample of data |
| `PlayerCodecProofs` | TLAPS: the codec, for all data |
| `OtherPlayerProofs` | TLAPS: all properties of `OtherPlayer` |
| `Chat` | messages, block lists, chat box |
| `ChatProperties` | its properties |
| `ChatProofs` | TLAPS: all its properties, the lines of a message among them |
| `MenuNetwork` | the globals the network threads write for the menus |
| `ServerList`, `LevelsMenu` | the two screens, each over `MenuNetwork` |
| `MenuScreens` | the main menu and both screens together |
| `MenuScreensProperties` | their properties |
| `MenuScreensProofs` | TLAPS: all of them |
| `MCGameServer`, `MCNetworkHandler`, `MCPlayLayer`, `MCOtherPlayer`, `MCChat`, `MCMenuScreens` | values of the constants for TLC |

    PlayerPlaces <- GameServer        NetworkHandler        PlayLayer
    RemotePlayer <- OtherPlayer -- Relayed -- PlayerCodec   Chat
    MenuNetwork  <- ServerList, LevelsMenu <- MenuScreens

Some modules contain an operator beside an action whose comment starts with
"Faulty": what the action would be with a plausible mistake in the code. It is
used by no specification; replacing the action by it has to violate the
property it belongs to, which shows that the property is about something.

### 2.1 GameServer

State. `connected_clients` and `levels` are the fields of `State`. A client's
`last_keepalive_time` is reduced to `fresh`: is it within `kick_timeout`? (A
clock set back counts as silence in the code, `unwrap_or_else` in
`remove_dead_clients`; `GoSilent` stands for that as well.) `player_data` is
reduced to `named`: is it still `PlayerAccountData::empty()`? A level is the set
of its players: their positions are passed on and never looked at. `reapers`
counts the `spawn_blocking` calls of `remove_empty_levels` that have not run.

Tasks. `Tasks` are slots for packet tasks; with the janitor they are the
workers. `pc[w]` names the section a worker enters next, `packet[w]` what it
handles, `level_id[w]` the handler's local of that name. A section ends where
the code gives a lock up or awaits a send, so an action does all that the code
does in between. `LevelKey` is the translation of the daily and weekly ids,
which must not collide with the -1 for "on no level".

| Code | Actions |
|---|---|
| receive loop of `start_server`, `handle_packet`, `verify_secret_key*` | `Receive`, `Verify` |
| CheckIn: `add_client`, decoding, storing the account data or rejecting it | `RefuseClient`, `AddClient`, `SignIn`, `Reject` |
| `on_keepalive`; time | `Keepalive`; `GoSilent` |
| `remove_client`, `remove_client_from_level`, `remove_empty_levels` | `RemoveClient`, `LeaveLevel`, `SpawnReaper`, `Reap` |
| `on_userlevelentry`, `add_client_to_level` | `EnterLevel`, (`LeaveLevel`, `SpawnReaper`), `AnnounceJoin`, `JoinLevel`, `RecordLevel` |
| `on_userlevelexit` | `ExitLevel`, `AnnounceExit`, (`LeaveLevel`, `SpawnReaper`) |
| `on_updatedata` | `ReadLevel`, `StoreData` |
| `remove_dead_clients` | `CollectSilent`, `KickNext`, then as `remove_client` |
| `tick` | `CollectPlayers`, `LockLevels`, `SendLevel`, `ResetPlayers`, `UnlockLevels` |

Locks. A section runs under one lock, except `tick`, which holds `levels` for
reading over several steps; `LevelsWritable` makes the writers of `levels` wait
for it. Locks taken and given up inside one section do not appear.

Constants that choose a situation: `Serial` (the jobs on one client never
overlap), `SendFails` (`send_to` may fail, which ends a handler at that point),
`TimePasses`, `TickBased`, `Traffic` and `Bodies` (what arrives). Bounds: the
sets of clients, keys, levels and task slots, and `MaxReapers`, which holds
back new packets while reapers wait and never a task under way.

Left out: packets that only read the tables and answer (Ping, LevelListRequest,
PlayerAccountDataRequest, SendTextMessage), an entry or data packet whose body
does not decode after the first section, the wire format, client addresses.

### 2.2 NetworkHandler

State. `connected`, `established`, `destAddr`, `pingTimes` are the socket's;
`gameServerId`, `gameServers`, `lastHeartbeat`, `lastServerId` the globals and
the saved value. Servers stand for their ids and their addresses. `pc`, `call`,
`packet`, `ping` are what the threads are doing: `call` the arguments of
`disconnect`, or of the `connectToServer` it was called by. `toServer` and
`toClient` are the datagrams under way, one queue per server; `session` the
servers that know this client. Two variables are history: `crossed` records
whether the last connect or disconnect of the socket fell into the time for
which a ping borrows it, `answered` the pings of which an answer was handled.

| Code | Actions |
|---|---|
| `disconnect`: the flag read and the saved id cleared; Disconnect sent; under the mutex, the socket disconnected, then the globals reset | `Disconnect`, `Farewell`, `Drop`, `Reset` |
| `connectToServer` after its disconnect, under the mutex: the socket connected; `g_gameServerId` set; the check-in | `Connect`, `Name`, `CheckIn` |
| the connect button | `OnConnect` |
| `tMain`: messages of `g_netMsgQueue` | `CentralServerChanged`, `ClearServers`, `FetchServers`, `MenuLayerEntry`, `PingServers`, `GameMessage` |
| `pingAllServers`, `sendPingTo`, `sendAllTo` | `PingList`, `SendPingTo`, `PingCheck`, `PingConnect`, `PingSend`, `PingRestore`, `PingsDone` |
| `tRecv`: `recvfrom`; then the packet | `Receive`; `HandleCheckedIn`, `HandleKeepaliveResponse`, `HandleServerDisconnect`, `HandlePingResponse`, `HandleGameResponse` |
| `tKeepalive` | `Heartbeat`, `CheckHeartbeat`, `FifteenSecondsPass` |
| the game server: `handle_packet`; timeout or restart | `Serve`; `ForgetClient` |

`g_gameServerMutex` is held over a step in `connectToServer` (from `Connect` to
`CheckIn`) and in `disconnect` (from `Drop` to `Reset`), `sendMutex` only while a
ping has borrowed the address; other sections under them are single actions that
wait for these. `Queued` and `Delivered` are UDP: a full queue drops, with `Loss`
anything may be dropped, with `Duplication` what is delivered may be delivered
again, and a datagram of one server can overtake those of another. An answer to
a ping whose id is not in `pingTimes` (any more) changes nothing: `at()` throws
(`game_socket.cpp:55`), and `tRecv` catches it (`network_handler.cpp:303`).

Bounds: `MaxCommands` clicks, `MaxMessages` messages of the queue, `MaxPending`
datagrams on each way, and the ping ids. Ids are drawn fresh, though the code
draws them at random from 2^32.

Left out: displayed pings, player counts and tps; what level data, account data
and chat do outside the connection; the destructor; the exceptions of a failing
`sendto` and of an address whose port does not parse; datagrams of one server
out of order; a flag or string torn by a data race (each access is atomic). The
test of `established` and the send that follows it are one step in
`GameMessage` and `Heartbeat`. An address that `inet_pton` does not take leaves
the old IP with the new port: an address of nobody, `None`.

The code's `save` of `disconnect` clears the saved server, which is the opposite
of what the comment at network_handler.cpp:104 says of it ("will not clear the
last-server-id value"); the model follows the code, and so do the callers.

### 2.3 PlayLayer

State. `playerData`, `playersNew`, `playersGone` are the corrector's (of the
frames only whose they are); `players`, `isDefault`, `wasSpectating`,
`testMode`, `startPositions`, `readyForMP` the play layer's; `spectated` and
`accDataCache` the globals. `sent` is the last message about the level that was
put into `g_netMsgQueue`, `requests` the account requests under way. `popup` is
the cell that will be clicked in the spectate popup, with what it was made for
when the popup was opened. `helped` records whether spectating has moved the
player since the level was last reset.

Threads. `recv` and `ui` name what the receiving and the UI thread do next. If
`overlapping`, they interleave at every access to something shared; if not, one
starts only while the other rests. In the game they do overlap. The second mode
separates what goes wrong only by an access to an unlocked list falling between
two others (a window of a few instructions, and undefined behaviour) from what
goes wrong without.

| Code | Actions |
|---|---|
| `feedRealData` | `ReceiveLevelData`, `FeedNew`, `FeedKnown`, `Insert`, `CollectGone`, `LockMtx`, `EraseGone` |
| account data answers | `ReceiveAccountData`, `LoseAccountData` |
| `init` of the layer with `joinedLevel`; `onQuit`; destruction | `EnterLevel`, `JoinedLevel`; `Quit`; `DestroyLayer` |
| `updateTick` with `interpolate` and `leaveSpectate` | `Tick`, `Interpolate`, `Interpolated`, `TickSpectate` (`Watch`, `StopWatching`, `NotWatching`) |
| `updateStuff` with `getGonePlayers`, `getNewPlayers`, `removePlayer`, `addPlayer` | `CopyGone`, `RemoveGone`, `CopyNew`, `AddNew`, `UpdateDefaults` |
| `sendPlayerData`, `levelComplete` | `SendPlayerData`, `LevelComplete` |
| spectate popup, pause menu | `OpenPopup`, `ClickSpectate`, `ClosePopup`, `Restart` |

A packet holds any set of players: a late packet of the last level is one that
holds other players. There are no bounds but the players. Of the engine it is
assumed that `resetLevel` and `togglePracticeMode(false)` start a new attempt,
and that nothing but this code changes `m_isTestMode` inside of a level.

Left out: the overlay, progress icons (they follow `players`), music, camera;
what an unlocked `unordered_map` or vector does when two threads are in it at
once (a call is atomic here). The frames are in `OtherPlayer`, the chat in `Chat`.

### 2.4 OtherPlayer, RemotePlayer and PlayerCodec

`PlayLayer` has many players as mere names and two threads; `OtherPlayer` has
one player with all that is to be seen of it, and the threads take turns. The
player's look (`Looks`) is what `PlayerData` says but for positions: the game
mode and flags of both icons, dead, paused, practice.

State. `stored` is the server's entry for the player; `entry` the corrector's
(`newerFrame`, the time of `olderFrame`, `extrapolatedFrames`), `newcomer` and
`gone` its place in the two lists; `cached` whether its icons are known; `icons`
the two `RemotePlayer`s; `set` the settings. `last` and `watched` record what
the last frame was and whether it was spectated, `unseen` how many packets in a
row have had a look other than the one that is drawn.

| Code | Definitions |
|---|---|
| the other client and the server's level | `PlayerEnters`, `PlayerData`, `PlayerLeaves` |
| `feedRealData` with `maybeEstimateFrame`, `getMidPoint`, `getExtrapolatedFrame` | `FeedRealData`, `FeedWithoutPlayer`, `MaybeEstimateFrame`, `GetMidPoint`, `GetExtrapolatedFrame` |
| `updateStuff`, `addPlayer` | `UpdateStuff`, `CreateBoth`, `UpdateBoth` |
| `interpolateSpecific`, the spectator's part of `updateTick` | `Frame`, `InterpolateSpecific`, `Spectate`, `FrameWithoutPlayer` |
| `RemotePlayer::init`, `updateData`, `updateIconsLayout`, `setActiveIcon`, `setVisible`, `tick`, `playDeathEffect` | `Create`, `UpdateData`, `UpdateIconsLayout`, `SetActiveIcon`, `SetVisible`, `TickIcon` (`NoteStatus`, `NoteGrounded`, `NoteDeath`), `PlayDeathEffect` |
| `ByteBuffer`, `encode`/`decode` of player data and icons on both sides, LevelData | `PlayerCodec`, as functions of byte sequences |

Times are multiples of `targetUpdateDelay`; the code's tolerance of 2 ms
around 0, 1 and 2 of them is equality. Extrapolating between frames of the same
time divides by zero, and the code's `lerp` makes NaN of it (of two equal values
other than 0, some libraries' `std::lerp` makes that value; the model takes the
outcome that harms): `NaN` is a value of
its own here that is near nothing. `Relayed` is what arrives when a look is
sent; it is a constant because the codec is a pure function, and `RelayFaithful`
checks it against the bytes in the run's first state.

Bound: `MaxTime`, after which the player stands still, so that packets repeat
the last data for ever. Left out: positions, rotation, scale and colours (the
circle wave's colour, which most death effects leave without a value, among
them), and the reset of the level when the spectated player is seen to jump
back, which depends on positions.

### 2.5 Chat

State. `queue` is `g_messages`; `saved` the two saved values; `layer` the chat
fields of the play layer, with `box` for the chat box and its list; `popup` the
user list's cells; `delegate` the game's `m_userListDelegate` and `fetches` its
open requests. `decision`, `allowedLost`, and in a message `heardIn` and
`decided`, record what the user did and when, for the properties. A character is
its width.

| Code | Actions |
|---|---|
| `tRecv` | `ReceiveMessage` |
| `init`, `onQuit`, the friend list | `EnterLevel`, `Quit`, `FriendListAnswered` |
| `updateMessages`, `isUserBlocked`, `ChatMessage::init` | `UpdateMessages`, `IsUserBlocked`, `MessageLines` |
| `onToggleChat` | `ToggleChat` |
| user list, `onBlock`, `chatBlockUser`, `chatUnblockUser`, `saveChatUserLists` | `OpenUserList`, `CloseUserList`, `OnBlock`, `SaveChatUserLists` |

`crashed` is where the code uses a pointer that is null (a message with the
setting chat off: there is no chat box) or freed (the friend list is answered
after the layer is gone, because `onQuit` clears another delegate). Bounds:
`MaxQueue`, `MaxLevels`. The run has the chat on (`ChatSettings`), because off
means the null pointer at the first message, and lists that are saved without
having been read: both are listed as hazards.

### 2.6 MenuScreens, ServerList, LevelsMenu, MenuNetwork

`MenuNetwork` is `NetworkHandler` as the menus see it: which server, established
or not, whose ping is known, the server list, and the steps of `tMain` on a
changed central server, each step one write. `ServerList` is the list with its
cells: `refreshWeak` copies the servers, updates cell after cell, and makes the
list anew when servers have come or gone; a cell keeps what it last showed and
its button acts on that. `LevelsMenu` is the levels screen over a request that
may be lost and a download that answers whatever layer the game points to by
then. `MenuScreens` puts them on top of each other: a covered screen gets no
timers and no input.

| Code | Actions |
|---|---|
| `connectToServer`, `disconnect`, packets, `tMain`, `updateGameServers` | `ConnectToServer`, `Disconnect`, `CheckedIn`, `CopyPing`, `KeepaliveResponse`, `PingResponse`, `LoseConnection`, `CentralServerChanged` to `FillServers` |
| `GlobedMenuLayer::init`, `refreshWeak`, `refreshServers`, `createServerList`, `onHardRefreshButton` | `OpenServerList`, `RefreshWeak`, `RefreshCell`, `EndRefresh`, `MakeCells`, `HardRefresh` |
| `ServerListCell::init`, `updateValues`, `onConnect`; `CentralUrlPopup::apply` | `NewCell`, `UpdateValues`, `OnConnect`; `ApplyCentralUrl` |
| `GlobedLevelsLayer` | `OpenLevels`, `OnRefreshButton`, `Update`, `LoadListFinished`, `LoadListFailed`, `LeaveLevels` |
| the request and its answer | `SendRequest`, `LoseAnswer`, `StoreList`, `TellLoaded` |
| `ModifiedMenuLayer` | `UpdateButton`, `EnterMainMenu`, `OnGlobedMenuButton`, `BackToMain` |

`undisturbed` records that no network thread has written what a refresh reads
since it began. A cell that goes offline takes its button away and keeps the
pointer, which the next change uses: nothing comes of it, or the game is gone
(`crashed`). While `updateGameServers` holds the mutex, `refreshServers` copies
the list without it and may see any part of it. A list is read entry by entry,
so that one with an entry that does not parse leaves those before it
(`PartsOfLists`).

Two simplifications: `answerDue` does not count, so two check-ins under way are
one; and `RefreshCell` reads `established`, `g_gameServerId` and the server's ping
in one step. The second is immaterial for refreshes that nothing disturbs, of
which `RefreshShowsTruth` speaks.

Bounds: `MaxRequests` under way; `MaxServersForLevels`: only in worlds with so
few servers is the levels screen entered, and in exchange the address of the
central server is not changed there. The two screens share only `established`
and the server list's button.

## 3. Runs

Passing runs. The sizes are TLC's distinct states.

| Run | Instance | Shows |
|---|---|---|
| `gs_concurrent` | 2 clients, one place on the server, one level, 2 overlapping tasks, janitor, every packet, valid and invalid bodies | `TypeOK`, `CapacityRespected` (check-ins at once do not pass the limit), `NoForgottenEmptyLevel` (an empty level has a reaper waiting or about to be spawned), `NamelessOnlyDuringCheckIn` (a client without account data is still being checked in) |
| `gs_serial` | 2 clients, 2 keys each, 2 levels (the daily one among them), 2 tasks and the janitor, one job per client at a time; 600 000 states | `MembershipAgrees` (the tables agree about every client nobody works for), `OnlyOwnPacketsMoveSession` (a session ends or moves by a packet with its own key or by the janitor), `ImplementsPlaces` (refinement of `PlayerPlaces`) |
| `gs_ticks` | 1 client, 2 levels, 1 task, janitor, tick task, failing sends, bodies that do not decode; 130 000 states; under `FairSpec` | `EmptyLevelsReaped`, `SilentClientsKicked`, `MissingLevelRepaired` (a level id that points nowhere, left by a failed send, is reset by the tick) |
| `nh_pings` | 2 servers, one with an unusable address, one ping id, a click, two messages, loss and duplication; 1 570 000 states | `TypeOK` (the address and each entry of `pingTimes` are a server's), `PingAnswersKnown` (an answer to a ping finds its entry, unless one was handled before), `ConnectedToSomeServer` (when the threads are idle, the socket's flag and the server id agree, unless the last connect or disconnect fell into a ping) |
| `nh_settles` | 2 servers, a click, a menu entry or a change of central server, loss, silence, servers that forget; 340 000 states; under `FairSpec` | `SavedServerIsCurrent` (when the threads are idle, the saved server is the current one), `LostSessionLeft` (a server that has lost the session is left in the end) |
| `pl_level` | 1 other player, threads taking turns or not; 80 000 states; under `FairSpec` | `TypeOK`, `NoPlayerForgotten` (who is reported is on the screen or due to be), `HelpDoesNotCount` and `TestModeRestored` (what spectating does to an attempt never counts, and test mode ends with it), `SpectatorNotShown` (no player data is sent from a spectating attempt), `ExitIsLast` (no player data after the exit message), `InterpolateFindsPlayer` (`at()` finds its player while packets erase players), `IconsLoaded` (default icons do not stay, though requests are lost) |
| `op_frames` | a player with two looks that differ in everything, sent 1 or 2 periods apart up to time 4, then the same for ever; 670 000 states | `TypeOK`, `ShownAsSent` (an icon shows what the last frame says, though sprites are replaced between frames), `DeathShownOnce`, `SignalsTakenAtOnce` (sound and restart for the spectator, in the right frame), `LooksNotKeptBack` (made-up frames hold back a new look for at most four packets), `BadFramesFade` (a frame that is no number is gone after two packets that are not the last one again), `HiddenNotDrawn` (nothing is left of who is dead or hidden), `RelayFaithful` (between machines of either byte order, through the server, cut short or not), `ValidEffectsTimed` (every death effect the server lets through has an animation) |
| `chat` | a friend and a stranger, the server and the user; one text of four characters; 2 levels; a queue of 2, a box of 2 messages; 550 000 states | `TypeOK`, `DecisionHonoured` (whom the user blocked is not shown, whom the user allowed is not dropped, in this level or the next), `BoxOfThisLevel` (not too many messages, none of another level, none shown while it is closed, none hidden that fits), `LinesFaithful` (lines have all characters, and each that another follows is the shortest start that reaches its width, for all texts of up to six characters of width 1 or 2) |
| `menus` | 2 servers and a central server that changes its list between them, or 1 server with the levels screen, 1 level and 2 requests; lists read in part; 2 750 000 states | `TypeOK`, `RefreshShowsTruth` (a refresh nobody disturbs shows exactly the servers there are, as they are), `SearchAnswersLayer` (the circle turns only while an answer will take it away, and none reaches a layer that was left), `WaitingIsAnswered` (a layer waits only for what is on its way or was lost) |

Why these bounds. The races of the game server need two tasks (or a task and
the janitor, the tick or a reaper) and one client; a second client is there for
the limit, for a level that is shared, and to show that others are not
disturbed; a second level for a change of levels; a second key for a new
session of the same account. In the client, a race needs two of the four
threads, each of them doing one thing: one click, and one or two messages of the
queue, while the servers' answers, the heartbeats and the timeout are
unbounded. Two servers are the old and the new one; in `nh_pings`
they are the one that is connected to and the one that is pinged, whose address
cannot be used. `nh_settles` has no duplicates, because one answer to a heartbeat
that is delivered for ever would keep a session going that the server has lost. On
the play layer the races between the two threads are about one player; that a
second one to change to makes no difference is what the proofs show, which cover
any number of players for all properties of `pl_level` but the liveness.

An estimated frame depends on two frames before it, and four of them in a row
are the code's limit: time 4 with the player standing still afterwards reaches
every count, every order of lost and repeated packets, and NaN; the proofs cover
every time. The chat's
limits are those at which a message no longer fits in a line, in the box and in
the list; two levels are one to block in and one to find it again. One server,
or two that come and go, are enough for a list that is equal, shorter, longer or
of the same length with another server; two requests are one of a screen that
was left and one of the screen that is there.

`NoPlayerForgotten` is checked with the threads taking turns because
`getNewPlayers` and `joinedLevel` clear lists without the mutex: a player
announced between the copy and the clearing is not shown. A second reason for a
wrong screen needs no race and is the finding of `pl_gone`.

`ConnectedToSomeServer` has an exception: `sendAllTo` reads `connected`, and later
restores the address or clears the flag, with no lock that `connectToServer` or
`disconnect` would take for the socket's fields. A connect that falls into a ping
sent while unconnected leaves the client with a server id and `connected` false,
a disconnect can leave the flag without a server. `crossed` is true from then
until the next connect or disconnect that falls into no ping, and the property
says that nothing else makes the two differ: not the pings themselves, not the
four threads, which write both in separate steps, and no loss or duplicate. The
hazards in `PROJECT.json` have the exception.

`LostSessionLeft` does not speak of a server that has never answered a heartbeat:
`tKeepalive` gives up on a server only when `g_gameServerLastHeartbeat` is not
zero, which the property's premise says.

`BadFramesFade` speaks of new packets: when the one after a bad frame is repeated,
the bad frame is the older one by then, and the next frame is made up from it
(`corrector.cpp:159`). For as long as packets repeat, such a player is drawn nowhere.

`LinesFaithful` states what `findLowerCharacterBound` does. Its comment says that
it returns "the max number of characters we can render from the string given max
width" (chat_message.cpp:17); unless the width is met exactly, it returns one
more, and the line is wider than asked for by a part of its last character.

Fairness. Workers get weak fairness per worker: tokio polls a task until it
ends. `JoinLevel` and `Reap` get strong fairness: they wait for
`levels.write()`, which the tick task keeps taking for reading and giving back;
tokio's RwLock hands locks out in the order of the requests, so a writer is not
passed over for ever. The janitor and the tick are interval timers. In the
client the three threads and a call under way are scheduled; fifteen seconds
pass; a server answers what reaches it. No fairness makes a packet arrive, a
datagram survive, the player act, or a client fall silent. On the play layer a
thread goes on with what it has begun (strong fairness where it waits for the
mutex, or for its turn), the engine's scheduler calls `updateStuff`, and of
requests for icons that are repeated for ever one is answered. `OtherPlayer`,
`Chat` and `MenuScreens` state no liveness: what they wait for is a datagram or
the game's own servers, which nothing in the code makes come.

Runs that find a violation, each against a line of the repository:

| Run | Property | What happens |
|---|---|---|
| `gs_exit_race` | `NoGhostPlayers` | `on_updatedata` reads the client's level, gives the lock up and later inserts the player (`level.rs:97`); an overlapping UserLevelExit has removed it in between. The player stays on the level for ever. protocol.md:44: "Removes the user from the level they were playing on." |
| `nh_ping_redirects` | `KeepalivesReachServer` | `recvfrom` stores the sender in `destAddr_` (`udp_socket.cpp:47`): an answer to a ping, received after a connect, turns the connection's packets to the pinged server. protocol.md:24: "keepalives are for actually keeping the connection alive" |
| `pl_gone` | `GoneNotShown` | `updateStuff` handles the gone players before the new ones (`play_layer.hpp:552`): whoever has joined and left since the last call is passed over by the first loop, put on the screen by the second, and stays there. play_layer.hpp:551: "remove players that left the level" |

Three more races of the game server are in the model and not run by themselves.
`tick` resets the `level_id` of players it has listed on a level that is gone
without looking at it again (`server.rs:418`): a player who has meanwhile entered
another level gets -1, and its UserLevelExit leaves it there. One client, one job
at a time and no failed send are enough: with the constants of `gs_serial`,
`TickBased = TRUE`, `Clients <- OneClient` and no symmetry, TLC violates
`ExitRemovesPlayer`, which is proved for a server without the tick
(`ExitLeavesLevel`).
`remove_dead_clients` removes from a list made before, so a client that has just
sent its Keepalive can be among them; and a check-in that gives the lock up
between inserting the client and storing its data may not find it any more
(`server.rs:341`). The hazards in `PROJECT.json` list them.

Deadlock is checked in the runs of the game server, of the play layer and in
`op_frames`. In those of the connection and the chat the player stops after the
bound of clicks, messages and levels, and in the menus a crash is the end.

## 4. Proofs

TLAPS proves, for all values of the constants that satisfy the assumptions of
`GameServer` (finitely many clients, no limits on levels, keys, tasks):

| Theorem | Says | How |
|---|---|---|
| `TypeCorrect`, `TypeInvariant` | `Spec => []TypeOK` | `TypeInv` adds to `TypeOK` that every worker that is not idle holds a packet of a kind that has this section (`LocalsOK`): without it a section could read a field the packet does not have. One step per action; the parts that touch only `pc` and the locals are lemmas on `Goto`, `GotoWith`, `Return`. |
| `ReapingNeverForgotten` | `Spec => []NoForgottenEmptyLevel` | Inductive with the types: the one action that empties a level sends its worker to `SpawnReaper`; `Reap`, the one that takes a reaper away, leaves no empty level; all others keep a reaper due. |
| `LimitNeverExceeded` | `Spec => []CapacityRespected` | Inductive: `AddClient` counts and inserts under one lock, all others shrink the table or keep its keys. Needs finitely many clients. |
| `TablesAgree` | when jobs on one client do not overlap, sends succeed and there is no tick task: `Spec => []MembershipAgrees` | `SerialInv`: each client has at most one job (`OneJobPerClient`), and for every label the facts that a client's job has established and not yet undone, e.g. between `JoinLevel` and `RecordLevel` it is on exactly `level_id[w]` while its client entry says none. With the job over, what is left of these facts is `MembershipAgrees`. |
| `NoGhosts` | under the same hypotheses: `Spec => []NoGhostPlayers` | No level has the id -1, which the client table uses for none; the rest is `TablesAgree`. |
| `ExitLeavesLevel` | under the same hypotheses: `Spec => ExitRemovesPlayer` | `SerialInv` says of a job at `leave` that its client is on exactly the level it is about to leave, at `reap` that it is on none; a job that ends at `leave` does so because that level is gone. |
| `TablesActAsPlaces` | under the same hypotheses: `Spec => ImplementsPlaces` | From `SerialInv`: it says for each label whether the worker's client is on one level, on none or unknown, which gives its place before and after the section. One step per action shows that the client makes the one move of `PlayerPlaces` or none, and that every other player stays where it is. |
| `OnlyOwnPackets` | under the same hypotheses: `Spec => OnlyOwnPacketsMoveSession` | `KeyInv`: past `verify` or `add_client`, a worker's client has the packet's key for as long as it is in the table. With one job per client nobody else can have removed and added it meanwhile. |

The hypotheses are needed: `gs_exit_race` violates `NoGhostPlayers` when tasks
overlap, the tick alone leads to a violation of `ExitRemovesPlayer` (section 3),
and a failed announcement ends `on_userlevelexit` between its two tables.

For `PlayLayer`, from finitely many players none of whom has id 0:

| Theorem | Says | How |
|---|---|---|
| `TypeCorrect` | `Spec => []TypeOK` | `TypeInv` adds that what is scheduled and the popup exist only within a level. |
| `InterpolationSafe` | `Spec => []InterpolateFindsPlayer` | `MtxInv`: who interpolates has seen its player, and nobody is erasing. |
| `NobodyForgotten` | `Spec => []NoPlayerForgotten` | `ScreenInv`: while the threads take turns, whoever is listed as gone and has come back is listed as new too (so it is put back after having been taken off), and the UI thread's copy is the list until it clears it. |
| `HelpNeverCounts`, `TestModeComesBack` | `Spec => []HelpDoesNotCount`, `Spec => []TestModeRestored` | `ModeInv`: already while a layer is entered, test mode is that of the level or somebody is being spectated. |
| `SpectatorNeverShown` | `Spec => SpectatorNotShown` | `MovedInv`: an attempt that was moved is one of a spectator or ends before the next send. |
| `NothingAfterExit` | `Spec => ExitIsLast` | `ExitInv`: after the exit message the layer is leaving or gone, and what is still scheduled finds `readyForMP` or the level unset. |

For `NetworkHandler`, for any finite list of servers, any ping ids and bounds,
with or without losses and duplicates:

| Theorem | Says | How |
|---|---|---|
| `TypeCorrect` | `Spec => []TypeOK` | `TypeInv` adds the type of `ping`, and that a ping that is not sent yet has a drawn id. |
| `SavedIsCurrent` | `Spec => []SavedServerIsCurrent` | `LockInv`: one thread at a time works under `g_gameServerMutex`. `SavedInv`: the id stands while its server is checked in with; where the saved id differs from it, some thread is at `check_in` (and will save it) or at `drop` or `reset` (and will reset the other). This covers any number of overlapping connects and disconnects of the four threads. |
| `ConnectedAgrees` | `Spec => []ConnectedToSomeServer` | `AgreeInv` relates the server id to what the flag will be after the ping under way (`FlagAfterPing`); with the mutex held, the flag is ahead of the id: cleared at `reset`, set at `name`. That only one thread can be there is `LockInv`. |
| `AnswersFindTheirPing` | `Spec => []PingAnswersKnown` | `PingInv`: the ids that are under way are known (`IdsKnown`), and without duplicates an id is in one place at a time: with the ping that waits to be sent, in one queue to or from a server, or in the packet at hand (`IdsApart`, `IdsOnce`), so that an answer can remove no id but its own. With duplicates, an id is known as long as it is in `pingTimes` or answered (`Known`). `AppendedIds` and `DeliveredIds` say what sending and delivering do to the ids of a queue. |

For `Chat`, for any players, texts of any length and any widths, queues and boxes:

| Theorem | Says | How |
|---|---|---|
| `LinesAreFaithful` | `Spec => []LinesFaithful` | The sum of widths is monotone; from that the invariant of the binary search (`lower` fits, `upper` does not), by induction on the interval that is left, gives the first length that reaches the width (`CutAtBound`). The three ways to split a text then follow by cases. |
| `TypeCorrect`, `BoxKept` | `Spec => []TypeOK`, `Spec => []BoxOfThisLevel` | `ChatInv` adds to the types that all that is queued was heard in this level (`QueueRight`; entering a level empties the queue) and what the box may show (`BoxRight`). `PushAllFacts` and `HideTooHighFacts` say of the two functions on the box what they keep, for boxes of any length. |
| `DecisionsHonoured` | with the chat on, `Spec => []DecisionHonoured` | `DecisionInv`: the layer's lists and the saved ones both have all decisions, and nobody twice. The hypothesis is needed: off, the lists are not read. |

For `PlayerCodec`, for all data and icons of players, machines of either byte
order, and levels with any number of players that two bytes can count:

| Theorem | Says | How |
|---|---|---|
| `RelayIsFaithful` | `Spec => []RelayFaithful`, if `Relayed` changes no look | The encoders are concatenations. `Part(all, at, piece)` says that `piece` is in `all` from `at` on; `ConcatParts`, `PartOfPart` and `FlattenFixed` find the parts of a concatenation, and one lemma per kind of value (number, flags, mode, integer) shows that its part is read as what was written. The composition with the server follows: what it keeps is the data itself. |
| `LevelsRead`, `NothingReadCutShort` | a LevelData packet is read as the players written to it, without the reader itself; cut short anywhere it is not read | `LevelEncoded`: its length and where its entries are, from `FlattenFixed`. `RelayFaithful` has both for two players. |
| `ValidEffectsHaveCases` | `Spec => []ValidEffectsTimed` | By cases of the settings; the bounds of `is_valid` are those of the `switch`. |

`Relayed` is how `OtherPlayer` refers to the codec: the function that it makes of
a look. That it is the identity is the hypothesis of `RelayIsFaithful`, and the
theorem says that the codec is no other function (third part of
`RelayFaithful`). `DataIsData` assumes of the samples that floats have four
bytes, that numbers are below 2^31, and that a name is bytes: the types of the
program's fields, with their signed integers not negative.

For `OtherPlayer`, for any looks, settings, delays and times:

| Theorem | Says | How |
|---|---|---|
| `TypeCorrect` | `Spec => []TypeOK` | With `CorrectorInv`: the entry's count of made-up frames is at most four, and its times are numbers or NaN. |
| `NeverKeptBackLonger`, `NaNFades` | `Spec => []LooksNotKeptBack`, `Spec => BadFramesFade` | `CorrectorInv` bounds `unseen` by the count of made-up frames. A NaN is near nothing, so nothing is made up while it is the newer frame, and as the older one it is used only when a packet repeats. |
| `AlwaysShownAsSent`, `OneDeathOneEffect`, `SignalsNeverLate`, `NothingLeftOfHidden` | the four properties of the screen | `IconInv` says of one icon what its remembered fields (`lastMode`, `wasDead`, `firstTick`, status) have to do with what is visible and with `last`; `IconsInv` says it of both, `ScreenInv` of the signals. One lemma per function of `RemotePlayer` shows that it keeps `IconInv`. |

For `MenuScreens`, for any finite set of servers, any central servers, levels and bounds:

| Theorem | Says | How |
|---|---|---|
| `TypeCorrect` | `Spec => []TypeOK` | The three parts of the state in turn. |
| `RefreshIsTrue` | `Spec => []RefreshShowsTruth` | `ListInv`: while a refresh is undisturbed, the copy of the servers is `gameServers`, and a cell that has been looked at is as `NewCell` would make it but for a button of an offline cell (`Undisturbed`). That equal counts mean equal sets is where finiteness is needed. |
| `SearchesAnswered`, `WaitingEnds` | `Spec => []SearchAnswersLayer`, `Spec => []WaitingIsAnswered` | `LevelsInv`, inductive with the types. |

The prover cannot use a theorem of the library that takes a predicate, so
induction is done on sets: a set of numbers that contains 0 and with each number
the next one contains all of them (`NatSetInduction`, from the least element of
what it leaves out). With it `ChatProofs` and `PlayerCodecProofs` show that the
recursive functions of their modules exist and what they compute: the sum of
widths, the binary search, `FlattenSeq`, the messages that pass (`Passing`), and
the heights in the box.

Only model-checked: liveness, which is out of the prover's reach
(`EmptyLevelsReaped`, `SilentClientsKicked`, `MissingLevelRepaired`,
`LostSessionLeft`, `IconsLoaded`). All invariants and action properties of the
passing runs are proved, for the hypotheses named above; what the three other
runs show is that their properties do not hold.

## 5. Not modelled, and what is next

Not modelled: the engine's drawing (positions, colours, progress bars, overlay,
music and camera), which has no state another component reads; start-up,
settings and logging; the central server's two read-only routes; the TCP socket,
which the program does not use; `splitAddress` and the text of the version test;
what a data race inside an `unordered_map`, a vector or a string does.

The order of the game server's locks is not a module of its own: a task that
holds one lock asks for another only in the order level table, one level, client
table, which rules a cycle out; the tick's hold on the level table is in
`GameServer`.

Next:

1. `NetworkHandler` as an implementation of an abstract network. `MenuNetwork`
   cannot be it as it stands: there `established` goes with the connection in one
   step, while in `NetworkHandler` a CheckedIn of the server that was left can
   still set it, and a ping sent while unconnected clears the connection again.
   It takes a network that allows both, and the menus over that one.
2. The wait of `SmartMessageQueue` with the main thread that has to end.
