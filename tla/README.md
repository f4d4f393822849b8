# Formal models of Warsow's client/server core

TLA+ modules, TLC configurations and TLAPS proofs for the parts of Warsow (the
Qfusion engine) whose correctness depends on the order of events: the network
channel, the reliable commands, the connection handshake, the slots of the server,
the snapshots, the moves, the configstrings and the pipes between threads. Paths are relative to `src/source/`.

To run them, in this directory: `tlc -config MCNetChan.cfg MCNetChan`,
`tlapm NetChanProofs.tla`. `PROJECT.json` maps every definition to the source lines
it models and lists the runs, the hazards and the theorems.

## 1. The system

One executable holds a server (`server/`) and a client (`client/`), a second one
only the server, a third one a relay (`tv_server/`). The game rules (`game/`), the
client's half of the game (`cgame/`), the menus (`ui/`), the renderer (`ref_gl/`)
and the sound (`snd_*/`) are libraries behind tables of functions. The main loop is
single threaded: `Qcommon_Frame` runs `SV_Frame` and `CL_Frame`, and each reads all
packets that have arrived before it sends. The renderer, the image loader, the sound
mixer and the web server run in threads of their own.

| Component | State | Operations | Talks to |
|---|---|---|---|
| Netchan `qcommon/net_chan.c` | sequences out and in, the fragments being assembled, those not yet sent | `Netchan_Transmit`, `TransmitNextFragment`, `PushAllFragments`, `Process` | sockets below, client and server above |
| Reliable commands `server/sv_send.c`, `sv_client.c`, `client/cl_main.c`, `cl_parse.c` | a ring of 64 commands on each end, the last number added, sent, acknowledged, executed | add, write all pending, parse acks, execute, drop, disconnect | netchan |
| Connection `server/sv_client.c`, `sv_init.c`, `client/cl_main.c`, `cl_parse.c` | `cls.state`, `client->state`, `svs.spawncount`, the client's serverdata, configstrings, baselines, cgame | `SV_New_f`, `SV_Configstrings_f`, `SV_Baselines_f`, `SV_Begin_f`, `SV_Map`, `CL_ParseServerData`, `CL_Precache_f`, `CL_Changing_f`, `CL_Reconnect_f` | reliable commands |
| Command pipe `qcommon/threads.c` (QBufPipe) | a ring of bytes, its length shared by two threads, a condition variable | `WriteCmd`, `Finish`, `ReadCmds`, `Wait` | renderer, image loader, sound, web server |
| Client slots `server/sv_oob.c`, `sv_main.c` | challenges, `svs.clients[].state`, `lastPacketReceived` | challenge, connect, zombies, timeouts, multiview | netchan, game |
| Snapshots `qcommon/snap_*.c`, `server/sv_ents` | rings of 32 frames on both ends, the entities of the last ones | build, write as a delta, parse, demand a full frame | game, cgame |
| User commands `client/cl_input.c`, `sv_client.c` | a ring of 64 moves, the last one executed | write the unacknowledged ones, execute the new ones | snapshots |
| Configstrings and game commands `sv_send.c`, `sv_game.c` | the strings, the batch of `cs` in the ring | `PF_ConfigString`, `SV_FindIndex`, `PF_GameCmd` | reliable commands, snapshots |
| Downloads `server/sv_client.c`, `client/cl_main.c` | file, offset, retries | request, block, timeout | reliable commands, web server |
| TV relay, web server, HTTP client, matchmaker, demos | see `PROJECT.json` | | |
| Renderer front end, sound, game, AI, cgame, UI, collision, platform | data processing, rules, presentation | | |

### What is hard

* The network loses, duplicates and reorders; a send can fail in the middle of a
  fragmented message.
* Commands are repeated until acknowledged, acknowledgements are lost too, and both
  rings can be full, also while a disconnect is being added.
* A level change may come between any two steps of the handshake, and serverdata
  restarts the numbering that acknowledgements refer to. The game's changes of
  configstrings and the player's commands take numbers of the same sequences all the while.
* Some data (serverdata, baselines) goes out once, beside the reliable commands.
* Connect packets are repeated, and the server must tell a late one from a player who
  comes back; a level change restarts the clock that timeouts are measured with.
* A frame is written as the difference from one that both ends must still have, in
  rings that are overwritten all the time, after any loss of frames and acknowledgements.
  The size of the ring of entities is a guess, which large frames exceed.
* Two threads share `cmdbuf_len` without a lock and decide on what they read before.

`PROJECT.json` ("hazards") names each of these at its line, with the properties that
would catch it going wrong, or the reason why none does yet.

### What makes each component correct

* **Netchan**: what is handed over is a message that was sent, whole and unchanged, at
  most once, in order; an acknowledged sequence was really received; the fragments of a
  message sent without error suffice to rebuild it, and sending them ends.
* **Reliable commands**: executed in order, each once, none skipped; a slot is not
  reused before its command is acknowledged; a move never overtakes the commands given
  before it; all commands arrive in the end or the connection ends.
* **Connection**: a spawned client has the serverdata of the level the server runs and has
  loaded it; no frame is decoded, and no changed configstring executed by an active client,
  in the wrong level; a client gets into the game in the end. (It should also have the
  configstrings and the baselines of its level, and get there whatever happens; the code
  does not see to that, section 4.)
* **Command pipe**: commands are executed whole, in order, once; `Finish` returns, and
  only when all was handled; no command is left in the pipe.
* **Client slots**: one slot for each player; a challenge opens one connection; a
  connection is not set up again under its client; who is silent times out, who answers
  does not; `sv.num_mv_clients` counts the flags.
* **Snapshots**: a delta finds the frame it was made from at the client, and was made from
  what the client has unless the server's entities were overrun; frames are shown in order; a game command reaches the client once.
* **User commands**: a move is executed once, in order, and none is lost unless it is too
  late or given up.
* **Configstrings**: the client ends with the last value of each index.

## 2. Modules

| Module | What it is |
|---|---|
| `DatagramChannel` | abstract specification: `sent` and `received` messages only |
| `NetChan` | `net_chan.c` with fragments, failing sends and a hostile network; implements `DatagramChannel` |
| `NetChanProofs` | its theorems |
| `ReliableCommands` | the two rings of commands over a channel that loses but keeps order |
| `ReliableCommandsProofs` | its theorems |
| `Connection` | the handshake and level changes, built from those commands |
| `ConnectionInv` | its inductive invariant |
| `ConnectionProofs` | its theorems |
| `BufPipe` | the pipe between two threads, one action per access to shared memory |
| `BufPipeProofs` | its theorems |
| `ClientSlots` | challenges, connect packets, slots, zombies, timeouts, multiview, level changes |
| `ClientSlotsProofs` | its theorems |
| `FrameStream` | abstract specification: the frames the client shows |
| `Snapshots` | delta frames in rings on both ends, acknowledgements, game commands; implements `FrameStream` |
| `SnapshotsProofs` | its theorems |
| `UserCommands` | the rings of moves on both ends, what a message repeats and what the game executes |
| `UserCommandsProofs` | its theorems |
| `CommonLemmas` | facts about rings, queues and sorted enumerations that several proofs use |
| `ConfigStrings` | changes of configstrings, batched into commands that wait to be sent |
| `MC...` | the values of the constants for TLC |

The layers rest on each other by their promises. `NetChan` is shown to implement
`DatagramChannel`: whole messages, in order, at most once, some lost. That is
what `ReliableCommands` and `Connection` take as their network: a queue to which a
message is appended, or not. `Connection` in turn takes from `ReliableCommands` that
pending commands are repeated and executed in order; it keeps the numbering, the
acknowledgements and their checks, and abstracts the ring, which the model does not fill. `Snapshots` takes the same network and, for the one reliable command
it needs, that it is repeated until executed and executed once; `UserCommands` takes the same network, and
`ConfigStrings` the promise of `ReliableCommands` as a queue of commands. `ClientSlots` stands
before all of these: its packets are out of band and reach no netchan, so that its network
also reorders and duplicates.

### NetChan

`outgoingSequence` ... `unsentBuffer` are the fields of `netchan_t`, one for each end.
`net` is the set of all packets ever sent, so that any of them may be processed later,
twice or never. A message is a model value with a length; a byte is `<<message, index>>`, so
that bytes of two messages cannot be confused. `pushing[e]` is the message whose
`Netchan_Transmit` waits while `Netchan_PushAllFragments` runs (SV_Netchan_Transmit and
CL_Netchan_Transmit); each round of that loop is an action because each may fail.
`Process` is `Netchan_Process` and does nothing on old packets, out-of-order fragments
and oversized ones, as the code's early returns.
Left out: the header's bytes, the qport, zlib (the flag `compressed` is kept), and so
the ten bytes of header that a reassembled message is rewritten behind: lengths within
ten bytes of MAX_MSGLEN are not modelled. The comment at `qcommon/net_chan.c:637` says
that the ack of the very first fragment is used; the code uses that of the last one,
and the model follows the code. Both are true acknowledgements.

### ReliableCommands

`queue[e]` has the three counters and the ring of an end, with the history of what was
added and of what was given up (`lost`). Slots are indexed modulo MAX_RELIABLE_COMMANDS,
so that a ring of two slots wraps, fills and overflows. `ServerAddCommand` is
`SV_AddServerCommand` with its overflow, which calls `SV_DropClient`, which adds a
command itself (with the window exactly full it calls itself once more: `WithDisconnect`).
`ClientOverflow` is the error in `CL_AddReliableCommand`, from which `Com_Error` calls
`CL_Disconnect`, which adds three commands (`DisconnectRound`); an error inside that
error ends the program (`crashed`). At a `disconnect` the server stops reading the message.
The client does not: `CL_ParseServerMessage` goes on when `CL_ServerDisconnect_f` returns, and
since `CL_ClearState` has zeroed the number that it compares with, it executes all that is
left (`unread`, `Left`). An error that leads to `CL_Disconnect` does not return, and then nothing
is left. The batching of configstrings in the ring is
in `ConfigStrings`.

### Connection

`parsing[e]` is what is left of the message an end is reading: each item of it is an
action, so that a level change or a send cannot come between two items of one message
but the level may change between any two messages. A level is its spawncount.
`SV_New_f`, `SV_Configstrings_f`, `SV_Baselines_f`, `SV_Begin_f`, `SV_Map`,
`SV_DropClient`, `CL_ParseServerData`, `CL_ParseBaseline`, `CL_ParseFrame`,
`CL_Precache_f`, `CL_Changing_f`, `CL_Reconnect_f`, `CL_ForwardToServer_f` are one action
each, with their tests of the state and of the level.

Two actions stand for the commands that have no part in the handshake but take numbers of
the same two sequences. `Update` is the "cs" that `PF_ConfigString` and `SV_FindIndex` broadcast
to every client from CS_CONNECTING on, at any moment, in the handshake too: a client that
waits for serverdata executes and acknowledges it under the numbering that serverdata is
about to restart. `RequestOfPlayer` is what a player who is connected or active sends; the
client sends one itself, "svmotd", with its first frame. So a number tells nothing of which
command it is, and the code, which compares numbers only, can take one for another: the first of
the disagreements in section 4 come of this. An update that `SV_AddServerCommand` appends to a waiting one
takes no number, and is no action.

Abstracted: a level's configstrings and baselines each go out in one batch; nothing has to be
downloaded; the frame is a frame, not a delta (a client becomes active with the first one
that cgame takes); which strings an update changes.

### BufPipe

Sizes are in words. Each access to `cmdbuf_len`, `terminated`, the bytes or the
condition variable is a step, with the locals it leaves behind (`was_empty`) in
`writer`. Adjacent accesses are merged only where no step of the other thread can tell
(a test of `terminated` with the CAS beside it). `nonempty_mutex` is not a variable:
all it does is to make a wake atomic with respect to the sleeper's going to sleep.
`blockWrite` and `timed` (a wait with a timeout) are chosen at the start: the pipes of
the web server and of the renderer block and are polled with `QBufPipe_ReadCmds` (a
sleep that ends by itself), the image loader's blocks and waits without timeout, the
sound's drops commands and waits with one. The users write nothing after the command
that ends the reader. `BufSizeAssumption`: no command is larger than half
of the pipe, which is true of all users by far; without it a blocking writer spins
forever on an empty pipe.

### ClientSlots

`slots`, `challenges`, `realtime` and `numMv` are `svs.clients`, `svs.challenges`,
`svs.realtime` and `sv.num_mv_clients`; `now` is `Sys_Milliseconds`, which, unlike
`svs.realtime`, does not restart with a level: connections are limited by one clock and
timeouts are measured with the other. A player is an address with its ports; players may
share a host, and challenges belong to hosts. `GetChallenge` is `SVC_GetChallenge` with its
search for an entry, `ServerConnect` is `SVC_DirectConnect` with `SV_ClientConnect`: the
limits, the challenge that is used up even when no slot is given, the search for the
player's own slot and for a free one. `Frame` is `SV_Frame` with `SV_CheckTimeouts`, which
comes before the packets of the frame are read. `LevelChange` is `SV_Map` with
`SV_SpawnServer`. On the client `Connect`, `AskForChallenge`, `ReceiveChallenge`,
`ReceiveClientConnect` and `Leave` follow `cls.state`; its timer of three seconds becomes
"asks whenever it likes".

Challenges are numbered in the order in which they are made, which orders them as their
times do. A packet of a connected client is sent and read in one step, since it matters
only when it is read. A packet lives for `Lifetime` frames at most: some bound on this is
what `sv_reconnectlimit` relies on. Left out: bots, TCP, the local client (which has no
reconnect limit), reject packets, a game or a matchmaker that refuses, the timeouts of
downloads. `SV_SendClientMessages` skips zombies, although `server/sv_main.c:388` says that
they wait for their last message to be sent again; the model has nothing to send there.

### Snapshots

`sv` has the fields of `client_t` and of the last frame; `entities` the ring
`svs.client_entities`, in which each entry is represented by the frame it was written for.
`cl` has the client's ring and the three numbers that point into it (received, pending,
current), `view` what cgame shows. The contents of a frame are its number. A delta carries
the contents it was made from, read through the ring of entities (`Contents`): decoding
it against anything else gives `Garbage`. `ServerFrame` is `SV_SendClientDatagram` with
`SNAP_BuildClientFrameSnap` and `SNAP_WriteFrameSnapToClient`: the frame is built in the ring,
the delta is chosen (`IsDelta`, `WithNoDelta`), the game commands not acknowledged are
repeated (`Carried`). `ClientRead` is `CL_ParseFrame` with `SNAP_ParseFrame`. `ClientFrame` is
a round of the client's main loop: `CL_UpdateSnapshot`, `CL_AdjustServerTime` and, when it is
time, `CL_GameModule_NewSnapshot`, then a message to the server or none; how many messages are
read and how much time passes between two rounds is left open, so that the client may be
slower or faster than the server.

Three things the code does, and the properties allow for:

* The frame `UPDATE_BACKUP` after the last one received takes its slot. `SNAP_ParseFrame`
  then compares the new frame with itself (`snap_read.c:604`), ignores its game commands, and
  acknowledges the frame (`Aliased`, in `hist.excused`).
* A pending frame whose slot is overwritten before it is shown is shown as the newer
  frame, and that frame once more under its own number (`hist.refired`).
* A client slower than the server skips frames it received, and with them the game commands
  stored there: `hist.stored` is what it received, `hist.executed` what it executed.

The ring of entities has room for `MAX_SNAP_ENTITIES`, 64, in each of UPDATE_BACKUP frames of each
client (`server/sv_init.c:355`), "the guess of what we consider maximum amount"
(`server/server.h:205`), while a frame may have 1024 (`snap_write.c:802`) and nothing is checked.
The model assumes neither: `EntityCounts` are any numbers up to the size of the ring (which 1024
is below), and `OtherCounts` any numbers of entities that the frames of the other clients take
in between. A frame is `damaged` when it is written as a delta of one whose entities began
more than a ring before, or of a damaged one; `EveryFrameDecodes` says that no other frame differs at the
client from what the server built. That a client finds the base of every delta does not
depend on it, nor does the order in which frames are shown. Left
out: game commands that do not fit into a message, frames of several points of view,
relays, clients on TCP, the width of `next_entities`, and what is in an entity. That the client has loaded the level is
taken for granted (it is a matter of `Connection`).

### UserCommands

`cl` and `sv` have the fields of `cls`, `cl`, `client_t` and `svs` by their names. A move is
its number and its time stamp. `NewUserCommand` is `CL_NewUserCommand`, `ClientSend` is
`CL_WriteUcmdsToMessage`, `ServerRead` is `SV_ParseMoveCommand`, `GameFrame` is
`SV_ExecuteClientThinks` with the loop over `SV_FindNextUserCommand` in one step: each round of
it takes the earliest move that is later than the one before, so that what it executes is
the set `Chosen`, ordered by time. The client's stamps are any up to the server's clock; it may
set its clock back a bounded number of times, as `CL_UpdateSnapshot` does for a connection
that has become slower. What is said here of messages and acknowledgements that are lost is
that they need not be sent.

What the code does, and `NoMoveLost` allows for (`hist.excused`):

* `UcmdExecuted` passes moves that are stamped with `svs.gametime` or later, or more than 999
  ms before it, and they are never executed;
* of moves with one stamp only the first is executed;
* with more than 63 moves not acknowledged the client sends the last three only. The server
  counts from the first one missing, and finds in the slots of those in between moves that are
  a ring older; only their time stamps keep it from executing these again;
* with 64 or more moves received between two frames of the game the oldest are overwritten.

`resendCount` in `CL_WriteUcmdsToMessage`, and with it `cl_ucmdMaxResend`, has no effect: it is
positive only if the server acknowledges more than the client has sent.

### ConfigStrings

`unsent` are the "cs" commands above `reliableSent`, `sent` those that the client has not
executed. `ConfigString` and `FindIndex` are `PF_ConfigString` and `SV_FindIndex`; each change goes
through `AddServerCommand`, the search for a command with room. A string is a model value with
a length, that of the text which its change adds to a command.

## 3. What the runs show

Each property of a passing run is also seen to fail on a plausible bug in the modelled
code ("mutants" in `PROJECT.json`; the bugs stand, marked, before the definitions they
change).

| Run | Bounds | States | Shows |
|---|---|---|---|
| `netchan` | fragments of 2, messages of 1, 3 and 4 bytes, 1 message from the client, 2 from the server | 38 thousand | `IInv`, `AckedWasReceived`, `Reassemblable`, `ImplementsDatagrams`, `AckNeverGoesBack`, `FragmentsDrain` |
| `reliable` | rings of 2, 3 commands each way, 1 message in flight each way | 470 thousand | `ExecutedInOrder`, `ServerKeepsUnacknowledged`, `AcksAreSound`, `MovesFollowCommands`, `NothingAfterDisconnect`, `CommandsArrive`, and in `TypeOK` how far the rings overrun |
| `connection` | 2 levels, 1 message in flight and one more from a handler, 1 changed configstring and 1 command of the player in each numbering | 1.1 million | `IInv`, `SpawnedIsReady`, `FrameOfItsLevel`, `UpdateOfItsLevel`, `FirstHandshakeEnds` |
| `bufpipe` | a pipe of 5 words, commands of 1 and 2, 6 commands | 183 thousand | `ExecutedInOrder`, `HandlerReadsWholeCommand`, `NeverAsserts`, `FinishMeansHandled`, `FinishReturns`, `CommandsExecutedIfTimed` |
| `client_slots` | 2 players of one host, 2 slots, 1 challenge at a time and 2 in all, a level change, 5 frames, times of 1 frame, 2 packets under way | 1.8 million (up to symmetry) | `OneSlotEach`, `ChallengeUsedOnce`, `SilenceEnds`, `EstablishedIsNotReset`, `NotTimedOutWhileHeard` |
| `snapshots` | rings of 4 frames and 2 game commands, 5 frames of 2 entities and 2 of other clients before each, in a ring of 8 entities, commands too old after 3 frames, 1 message in flight each way | 1.6 million | `EveryFrameDecodes`, `GameCommandsStoredOnce`, `GameCommandsInOrder`, `NoDeltaHonoured`, `ShowsFramesInOrder` |
| `user_commands` | rings of 3 moves, 6 moves, the last 1 sent when too many wait, moves too old after 2 ticks, 3 ticks, the clock set back once, 1 message in flight each way | 5.1 million | `MovesInOrder`, `NoMoveLost`, and in `TypeOK` that no end runs ahead of the other |
| `handshake_stuck`, `baseline_lost`, `bufpipe_lost_wakeup`, `multiview_count`, `config_order` | small | | the code does not do what its comments say: section 4 |

Why the bounds are enough. *netchan*: the lengths are below, between and at a multiple
of the fragment size, which are the cases the code distinguishes; two messages from one
end let a stale fragment meet a new message, and the second ack meet the first; the
proofs remove the bounds for all but `FragmentsDrain`. *reliable*:
3 commands wrap a ring of 2 and overflow it; more messages in flight (checked by hand
with 2 and two commands each, 631 thousand states) change nothing, and the proofs remove the
bounds for all but `CommandsArrive`. *connection*: two
levels are one change, which can come at every point; one message of every frame and one
that a handler sends let a repeated command follow the answer to it; one update and one
request in each numbering shift the numbers of all commands of the handshake behind them.
`FirstHandshakeEnds` was also checked with one level and two messages in flight (520 thousand states).
The proofs remove the bounds for all but `UpdateOfItsLevel` and `FirstHandshakeEnds`. *bufpipe*: 6 commands wrap a pipe of 5 words
in every alignment, with the reset at the end, before it, and not needed; the proofs
remove the bounds for all but the liveness properties. *client_slots*: two players of one
host compete for one challenge and use up the two slots; five frames let a slot go through
connection, zombie time, reconnection and timeout around the level change; the proofs remove
the bounds. *snapshots*: the fifth frame takes the slot of the first in both rings; with the other
client's, two frames fill the ring of entities, so that a delta from the frame before is good, one from two
frames before is overrun; with four frames lost or not, and any acknowledgement late, a delta may be
taken from each age that the window `UPDATE_MASK` allows and the next one that it forbids; the
proofs remove the bounds.
*user_commands*: the sixth move is the first with which a gap makes the server look at a slot
that still holds a move it has executed; three ticks have two time stamps that can be executed
in different frames; the proofs remove the bounds.

Fairness. *netchan*: the server sends one fragment for each client each frame
(`SV_SendClientsFragments`), the client too (`CL_NetFrame`), and the push loop is a
loop: weak fairness on sending; none on processing or on the network. *reliable* and
*connection* (and *handshake_stuck*): both main loops read all that has arrived (weak fairness), and repeat
pending commands, while the network does not lose every message (strong fairness on a
send that arrives; in *connection* also on a serverdata that arrives). Nothing obliges anyone to add
commands, disconnect, or change the level. *bufpipe*: both threads are scheduled (weak
fairness on their steps); nothing obliges the writer to write; a wait with a timeout
ends, one without may or may not wake up by itself. *client_slots*, *snapshots* and *user_commands*
check safety only and assume no fairness.

Runs set CHECK_DEADLOCK FALSE because the histories are bounded and connections end: a
state in which nothing happens is a legal end. That nobody waits forever is what the
liveness properties say.

## 4. Where the code disagrees with its comments

* `handshake_stuck`: `server/sv_client.c:288` says a lost answer to `new` is sent again.
  After a level change the client's acks belong to the old numbering, and
  `SV_ParseClientMessage` discards every message with such an ack before it reaches `new`.
  The handshake does end when nothing disturbs it (`FirstHandshakeEnds`): no other level, no
  configstring changed before the client asks for them, no command of the player while it
  is connecting. Each of the three can keep it from ending (below).
* `baseline_lost`: frames are deltas from the baselines (`server/sv_init.c:87`), but the
  message with the baselines is not repeated when it is lost, while the `precache` beside
  it is.
* `bufpipe_lost_wakeup`: `ref_gl/r_image.c:3028` counts on the loader thread being woken
  up at once. The reader tests for an empty pipe before it locks the mutex, and sleeps
  through a signal sent in between.
* `multiview_count`: `server/server.h:66` calls `sv.num_mv_clients` the current number of
  multiview clients, and `server/sv_client.c:917` asserts that it is not zero when one leaves.
  `SV_Map` counts them again, on top of the old count, and `SV_SpawnServer`, which it
  calls next, clears `sv` with the count: clients keep the flag and are not counted.
* `config_order`: `game/g_public.h:85` promises that changes of configstrings are sent to all
  clients. `SV_AddServerCommand` appends a change to the newest waiting command with room for
  it, which may be older than one that was too full and holds the string's previous value.
  The client executes that one last and keeps the old value.

More are in the models, without a run of their own. The first four were seen by TLC, with the
property and the bounds named:

* `HandshakeEnds` fails without a level change (`MaxLevel` 1, `MaxUpdates` 1, `MaxRequests` 0). A
  changed configstring is broadcast to clients that are CS_CONNECTING (`server/sv_send.c:166`),
  although `SV_New_f` speaks of no reliable commands before the first request for the configstrings
  (`server/sv_client.c:368`). The client has executed it, and acknowledges it, before serverdata resets
  `reliableSent`; if serverdata is lost, every message from the client is discarded.
* It fails also without an update (`MaxLevel` 1, `MaxUpdates` 0, `MaxRequests` 1), although
  `client/cl_main.c:109` says that a reliable command will be transmitted. The
  client ignores a second serverdata (`client/cl_parse.c:1374`), but has taken the ack in front of it,
  the number of `new` in the old numbering, and until the next message does not repeat its first command,
  `configstrings`. If the player gives a command just then, that one is sent alone; once it is
  executed, `configstrings` counts as executed on both ends.
* `FrameHasConfigstrings` fails (`MaxLevel` 1, `MaxUpdates` 1, `MaxRequests` 0): `server/sv_send.c:76`
  guarantees that a command is executed before the snapshots that come after it. When
  `new` was answered twice, the client ignores the second serverdata and keeps the number of the last
  command executed. If it has executed an update in between, it skips the first commands of the new
  numbering, which are its configstrings (`client/cl_parse.c:1354`), and is spawned without them.
* `BaseIsValid` fails (the bounds of `MCSnapshots.cfg`): `qcommon/snap_write.c:655` has "a valid
  message to delta from". The entities of that frame may have been overwritten, by larger frames than
  the ring was sized for; the delta is then made from entities that the client does not have, and
  what differs stays wrong at the client until it changes again, since later deltas start from
  this frame.

* `client/cl_main.c:119` promises to drop the connection instead of losing an unacknowledged
  command. The test comes before the increment and allows one command more than the ring
  holds (`TypeOK` of `ReliableCommands` says: one, and no more); the server's test
  (`server/sv_send.c:124`) does not.
* `server/sv_init.c:253` says partially connected clients are restarted by a level change, and
  `SV_Begin_f` has a branch for it, but `SV_Map` has changed their state, and the test before
  that branch drops them (`Begin` in `Connection`).

## 5. What is proved

`NetChanProofs`, for every set of messages, all lengths, every FRAGMENT_SIZE and
MAX_MSGLEN above zero and every number of messages, under `SizesAssumption` (lengths do
not exceed MAX_MSGLEN) and `NoneAssumption` (the two null values are not data):

* `NetChanInvariant`: `Spec => []IInv`.
* `NetChanImplementsDatagrams`: `Spec => Datagrams!Spec`.
* `AckedWasReceivedAlways`: `Spec => []AckedWasReceived`.
* `AckNeverGoesBackAlways`: `Spec => AckNeverGoesBack`.
* `ReassemblableAlways`: `Spec => []Reassemblable`.

The argument. That a delivered message is the one sent is not inductive: a fragment in
flight, or bytes in the buffer, could be anything. `IInv` adds what is true of them:

* `SentCount`, `UnsentIsLastSent`: a sequence number names exactly one transmitted
  message, also when a failed send gives one up, for then its number goes with it;
* `PacketsMatchSent`: every packet in the network is a piece of the message that its
  sequence names, and a packet marked last ends it;
* `BufferMatchesSent`: what an end has assembled is the beginning of the message of
  `fragmentSequence`. A fragment is appended only if it starts where that ends, so the
  invariant is kept, and with the last fragment the beginning is the whole;
* `IncomingIsLastReceived`: with the test of the sequence, deliveries are in order;
* `AcksOrdered`: a packet carries an ack at least as large as any packet before it, so
  that taking the ack of each accepted packet never goes back;
* `AcksReceived`: the acks in the network name sequences that were handed over.

Initially each part holds; each action of `Next` has a lemma that it preserves each part
it can disturb; the refinement follows from `IInv` action by action, `Process` being a
delivery or a stutter, transmissions a send, the rest stutters.

`Reassemblable` is about a message that is complete, and so says nothing of one that is still
being sent. `FragmentsSoFar` does: the packets of its sequence in the network are a chain from the
first byte to `unsentFragmentStart`, none of them marked last. The next fragment makes the chain
longer or closes it (`NextFragment`), and the length that marks a fragment as the last is
the one that makes the sender stop (`LastIsAllSent`), also when the message ends exactly where
a fragment does.

`ClientSlotsProofs`, for any players, hosts, numbers of slots and challenges, limits and
times (`PlayersAssumption`, `TimesAssumption`):

* `SlotsInvariant`: `Spec => []IInv`; with it `SlotsTypeOK`, `SlotsOneSlotEach`,
  `SlotsChallengeUsedOnce`, `SlotsSilenceEnds` and `SlotsNotTimedOutWhileHeard`.
* `SlotsEstablishedIsNotReset`, with the further assumption `2 * Lifetime < ReconnectLimit`.
  It is needed: a connect packet may wait that long at the client's side of the answer and
  at the server's. The run has `Lifetime = 0` and `ReconnectLimit = 1`, the least values
  that satisfy it.

`IInv` adds to the properties: a number in a challenge entry is in no other entry and in no
accepted packet (`ChallengesSound`), which makes a used challenge worthless; how long a client
seems silent on the restarted clock is never more than how long it was, and hardly less once
the level is older than its last packet (`TimesSound`), which gives both timeout properties;
the packet that told a client of its connection was sent when its slot was set up, and no
connect packet of a connected client was sent much later than that (`ConnectionsSound`).

`BufPipeProofs`, for any size of the pipe, any sizes and number of commands within
`BufSizeAssumption`:

* `PipeInvariant`: `Spec => []IInv`; with it `PipeTypeOK`, `PipeExecutedInOrder`,
  `PipeHandlerReadsWholeCommand`, `PipeNeverAsserts` and `PipeFinishMeansHandled`.

That the reader finds the next command at its position says nothing of the one after it, nor
of the writer. `IInv` describes the whole buffer (`Laid`): the commands written and not given
back lie in the cells in order, either in one run from the reader's position to the writer's
(`InOnePiece`), or in a run that ends with a reset word and a second one from the start of the
buffer (`InTwoPieces`), and `cmdbuf_len` is what these cells and the wasted ones after the
reset add up to, but for what each thread has written and not counted yet, or read and not
given back (`WriterSound`, `ReaderSound`, for each place the threads can be at).

`ReliableCommandsProofs`, for rings of any size and any bounds on commands and messages
(`BoundsAssumption`, `CommandsAssumption`):

* `ReliableInvariant`: `Spec => []IInv`; with it `ReliableTypeOK`, `ReliableExecutedInOrder`,
  `ReliableServerKeepsUnacknowledged`, `ReliableAcksAreSound`, `ReliableMovesFollowCommands` and
  `ReliableNothingAfterDisconnect`.

That commands are executed in order depends on every message in flight, on the counters of
both ends, and on the ring the message was copied from. `IInv` says of a queue that while no
command is lost the slots of the unacknowledged hold what was added (`QueueSound`; two numbers
less than a ring apart have different slots, `SlotsDiffer`); of a message that its commands
have consecutive numbers, that none between what was executed and its first is missing, and
that the last was sent (`MessageSound`, which survives as the receiver executes more and the
sender adds more, `MessageKept`); and that the acknowledgements in flight to an end that is
connected never go back and never pass what was executed (`AcksSound`), which is why the client can take
`clcack` without a test. What follows a disconnect at the client is accounted for by
the numbers of the message it was in (`unread`), and `NothingAfterDisconnect` says of the client what
holds of it: while the server has lost no command, nothing follows its disconnect. Steps that execute nothing share one lemma, `QuietStep`, those that
do another, `ReceiveStep`.

`SnapshotsProofs`, for rings of any size, frames of any size that the ring of entities can hold
one of, and any number of frames, commands and messages (`SizesAssumption`, `BoundsAssumption`):

* `SnapshotsInvariant`: `Spec => []IInv`; with it `SnapshotsTypeOK`,
  `SnapshotsEveryFrameDecodes` and `SnapshotsNoDeltaHonoured`.
* `SnapshotsBaseIsValid`, with the further assumption `FramesFit`, that UPDATE_BACKUP times the largest
  numbers of entities fit into the ring: then no delta is made from entities that were overwritten.
  The code does not enforce it, and without it `BaseIsValid` fails (section 4).
* `SnapshotsImplementFrameStream`: `Spec => Stream!Spec`.
* `GameCommandsInvariant`: `Spec => []CommandsInv`; with it `SnapshotsGameCommandsStoredOnce` and
  `SnapshotsGameCommandsInOrder`.

Four rings have to agree before a delta is decoded: the server's frames, its entities, the
client's frames, and the acknowledgement that may be a whole round trip old. `IInv` follows one
frame through them. On the server, the entities of a frame are in the ring until more than a ring
of others has followed (`EntitiesSound`); a delta that is made later than that, or of a damaged frame,
adds to `damaged`, and every other one carries what the client was sent (`BuildSound`).
At the client, `Has(b, cl)` says that frame b was received and is in its slot until a frame one
ring later is; a newer frame within the ring does not end it (`HasKept`). Every acknowledgement
in flight names such a frame (`AcksSound`), so every delta does (`FramesSound`), and the window of
`IsDelta` keeps the frame and the one it was made from less than a ring apart
(`ReadIsDecoded`). For whole frames, `WholeSound` relates the request, the flag
and the deltas still in flight, for as long as the client waits.

`CommandsInv` follows the game commands, which ride on those frames. A command is `Settled` when
the client has had a frame that had to have it, or the server gave it up; one that is not is in
the server's ring, and in every frame under way that is not older than the one it was added for
(`FramesCarry`). So it is stored with the first such frame the client reads, and with no other
(`StoredSound`, which also has that the frames have the commands in their order); the slots and
what cgame executed only have what was stored (`SlotsSound`, `ExecutedSound`).

`UserCommandsProofs`, for rings of any size, any number of moves and messages, and any clocks
(`SizesAssumption`):

* `UserCommandsInvariant`: `Spec => []IInv`; with it `NumbersFit` (`TypeOK`), `MovesAreInOrder` and
  `NoMoveIsLost`.

A slot of the server's ring may hold a move of a round before, because the client leaves out what
it believes received, or has given up. `IInv` says that a slot holds a move that belongs there,
and one no older than the last that was received and is not excused (`ServerRing`), that a message is
a run of moves that begins, unless the client ran out, before the first that the server misses
(`GoodMessage`), and that what was executed has growing time stamps (`ExecutedMatch`): those of two
moves are in the order of the moves while the clock was not set back (`TimesKept`), and different
in any case.

`ConnectionProofs`, for any number of levels, updates and requests and any bound on the messages
in flight (`BoundsAssumption`):

* `ConnectionInvariant`: `Spec => []IInv`; with it `ConnectionTypeOK`, `ConnectionSpawnedIsReady` and
  `ConnectionFrameOfItsLevel`.

Neither property is inductive, or near it: whether a client is ready when the server
takes it for spawned depends on every command under way, its level, and what comes
after it, in up to three numberings (the one before serverdata, the one it starts, and the one
that a second answer to `new` starts). And the numbers say nothing across numberings: any
number of updates and requests may come between, so that an old acknowledgement may free a
new command, and an old number make the client skip one. What is left is the order in which
things are on their way. `IInv` (in `ConnectionInv`, so that the run checks it too; it includes what
`TypeOK` says) treats what is on its way to an end as one stream, the rest of the message it reads and
the messages after it, and speaks of which item comes after which (`Order`, `Within` a message,
`Followed` by a message). `Typed`, `LevelsToClient`, `LevelsToServer` and `Frames` always hold: levels
come in order, serverdata comes before all else of its level, and a frame finds the level
it is of, with no order to restart before it that the client will execute (`Due`). `Alive` holds
unless the server has dropped the client:

* `Settled`: if anything of the level that the server runs, other than serverdata, is under way to the
  client, then the client has that serverdata, and so is all that it sent (`Clean`). Restarts
  sent after such a command have lower numbers than it (`Outlives`): they are repetitions in a numbering
  that the client has outgrown, so whoever executes the command ignores them. That serverdata
  resets the number of the last command executed, and not before, is what this rests on.
* `Evidence`: so only a client that is `Good`, that is `Clean` and with no restart due, asks for the
  baselines or to begin, and no other is spawned, which gives `SpawnedIsReady`.
* `NoDisconnect`: nobody else disconnects the client.

The proof computes first, for each action, what it does to the two ends and the two streams
(`StepEffects`, of `ServerEffects` and `ClientEffects`), and then has one lemma for each part of the
invariant that all steps of the server keep it, and one that all steps of the client do. A change of the level is the
easy case: nothing is of the new level yet, so most of `Alive` has no instance (`AliveInNewLevel`).

The proofs about snapshots and moves need that a finite set can be enumerated in order, for the
moves of a frame by time, for the commands by number. Where the library's induction theorems take an operator,
`CommonLemmas` argues from the least natural number of a set (`LeastNatural`, from the
library's `WFMin`): were there a set without a greatest element, or without a sorted
enumeration, there would be one of the least size.

Only model-checked: the liveness properties (`FragmentsDrain`, `CommandsArrive`,
`FirstHandshakeEnds`, `FinishReturns`, `CommandsExecutedIfTimed`), which with ENABLED are beyond
the proof system, `UpdateOfItsLevel` of `Connection`, and `ConfigStrings`, whose run shows a disagreement of the code with its comment
and claims nothing that holds. No module declares a RECURSIVE operator.

## 6. Not modelled, and why

`PROJECT.json` ("components") gives the reason for each part. In short: rules, movement,
AI, collision, rendering, mixing and menus are data processing or presentation; HTTP,
demos, the file system and the platform layers are input and output; libraries are not
this code. Of the modelled parts, these remain:

* **The client's clock** (`CL_SmoothTimeDeltas`, `CL_AdjustServerTime`): arithmetic on time
  stamps; `UserCommands` lets the clock be anything it can become.
* **Clients on TCP** (`client->reliable`), relays as clients, and bots: none uses the rings.
* **Downloads, TV relay, web server requests, matchmaker**: each talks to files, to libcurl or
  to a service whose behaviour is not in this code.

Some hazards have no property; each says why ("note" in `PROJECT.json`): packets of an earlier
connection that reach a new channel, sequence numbers that reach their top bit, lengths
within ten bytes of MAX_MSGLEN, the shared `tmpMessage`.

## 7. Plan

Done, in this order: `DatagramChannel`, `NetChan` and its proofs, `ReliableCommands`,
`Connection`, `BufPipe`, `FrameStream` and `Snapshots`, `ClientSlots` and its proofs, the proofs
of `BufPipe`, `UserCommands`, `ConfigStrings`, the proofs of `ReliableCommands`, of `Snapshots` with
the game commands, of `Reassemblable`, of `UserCommands`, and of `Connection`.

Left:

1. Downloads and the TV relay, if the bounds allow.
2. Proofs: every safety property of the runs but `UpdateOfItsLevel` is a theorem. What `ConfigStrings` does guarantee
   (every change is executed, each string's changes in order within one command) is not
   stated yet, nor that `Connection`'s view of commands follows from `ReliableCommands`.
