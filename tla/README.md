# A TLA+ model of the Autohoster backend

The backend keeps lobbies of the game Warzone 2100 open. It starts game
processes, one per room, talks to each over three named pipes, records what it
reports in a database, and keeps the games running while it is itself stopped,
killed and started again. This directory models the part of it that is hard to
test: goroutines, locks and channels, game processes that outlive the backend,
and what the disk and the database hold when something stops half way.

    Manager         the registry of instances and everyone who works on it
    Hoster          the runner of one instance from the inside
    LineFeed        what a runner may expect of the lines of its game
    GameSubmit      the reports of all games and the pool of connections
    JoinFilter      joins, chat rights and moves of players, in all rooms
    MovedOut        what a join check may rely on about moved players
    RunnerServices  the ISP checker and the channel of errors
    Generate        Ids, directories and maps of instances
    Archive         the tar file the directories of ended games go to

`MCManager`, `MCJoinFilter` and `MCArchive` hold constants for the runs.
`ManagerProofs`, `HosterProofs`, `LineFeedProofs`, `GameSubmitProofs`,
`JoinFilterProofs`, `GenerateProofs`, `RunnerServicesProofs` and
`ArchiveProofs` hold the theorems about the module they are named after; that
`JoinFilter` implements `MovedOut`, and `Hoster` implements `LineFeed`, is among
them.

`PROJECT.json` lists components, runs, mutants, findings, hazards and theorems,
and for every definition the lines of the source it stands for.

## 1. Inventory

### Components

| Component | Source | State | Operations | What makes it correct |
|---|---|---|---|---|
| instance registry | `manager.go`, `instance.go` | the slice `instances` under `instancesLock`, the flag `disallowInstanceCreation` | `allocateNewInstance`, `insertInstance`, `releaseInstance`, `cleanInstances`, `stopAllRunners`, `isQueueInLobby`, `isInstanceInLobby` | no port twice; nothing that runs is removed; nothing created after a shutdown began |
| lobby keepalive | `lobby.go` | the queue it is at | every round: for each queue without a room, generate an instance and start its runner | one room per queue |
| instance generation | `geninstance.go` | the configuration directory | picks map, writes directories and files; on an error the instance is released | port and queue come free again |
| runner | `hoster.go`, `pipes.go`, `command.go` | the atomic state of the instance, `commands`, `msgchan`, locals of `instanceRunner` | start the game; select over lines, orders and the pid check; clean up and archive | a runner ends when it should, and only then |
| message handlers | `messageProcessor.go` | state, `GameId`, `DebugTriggered` of an instance | one per kind of line | the state follows the game |
| recovery | `recoverinstance.go` | `instance.json`, `cmdline`, `pid` in the directory | at boot: archive the directories of dead games, take up the living ones | every game that runs is managed again |
| game reports | `gamesubmit.go`, `gameReport/` | rows in the database | `submitBegin`, `submitFrame`, `submitEnd`, replay | one row per game; an end only with everything before it |
| database connection | `db.go` | the pool | connect | the pool does not run dry for good |
| join filter | `connfilter.go` | map of players moved to the spectators; `OnJoinDispatch` of an instance | `joinCheck`, `add`, `remove`, `present`, the dispatch when the player is in | a decision respects bans and preferences; nobody chats who may not |
| ISP check | `ispcheck/ispcheck.go` | a cache and its file behind one lock | `Lookup` | an address is asked for once (no entry ever expires); nobody waits for ever |
| archive | `archive.go`, `tar.go` | one tar file per week | drain the pipes, append the directory, remove it | nothing archived is lost |
| map storage | `mapstorage/mapstorage.go` | a directory of maps | fetch if missing | no damaged map is served |
| error reporter | `discord.go` | a channel of 128 messages | post, send in batches | a full channel does not stop the backend |
| instance ids | `instanceid.go` | the last id | `newInstanceID` | ids are distinct and increase |
| web server | `http.go` | none | `POST /request`, `/instances`, `/reload`, `/alive` | requests obey the rules of the registry |
| boot and shutdown | `main.go`, `bgroutine.go` | where main is | recover, start the routines, wait for a signal, stop | it ends; no game is lost over it |
| configuration, helpers | `config.go`, `utils.go` | the configuration | parsing, lookup | pure functions |
| recovery tool | `tools/recover/main.go` | none | submits final reports found in an archive, by hand | sequential |

### How they interact

The keepalive and every web request call `allocateNewInstance` and
`generateInstance` and then start a goroutine (`spawnRunner`, which turns into
`instanceRunner`). That goroutine owns the instance; others read its atomic
state and send to its `commands` channel. The cleaner removes instances whose
state is *exited*. `main` recovers first, starts the routines, and on a signal
forbids creation, sends every instance an order under the registry lock, and
waits for each instance's wait group *while still holding the lock*. A runner
takes the same lock when a player joins and there are moved-out players to
clean up. All runners share one pool of database connections.

A game runs in a session of its own. Killing the backend does not touch it. Its
pipes are files, so what it writes waits in them for the next runner.

### What is hard

- A kill of the backend between any two steps, and the boot after it, which
  has only the directory to go by.
- A shutdown that overtakes a spawn, a recovery, a request.
- One lock around waits for goroutines that may want it.
- Bounded channels whose only reader has left or is the sender.
- Several failing calls in a row that leave instance, directory, process and
  database disagreeing.
- Statements that commit one by one while a transaction is open around them.

The hazards, line by line, with the properties that watch them, are in
`PROJECT.json`.

## 2. Plan

Order of the modules, most important behaviour first. (done) marks what exists.

1. `Manager` (done): registry, spawn, recovery, shutdown; theorems about ports
   and about games that are managed.
2. `Hoster` (done): the inside of a runner; it implements `LineFeed` (done).
3. `GameSubmit` (done): reports, transactions, pool.
4. `JoinFilter` (done): join checks against tables that change meanwhile, chat
   rights over restarts, the map of moved players, which implements `MovedOut`
   (done).
5. `RunnerServices` (done): the two services that make a runner wait.
6. `Generate` (done): what `Manager` assumes of Ids, and the maps.
7. `Archive` (done): appending to the tar file, with kills at any block.

Every safety property of the runs has its theorem. What would come next: the
replay of a final report, which `submitEnd` adds after its transaction, and a
module for the settings that are decided in several places in different orders.

## 3. The modules

### Manager

| Variables | In the code |
|---|---|
| `instances`, `lastId`, `GamePort`, `QueueName` | `instances` and the fields of an instance; `lastId` stands for `prevInstanceID` |
| `state`, `commands`, `ordered`, `runner` | the atomic state, the channel, `shutdownOrdered`, and where the instance's goroutine is |
| `proc`, `heard` | the game process; what it last said of its room |
| `saved`, `cmdline`, `confdir` | `StateSaved` in `instance.json`, the file `cmdline`, the directory |
| `spawnAt`, `spawnInst`, `nextQueue` | where the keepalive and each request are |
| `main`, `pending`, `boots` | the main goroutine and the loop it is in |

An action is one stretch of code between two points at which another goroutine
can come in: a critical section under `instancesLock`, a system call, a channel
operation. `allocateNewInstance` is one action because the lock is held
throughout. `stopAllRunners` is five, because it keeps the lock while it sends
and waits. `recoverSave` always follows the change of state it records, with a
kill possible in between. It truncates `instance.json` and writes it anew
(`os.WriteFile`): a write that fails leaves the old file or a torn one
(`TornFile`), and so does a kill inside it, which is in `ForgetAll`. A torn file
is not `Loadable`: the next boot leaves the directory and its game alone.
`ForgetAll` is what the end of the process takes; everything else survives.

A runner archives only after `wg.Wait` for its scanners, which may never
return (`hst_hang` below): `RunnerHangs` takes it to a place it never leaves,
still in the wait group of its instance, still in the registry.

Faults are a constant: `generate`, `pipes`, `start`, `cmdline`, `save`,
`archive` and `reopen` name the calls that may fail. The theorems hold for all
of them but where they say otherwise; the runs take those that fit their bounds.

### Hoster

One instance, with the game, the two pipes, a scanner goroutine for each, the
channel `msgchan`, the channel of orders, the pid checker, the message loop and
its end; the backend around it can be stopped, killed and started again.
`instance.json` may be torn as in `Manager`; then the boot leaves the game alone.
A line is its number; `said` gives its kind. `pipe`, `buf` and `msgchan` hold
the lines at each stage, `seen` those a loop took. The scanners go on after the
loop was left until they notice that the files are closed, as in the code.
The loop's sends to its own channel are a state of their own (`"selfsend"`),
because they block when the channel is full.

### LineFeed

While a loop runs, the lines of a stream reach it in the order they were
written, each once; lines that were read and not handled when a loop ends are
lost, and the next loop starts after them. `InOrder` says what that is worth: a
line that is delivered is newer than all that were before. `Hoster` is shown to
implement this
with `Feed == INSTANCE LineFeed WITH ...`: the lines in flight are the set of
those in the channel, the scanner and the pipe of the stream. `LineFeed` knows
only the set and takes its oldest line; that the channel, the scanner and the
pipe together are such a queue is what `Hoster` has to show.

### GameSubmit

Every runner handles one line at a time; what matters is which statement it is
at, whether it has a transaction open, and which connections it holds.
`conns` is the set of connections in use: `<<r, "tx">>` for the transaction of
runner `r`, `<<r, "exec">>` for a single statement. `games` is the sequence of
ids handed out, with what is committed of each: the row, the players that are
final, the end. The parts of one transaction nobody can see before it commits
are one step; statements of `submitEnd`, which commit by themselves, are a step
each.

### JoinFilter

The lines about players, in several rooms. `at` and `check` are where a runner
is in `joinCheck` and the locals of that call; one action is one stage, that is
one query (bans, ISP, preferences and early leavers, the map of moved players,
terminated accounts). Between two of them `TableChange` may add a ban or an
account, `Tick` moves the clock on, other runners move players, and `Restart`
kills the backend. `room` and `chat` are what the game last did, `dispatch` is
`OnJoinDispatch` and `saved` its copy in `instance.json`, which a restart loads
again. Three variables only observe: `held` is the set of restrictions that
were in force since the check began, `allowed` the players whose last approval
included the chat, `revived` those whose older dispatch came back.

What the check must respect is stated apart from its queries: `Restrictions`
looks at all bans in force, not at the one the query returns.

### MovedOut

The relation between players and rooms that `joincheckWasMovedOut` stands for.
The code keeps a list per player and drops the rooms out of the lobby only when
it is used, by any room. A `lobbyid` line takes a room back to the lobby
whatever its state was, and then what nobody has dropped is valid again. So a
room in the lobby keeps its relation exactly, and one out of it keeps its players or
forgets some of them at each use of the map, until it is back (`Keeps`).
`Moves == INSTANCE MovedOut WITH ...` maps the lists as they are.

### RunnerServices

`Lookup` of the ISP checker holds its lock over cache, request and save;
`discordPostError` blocks while the channel is full, and the reporter does not
read it while it waits for the webhook. A runner handles a line that needs one
or the other. A save may fail or be cut short; a kill may hit it.

### Generate

Who generates an instance gets an Id under the lock of the registry
(`newInstanceID`: the clock is read in one step and the last Id swapped in
another), a map from the storage (read, or fetched and stored), and writes it
to the directory named by the Id. A map is stored in two steps, truncate and
write; `fslock` keeps readers out in between, but not between the look for the
file and the write, so two spawners may write one map after each other. A write
that fails or is killed leaves part of the file, which is served from then on:
`cuts` are the maps of such files, and every copy remembers whether it came from
one. The clock may be set back and the backend may
be killed; each begins a new epoch, in which an Id may come again.

### Archive

The tar file of a week as a sequence of blocks: headers, data and the zeros of
the trailer. An append overwrites the last two blocks, whatever they are. Every
block is a step, and a write error or a kill may come after each. `made` is
what a directory ever had in it; `Readable` follows the blocks as a reader
does. `Reached`, the headers he passes, is the union of all sets of headers in
which each is the first block or comes after the data of another of the set:
with it the reader can be reasoned about without an induction over the file.

## 4. The runs

| Run | Question | Bounds |
|---|---|---|
| `mgr_restart` | After a kill or a clean stop, which games are lost? Is every other one managed, with one room per queue, no port shared by two of them, and no running game's directory removed? | 2 instances, 2 ports, 1 queue, 2 boots, kills, moved-out players |
| `mgr_live` | Is a port ever in the registry twice, or an instance nobody works on? Does a dead game leave it, but for a runner that hangs; does a shutdown reach everyone and end, but for hung runners and games that do not exit? | 2 instances, 1 port, 1 boot, shutdowns that stop runners or games, requests beside the keepalive, failing starts, pipes and generations, no moved-out players |
| `mgr_deadlock` | Does a shutdown end if a player joins a room at that moment? No. | 1 instance |
| `hst_crash` | Rows per game, what the file says of the end, whether the state follows the lines and whether the path of a line implements `LineFeed`, over kills and stops | 4 lines, pipe of 2, channels of 1 and 2, 2 boots |
| `hst_live` | Does a stopped runner, and the runner of a dead game, end? | 3 lines, channels of 1 |
| `hst_hang` | Does it end in every case? No. | 3 lines, channel of 1 |
| `gsub` | Is every line handled to its end, unless ends of games hold the whole pool; what has the database of a game that ended? | 2 games, 2 connections, 2 players, 1 kill, all faults |
| `join` | Does every answer respect what was in force all the while? Does anybody chat who was not allowed to? | 1 room, 1 player, 2 bans of which one expires, 3 events, 1 tick, all faults |
| `moved` | Does the lazily cleaned map implement `MovedOut`? | 2 rooms that may leave the lobby and come back, 1 player, up to 2 entries per list, 2 events |
| `isp` | Does every line end and every error get sent? How often is an address asked for? | 3 runners, 2 addresses, 3 lines, channel of 1, 2 boots, failing saves |
| `gen` | Is an Id given twice? Does every instance have its own map, and all of it unless the stored file was left in part? | 2 spawners, 2 maps, 3 seconds, 2 epochs, 3 instances |
| `arch` | Is everything that was removed in the archive, and does it stay readable? | 2 directories of up to 2 files, 2 boots, all faults |

Two instances are enough for the questions of `Manager`: every property relates
at most two instances, two spawners or one instance and `main`. The port list
of one in `mgr_live` forces reuse of a port. A second boot is the first one that
recovers. The faults `archive`, `save`, `cmdline` and `reopen` are left to the theorems,
which allow them where they do not say otherwise; with them the runs of
`Manager` take too long. In `Hoster` the channels
of 64 and 32 are cut to 1 and 2, so that they are full within a few lines;
no handler counts lines, so four of them reach every order of lobby, start and
reports. In `GameSubmit` two runners and two connections are the smallest
instance in which the pool can run dry by mutual waiting.

A join check reads each table once, so three events put a change between any
two of its queries, a kill included; what two players have in common is only
the purge of old dispatches, and rooms only share the map of moved players,
which is what the second room of `moved` is for. The tables are not bounded by
this in the proof of the same properties. In `isp` a channel of one is full as
soon as the reporter is busy. In `gen` the clock reaches three, so that a
spawner can read it between two others. In `arch` the files have two blocks and
one block of data: one is longer than the block after a trailer that is
overwritten, one is not.

`CHECK_DEADLOCK FALSE` is in the runs because the system does stop: the backend
exits, or was killed for the last time the bound allows, and the games are over.

### Fairness

A goroutine that can take a step takes one (weak fairness per goroutine). Go's
`select` picks at random among the ready cases, so an order or a failed pid
check that is ready again and again is picked in the end (strong fairness for
those, and for main's wait for the routines). In `Hoster` a game that was told to
shut down exits, and no other game has to; in `Manager` none has to, and a
shutdown that waits for one for ever is an exception `ShutdownCompletes` names
(`Blocked`), beside the wait for a runner that hangs. In `GameSubmit` the pool does not pass over
one waiter for ever. In `RunnerServices` requests end, in an answer, an error
or their timeout; `sync.Mutex` and channels queue up their waiters, so one that
waits for the lock or for room in the channel gets it in the end (strong
fairness), and the tick of the reporter stays in its channel until its `select`
takes it. Nothing is assumed of signals, kills, boots, requests, or
of what a game writes.

## 5. Findings

Shown by a run that TLC finds violated:

- **`stopAllRunners` can deadlock** (`manager.go:123`, `mgr_deadlock`): it waits
  for runners with `instancesLock` held; a runner in `isInstanceInLobby` waits
  for the lock.
- **A runner can hang at its end** (`hoster.go:171`, `hst_hang`): nobody reads
  `msgchan` after the loop, and `wg.Wait` waits for the scanners that send to
  it.

Shown by the exception a property has to make; without it TLC finds it violated:

- **A clean shutdown can leave an orphan** (`hoster.go:109`): the runner joins
  its wait group only after the game was started, so `stopAllRunners` does not
  wait for a spawn in progress, and the backend may end before the first
  `instance.json` is written. `OrphansOnlyUnsaved` bounds the loss.
- **A kill can lose a game that had been saved** (`recoverinstance.go:168`):
  `instance.json` is truncated and rewritten at every change of state and for
  every game at every boot. A kill inside, or a full disk, leaves a file that
  `recoverLoad` refuses; the game runs on, nobody manages it, its directory is
  never archived, and its port looks free. `OrphansOnlyUnsaved` bounds this to
  the games whose file was being written at that moment; `SavedGameIsManaged`
  and `LivePortsDistinct` have to say "can be read".
- **A runner that hangs takes more with it** (`manager.go:134`): its instance
  keeps its port and its queue, and the next shutdown waits for it with the
  lock of the registry, for ever. So does one for a game that was told to
  exit and does not (`Blocked` in `ShutdownCompletes`).
- **A failed start keeps its queue and its port** (`hoster.go:67`): the instance
  stays in its initial state, which counts as "in the lobby", and nobody takes
  it out. `InstancesHaveOwners` has to count a runner that failed.
- **Games that end at once can block each other** (`gamesubmit.go:193`): as many
  as the pool has connections wait for one another for ever, because
  `submitEnd` asks for a second connection while it holds one (`ExhaustedByEnds`
  and `LinesEnd` of `GameSubmit`).
- **An old dispatch comes back** (`recoverinstance.go:181`): `OnJoinDispatch` is
  saved and loaded with the instance. A player who was told he is banned from
  chatting may chat after a kill, if an earlier approval was in the file: the
  players in `revived` of `NoStaleGrant`.
- **A broken append breaks what comes after it** (`tar.go:40`): if an append
  stops after more than two blocks, the next one overwrites data instead of a
  trailer. Directories archived and removed from then on cannot be read
  (`torn` in `NothingLost`); what was readable before stays so.
  An archive of exactly one block can never be appended to.

Decisions of the code the models follow, worth knowing:

- Only the ban that ends last is read (`connfilter.go:62`). A long chat ban
  hides a shorter one that forbids joining.
- A failed query for bans or a failed ISP lookup lets the player in; if the
  discovery of his key fails, terminated and limited accounts are not seen.
- The map of moved players is lost in a restart: everybody may play again.
- What was read from a pipe is lost if it cannot be written to its log
  (`pipes.go:110`), and a directory without a readable `instance.json` is never
  archived.
- The defaults of `filePerms` and `dirPerms` are decimal 644 and 755: with them
  the backend cannot read its own ISP cache or stored maps (`Readable` in
  `RunnerServices`, a failing read in `Generate`).
- An Id may come again after a restart within a second or when the clock is set
  back, and `makeDirs` takes the directory of the older instance for its own.
- With `ShutdownHostsOnExit` a late `lobbyid` line takes an instance that is
  exiting back to the lobby, and after a kill its queue may have two rooms;
  `OneRoomPerQueue` is checked without that setting.

## 6. Proofs

All theorems hold for every value of the constants under the named assumptions
of the modules, which only say what type a constant has.

**Manager** (`ManagerProofs`).

- `TypeCorrect`: `TypeOK`.
- `RegistryPortsAreDistinct`: unconditionally. It needs that a port enters the
  registry only when it is free and does not change while it is there.
- `InstancesAreOwned`: unconditionally. `OwnerInv` adds that a spawner which
  creates nothing has no instance, so none is forgotten when it goes on.
- `LivePortsAreDistinct`, `SavedGamesAreManaged`,
  `LiveGamesKeepTheirDirectory`: for systems in which the file `cmdline` can be
  written and pipes reopen. Without either the recovery does not take up a
  running game, and the statements are false. Torn and failed writes of
  `instance.json` are allowed; the statements are about games whose file can be
  read, and `OrphansAreUnsaved` is about the others.
- `StopsReachAll`: unconditionally. `SentInv` follows the loop of
  `stopAllRunners`: an instance it has passed has an order in its channel, has
  read one, or is at its end.
- `OrphansAreUnsaved`: if writes of `instance.json` and `cmdline` do not fail;
  kills may come at any point. `TraceInv` says at which positions of a runner
  there is no game yet or already a file that can be read, so only the end of
  the backend at the other positions loses a game, and what `main` has waited
  for is known to the next boot.
- `OneRoomForEachQueue`: if `cmdline` can be written, pipes reopen, and the
  games outlive the backend (`ShutdownHostsOnExit` is off; with it on the
  statement is false, see the decisions above). `RoomInv` is about the rooms of
  the registry *and* those the next boot will find. `KeepInv` carries the answer
  of `isQueueInLobby`, which was given under another lock, up to the start of
  the runner: nobody but the keepalive creates a room for a queue. `HeardInv`
  ties the room to the state, the file and the orders, `QueueInv` says that an
  instance has its queue only once its runner starts.

`LivePortsAreDistinct`, `SavedGamesAreManaged` and
`LiveGamesKeepTheirDirectory` are far from inductive. The invariant adds nine parts to `TypeOK`:
`SpawnInv` and `FreshInv` say who owns an id that is being created, and that an
id not handed out has left no trace; `RunnerInv`, `StopInv` and `BootInv` tie
the position of runners and of `main` to registry, orders and files; `DiskInv`
says that *exited* is never saved and a file has its directory; `CmdlineInv`
says that a game with an `instance.json`, torn or not, has its `cmdline` file. Two parts are
the heart. `HolderInv`: no port is held twice, where a port is held by the
instances of the registry *and* by the games the next boot will find, so that
`recoverRunner` can never meet a taken port. `KnownInv`: until the shutdown
begins, a game that runs and is no orphan is in the registry, or the boot loop
has still to visit it. The unconditional theorem about the registry only needs
the part of this that no fault can break (`BaseInv`).

**Hoster** (`HosterProofs`).

- `TypeCorrect`.
- `RunnerImplementsLineFeed`: unconditionally. Initial states map to initial
  states and every step to a step of `LineFeed` or a stutter. `OrderInv` makes
  it so: for each stream, the lines handled are older than those in the channel,
  these older than those the scanner holds, and these older than those in the
  pipe; each of the three is sorted, and without a runner channel and scanner
  are empty. The least line in flight is then the one the loop
  takes, and what the end of a loop loses is older than what stays in the pipe.
- `SavedExitingGamesWereTold`: whatever fails. The state in memory says
  *exiting* one step longer than the file may; `ExitingInv` adds that this only
  happens after the loop was left, where nothing is saved any more.
- `RowsAreBounded`: if `instance.json` can be written. `RowInv` counts: rows
  are at most kills, plus one for a `GameId` in memory or on the disk.
- `StateFollowsTheGame`: if `instance.json` can be written, as long as there was
  no kill and no order to exit. `FollowInv` adds to the property that the file
  agrees with the lines too, but while `recoverSave` is at it, which is what a
  stop and a new start need. It rests on `OrderInv`, since the state is that of
  the newest line only if lines are handled in order, and on `SaidInv`: a game
  lists no room once it has started.

**GameSubmit** (`GameSubmitProofs`).

- `TypeCorrect`.
- `PoolRunsDryOnlyByEnds`: if all runners wait for a connection, at least as
  many are in `submitEnd` as there are connections. From `ConnInv` (a connection
  is held only at the steps that use it), an injection from the connections in
  use to the runners in `submitEnd`, and finite cardinalities.
- `PoolSuffices`: so a pool larger than the number of runners never runs dry.
- `EndedGamesAreFinal`: a row with an end is committed and all its players are
  final. `FinalInv` follows the loop over the players, `OwnInv` says no two
  games share an id, so that no other runner's commit interferes.

**LineFeed** (`LineFeedProofs`).

- `DeliveredInOrder`: a delivery hands out a line newer than all the stream gave
  out before, and nothing else moves that mark; so no line is delivered twice or
  after a newer one. `Newer` is the invariant: whatever is in flight is newer
  than what was delivered. `RunnerImplementsLineFeed` carries it over to
  `Hoster`.

**JoinFilter** (`JoinFilterProofs`).

- `TypeCorrect`, with `PlayerInv`: a check that goes on has a player.
- `DecisionsRespect`: `StageInv` says stage by stage what the locals of a check
  already contain: if a restriction has been in force since the check began and
  the stage that reads it is behind, the locals show it, or its query failed.
  The proof has one lemma per stage, and one that the tables, the clock and
  other runners can only take restrictions out of `held`.
- `GrantsAreFresh`: `ChatInv` ties dispatches, saved dispatches and the rights
  in the game to the last approval or to a restart.
- `MovesImplement`: initial states map to initial states, and every step to a
  step of `MovedOut` or a stutter. Each operation cleans the whole map first;
  `Keeps` is what that leaves of the relation, and a room that comes back finds
  what was not cleaned.

**RunnerServices** (`RunnerServicesProofs`).

- `TypeCorrect`, `LockIsReturned`: a runner works on a lookup exactly while it
  holds the lock.
- `AddressesAreLookedUpOnce`: `AskInv` counts, for an address, what the file and
  the cache know of it: it is asked for again only if the file lost it, and
  every loss is a failed or torn save, or a start that cannot read.

**Generate** (`GenerateProofs`).

- `TypeCorrect`, with `MapInv`: a map that is used is one, and it is whole or
  was read from a file left by a broken-off write; a stored file that is there
  in part is such a file or is being written.
- `IdsAreFresh`: `LockInv` (who is in `newInstanceID` has the lock), `IssuedInv`
  and `PendingInv` (no Id of this epoch is above the last one or the clock, nor
  above what the holder of the lock has read). It is why the loop may store a
  smaller Id before it starts again.
- `InstancesHaveTheirMaps`: from this, `WorkInv` says that who writes to a
  directory has an instance no other has, so it overwrites none of its epoch.

**Archive** (`ArchiveProofs`), unconditionally.

- `TypeCorrect`: with `TarInv`, the tar file is a sequence of blocks, and an
  append never gets beyond its end.
- `ReadableStays`: `LockInv` (one directory is archived at a time), `PosInv`
  (where an append is: it started at the trailer, and what is after its position
  is at most what is left of that trailer) and `GoneInv`. The last is about the
  `Frontier`, the place before which no append will write: where the running
  append started, or the last but one block. All blocks of a removed directory
  are before it. `FrontierGrows` is the lemma for a step: nothing before the
  frontier changes, and it moves back only when there is nothing before it. What
  a reader finds before a place depends on the blocks before it alone
  (`ReachedKept`, `ReadBelowKept`).
- `NothingIsLost`: while no append broke off too late (`torn`), a reader gets to
  the end of what the running append has written, its last header and its data
  so far (`FileInv`), and to the trailer of an idle archive (`IdleInv`). An
  append that breaks off within its first two blocks leaves exactly a trailer's
  length after the place it started at, which is why those are harmless.
  `KeptInv`: a file that is no longer in its directory can be read before the
  frontier. `RemoveAll` may leave it half done, or be cut short by a kill; it
  still begins only after both zeros of the trailer were written.

**Only model-checked**: everything under fairness (`DeadGameIsForgotten`,
`ShutdownCompletes`, `StopCompletes`, `DeadGameEnds`, `LinesEnd`,
`PostsAreSent`), which is out of the prover's reach: it has no rules for
`ENABLED`, which fairness is defined by. Every invariant and action property
that a passing run checks, and both refinements, are proved.

## 7. What is not modelled

- Part of a line in a pipe, the full stdin pipe of a game that does not read,
  and `closePipes` returning at its first error.
- A pid that the system gave to another process; a command line that differs
  from the recorded one is accepted by the code with a log line, so a torn
  `cmdline` file is as good as a whole one.
- `isPidAlive` takes a stopped or traced process for dead, and one whose
  `/proc` entry it cannot read or parse; in the models it tells exactly whether
  the game runs. A stopped game is taken for dead by the code: its directory is
  archived while it may still go on.
- In `Manager` and `Hoster` the archival of a directory is one step that
  succeeds or fails; `Archive` has it block by block, on its own.
- A save of `instance.json` that fails or is cut short by a kill, in
  `JoinFilter`, and a torn file in `GameSubmit`; `Manager` and `Hoster` have
  both. After a torn file nobody takes the game up, which is a behaviour of these
  modules, too: a runner that takes no further step.
- The contents of presets, configuration, admins, bans and action files that
  `generateInstance` writes: pure output, written once. The replay, the frames
  and the columns of the database. The chat log, the replies to chat commands
  and the reasons a player is given.
- A statement that took effect although its connection broke.
- Changes of the configuration (`/reload`) while the backend runs; `/instances`
  and `/alive`, which only read.
- `config.go` and `utils.go`: pure functions over strings and the configuration
  tree. Which setting wins is decided in several places in different orders;
  every module takes the result as a constant.
- `tools/recover`: run by hand on an archive, sequential, and alone.
