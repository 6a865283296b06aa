# Specifications of the StarCraft II API client

This directory holds TLA+ specifications of the C++ library in `src/` of the
repository (the sc2 API with its coordinator) and of the registry OFEC runs on, the
TLC configurations that check them, and proofs that TLAPS checks. Paths below are
relative to the repository, and `sc2api/` stands for `src/sc2api/` in it.

| File | Contents |
|---|---|
| `Connection.tla` | `sc2::Connection`: its threads, lock, queue and timeout; properties; inductive invariant |
| `ResponseChannel.tla` | what a user of a connection may rely on (abstract specification) |
| `ConnectionProofs.tla` | the inductive invariant of `Connection` and what follows from it |
| `Control.tla` | `ProtoInterface`, `ControlImp` and `Coordinator` with one agent, stepped or in real time, on top of `Connection` |
| `ChannelProofs.tla` | `Connection` implements `ResponseChannel` |
| `ControlProofs.tla` | `Control` uses `Connection` only as specified; the inductive invariant of `Control` and what follows from it; the end of a game that was seen in play is announced |
| `Replay.tla` | `Coordinator` with replay observers: `Update`, `StartReplay`, `Relaunch` |
| `ReplayProofs.tla` | the inductive invariant of `Replay` and what follows from it |
| `Units.tla` | the unit pool, the observations and the events derived from them |
| `UnitsProofs.tla` | the inductive invariant of `Units` and what follows from it |
| `InstanceManager.tla` | `ofec::InstanceManager` with `run()` and the threads it starts |
| `InstanceProofs.tla` | lemmas about the scripts of `run()` and of its threads, and about the registry |
| `InstanceInvariance.tla` | the invariant of `InstanceManager` that holds whatever counts are lost, and what follows from it |
| `InstanceCounts.tla` | the invariant of its counts and what rests on them; `InstanceManager` implements `Registry` |
| `Registry.tla` | what the threads may rely on (abstract specification) |
| `MC*.tla`, `MC*.cfg` | the instances TLC checks |

Run a check with `tlc -config MCControl.cfg MCControl.tla`, a proof with
`tlapm ConnectionProofs.tla`.

## 1. Inventory

The repository is Blizzard's `s2client-api` together with OFEC, a framework of
evolutionary algorithms, and a few bots that use both (`project/`).

| Component | State | Operations | Interacts with | Hard parts | Status |
|---|---|---|---|---|---|
| **Connection** (`sc2_connection.cc`) | `queue_`, `has_response_`, `mutex_`, `connection_`, callbacks | Connect, Send, Receive, PollResponse, Disconnect, PushResponse | civetweb calls its handlers on a thread per socket | lock and condition, unlocked accesses, late responses, join inside Receive | modelled |
| **ProtoInterface** (`sc2_proto_interface.cc`) | `response_pending_`, `latest_status_` | ConnectToGame, SendRequest, WaitForResponseInternal, PingGame, Quit | owns the connection; reports to ControlImp | one request at a time, silent reconnection, pings past a pending request | partly: no counters, no build numbers |
| **ControlImp** (`sc2_client.cc`) | `app_state_`, `client_errors_`, observation, game loops | CreateGame, join, Step/WaitStep, GetObservation, leave, WaitForResponse, IssueEvents | calls ProtoInterface; calls the user's events | hang or crash, killing the game, what callers make of a null or refused answer | partly: single events, save/load, replays of own games left out |
| **Coordinator, agents** (`sc2_coordinator.cc`) | agents, settings, `starcraft_started_`, `last_port_` | LaunchStarcraft, StartGame, JoinGame, Update, WaitForAllResponses, LeaveGame | drives every client, in threads if there are several | errors ignored on the way, end of a game | partly: one agent |
| **Agent actions** (`sc2_agent.cc`) | pending action requests | SendActions | ProtoInterface | sent also when the step failed; commands forgotten | partly (as requests in `Control`, as commands in `Units`) |
| **Process management** (`sc2_manage_process.cc`) | child processes | StartProcess, IsProcessRunning, TerminateProcess | operating system | zombies, platform differences | partly: the answers |
| **Replay observers** (`sc2_replay_observer.cc`, coordinator) | list of replays, replay info | LoadReplay, WaitForReplay, StartReplay, Relaunch | as agents | relaunch with dangling control, drained list, stale info | modelled (`Replay`) |
| **Observation, units** (`sc2_client.cc`, `sc2_unit.cc`) | unit pool, previous map, flags | UpdateObservation, ForEachExisting, event derivation | protobuf in, events out | pool reuse, events lost or repeated over two observations | partly (`Units`): no upgrades, alerts, chat, queries |
| **OFEC registry and run** (`OFEC/core/instance_manager.cpp`, `OFEC/run`) | id pools of problems, algorithms, records with occupation counts | add*, remove*, get* | threads of a run | check-then-lock, counters under another kind's lock | modelled (`InstanceManager`) |
| **Server** (`sc2_server.cc`) | request and response queues, connections | Queue*, Send*, handlers | civetweb threads, `examples/proxy.cc` | unlocked list | not modelled (section 10) |
| Conversions, tables, settings, actions, sc2lib, sc2renderer | none that lasts | | | | not modelled: stateless or geometry and drawing |
| OFEC algorithms, problems, data; bots, examples, tests | | | | floating point | not modelled |

What makes each modelled component correct:

* Connection: answers are handed out in order, once, and only on the connection
  of their request; pollers miss nothing; the unlocked accesses meet nobody;
  calls return; no callback runs into a destroyed object.
* ProtoInterface: never two unanswered requests on a connection; an answer is
  never taken for the answer to another request.
* ControlImp: a failed game is told from a slow one, reported, and left alone from then on.
* Coordinator: OnStep with stale data only when there is an error to report;
  OnGameEnd once, and not never; every call returns.
* Replay observers: a replay is played once, none disappears in silence, events
  come in order, the loop ends.
* Units: a pointer the user keeps stays that of its unit; the events of an
  observation tell what has changed, once, and not after the game.
* OFEC registry: no id is given out twice, nothing goes that is in use, counts
  equal the number of users, no thread waits for ever.

`PROJECT.json` lists the hazards line by line with the property that covers each.

## 2. Plan

Stage 1 (done): `Connection`, `ResponseChannel`, `Control`, their runs, the
proof of the connection's safety and its transfer to the control layer.

Stage 2 (done): `InstanceManager` as a refinement of `Registry`; `Replay`; `Units`;
the real time loop and `WaitForAllResponses` in `Control`. Replay observers were
put before several agents because they have more of the failure handling (relaunch,
a shared list), while several agents share nothing but the order of their joins.

Stage 3 (done): the implementation of `ResponseChannel`; the inductive invariants of
`Control` and `Replay`, from which every safety property of the two follows; that of
`InstanceManager`, with what holds whatever counts are lost.

Stage 4 (done): the counts of `InstanceManager`, what rests on them, and the implementation
of `Registry`, for any number of threads and tasks.

Stage 5 (done): the inductive invariant of `Units` and the properties of its run, for any
units and any number of games.

Stage 6 (done): kills that fail and the loop of `WaitForAllResponses` in `Control`; the second loop
over replay observers and their relaunches in `Units`.

Open: the parts of section 10.

## 3. Connection

One client thread calls Connect, Send, Receive, Quit; a civetweb worker per
websocket reads frames. A step is what happens between two points where another
thread can act: taking and releasing `mutex_`, one access to shared state without it.

| In the model | In the code |
|---|---|
| `clientPc`: waiting, ready / timedOut, popping, disconnecting, joining, clearing, returned | the lines of `Receive` with `PopResponse` and `Disconnect` inlined |
| `workerPc[c]`: reading, pushing, flagging, closing, exited | `DataHandler`, `PushResponse` before and after `notify_one`, `ConnectionClosedHandler` |
| `ReceiveTimeout` | `wait_until` returned false: possible at any time while the queue is empty, since a response may take longer than any deadline |
| `Disconnected` | the end of `mg_close_connection`, which joins the worker (external) |
| `DataHandlerParseError` | a frame `ParseFromArray` rejects: dropped, not queued |
| `GameResponds`, `GameCloses` | the game: answers in order, or goes, with any part of what it wrote still arriving |
| `requests`, `responses` | request and response numbers under way on socket c; a request is its position among all requests sent |
| `via`, `delivered`, `cleared`, `notified` | history, read by no action |

A second observer of the flag is `PollResponse`; it is the state predicate
`has_response_`. The timeout callback is not modelled: nothing in the repository sets it.

`ResponseChannel` is the promise: sessions open and close, answers come in order,
each may be lost, and with a session everything outstanding is lost. The mapping
(`Channel` in `Connection`) takes as outstanding the queue, the worker's hand, the
socket and the game's input, in this order.

## 4. Control

`Control` EXTENDS `Connection` and calls its client steps; the whole stack of a
coordinator call is `pc` (where the client thread is between steps of the
connection) with `task` (the request it is busy with). The tables `WhenRefused`,
`WhenSent`, `WhenNull`, `WhenErrors` and `WhenGood` are the return paths of all
callers of `SendRequest` and `WaitForResponse`, one row per caller, e.g.
`WhenNull["observation"] = "segfault"` because `GetObservation` reads through the
null pointer it has got, and `WhenRefused["step"] = "receive"` because
`StepAgents` ignores the result of `Step` and `WaitStep` waits.

* `ConnectToGame`, `ConnectToGameCallback`, `SendRequest*`, `WaitForResponseInternal`,
  `TakeResponse`, `TakeTimeout`: `ProtoInterface`.
* `Diagnose` (crash or hang), the ping under `diagnosing`, `Terminate`: what
  `ControlImp::WaitForResponse` does without an answer. The ten attempts to kill the game
  are one step, which leaves the game dead or as it was.
* `CreateGame` to `GameStarted`: `StartGame` and `JoinGame`.
* `StepAgent`, `Observe`, `SecondLoop`, `CallOnGameEnd`, `CallOnStep`,
  `CallOnStepFeatureLayer`, `UpdateReturns`: `StepAgents` and `Update`.
* `WaitForAllResponses`, `ConsumeResponse`, `NothingToWaitFor`, `WaitGivesUp`:
  `WaitForAllResponses` and the ends of its loop.
* `LeaveGame`, `Destroy`, `ProtoQuit`: leaving, and `~ControlImp`.

The game (external) has a status and a game loop; it carries out a request or
refuses it with an error, hangs, dies, or closes the socket. It answers pings
without errors. A game loop moves by one at each step that is carried out, so a
game loop stands for an observation.

Constants: `Multiplayer` (valid ports: the opponent runs under another
coordinator or on a ladder), `MultiThreaded`, `Windows` (which
`sc2_manage_process.cc`), `NDEBUG`. With assertions compiled in, a failed
`Connect` stops the program; other assertions are taken as absent, since what
matters is what the release build does after them.

On Linux `IsProcessRunning` looks for `/proc/<pid>`. The game is a child and nothing
in the repository waits for it, so the entry outlives the process.

In real time (`realtime`, chosen at the beginning) `StepAgentsRealtime` takes the place
of `StepAgents`: no Step, the events (`RealtimeEvents`) whatever became of
`GetObservation`, the actions, and only then the look for the end (`RealtimeEnds`).
The game moves on between two answers by itself (`GamePlays`), so its end may show
in the answer to anything, a refusal included; its loop shows in observations.

The loop of `WaitForAllResponses` polls and sleeps; that the sleeps add up to the limit is
possible at any time (`WaitGivesUp`), since a game may be slower than any limit. The limit is
looked at in every round, so the call may also say that it has given up when the last answer has just
been consumed. Without NDEBUG its assertion ends the program.

Simplifications: one agent and one game per behaviour; the unlocked read of
`client_errors_` at the end of `Update` (a data race with `Error` on a worker thread)
is atomic; `client_errors_` is a set, since the library never removes from the
list and only asks whether it is empty; `SleepFor` takes no time.

When a kill fails the game lives on, hanging or not. `app_state_` does not tell: on Windows
`TerminateProcess` forgets the process whatever has become of it, so the state is always
"timeout"; on Linux the look at `/proc` finds killed and living games alike, so it is always
"timeout_zombie". What the library can keep to is that it asks such a game for nothing and never waits
for it (`GivenUpIsLeftAlone`); nothing but the pending response that the lost answer has left
behind keeps it from doing so.

Consequences of the code that the properties leave room for: OnGameEnd is not
called for a game that ends before an observation has shown it in play; a request to
leave a game that is refused is reported to OnError like any protocol error.

## 5. Replay

A request together with the wait for its response is one step here, with the
results `Control` finds for such a pair (`Outcomes`): the response; a response with
errors; no response but one to the ping after it; no answer at all, upon which the
game is killed. Only `start_replay` is sent in one step (`LoadReplay`) and waited
for in another (`WaitForReplay`), which is what `Update` polls for.

| In the model | In the code |
|---|---|
| `pc`: update, stepping, events, available, launch, assign, gather, judge, errors | the phases of `CoordinatorImp::Update` with `StepReplayObservers`, `StartReplay` and the loop over the errors |
| `stage[r]`: run, wait, begin, step, observe, stepped, end, done | `run_replay` for observer r, in a thread of its own when there are several |
| `control[r]`, `info[r]`, `stale[r]` | the `ControlImp` of an observer; `replay_info_`; the reference its `ObserverActionImp` keeps over `Client::Reset` |
| `replay_file`, `version` | the list, shared by all observers; the executable and data version `ShouldRelaunch` has set for the next launch |
| `Recovered`, `NotRecovered`, `NotRelaunched` | the loop over observers with errors in `Update`, with `Relaunch` inlined |
| `game[r]` (external) | the game: running, hung or dead; the steps its replay has left |
| `request_[r]`, `SendActions` | the actions `ObserverActionImp` keeps: sent, or kept when `SendRequest` refuses them because a response is pending (which records an error) or the game is out of order |

`loads`, `lost`, `phase`, `orphan` and `repeated` are history. `realtime`,
`multi_threaded`, `replay_recovery_` and the number of observers are chosen at the
beginning. The build has no assertions, and `IgnoreReplay` is that of the library.

Consequences of the code that have no run of their own: with two observers a game
that hangs while it loads a replay is polled for ever (`LoopEnds` excludes it); without
`multi_threaded` the second loop calls OnStep again with an old observation for an
observer that waits for its next replay (section 6 has the same for the events of units); OnStep can come after OnGameEnd; an action
of the observer after a relaunch goes through a dangling reference (the model ends
in "segfault" there); without `multi_threaded` an action of OnStep of an observer that waits for its
next replay is refused, which counts as an error and has the loading game relaunched; a relaunch that works covers the error of an observer whose
relaunch failed before it in the same loop, and `Update` returns true.

## 6. Units

The pool of units, the observations, the derived events and the commands of an
agent, under the loop of the coordinator (agent or replay observer, stepped or in
real time, with or without `multi_threaded`) over several games of one process, which give the
same tags out again, and over relaunches of a replay observer.

| In the model | In the code |
|---|---|
| `unit_pool_`, `entries`, `available_index_`, `tag_to_unit_`, `tag_to_existing_unit_` | the fields of `UnitPool`; a pointer is an index (entry, offset) |
| `CreateUnit`, `IncrementIndex`, `Convert` | `UnitPool::CreateUnit`, `IncrementIndex`, an iteration of the conversion of raw units |
| `ConvertUnit`, `converting` | that loop: one unit a step, in any order, since the order of an observation is the game's choice; the client does nothing else until `converting` is empty |
| `UpdateObservation`, `GetObservation` | the functions of that name, with `units_previous_map_` and the two game loops |
| `Destroyed`, `Added`, `Idle`, `Completed`, `EventsOf`, `IssueEvents` | `IssueEvents` with `IssueUnitDestroyedEvents`, `IssueUnitAddedEvents`, `IssueIdleEvent` and `IssueBuildingCompletedEvent` |
| `SendActions`, `Commands` | `ActionImp::SendActions`, `UnitCommand` of a user in a callback |
| `Restart` | `AgentControlImp::Restart` out of OnGameEnd, with its OnGameStart |
| `StartReplay`, `WaitForReplay`, `ObserveReplay`, `ReplayStarted` | the request for a replay; its answer, which may be a refusal, an error or none; the observation for OnGameStart |
| `IssueEventsAgain` | the second loop of `StepReplayObservers` and of its realtime variant, for an observer that has not been stepped: `IssueEvents` on the observation that is there |
| `Relaunch` | `CoordinatorImp::Relaunch` with `Client::Reset`: a ControlImp, and so a pool, constructed anew |
| `Plays`, `Begins` (external) | the game: one unit changes in a loop; a unit may be away (transport, refinery, fog) and come back, or die |

`told` is what the user knows of each unit, `noted` what excuses an event that is
missing or comes again, `wrong` the events that were known when they were told, or came
after the death of their unit, each with the loop it came from: the one after a new observation, or the
second one over replay observers. `multi_threaded` makes no difference to an agent, whose events are issued in one
place either way.

The game answers with raw data and score, which the library asks for whenever it creates a game or
loads a replay; `UpdateObservation` therefore does not return early (sc2_client.cc:526, 584)
and its conversion does not stop midway (595).

Without `multi_threaded` the second loop issues events for every observer that is in order, stepped or
not. One that waits for its replay, or has no replay left, is told all events of its last observation
again, at every Update. This is against `sc2_client.h:69`, which says that OnUnitIdle will only be
called when the unit becomes idle and not a second time: TLC finds `wrong` with `<<"idle", TRUE>>`
and no error after a step, `CallOnStep`, `StartReplay` and `IssueEventsAgain`.
`NothingToldTwice` says that this is the only way an event comes twice,
`NothingToldLate` that nothing new comes that way.

Consequences of the code that the excuses name: OnUnitCreated comes again for a unit
back from a transport or refinery (what was told of a unit lapses with its absence);
a tag the process knows from its last game is not announced in the next one
("left"), nor are the first units of a replay; an enemy that comes out of a snapshot
has no OnUnitEnterVision; in real time `SendActions` forgets commands on a game loop
whose events are not issued, and the unit, still idle after a command that failed,
has no OnUnitIdle ("dropped"). OnUnitDestroyed comes for enemies, too. In step mode the
events of the last observation of a game are not issued (`CallOnGameEnd`), and a
restart calls OnGameStart with the last observation of the game before.

## 7. InstanceManager

`Main` is the thread of `run()`, `Threads` those it starts for its algorithms. They call
the registry as scripts say: `RunTask` is `run()` (with the order of release of
`test_DOP` as an alternative, parameters first), `RegressCovLine` the use
`HLC::regressCovLine` makes of it from inside a running algorithm.

| In the model | In the code |
|---|---|
| `slots`, `occupied`, `shelved` | the vector, the occupation counts and the shelved ids of each of the five kinds |
| `mutex` | `m_alg_mtx`, `m_pro_mtx`, held over the changes of counts; the other three are taken last and cover one step each |
| `AddLeaf`, `AddCheck`, `AddLocked`, `AddReturns` | addParamaps and addRecord; addProblem and addAlgorithm with addRandom |
| `CountRead`, `CountWrite` | `++` and `--` of a count, under the mutex of the kind that uses it; lost if the vector has moved in between (`Growth`) |
| `RemoveCheck`, `RemoveLeaf`, `RemoveLocked`, `DropCheck`, `DropDone`, `Reset`, `RemoveReturns` | the remove functions: the tests without lock, then the lock, the counts, removeRandom, and the destructor under the mutex |
| `AddFunction`, `Initialized`, `RunAlgorithm` | what initialize() and run() get from the registry; a get of what is not there throws |

`Registry` is the promise: a set of objects, added under ids nothing has, on top of
objects that are there, and removed when nothing uses them. The mapping
(`Implemented`) shows the objects that nobody holds the mutex for, without the random
generators, which only their owner uses.

Ids count from 1 here. Consequences of the code: a lost `--` keeps its object for
ever; a lost `++` makes a parameter map look unused, so that it can be removed before
a problem that refers to it, when that problem is itself kept by another lost count.
`CountsAreUsers`, `ReferencesAreLive`, `TaskIsReleased` and `ImplementsRegistry` are
therefore stated up to the first loss (`lost`); the other properties hold beyond it.
When vectors grow is the library's choice (`Growth`): the run takes doubling. The
release order of `test_DOP` leaves the parameters of a task that has any runs behind (`LeavesParam`); the record of
every task stays (finding).

## 8. Runs

| Run | Instance | Shows |
|---|---|---|
| `connection` | 3 connections, 4 requests; 443 000 states | the safety properties, the inductive invariant `IndInv`, `CallsReturn`, and that `Connection` implements `ResponseChannel` |
| `connection_poll` | 1 / 1, violated | `PollResponse` says true over an empty queue |
| `control` | single player, Windows, 2 / 6, in real time 2 / 5; 2.8 M states | the inductive invariant `ControlInv` with the types, stale steps are reported, OnGameEnd once, a game that has been given up is left alone |
| `control_multi` | multiplayer, multi-threaded, Linux, assertions compiled in, 2 / 5, in real time 2 / 4; 607 000 states | one request in flight, answers match, the end is announced, PollLeaveGame does not block, calls into the coordinator return, `WaitForAllResponses` by its limit |
| `control_game_end` | multiplayer, single-threaded, violated | OnGameEnd is never called |
| `control_observation` | violated | a null response crashes `GetObservation` |
| `control_crash` | Linux, violated | a crash is not detected |
| `replay` | 1 and 2 observers, 4 replays of 3 builds, 2 failures; 394 000 states | the inductive invariant `ReplayInv` with the types, a replay is sent once, lost ones and events out of order are reported, the list is done at the end, the loop ends |
| `replay_lost` | violated | a replay whose information could not be had is thrown away |
| `units` | one own and one enemy unit, 3 game loops, 2 games; 1.05 M states | the inductive invariant `UnitsInv` with the types, the pool is sound, pointers stay, the events tell of each observation, what comes twice comes from the second loop, and nothing new does |
| `instances` | 2 threads, 3 tasks; 81 000 states | the inductive invariant `CountInv`, which contains `InstanceInv`, with the types, ids are not mixed up, nothing throws, references are live, counts are users, tasks end and are released, and `InstanceManager` implements `Registry` |
| `instances_release` | violated | records are not removed |

**Bounds.** In `Connection` and `Control`: `MaxConnections` (sockets opened) and
`MaxRequests` (requests sent, `MaxRealtime` of them in real time), where a behaviour that needs
more of either ends in the stutter `AtBound` of `Control`, which is also why
`CoordinatorReturns` counts `OutOfRequests` and `OutOfConnections` as an end; `gameEnds`
counts to 2 because only "more than once" matters. In `connection`, three sockets mean two
timeouts with a reconnection after each, and four requests leave two for one socket. In
`Control` a game needs ping, join and observation (3, and 4 with the creation); a fault at
a step and its diagnosis are requests 4 to 6, on the second socket; a round in real time has a
request less, hence 5. The history with the stale flag needs ping, join without
answer, ping, leave: 4 requests, 2 sockets, and so does the end of a game in real time
(ping, join, observation in play, observation of the end).

In `Replay`: two observers, the least at which there are threads and two look at one list; four
replays, so that one is short, one of another build that is installed, one of a build that is not, and one
is left over; one step per replay; two failures, so that the recovery of
one may meet the failure of the other. In `Units`: an own unit and an enemy differ in their events only,
and an entry of one unit makes the pool grow at each; three game loops are enough for a unit to
appear, go away and come back, or for two games, one of two loops. They are not enough for two games that are
observed at the same loop, nor is an entry of one unit for a second place in it; the proofs have no such bounds. In
`InstanceManager`: two tasks that are released in different orders, one of them with a
composition, and a third that gets their ids (the proofs have no such bounds). The scripts are those
of the callers in the repository, each of which removes what it has added itself; two threads that
remove one id are in none of them; size_t has 3 bits, more than any count needs
but for a decrement below 0, which wraps to 7 as it would to 2^64 - 1.

Requests, connections, observers and replays are numbered, and threads of
`InstanceManager` are checked under fairness, so no symmetry is used.

**Deadlock** is checked in every run: a destroyed object, an ended program and the
bounds have stuttering steps of their own (`Destroyed`, `Gone`, `Ended`, `AtBound`).

**Fairness.** The client thread runs and each civetweb thread runs, hence weak
fairness of their steps. `wait_until` has a deadline, so a wait may always end
(`ReceiveTimeout` is a client step). A worker's read loop tests its stop flag
between reads (civetweb). In `Control` nothing is assumed of the game, of the user's calls, or of
connections being accepted: `ConnectGivesUp` and `SendRequestNoConnection` are
always possible without one. In the code the retries of `ControlImp::Connect`
are counted, not endless. In `Replay` the threads run, a game that runs answers
`start_replay` (a game that does not is one that hangs), the closing of a dead game's socket
is told, and in real time a replay goes on between two observations, however
often they come (strong fairness of `GamePlays`, since the observer is not always between two).
In `InstanceManager` the operating system runs each thread; weak fairness is enough even
for a thread that waits for a mutex, because all others come to their end.

**Disagreements found** (`findings` in `PROJECT.json`): the flag after a timeout
(`sc2_connection.cc:182`), the missing OnGameEnd (`sc2_coordinator.cc:322`), the null
dereference (`sc2_client.cc:1951`), crashes that are not detected on Linux
(`sc2_manage_process.cc:438`), replays pruned by information that is not theirs
(`sc2_coordinator.cc:216`), and records that are never removed
(`OFEC/core/instance_manager.cpp:302`). Consequences of the same code that have no run of their
own: on Linux every game that had to be killed ends as `timeout_zombie`, dead or not, and on Windows
none does, although `sc2_game_settings.h` describes that state as one that could not be terminated; a lost answer of
a game that still answers pings is reported as `SC2UnknownStatus`, not as
`SC2ProtocolTimeout`; and OnStep runs again on an old observation after a step that
failed (`StaleStepIsReported` shows that OnError tells of it); and the events of units come
again to a replay observer that waits (`sc2_coordinator.cc:434`, section 6).

**Mutants.** Each property of a passing run is paired in `PROJECT.json` with a
faulty variant of a definition (marked "Faulty variant" in the modules) that
breaks it: forgetting the join or the unlock, resetting the flag too
early or never, pushing at the wrong end, ignoring a pending response, and so on.

## 9. Proofs

`Connection` and `Control`: for any number of connections and requests, from the
assumption that these are natural numbers (`BoundsAssumption`), and in `Control` for
every setting of the options. `Replay`: for any number of observers but none, any list of
replays, any length of them and any number of failures (`ObserversAssumption`,
`ReplaysAssumption`). `InstanceManager`: for any number of threads, any list of tasks with any
number of runs, any number of parts, any word size and any growth of the vectors
(`ThreadsAssumption`, `TasksAssumption`, `NumbersAssumption`; `NullAssumption` says that an empty
pointer is not an object, `CountsAssumption` that size_t has room for the problems and algorithms of a
task, as it has in the code, where each takes more than a byte of memory). `Units`: for any
finite sets of own and of enemy units, any size of an entry, any number of game loops and games (`UnitsAssumption`).

`ConnectionProofs` proves `Spec => []IndInv`. The safety properties are not
inductive: that a response handed out belongs to the connection in use
(`NoStaleResponse`) rests on where every response on the way comes from
(`OriginInv`), on nothing being alive or left on other sockets (`WorkersInv`,
`SocketInv`), and on the client knowing what it may rely on at each of its lines
(`ClientInv`); the order of answers on the whole way from the game to the client
being increasing (`QueueOrderInv`, `SocketOrderInv`, `HandOrderInv`); the flag on who
holds the lock (`LockInv`, `FlagInv`); and what a worker has in its hand on the line it
is at (`HandInv`). The proof has a lemma per conjunct of
`IndInv`, a step per action in each, and lemmas on sequences (what Append, Tail,
SubSeq and clearing do to order and origin). It follows that

* `TypeCorrect`, `Fresh`, `InOrder`, `Announced`, `FalseAnnouncement`, `Alone`,
  `PopNeverFails`: the run's invariants hold.

`ChannelProofs` proves `Spec => ImplementsChannel` (`Refinement`). The outstanding
answers of the channel are a concatenation of four sequences, from the queue to the
game's input; a step of a thread moves an answer from one to the next, which the channel does not
see, or adds, drops or takes one, which is a step of the channel. `IndInv` says which
of the four are empty at the steps that clear or close.

`ControlProofs` proves that each step of `Control` is a step of `Connection` or
leaves it alone (`UsesConnection`), so all of this holds under the coordinator
(`AnswersAreFresh`, `DestroyedAlone`).

It proves `ControlSpec => []ControlInv`. Its conjuncts say which
request and task go with each place in the code (`CallInv`, `TaskInv`), which request is on its way
and what its answer may still be (`FlightInv`, `AnswerInv`), that nothing is
on its way where the client is idle with no response pending (`SettledInv`, `WaitInv`), and which
errors have been recorded where a caller goes on after a failure (`ErrorInv`,
`FreshInv`, `OverInv`). None of the properties holds without the others: that an answer
matches its request needs that there is one request in flight, which needs that a
timed out one stays pending until a ping on a new connection has been answered. From it
follow `OneInFlight`, `Matching`, `StaleReported`, `LeaveAnswered` and `EndsOnce`. The action
property `GivenUpLeftAlone` needs `GivenUpInv` besides: the response of a game that has been given up stays pending
on every way there, over a diagnosis and a failed ping, so that each further request is refused; and where
the client waits the game has not been given up.

It proves `EndIsAnnounced` from `ControlInv` and `EndInv`, in the modes of
`EndModes`: with multi_threaded, in a single-player game, or in real time. In the mode that is left
the property is violated (run `control_game_end`). `EndInv` follows the last observation of
the game in play (`ObservedInv`) to the place where the end is looked for (`NotMissedInv`).

`ReplayProofs` proves `Spec => []ReplayInv`, from which all invariants of the run follow:
`ReplayTypes`, `EachOnce`, `LostReported`, `EventsInOrder`, `ListDone`. `ObserverInv` is
about one observer and its game: before OnGameStart it does not see its game in play unless an error has
been recorded (`StartInv`), and where events are issued there is a new observation or an error
(`NewInv`). `TurnInv` is about the replay Update has in hand, `ListInv` about
the list and where its replays went. `DoneInv` is the argument for the end of the loop: an observer that
was passed over in `StartReplay` waits for a replay, plays one, has no game, or has errors, and
so it stays until Update returns. A step is shown to keep `ObserverInv` of the observer it is about, and
to leave the others as they are (`Same`).

`InstanceInvariance` proves `Spec => []InstanceInv`, and from it `ShelfIsRight`,
`NoCallThrows` and `InstanceTypes`, also after a count has been lost. That the shelf is right
(`ShelvedAreFree`) rests on nobody discarding what has gone already, although the
tests for that are made before the mutex is taken. It holds because of who asks: what a thread still
has to remove (`ToRemove`) is there, on nobody else's list, and in nobody else's hands (`OwnInv`);
the random generator of an object is no other's (`RandomInv`), and the parameters of
the functions of a composition are in no other and on no thread's list, also while the destructor drops
them (`PartInv`). These three need where each thread is (`PlaceInv`: Main has waited for the
others when it begins to release), which ids it has got by then (`GotInv`), that its call is the
one its script says (`AtCallInv`), and which mutex it holds for which object (`WorkInv`). `ReferInv`,
with the parameters and the problem each algorithm was made with, gives `NothingThrows` for the
gets of a running algorithm. No conjunct speaks of the value of a count, so none depends on
whether counts are lost. `InstanceProofs` has the calls of the script of `run()` position by
position, which are concatenations of sequences that depend on the task, and what adding and discarding do to the
tables.

`InstanceCounts` proves `Spec => []CountInv`: `InstanceInv`, and `ExactInv` until a count is
lost. The counts cannot be right without everything that is counted being somebody's: each problem
and algorithm is held by one thread, which is adding it or will remove it (`HeldInv`), each
random generator belongs to an object that has not dropped it (`GeneratorInv`), and the parameters
that nobody will remove are those Main was refused, one for each task released parameters first
(`LeftInv`). What an object refers to is its holder's, so those that use the same object
are in the hands of one thread, and no two threads change the same count: hence a count that has been
read is still right when it is written (`SeenInv`), and it has been changed as often as the object
at hand has come to it (`TodoInv`, `CountsAreExact`). The count a remove function tests is
then 0 for what nobody uses (`ProUnused`, `ParamUnused`), which keeps the scripts going as `HeldInv` says they do,
and not 0 for the parameters that are tried too early (`ParamUsed`). That a count fits size_t
needs `CountsAssumption`: the users of one object are those of one thread in one task.

From `CountInv` follow `CountsAreRight`, `ReleaseIsComplete` (the cardinality of what is left),
and, with the invariant that parameters, records and random generators refer to nothing
(`LeavesArePlain`), `NothingGoesTooEarly`. For `RegistryIsImplemented` every action is mapped: an object
comes with the end of its adding (`AddLeaf`, `AddReturns`) or as a part of a composition (`AddFunction`), it goes with the
beginning of its removal (`RemoveLocked`) or with the removal itself (`RemoveLeaf`, `DropDone`), and all other
steps stutter. That `Registry` allows the removal is `NothingGoesTooEarly` after the step: whoever
used the object would still be there.

Each of the invariants was checked by TLC on the instances of section 8 before it was proved:
`IndInv`, `ControlInv`, `ReplayInv`, `CountInv` (with `InstanceInv`) and `UnitsInv` are invariants of runs; `EndInv` was checked on
the instances of `control_multi` in each of its modes. The proof of `ReplayInv` showed that an
earlier version of the model let `SendActions` take a pending start_replay for its own answer, which `SendRequest` refuses to do. On the way to `InstanceInv` TLC found that `ReferencesAreLive` and
`ImplementsRegistry`, stated without a condition, fail after a lost `++` when every vector moves at
every growth (section 7), hence their restriction to the time before it.

`UnitsProofs` proves `Spec => []UnitsInv`, and from it all properties of the run: `PoolAlwaysSound`,
`PointersAlwaysStay`, `ObservationAlwaysTold`, `NothingEverToldTwice`, `NothingEverToldLate`. The pool needs that its units
have been placed one after the other: as many places are taken as there are tags
(`PoolInv`, which also bounds the entries by the number of tags), and what a tag has is
before what comes next, so that a new unit never gets the place of another. What has been told
is compared with two observations, the one told of and the one after it, so it is related to
the units at two places. Between observations it agrees with the last one, up to the excuses in
`noted` (`SettledInv`); while one is converted, and until its events are issued, it agrees with
`units_previous_map_` (`PendingInv`). That nothing is missed where no events are issued rests on
the game loops: without a new frame the units are those of the observation before, or their first
events have been left out. The second loop is harmless but for the repetition since what it would issue has been told
(`RepeatInv`): an observer that waits has had the events of its last observation, none of which
lapses before the next one. Neither property holds without the other: that OnUnitIdle is not
told twice needs that it has been told exactly where the unit of the observation before was idle. An error that has
been recorded ends all claims but those about the pool and the types.

Model-checked only:

* that a crash is found (`CrashIsDetected`), which the run of the finding refutes on Linux, and which by the
  definition of `IsProcessRunning` says nothing of the code on Windows;
* liveness (`CallsReturn`, `CoordinatorReturns`, `LoopEnds`, `TasksEnd`), which TLAPS does not reach.

## 10. Not modelled

* Several agents: `RunParallel` starts a thread per agent and joins them, each with a
  client of its own; they meet only in the game. What is left is `JoinGame`, which ends the
  program when one of them is refused, and the ports of `SetupPorts`.
* The server of `sc2_server.cc`. Its one user, `examples/proxy.cc`, is a loop that forwards
  one request at a time, waits for its response on a `Connection` and sends it back; what the server
  adds are two queues under a mutex each and a list of connections under none.
* Launching processes and waiting for them, command line parsing, map file transfer.
* Upgrades, alerts, chat, effects, feature layers and rendered observations: copied out of
  each observation without a memory of the one before, but for the set of upgrades.
* Save and load, SaveReplay, queries and debug commands: a request and its response, as
  `Control` has them, with no state of their own.
* Protobuf conversions, id tables, drawing and geometry: stateless.
* OFEC's algorithms, problems and data: numerical optimisation over floating point numbers.
  Most of the lines of the repository are of this kind, and of vendored and example code,
  which is why the specifications cover a small share of them.
