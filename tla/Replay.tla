------------------------------- MODULE Replay -------------------------------
(***************************************************************************)
(* The coordinator with its replay observers: Update steps them, or        *)
(* observes them in real time, each in a thread of its own when there are  *)
(* several, gives the replays of a list to those that are free, and        *)
(* relaunches the game of an observer with errors.                         *)
(*                                                                         *)
(* A request and the wait for its response are one step here, with the     *)
(* results Control finds for them:                                         *)
(*   good    the response;                                                 *)
(*   errors  a response with errors, which are recorded;                   *)
(*   late    no response, but one to the ping after it: an error is        *)
(*           recorded and the caller gets a null pointer;                  *)
(*   failed  the game does not answer at all: it is killed, the observer   *)
(*           is out of order and the caller gets a null pointer.           *)
(* Only start_replay is sent by one step and waited for by another.        *)
(* The model is that of a build without assertions (NDEBUG), and of        *)
(* ReplayObserver::IgnoreReplay as it is.  Observers and replays are       *)
(* numbered.                                                               *)
(***************************************************************************)
EXTENDS Naturals, Sequences, FiniteSets

CONSTANTS
    MaxObservers,   \* bound on the number of replay observers
    Replays,        \* what a game tells of each replay: its build, and whether it is short
    Installed,      \* the builds FindBaseExe finds
    FirstBuild,     \* the build that is launched first
    ReplayLength,   \* the steps a replay takes
    MaxFailures     \* bound on what goes wrong

ASSUME ObserversAssumption == MaxObservers \in Nat \ {0}
ASSUME ReplaysAssumption ==
    /\ Replays \in Seq([build : Nat, short : BOOLEAN])
    /\ Installed \subseteq Nat /\ FirstBuild \in Nat
    /\ ReplayLength \in Nat \ {0} /\ MaxFailures \in Nat

Clients == 1..MaxObservers
Files == 1..Len(Replays)
NoFile == 0     \* the path in a ReplayInfo nothing has been written to

VARIABLES
    pc,         \* where Update is
    turn,       \* the observer its loop is at
    stage,      \* where run_replay is for an observer
    \* fields of CoordinatorImp
    replay_file, starcraft_started_, version,   \* version: path and data version
    realtime, multi_threaded, replay_recovery_,
    replay_observers_,  \* the number of observers
    \* the observers
    control,    \* the object Control() points to
    info,       \* replay_info_ is that of this replay
    request_,   \* observer_action_imp_ has actions that are not sent
    stale,      \* its reference to the control dangles
    \* local variables of Update
    error_occurred, relaunched,
    \* the games
    game,
    failures,   \* what has gone wrong
    \* history
    loads,      \* the observers each replay has been sent to
    lost,       \* replays an observer took from the list although they are not short
    phase,      \* of the events of a game: none, begun, ended
    orphan,     \* an event without OnGameStart
    repeated    \* an OnStep without a new observation

settings == <<realtime, multi_threaded, replay_recovery_, replay_observers_>>
Observers == 1..replay_observers_

coordinator == <<replay_file, starcraft_started_, version, settings>>
locals == <<error_occurred, relaunched>>
client == <<control, info, request_, stale>>
events == <<phase, orphan, repeated>>
history == <<loads, lost, events>>
vars == <<pc, turn, stage, coordinator, client, locals, game, failures, history>>

\* A new ControlImp: no connection yet, and no observation.  After the first one
\* current_game_loop_ differs from previous_game_loop; the observation is new until
\* OnStep has seen it.
NewControl ==
    [app |-> "normal", errors |-> FALSE, pending |-> "not_set", answered |-> FALSE,
     status |-> "unknown", build |-> FirstBuild, observed |-> "none"]

NoGame == [process |-> "none", status |-> "launched", left |-> 0,
           unseen |-> TRUE]    \* no observation has been made of its game loop
NewGame == [NoGame EXCEPT !.process = "running"]

Init ==
    /\ pc = "update" /\ turn = 1 /\ stage = [r \in Clients |-> "done"]
    /\ replay_file = [f \in Files |-> f]
    /\ starcraft_started_ = FALSE /\ version = FirstBuild
    /\ realtime \in BOOLEAN /\ multi_threaded \in BOOLEAN /\ replay_recovery_ \in BOOLEAN
    /\ replay_observers_ \in 1..MaxObservers
    /\ control = [r \in Clients |-> NewControl]
    /\ info = [r \in Clients |-> NoFile]
    /\ request_ = [r \in Clients |-> FALSE] /\ stale = [r \in Clients |-> FALSE]
    /\ error_occurred = FALSE /\ relaunched = FALSE
    /\ game = [r \in Clients |-> NoGame] /\ failures = 0
    /\ loads = [f \in Files |-> {}] /\ lost = [r \in Clients |-> {}]
    /\ phase = [r \in Clients |-> "none"] /\ orphan = [r \in Clients |-> FALSE]
    /\ repeated = [r \in Clients |-> FALSE]

IsInGame(c) == c.app = "normal" /\ c.status = "in_replay"
HasResponsePending(c) == c.pending # "not_set"
IsReadyForCreateGame(c) ==
    c.app = "normal" /\ ~HasResponsePending(c) /\ c.status \in {"launched", "ended"}

-----------------------------------------------------------------------------
(* Requests.                                                               *)

\* The control of an observer after each result.  The ping gets the status, too.
Answered(c, g) == [c EXCEPT !.status = g.status, !.pending = "not_set", !.answered = FALSE]

\* Faulty variant: only the return value tells of an error.
ErredUnreported(c, g) == Answered(c, g)

Erred(c, g) == [Answered(c, g) EXCEPT !.errors = TRUE]

\* Faulty variant: a game that does not answer is not recorded as an error.
UnresponsiveUnreported(c) == [c EXCEPT !.app = "failed", !.status = "unknown",
                                       !.pending = "other", !.answered = FALSE]

Unresponsive(c) == [c EXCEPT !.app = "failed", !.errors = TRUE, !.status = "unknown",
                             !.pending = "other", !.answered = FALSE]

\* What may become of a request to observer r while its game gets from game[r] to g.
Outcomes(r, g) ==
    IF game[r].process # "running"
      THEN {[result |-> "failed", control |-> Unresponsive(control[r]),
             game |-> [game[r] EXCEPT !.process = "dead"], failures |-> failures]}
      ELSE {[result |-> "good", control |-> Answered(control[r], g), game |-> g,
             failures |-> failures]}
             \cup {[result |-> result, control |-> Erred(control[r], g), game |-> g,
                    failures |-> failures + 1] :
                      result \in IF failures < MaxFailures THEN {"errors", "late"} ELSE {}}

IsNull(o) == o.result \in {"late", "failed"}

\* One of them happens.
Takes(r, o) ==
    /\ control' = [control EXCEPT ![r] = o.control]
    /\ game' = [game EXCEPT ![r] = o.game]
    /\ failures' = o.failures

\* OnGameStart, OnStep and OnGameEnd are to be called in this order; OnStep may come
\* again, and after the end.
Event(r, after) ==
    /\ phase' = [phase EXCEPT ![r] = after]
    /\ orphan' = [orphan EXCEPT ![r] = @ \/ (after # "begun" /\ phase[r] = "none")]

\* What GetObservation leaves, when it gets a response.
Observed(o) ==
    IF o.result = "good"
      THEN [o EXCEPT !.control.observed = IF o.game.unseen THEN "new" ELSE "none",
                     !.game.unseen = FALSE]
      ELSE o

\* IssueEvents ends with OnStep.
IssueEvents(r) ==
    IF control[r].observed = "none" THEN UNCHANGED events
    ELSE /\ Event(r, phase[r])
         /\ repeated' = [repeated EXCEPT ![r] = @ \/ control[r].observed = "old"]

\* The control after it.
Seen(c) == [c EXCEPT !.observed = IF @ = "new" THEN "old" ELSE @]

\* SendActions: the request goes to the game; or it is kept, since a response is pending
\* or the game out of order.  What the use of the dangling reference leads to is
\* undefined.
SendActions(r) ==
    \/ /\ ~stale[r] /\ control[r].app = "normal" /\ ~HasResponsePending(control[r])
       /\ \E o \in Outcomes(r, game[r]) : Takes(r, [o EXCEPT !.control = Seen(@)])
       /\ request_' = [request_ EXCEPT ![r] = FALSE]
       /\ UNCHANGED pc
    \/ /\ ~stale[r]
       /\ control[r].app # "normal" \/ HasResponsePending(control[r])
       /\ control' = [control EXCEPT ![r] = [Seen(@) EXCEPT !.errors = TRUE]]
       /\ request_' = [request_ EXCEPT ![r] = TRUE]
       /\ UNCHANGED <<pc, game, failures>>
    \/ /\ stale[r]
       /\ pc' = "segfault"
       /\ UNCHANGED <<control, request_, game, failures>>

\* IssueEvents, and but for real time SendActions: of nothing, or of the observer actions
\* of OnStep or those kept.
IssueAndSend(r) ==
    /\ IssueEvents(r)
    /\ \/ /\ realtime \/ ~request_[r]
          /\ control' = [control EXCEPT ![r] = Seen(@)]
          /\ UNCHANGED <<pc, request_, game, failures>>
       \/ /\ ~realtime
          /\ request_[r] \/ control[r].observed # "none"
          /\ SendActions(r)

-----------------------------------------------------------------------------
(* StepReplayObservers and StepReplayObserversRealtime.                    *)

At(r, here) == pc = "stepping" /\ stage[r] = here
Goto(r, there) == stage' = [stage EXCEPT ![r] = there]
Playing(c) == IF ~IsInGame(c) THEN "done" ELSE IF realtime THEN "observe" ELSE "step"

\* The head of Update.
UpdateBegins ==
    /\ pc = "update"
    /\ error_occurred' = FALSE /\ relaunched' = FALSE
    /\ IF starcraft_started_
         THEN /\ pc' = "stepping"
              /\ stage' = [r \in Clients |-> IF r \in Observers THEN "run" ELSE "done"]
         ELSE pc' = "available" /\ UNCHANGED stage
    /\ UNCHANGED <<turn, coordinator, client, game, failures, history>>

\* The head of run_replay.  With one observer the response is waited for.
RunReplay(r) ==
    /\ At(r, "run")
    /\ LET c == control[r] IN
         Goto(r, IF c.app # "normal" THEN "done"
                 ELSE IF ~HasResponsePending(c) THEN Playing(c)
                 ELSE IF replay_observers_ > 1 /\ ~c.answered THEN "done"
                 ELSE "wait")
    /\ UNCHANGED <<pc, turn, coordinator, client, locals, game, failures, history>>

\* The game with a replay loaded.
Loaded(g) == [g EXCEPT !.status = "in_replay", !.left = ReplayLength, !.unseen = TRUE]

\* What WaitForResponse makes of the response to start_replay, if it is there or not.
Responses(r) ==
    IF control[r].answered
      THEN {[result |-> "good", control |-> Answered(control[r], game[r]), game |-> game[r],
             failures |-> failures]}
      ELSE Outcomes(r, Loaded(game[r]))

\* WaitForReplay.
WaitForReplay(r) ==
    /\ At(r, "wait")
    /\ \E o \in Responses(r) :
         /\ Takes(r, o)
         /\ Goto(r, IF o.result = "good" /\ IsInGame(o.control) /\ info[r] # NoFile
                      THEN "begin" ELSE Playing(o.control))
    /\ UNCHANGED <<pc, turn, coordinator, info, request_, stale, locals, history>>

\* Its end: GetObservation, which reads through a null pointer if it gets one, and
\* OnGameStart, whether there is an observation or not.
GameStarts(r) ==
    /\ At(r, "begin")
    /\ \E o \in Outcomes(r, game[r]) :
         /\ Takes(r, Observed(o))
         /\ IF IsNull(o) THEN pc' = "segfault" /\ UNCHANGED <<stage, phase, orphan>>
            ELSE Goto(r, Playing(o.control)) /\ Event(r, "begun") /\ UNCHANGED pc
    /\ UNCHANGED <<turn, coordinator, info, request_, stale, locals, loads, lost, repeated>>

\* The game of a replay one step on.
Advanced(g) ==
    IF g.status # "in_replay" THEN g
    ELSE [g EXCEPT !.left = @ - 1, !.status = IF g.left = 1 THEN "ended" ELSE @,
                   !.unseen = TRUE]

\* Step, and the first half of WaitStep.
StepReplay(r) ==
    /\ At(r, "step")
    /\ \E o \in Outcomes(r, Advanced(game[r])) :
         Takes(r, o) /\ Goto(r, IF o.result = "good" THEN "observe" ELSE "stepped")
    /\ UNCHANGED <<pc, turn, coordinator, info, request_, stale, locals, history>>

\* GetObservation, the second half of WaitStep.
Observe(r) ==
    /\ At(r, "observe")
    /\ \E o \in Outcomes(r, game[r]) :
         /\ Takes(r, Observed(o))
         /\ IF IsNull(o) THEN pc' = "segfault" /\ UNCHANGED stage
                         ELSE Goto(r, "stepped") /\ UNCHANGED pc
    /\ UNCHANGED <<turn, coordinator, info, request_, stale, locals, history>>

\* IssueEvents and SendActions, here or in the second loop.
Stepped(r) ==
    /\ At(r, "stepped")
    /\ Goto(r, "end")
    /\ IF multi_threaded
         THEN IssueAndSend(r)
         ELSE UNCHANGED <<pc, control, request_, game, failures, events>>
    /\ UNCHANGED <<turn, coordinator, info, stale, locals, loads, lost>>

\* The end of run_replay: OnGameEnd if the game is over, or out of order.
EndReplay(r) ==
    /\ At(r, "end")
    /\ Goto(r, "done")
    /\ IF IsInGame(control[r]) THEN UNCHANGED <<phase, orphan>> ELSE Event(r, "ended")
    /\ UNCHANGED <<pc, turn, coordinator, client, locals, game, failures, loads, lost,
                   repeated>>

\* All threads are joined.
Joined ==
    /\ pc = "stepping"
    /\ \A r \in Observers : stage[r] = "done"
    /\ pc' = IF multi_threaded THEN "available" ELSE "events"
    /\ turn' = 1
    /\ UNCHANGED <<stage, coordinator, client, locals, game, failures, history>>

\* The second loop, without multi_threaded, whether the observer is in a game or not.
SecondLoop ==
    /\ pc = "events" /\ turn \in Observers
    /\ IF control[turn].app = "normal"
         THEN IssueAndSend(turn)
         ELSE UNCHANGED <<pc, control, request_, game, failures, events>>
    /\ turn' = turn + 1
    /\ UNCHANGED <<stage, coordinator, info, stale, locals, loads, lost>>

SecondLoopEnds ==
    /\ pc = "events" /\ turn \notin Observers
    /\ pc' = "available"
    /\ UNCHANGED <<turn, stage, coordinator, client, locals, game, failures, history>>

-----------------------------------------------------------------------------
(* StartReplay.                                                            *)

\* AnyObserverAvailable, and the head of StartReplay.
Available ==
    /\ pc = "available"
    /\ turn' = 1
    /\ pc' = IF replay_file = <<>> \/ \A r \in Observers : IsInGame(control[r]) THEN "errors"
             ELSE IF starcraft_started_ THEN "assign" ELSE "launch"
    /\ UNCHANGED <<stage, coordinator, client, locals, game, failures, history>>

\* The control and game of an observer after Connect, which ends with a ping.
Connected(c) == [c EXCEPT !.status = "launched", !.build = version]

\* LaunchProcesses; nobody looks whether the observers get a connection.
LaunchProcesses ==
    /\ pc = "launch"
    /\ \E connected \in SUBSET Observers :
         /\ failures + replay_observers_ - Cardinality(connected) <= MaxFailures
         /\ failures' = failures + replay_observers_ - Cardinality(connected)
         /\ control' = [r \in Clients |->
                          IF r \in connected THEN Connected(control[r]) ELSE control[r]]
         /\ game' = [r \in Clients |-> IF r \in connected THEN NewGame ELSE NoGame]
    /\ pc' = "assign"
    /\ UNCHANGED <<turn, stage, coordinator, info, request_, stale, locals, history>>

\* The loop over the observers: one that is free looks at the last replay.
Assign ==
    /\ pc = "assign" /\ turn \in Observers
    /\ IF IsReadyForCreateGame(control[turn]) /\ replay_file # <<>>
         THEN pc' = "gather" /\ UNCHANGED turn
         ELSE turn' = turn + 1 /\ UNCHANGED pc
    /\ UNCHANGED <<stage, coordinator, client, locals, game, failures, history>>

AssignEnds ==
    /\ pc = "assign" /\ turn \notin Observers
    /\ starcraft_started_' = TRUE
    /\ pc' = "errors" /\ turn' = 1
    /\ UNCHANGED <<stage, replay_file, version, settings, client, locals, game, failures,
                   history>>

File == replay_file[Len(replay_file)]

\* Faulty variant: the first replay goes instead of the one that was looked at.
PopFront == replay_file' = Tail(replay_file)

PopBack == replay_file' = SubSeq(replay_file, 1, Len(replay_file) - 1)

\* GatherReplayInfo; SendRequest has no connection to a game that is out of order.  What
\* it returns is ignored.
GatherReplayInfo ==
    /\ pc = "gather"
    /\ pc' = "judge"
    /\ IF control[turn].app = "normal"
         THEN \E o \in Outcomes(turn, game[turn]) :
                /\ Takes(turn, o)
                /\ info' = [info EXCEPT ![turn] = IF o.result = "good" THEN File ELSE @]
         ELSE UNCHANGED <<control, game, failures, info>>
    /\ UNCHANGED <<turn, stage, coordinator, request_, stale, locals, history>>

\* IgnoreReplay: shorter than 30 seconds, as a ReplayInfo that is blank.
ShouldIgnore == info[turn] # NoFile => Replays[info[turn]].short

\* Faulty variant: nobody looks for the executable.
ShouldRelaunchAnyway == Replays[info[turn]].build # control[turn].build

ShouldRelaunch ==
    LET build == Replays[info[turn]].build
    IN  build # control[turn].build /\ build \in Installed

\* The replay is not sent to a game; the next one, if there is one.
Skip ==
    /\ PopBack
    /\ pc' = IF Len(replay_file) = 1 THEN "assign" ELSE "gather"
    /\ turn' = IF Len(replay_file) = 1 THEN turn + 1 ELSE turn
    /\ lost' = [lost EXCEPT ![turn] = IF Replays[File].short THEN @ ELSE @ \cup {File}]

SkipReplay ==
    /\ pc = "judge"
    /\ ShouldIgnore
    /\ Skip
    /\ UNCHANGED <<stage, starcraft_started_, version, settings, client, locals, game,
                   failures, loads,
                   events>>

\* ShouldRelaunch: WrongGameVersion is recorded, the replay stays in the list.
AskRelaunch ==
    /\ pc = "judge"
    /\ ~ShouldIgnore /\ ShouldRelaunch
    /\ version' = Replays[info[turn]].build
    /\ control' = [control EXCEPT ![turn].errors = TRUE]
    /\ pc' = "assign" /\ turn' = turn + 1
    /\ UNCHANGED <<stage, replay_file, starcraft_started_, settings, info, request_, stale,
                   locals, game, failures,
                   history>>

\* LoadReplay: the request is sent, its response left to WaitForReplay ...
LoadReplay ==
    /\ pc = "judge"
    /\ ~ShouldIgnore /\ ~ShouldRelaunch
    /\ control[turn].app = "normal"
    /\ control' = [control EXCEPT ![turn].pending = "start_replay"]
    /\ loads' = [loads EXCEPT ![File] = @ \cup {turn}]
    /\ PopBack
    /\ pc' = "assign" /\ turn' = turn + 1
    /\ UNCHANGED <<stage, starcraft_started_, version, settings, info, request_, stale,
                   locals, game, failures,
                   lost, events>>

\* ... or not sent.
LoadReplayRefused ==
    /\ pc = "judge"
    /\ ~ShouldIgnore /\ ~ShouldRelaunch
    /\ control[turn].app # "normal"
    /\ Skip
    /\ UNCHANGED <<stage, starcraft_started_, version, settings, client, locals, game,
                   failures, loads,
                   events>>

-----------------------------------------------------------------------------
(* The end of Update.                                                      *)

\* The loop over the observers: those with errors are told of them and relaunched.
NoErrors ==
    /\ pc = "errors" /\ turn \in Observers
    /\ ~control[turn].errors
    /\ turn' = turn + 1
    /\ UNCHANGED <<pc, stage, coordinator, client, locals, game, failures, history>>

\* Relaunch: the old game is killed, the control is a new one, and the actions keep the
\* old one.
Relaunch(connected) ==
    /\ pc = "errors" /\ turn \in Observers
    /\ control[turn].errors /\ replay_recovery_
    /\ stale' = [stale EXCEPT ![turn] = TRUE]
    /\ control' = [control EXCEPT ![turn] = IF connected THEN Connected(NewControl) ELSE NewControl]
    /\ game' = [game EXCEPT ![turn] = IF connected THEN NewGame ELSE NoGame]
    /\ lost' = [lost EXCEPT ![turn] = {}]
    /\ phase' = [phase EXCEPT ![turn] = "none"] /\ orphan' = [orphan EXCEPT ![turn] = FALSE]
    /\ repeated' = [repeated EXCEPT ![turn] = FALSE]
    /\ turn' = turn + 1
    /\ UNCHANGED <<pc, stage, coordinator, info, request_, loads>>

\* Faulty variant: Update returns as if nothing had been relaunched.
RecoveredUnnoticed ==
    /\ Relaunch(TRUE)
    /\ error_occurred' = FALSE
    /\ UNCHANGED <<relaunched, failures>>

\* The game is there again: forget the error, of others, too ...
Recovered ==
    /\ Relaunch(TRUE)
    /\ error_occurred' = FALSE /\ relaunched' = TRUE
    /\ UNCHANGED failures

\* ... or not.
NotRecovered ==
    /\ Relaunch(FALSE)
    /\ error_occurred' = TRUE
    /\ failures < MaxFailures /\ failures' = failures + 1
    /\ UNCHANGED relaunched

\* Without replay_recovery_ they are only told.
NotRelaunched ==
    /\ pc = "errors" /\ turn \in Observers
    /\ control[turn].errors /\ ~replay_recovery_
    /\ error_occurred' = TRUE
    /\ turn' = turn + 1
    /\ UNCHANGED <<pc, stage, coordinator, client, relaunched, game, failures, history>>

\* Faulty variant: an observer that has never played does not count as one that ended.
AllGamesFinished ==
    \A r \in Observers : control[r].status = "ended" /\ ~HasResponsePending(control[r])

AllGamesEnded ==
    \A r \in Observers : ~IsInGame(control[r]) /\ ~HasResponsePending(control[r])

\* Update returns, and is called again if it returns true.
UpdateReturns ==
    /\ pc = "errors" /\ turn \notin Observers
    /\ pc' = IF error_occurred \/ (AllGamesEnded /\ ~relaunched) THEN "stopped" ELSE "update"
    /\ UNCHANGED <<turn, stage, coordinator, client, locals, game, failures, history>>

-----------------------------------------------------------------------------
(* The games.                                                              *)

\* A replay is loaded, or refused.
GameAnswers(r) ==
    /\ game[r].process = "running"
    /\ control[r].pending = "start_replay" /\ ~control[r].answered
    /\ control' = [control EXCEPT ![r].answered = TRUE]
    /\ \/ game' = [game EXCEPT ![r] = Loaded(@)] /\ UNCHANGED failures
       \/ failures < MaxFailures /\ failures' = failures + 1 /\ UNCHANGED game
    /\ UNCHANGED <<pc, turn, stage, coordinator, info, request_, stale, locals, history>>

\* In real time a game goes on by itself, which the next observation tells.
GamePlays(r) ==
    /\ realtime /\ At(r, "observe") /\ ~game[r].unseen
    /\ game[r].process = "running" /\ game[r].status = "in_replay"
    /\ game' = [game EXCEPT ![r] = Advanced(@)]
    /\ UNCHANGED <<pc, turn, stage, coordinator, client, locals, failures, history>>

\* A game stops answering, or ends.
GameFails(r, how) ==
    /\ game[r].process = "running"
    /\ failures < MaxFailures /\ failures' = failures + 1
    /\ game' = [game EXCEPT ![r].process = how]
    /\ UNCHANGED <<pc, turn, stage, coordinator, client, locals, history>>

\* ConnectionClosed comes of a game that has ended.
SocketCloses(r) ==
    /\ game[r].process = "dead" /\ ~control[r].errors
    /\ control' = [control EXCEPT ![r].errors = TRUE]
    /\ UNCHANGED <<pc, turn, stage, coordinator, info, request_, stale, locals, game,
                   failures, history>>

RunThread(r) ==
    \/ RunReplay(r) \/ WaitForReplay(r) \/ GameStarts(r) \/ StepReplay(r)
    \/ Observe(r) \/ Stepped(r) \/ EndReplay(r)

Update ==
    \/ UpdateBegins \/ Joined \/ SecondLoop \/ SecondLoopEnds
    \/ Available \/ LaunchProcesses \/ Assign \/ AssignEnds
    \/ GatherReplayInfo \/ SkipReplay \/ AskRelaunch \/ LoadReplay \/ LoadReplayRefused
    \/ NoErrors \/ Recovered \/ NotRecovered \/ NotRelaunched
    \/ UpdateReturns

GameStep(r) ==
    \/ GameAnswers(r) \/ GamePlays(r)
    \/ \E how \in {"hung", "dead"} : GameFails(r, how)
    \/ SocketCloses(r)

\* The loop of the program is over, or the program.
Over == pc \in {"stopped", "segfault"}
Ended == Over /\ UNCHANGED vars

Next ==
    \/ Update
    \/ \E r \in Observers : RunThread(r) \/ (~Over /\ GameStep(r))
    \/ Ended

Spec == Init /\ [][Next]_vars

\* The operating system runs the threads, a game that runs answers, and civetweb tells
\* of a closed socket.
FairSpec ==
    /\ Spec
    /\ WF_vars(Update)
    /\ \A r \in Clients :
         WF_vars(RunThread(r)) /\ WF_vars(GameAnswers(r)) /\ SF_vars(GamePlays(r))
           /\ WF_vars(SocketCloses(r))

-----------------------------------------------------------------------------
(* Properties.                                                             *)

\* The states of a control and of a game.
ControlStates ==
    [app : {"normal", "failed"}, errors : BOOLEAN,
     pending : {"not_set", "start_replay", "other"}, answered : BOOLEAN,
     status : {"unknown", "launched", "in_replay", "ended"},
     build : Installed \cup {FirstBuild}, observed : {"none", "new", "old"}]
GameStates ==
    [process : {"none", "running", "hung", "dead"},
     status : {"launched", "in_replay", "ended"}, left : 0..ReplayLength, unseen : BOOLEAN]

\* The variables have their types.
ReplayTypeOK ==
    /\ pc \in {"update", "stepping", "events", "available", "launch", "assign", "gather",
               "judge", "errors", "stopped", "segfault"}
    /\ turn \in 1..replay_observers_ + 1
    /\ stage \in [Clients -> {"run", "wait", "begin", "step", "observe", "stepped", "end",
                                "done"}]
    /\ replay_file \in Seq(Files) /\ starcraft_started_ \in BOOLEAN
    /\ version \in Installed \cup {FirstBuild}
    /\ realtime \in BOOLEAN /\ multi_threaded \in BOOLEAN /\ replay_recovery_ \in BOOLEAN
    /\ replay_observers_ \in 1..MaxObservers
    /\ control \in [Clients -> ControlStates]
    /\ info \in [Clients -> Files \cup {NoFile}]
    /\ request_ \in [Clients -> BOOLEAN] /\ stale \in [Clients -> BOOLEAN]
    /\ error_occurred \in BOOLEAN /\ relaunched \in BOOLEAN
    /\ game \in [Clients -> GameStates]
    /\ failures \in 0..MaxFailures
    /\ loads \in [Files -> SUBSET Observers] /\ lost \in [Clients -> SUBSET Files]
    /\ phase \in [Clients -> {"none", "begun", "ended"}]
    /\ orphan \in [Clients -> BOOLEAN] /\ repeated \in [Clients -> BOOLEAN]

\* A replay is sent to one game only, and then not looked at again: through relaunches,
\* which leave it in the list, and observers that look at the same replay in one loop.
EachReplayOnce ==
    \A f \in Files :
        /\ Cardinality(loads[f]) <= 1
        /\ loads[f] # {} => \A p \in DOMAIN replay_file : replay_file[p] # f

\* A replay that is taken from the list without being short or being sent to a game is
\* the loss of an observer whose errors are reported at the end of the same Update.
LostReplayIsReported == \A r \in Observers : lost[r] # {} => control[r].errors

\* OnStep and OnGameEnd come after the OnGameStart of the game, and with multi_threaded
\* OnStep always has a new observation ("In non realtime games this function gets called
\* after each step"), but for an observer whose errors are about to be reported.  Without
\* multi_threaded the second loop calls OnStep again for an observer that waits for its
\* next replay.
EventsAreInOrder ==
    \A r \in Observers :
        orphan[r] \/ (multi_threaded /\ repeated[r]) => control[r].errors

\* When the loop ends without an error every replay has been dealt with, but for that of
\* observers which have no game, and whose failure the recovery of another has covered.
ListIsDone ==
    pc = "stopped" /\ ~error_occurred /\ replay_file # <<>>
      => \A r \in Observers : game[r].process = "none"

\* The loop ends: replays, failures and relaunches are finite.  A game that hangs while
\* it loads a replay is waited for for ever, though, when it is not the only one, since
\* its response is polled.
LoopEnds ==
    <>(\/ Over
       \/ \E r \in Observers : game[r].process = "hung" /\ control[r].pending = "start_replay")

\* "If the replay isn't being pruned based on replay info start it": a replay that is not
\* short does not leave the list without being sent to a game.
NoReplayIsLost == \A r \in Observers : lost[r] = {}

-----------------------------------------------------------------------------
(* The inductive invariant behind the safety properties.                   *)

\* A game in play has steps left.
LeftInv(r) == game[r].status = "in_replay" => game[r].left # 0

\* A game that is given up, or from which there has been no answer, has been reported.
AppInv(r) ==
    /\ control[r].app # "normal" \/ control[r].pending = "other" => control[r].errors
    /\ control[r].status = "unknown" => control[r].errors \/ game[r].process = "none"

\* A response is left pending only of a replay that has been judged.
PendingInv(r) ==
    control[r].pending = "start_replay" => control[r].app = "normal" /\ info[r] # NoFile

\* Before OnGameStart, unless an error has been recorded, an observer does not see its
\* game in play, and the game is so only by an answer that is still pending.
StartInv(r) ==
    phase[r] # "none" \/ control[r].errors \/ stage[r] = "begin"
      \/ /\ stage[r] \notin {"step", "observe", "stepped", "end"}
         /\ stage[r] = "wait" => control[r].pending = "start_replay"
         /\ control[r].status # "in_replay" /\ control[r].observed = "none"
         /\ game[r].status = "in_replay" => control[r].pending = "start_replay"

\* Where run_replay issues events, there is a new observation or none.
NewInv(r) ==
    stage[r] = "stepped" => control[r].errors \/ control[r].observed # "old"

\* What goes wrong for an observer is recorded as an error.
ReportedInv(r) ==
    lost[r] # {} \/ orphan[r] \/ (multi_threaded /\ repeated[r]) => control[r].errors

ObserverInv(r) ==
    /\ LeftInv(r) /\ AppInv(r) /\ PendingInv(r)
    /\ StartInv(r) /\ NewInv(r) /\ ReportedInv(r)

\* Where Update has a replay in hand, for an observer that waits for nothing; the replay
\* is judged by its own information.  All that unless an error has been recorded.
TurnInv ==
    /\ pc \in {"gather", "judge"} =>
         /\ turn \in Observers /\ replay_file # <<>>
         /\ control[turn].pending = "not_set" \/ control[turn].errors
    /\ pc = "judge" => info[turn] = File \/ control[turn].errors
    /\ pc = "launch" => turn = 1
    /\ pc = "events" => ~multi_threaded
    /\ \A r \in Clients :
         stage[r] # "done" => r \in Observers /\ pc \in {"stepping", "segfault"}

\* Each replay is in the list once or has been sent to one observer.
ListInv ==
    /\ \A p, q \in DOMAIN replay_file : replay_file[p] = replay_file[q] => p = q
    /\ \A f \in Files : loads[f] # {} =>
         /\ \E r \in Observers : loads[f] = {r}
         /\ \A p \in DOMAIN replay_file : replay_file[p] # f

\* An observer that needs no replay now.
Occupied(r) ==
    HasResponsePending(control[r]) \/ IsInGame(control[r]) \/ game[r].process = "none"

\* With replays left in the list every observer that has been asked is occupied, or its
\* failure will be told.
DoneInv ==
    replay_file # <<>> =>
        /\ pc \in {"assign", "gather", "judge"} =>
             \A r \in Observers : r < turn => Occupied(r) \/ control[r].errors
        /\ pc = "errors" /\ ~error_occurred /\ ~relaunched =>
             \A r \in Observers : Occupied(r) \/ (control[r].errors /\ turn <= r)

ReplayInv ==
    /\ ReplayTypeOK
    /\ \A r \in Clients : ObserverInv(r)
    /\ TurnInv /\ ListInv /\ DoneInv /\ ListIsDone
=============================================================================
