------------------------------- MODULE Control -------------------------------
(***************************************************************************)
(* One agent from the coordinator down to its connection: the calls of     *)
(* Coordinator (StartGame, Update, LeaveGame), sc2::ControlImp (requests,  *)
(* WaitForResponse and what it makes of a missing answer) and              *)
(* sc2::ProtoInterface (SendRequest, WaitForResponseInternal, PingGame) on *)
(* top of Connection, whose client steps this module calls.                *)
(*                                                                         *)
(* pc is where the client thread is between two steps of Connection, task  *)
(* the request it is busy with.  The tables WhenRefused, WhenSent,         *)
(* WhenNull, WhenErrors and WhenGood say where the caller of a request     *)
(* goes on.                                                                *)
(*                                                                         *)
(* The SC2 process is external: it answers requests in order or refuses    *)
(* them with an error, and it may hang, close the socket or die.           *)
(***************************************************************************)
EXTENDS Connection, FiniteSets

CONSTANTS
    Multiplayer,    \* the ports given to RequestJoinGame are valid
    MultiThreaded,  \* process_settings_.multi_threaded
    Realtime,       \* the values process_settings_.realtime may have
    MaxRealtime,    \* bound on requests in real time, where a round has one less
    Windows,        \* which IsProcessRunning and TerminateProcess are compiled
    NDEBUG          \* assertions are compiled out

ASSUME OptionsAssumption ==
    /\ {Multiplayer, MultiThreaded, Windows, NDEBUG} \subseteq BOOLEAN
    /\ Realtime \subseteq BOOLEAN /\ MaxRealtime \in Nat

Tasks == {"none", "connect", "create_game", "join_game", "join_observation", "step",
          "observation", "action", "feature_action", "leave_game", "leave_now",
          "poll_leave", "poll_leave_again", "consume", "quit"}
Kinds == {"ping", "create_game", "join_game", "observation", "step", "action",
          "leave_game", "quit"}
Statuses == {"unknown", "launched", "init_game", "in_game", "ended"}
NotSet == "not_set"     \* RESPONSE_NOT_SET
NoLoop == -1            \* the game loop before any observation (uint32 max)

VARIABLES
    \* the client thread
    pc,                  \* where it is
    task,                \* the request it is busy with
    diagnosing,          \* inside the ping of WaitForResponse
    realtime,            \* process_settings_.realtime
    \* fields of ProtoInterface
    response_pending_,   \* the kind of answer expected
    latest_status_,      \* the status in the last response
    \* fields of ControlImp and ObservationImp
    app_state_,
    client_errors_,
    current_game_loop_,
    previous_game_loop,
    \* the SC2 process
    process,             \* running, hung or dead
    status,              \* its Status
    gameLoop,            \* its game loop, in steps
    kind,                \* kind[r]: what request r asks for
    answers,             \* what it answered
    \* history
    stepped,             \* the game loop of the last OnStep
    staleStep,           \* OnStep was called twice with one observation
    gameEnds,            \* calls of OnGameEnd, up to 2
    stopped              \* Update has returned false

thread == <<pc, task, diagnosing, realtime>>
proto  == <<response_pending_, latest_status_>>
app    == <<app_state_, client_errors_>>
loops  == <<current_game_loop_, previous_game_loop>>
game   == <<process, status, gameLoop, answers>>
events == <<stepped, staleStep, gameEnds, stopped>>
control == <<thread, proto, app, loops, game, kind, events>>
allVars == <<vars, control>>

Error(e) == client_errors_' = client_errors_ \cup {e}
ErrorIf(cond, e) == client_errors_' = client_errors_ \cup (IF cond THEN {e} ELSE {})

HasResponsePending == response_pending_ # NotSet
IsInGame == app_state_ = "normal" /\ latest_status_ = "in_game"
IsFinishedGame == app_state_ # "normal" \/ (~IsInGame /\ ~HasResponsePending)

\* A killed or crashed game is a child nobody waits for: except on Windows its
\* entry in the process table, which is what IsProcessRunning looks at, remains.
IsProcessRunning == process # "dead" \/ ~Windows

ControlInit ==
    /\ Init
    /\ pc = "connect" /\ task = "none" /\ diagnosing = FALSE
    /\ realtime \in Realtime
    /\ response_pending_ = NotSet /\ latest_status_ = "unknown"
    /\ app_state_ = "normal" /\ client_errors_ = {}
    /\ current_game_loop_ = NoLoop /\ previous_game_loop = NoLoop
    /\ process = "running" /\ status = "launched" /\ gameLoop = 0
    /\ kind = <<>>
    /\ answers = [r \in Requests |-> [status |-> "unknown", error |-> FALSE, loop |-> 0]]
    /\ stepped = NoLoop /\ staleStep = FALSE /\ gameEnds = 0 /\ stopped = FALSE

-----------------------------------------------------------------------------
(* Where the client thread goes on.                                        *)

\* The end of step_agent, and of the WaitStep or, in real time, the GetObservation in it.
AgentDone == IF realtime \/ MultiThreaded THEN "check" ELSE "second"
StepDone  == IF realtime THEN "events" ELSE IF MultiThreaded THEN "callOnStep" ELSE "second"

\* The end of the first SendActions.
ActionDone == IF realtime THEN "agentEnds" ELSE "feature"

\* SendRequest returned false.  The result of Step is ignored: WaitStep waits.
WhenRefused ==
    [connect |-> "connect", create_game |-> "exited", join_game |-> "exited",
     join_observation |-> "joined", step |-> "receive", observation |-> StepDone,
     action |-> ActionDone, feature_action |-> "check", leave_game |-> "check",
     leave_now |-> "idle", quit |-> "quit"]

\* SendRequest returned true: whoever does not wait for the response goes on.
WhenSent ==
    [t \in Tasks |-> IF t \in {"leave_game", "leave_now", "quit"}
                      THEN WhenRefused[t] ELSE "receive"]

\* WaitForResponse returned null.  GetObservation reads through the null pointer.
WhenNull ==
    [connect |-> "connect", create_game |-> "exited", join_game |-> "joinCheck",
     join_observation |-> "segfault", step |-> StepDone, observation |-> "segfault",
     action |-> ActionDone, feature_action |-> "check", poll_leave |-> AgentDone,
     poll_leave_again |-> "check", consume |-> "waitAll"]

\* WaitForResponse returned a response with errors, or one of another kind.
WhenErrors ==
    [connect |-> "connect", create_game |-> "exited", join_game |-> "joinCheck",
     join_observation |-> "joined", step |-> StepDone, observation |-> StepDone,
     action |-> ActionDone, feature_action |-> "check", poll_leave |-> AgentDone,
     poll_leave_again |-> "check", consume |-> "waitAll"]

\* WaitForResponse returned what was asked for.
WhenGood ==
    [WhenErrors EXCEPT !.connect = "menu", !.create_game = "created", !.step = "observe"]

RequestKind ==
    [connect |-> "ping", create_game |-> "create_game", join_game |-> "join_game",
     join_observation |-> "observation", step |-> "step", observation |-> "observation",
     action |-> "action", feature_action |-> "action",
     leave_game |-> "leave_game", leave_now |-> "leave_game",
     poll_leave |-> "leave_game", poll_leave_again |-> "leave_game", quit |-> "quit",
     consume |-> response_pending_]
Kind == IF diagnosing THEN "ping" ELSE RequestKind[task]

\* Where there is a request.
Busy == {"request", "receive", "receiving", "diagnose", "terminate"}

Goto(p) ==
    /\ pc' = p /\ task' = IF p \in Busy THEN task ELSE "none"
    /\ UNCHANGED <<diagnosing, realtime>>
Ask(t) == pc' = "request" /\ task' = t /\ UNCHANGED <<diagnosing, realtime>>
Poll(t) == pc' = "receive" /\ task' = t /\ UNCHANGED <<diagnosing, realtime>>

-----------------------------------------------------------------------------
(* ProtoInterface.                                                         *)

\* ConnectToGame up to its Connect, which opens the socket ...
ConnectToGame ==
    /\ pc = "connect"
    /\ process # "dead"
    /\ latest_status_' = "unknown"
    /\ \E c \in Conns : Connect(c)
    /\ Goto("callback")
    /\ UNCHANGED <<response_pending_, app, loops, game, kind, events>>

\* ... or does not; ControlImp::Connect tries again for timeout_ms and then gives
\* up, which only an assertion of AttachClients looks at.
ConnectGivesUp ==
    /\ pc = "connect"
    /\ connection_ = NULL
    /\ Goto(IF NDEBUG THEN "menu" ELSE "exited")
    /\ UNCHANGED <<vars, proto, app, loops, game, kind, events>>

\* The callback is set when the worker is already running; PingGame is next.
ConnectToGameCallback ==
    /\ pc = "callback"
    /\ SetConnectionClosedCallback
    /\ Ask("connect")
    /\ UNCHANGED <<proto, app, loops, game, kind, events>>

\* SendRequest rebuilds a missing connection, without the callback ...
SendRequestConnect ==
    /\ pc = "request"
    /\ process # "dead"
    /\ \E c \in Conns : Connect(c)
    /\ UNCHANGED control

\* SendRequest returns false: WhenRefused for a caller, the end of the diagnosis for
\* the ping of WaitForResponse.
Refused(error) ==
    IF diagnosing
      THEN /\ pc' = "terminate" /\ diagnosing' = FALSE /\ UNCHANGED <<task, realtime>>
           /\ app_state_' = "timeout"
           /\ Error("SC2ProtocolTimeout")
      ELSE /\ Goto(WhenRefused[task])
           /\ client_errors_' = client_errors_ \cup error
           /\ UNCHANGED app_state_

\* ... or cannot rebuild it.
SendRequestNoConnection ==
    /\ pc = "request"
    /\ connection_ = NULL
    /\ Refused({})
    /\ UNCHANGED <<vars, proto, loops, game, kind, events>>

\* A request while a response is pending is refused, unless it is a ping.
SendRequestRefused ==
    /\ pc = "request"
    /\ connection_ # NULL
    /\ Kind # "ping" /\ HasResponsePending
    /\ Refused({"ResponseNotConsumed"})
    /\ UNCHANGED <<vars, proto, loops, game, kind, events>>

MayRequest == Len(via) < MaxRequests /\ (realtime => Len(via) < MaxRealtime)

\* The write of SendRequest, after which an answer is expected.
SendExpecting(expected) ==
    /\ MayRequest /\ Send
    /\ kind' = Append(kind, Kind)
    /\ response_pending_' = expected
    /\ Goto(IF diagnosing THEN "receive" ELSE WhenSent[task])
    /\ UNCHANGED <<latest_status_, app, loops, game, events>>

\* Faulty variants: requests do not wait for pending responses; what is expected is
\* named for the caller instead of the request.
SendRequestAlways == pc = "request" /\ SendExpecting(Kind)
SendRequestForTask ==
    pc = "request" /\ (Kind = "ping" \/ ~HasResponsePending) /\ SendExpecting(task)

SendRequest ==
    /\ pc = "request"
    /\ Kind = "ping" \/ ~HasResponsePending
    /\ SendExpecting(Kind)

\* WaitForResponseInternal calls Receive; the status is unknown until it returns.
WaitForResponseInternal ==
    /\ pc = "receive"
    /\ Receive
    /\ latest_status_' = "unknown"
    /\ Goto("receiving")
    /\ UNCHANGED <<response_pending_, app, loops, game, kind, events>>

\* Receive is under way.
Receiving ==
    /\ pc = "receiving"
    /\ clientPc # "returned"
    /\ ClientStep
    /\ UNCHANGED control

-----------------------------------------------------------------------------
(* What WaitForResponseInternal and WaitForResponse make of a response.    *)

\* GetObservation: UpdateObservation moves the game loops on.
TakesObservation(r) ==
    ~diagnosing /\ task \in {"join_observation", "observation"}
      /\ kind[r] = "observation" /\ ~answers[r].error

ObservationUpdate(r) ==
    IF TakesObservation(r)
      THEN current_game_loop_' = answers[r].loop /\ previous_game_loop' = current_game_loop_
      ELSE UNCHANGED loops

\* Faulty variant: the errors in a response are not recorded.
ResponseErrorsUnreported(r) == IF diagnosing THEN {"SC2UnknownStatus"} ELSE {}

\* The errors recorded for response r: of the protocol, of a response that does not
\* match, and of a ping answered although the request before it was not.
ResponseErrors(r) ==
    (IF ~answers[r].error /\ kind[r] # response_pending_ THEN {"ResponseMismatch"} ELSE {})
      \cup (IF diagnosing THEN {"SC2UnknownStatus"} ELSE {})
      \cup (IF answers[r].error /\ ~diagnosing /\ task # "connect"
              THEN {"SC2ProtocolError"} ELSE {})

\* Receive returned response r.
TakeResponse ==
    /\ pc = "receiving"
    /\ response # NULL
    /\ ReceiveReturn
    /\ LET r == response IN
         /\ latest_status_' = answers[r].status
         /\ response_pending_' = NotSet
         /\ client_errors_' = client_errors_ \cup ResponseErrors(r)
         /\ ObservationUpdate(r)
         /\ pc' = IF diagnosing THEN WhenNull[task]
                  ELSE IF answers[r].error \/ kind[r] # Kind THEN WhenErrors[task]
                  ELSE WhenGood[task]
    /\ task' = "none" /\ diagnosing' = FALSE
    /\ UNCHANGED <<realtime, app_state_, game, kind, events>>

\* Receive timed out: PingGame fails, the diagnosis finds an unresponsive game, any
\* other request is diagnosed.  response_pending_ stays as it was.
TakeTimeout ==
    /\ pc = "receiving"
    /\ clientPc = "returned" /\ response = NULL
    /\ ReceiveReturn
    /\ IF diagnosing
         THEN Refused({})
         ELSE /\ Goto(IF task = "connect" THEN "connect" ELSE "diagnose")
              /\ UNCHANGED app
    /\ UNCHANGED <<proto, loops, game, kind, events>>

\* WaitForResponse, step 1: tell a hang from a crash.
Diagnose ==
    /\ pc = "diagnose"
    /\ IF IsProcessRunning
         THEN /\ pc' = "request" /\ diagnosing' = TRUE /\ UNCHANGED <<task, realtime>>
              /\ UNCHANGED app
         ELSE /\ app_state_' = "crashed"
              /\ Error("SC2AppFailure")
              /\ Goto(WhenNull[task])
    /\ UNCHANGED <<vars, proto, loops, game, kind, events>>

\* The game hangs: kill it, up to ten times, and look whether it is gone.  A kill may fail,
\* and the game live on.  The look does not tell: on Windows TerminateProcess forgets the
\* process, whatever has become of it; elsewhere it is still there, killed or not.
Terminate ==
    /\ pc = "terminate"
    /\ process' \in {process, "dead"}
    /\ app_state_' = IF Windows THEN "timeout" ELSE "timeout_zombie"
    /\ Error("SC2AppFailure")
    /\ Goto(WhenNull[task])
    /\ UNCHANGED <<vars, proto, loops, status, gameLoop, answers, kind, events>>

-----------------------------------------------------------------------------
(* The coordinator with one agent.                                         *)

\* Coordinator::StartGame creates the game and joins it ...
CreateGame ==
    /\ pc = "menu"
    /\ Ask("create_game")
    /\ UNCHANGED <<vars, proto, app, loops, game, kind, events>>

StartGameJoins ==
    /\ pc = "created"
    /\ Ask("join_game")
    /\ UNCHANGED <<vars, proto, app, loops, game, kind, events>>

\* ... and JoinGame alone joins a game somebody else has created.
JoinGame ==
    /\ pc = "menu"
    /\ Ask("join_game")
    /\ UNCHANGED <<vars, proto, app, loops, game, kind, events>>

\* JoinGame ends at an error; otherwise the first observation is fetched.
JoinGameCheck ==
    /\ pc = "joinCheck"
    /\ IF client_errors_ # {} THEN Goto("idle") ELSE Ask("join_observation")
    /\ UNCHANGED <<vars, proto, app, loops, game, kind, events>>

\* IssueEvents: the events of the observation, OnStep the last of them, unless the
\* last observation has not moved the game loop.
IssueEvents ==
    IF current_game_loop_ = previous_game_loop
      THEN UNCHANGED <<stepped, staleStep>>
      ELSE /\ stepped' = current_game_loop_
           /\ staleStep' = (staleStep \/ stepped = current_game_loop_)

\* The end of JoinGame.
GameStarted ==
    /\ pc = "joined"
    /\ IssueEvents
    /\ Goto("idle")
    /\ UNCHANGED <<vars, proto, app, loops, game, kind, gameEnds, stopped>>

\* Update: another round of StepAgents.
Update ==
    /\ pc = "idle"
    /\ Goto("first")
    /\ UNCHANGED <<vars, proto, app, loops, game, kind, events>>

\* WaitForAllResponses, with something to wait for ...
WaitForAllResponses ==
    /\ pc = "idle"
    /\ HasResponsePending /\ app_state_ = "normal"
    /\ Goto("waitAll")
    /\ UNCHANGED <<vars, proto, app, loops, game, kind, events>>

\* ... consumes the answer that PollResponse finds and looks again ...
ConsumeResponse ==
    /\ pc = "waitAll"
    /\ HasResponsePending /\ app_state_ = "normal" /\ has_response_
    /\ Poll("consume")
    /\ UNCHANGED <<vars, proto, app, loops, game, kind, events>>

\* ... until none is missing ...
NothingToWaitFor ==
    /\ pc = "waitAll"
    /\ ~HasResponsePending \/ app_state_ # "normal"
    /\ Goto("idle")
    /\ UNCHANGED <<vars, proto, app, loops, game, kind, events>>

\* Faulty variant: the sleeps are added up only when there was an answer to consume.
WaitGivesUpAnswered ==
    /\ pc = "waitAll" /\ has_response_
    /\ Goto(IF NDEBUG THEN "idle" ELSE "exited")
    /\ UNCHANGED <<vars, proto, app, loops, game, kind, events>>

\* ... or its sleeps add up to timeout_ms, however long the rest has taken, which is
\* looked at after an answer has been consumed, too.
WaitGivesUp ==
    /\ pc = "waitAll"
    /\ Goto(IF NDEBUG THEN "idle" ELSE "exited")
    /\ UNCHANGED <<vars, proto, app, loops, game, kind, events>>

\* PollLeaveGame returns false: it has nothing to do with leaving a game.
NotLeaving == ~Multiplayer \/ (response_pending_ # "leave_game" /\ IsInGame)

\* What PollLeaveGame does and where it takes its caller when it returns true, with
\* the answer to LeaveGame (again) taken by t, or at once to p.
PollLeaveGame(t, p) ==
    /\ Multiplayer
    /\ \/ /\ response_pending_ # "leave_game" /\ ~IsInGame
          /\ ErrorIf(HasResponsePending, "ResponseNotConsumed")
          /\ Goto(p)
       \/ /\ response_pending_ = "leave_game" /\ ~has_response_
          /\ Goto(p)
          /\ UNCHANGED client_errors_
       \/ /\ response_pending_ = "leave_game" /\ has_response_
          /\ Poll(t)
          /\ UNCHANGED client_errors_

\* step_agent of StepAgents and StepAgentsRealtime: not for a failed game, not while
\* leaving, not after the game; else Step and WaitStep, in real time GetObservation.
StepAgent ==
    /\ pc = "first"
    /\ \/ /\ app_state_ # "normal"
          /\ Goto(AgentDone)
          /\ UNCHANGED client_errors_
       \/ /\ app_state_ = "normal"
          /\ PollLeaveGame("poll_leave", AgentDone)
       \/ /\ app_state_ = "normal" /\ NotLeaving
          /\ ErrorIf(Multiplayer /\ HasResponsePending, "ResponseNotConsumed")
          /\ IF IsFinishedGame THEN Goto(AgentDone)
             ELSE Ask(IF realtime THEN "observation" ELSE "step")
    /\ UNCHANGED <<vars, proto, app_state_, loops, game, kind, events>>

\* WaitStep goes on with GetObservation.
Observe ==
    /\ pc = "observe"
    /\ Ask("observation")
    /\ UNCHANGED <<vars, proto, app, loops, game, kind, events>>

\* The second loop of StepAgents, without multi_threaded.
SecondLoop ==
    /\ pc = "second"
    /\ \/ /\ app_state_ # "normal"
          /\ Goto("check")
          /\ UNCHANGED client_errors_
       \/ /\ app_state_ = "normal"
          /\ PollLeaveGame("poll_leave_again", "check")
       \/ /\ app_state_ = "normal" /\ NotLeaving
          /\ ErrorIf(Multiplayer /\ HasResponsePending, "ResponseNotConsumed")
          /\ Goto("callOnStep")
    /\ UNCHANGED <<vars, proto, app_state_, loops, game, kind, events>>

\* CallOnStep after the game: OnGameEnd, and RequestLeaveGame in multiplayer.
CallOnGameEnd ==
    /\ pc = "callOnStep"
    /\ ~IsInGame
    /\ gameEnds' = IF gameEnds = 2 THEN 2 ELSE gameEnds + 1
    /\ IF Multiplayer THEN Ask("leave_game") ELSE Goto("check")
    /\ UNCHANGED <<vars, proto, app, loops, game, kind, stepped, staleStep, stopped>>

\* CallOnStep in the game: the events, then the actions the agent has asked for.
CallOnStep ==
    /\ pc = "callOnStep"
    /\ IsInGame
    /\ IssueEvents
    /\ Ask("action") \/ Goto("feature")
    /\ UNCHANGED <<vars, proto, app, loops, game, kind, gameEnds, stopped>>

\* StepAgentsRealtime issues the events first ...
RealtimeEvents ==
    /\ pc = "events"
    /\ IssueEvents
    /\ Ask("action") \/ Goto("agentEnds")
    /\ UNCHANGED <<vars, proto, app, loops, game, kind, gameEnds, stopped>>

\* ... and looks for the end of the game after the actions.
RealtimeEnds ==
    /\ pc = "agentEnds"
    /\ IF IsInGame
         THEN Goto("check") /\ UNCHANGED gameEnds
         ELSE /\ gameEnds' = IF gameEnds = 2 THEN 2 ELSE gameEnds + 1
              /\ IF Multiplayer THEN Ask("leave_game") ELSE Goto("check")
    /\ UNCHANGED <<vars, proto, app, loops, game, kind, stepped, staleStep, stopped>>

\* The second SendActions of CallOnStep, of the feature layer.
CallOnStepFeatureLayer ==
    /\ pc = "feature"
    /\ Ask("feature_action") \/ Goto("check")
    /\ UNCHANGED <<vars, proto, app, loops, game, kind, events>>

\* The return of Update, with false if it shall stop.
ReturnStopping(stop) ==
    /\ pc = "check"
    /\ stopped' = (stopped \/ stop)
    /\ Goto("idle")
    /\ UNCHANGED <<vars, proto, app, loops, game, kind, stepped, staleStep, gameEnds>>

\* Faulty variant: only errors stop the loop.
UpdateReturnsUnlessError == ReturnStopping(client_errors_ # {})

\* The end of Update: OnError and false for an error, else whether the game goes on.
UpdateReturns == ReturnStopping(client_errors_ # {} \/ ~(IsInGame \/ HasResponsePending))

\* Coordinator::LeaveGame.
LeaveGame ==
    /\ pc = "idle"
    /\ Multiplayer
    /\ Ask("leave_now")
    /\ UNCHANGED <<vars, proto, app, loops, game, kind, events>>

\* The agent is destroyed: ~ControlImp calls Quit of ProtoInterface ...
Destroy ==
    /\ pc \in {"menu", "idle"}
    /\ Ask("quit")
    /\ UNCHANGED <<vars, proto, app, loops, game, kind, events>>

\* ... which disconnects whether or not the game has been told.
ProtoQuit ==
    /\ pc = "quit"
    /\ Quit \/ Disconnect \/ Disconnected \/ DisconnectNull
    /\ UNCHANGED control

-----------------------------------------------------------------------------
(* The civetweb threads and the game.                                      *)

\* A worker of Connection; its closed callback is ControlImp::Error.
WorkerRuns(c) ==
    /\ WorkerStep(c)
    /\ ErrorIf(notified' # notified, "ConnectionClosed")
    /\ UNCHANGED <<thread, proto, app_state_, loops, game, kind, events>>

\* In real time the game goes on by itself: its loop shows in the next observation, its
\* end in the next answer of any kind.
GamePlays(k) ==
    \/ UNCHANGED <<status, gameLoop>>
    \/ /\ realtime /\ status = "in_game"
       /\ status' = "ended" \/ (k = "observation" /\ UNCHANGED status)
       /\ gameLoop' = gameLoop + 1

\* What the game makes of a request of kind k that it carries out.
Serves(k) ==
    CASE k = "create_game" -> status' = "init_game" /\ UNCHANGED gameLoop
      [] k = "join_game"   -> status' = "in_game" /\ UNCHANGED gameLoop
      [] k = "leave_game"  -> status' = "launched" /\ UNCHANGED gameLoop
      [] k = "step"        -> /\ status = "in_game"
                              /\ status' \in {"in_game", "ended"}
                              /\ gameLoop' = gameLoop + 1
      [] OTHER             -> GamePlays(k)

\* The game answers a request: it has done it, or it says why not.
GameAnswers(c) ==
    /\ process = "running"
    /\ GameResponds(c)
    /\ LET r == Head(requests[c]) IN \E error \in BOOLEAN :
         /\ IF error THEN kind[r] # "ping" /\ GamePlays(kind[r])
                     ELSE Serves(kind[r])
         /\ answers' = [answers EXCEPT ![r] =
                          [status |-> status', error |-> error, loop |-> gameLoop']]
    /\ UNCHANGED <<process, thread, proto, app, loops, kind, events>>

\* The game closes the socket, alone or because it dies.
GameEndsConnection(c) ==
    /\ GameCloses(c)
    /\ process' \in {process, "dead"}
    /\ UNCHANGED <<status, gameLoop, answers, thread, proto, app, loops, kind, events>>

\* The game stops answering, or dies while no socket is open.
GameFails ==
    /\ \/ process = "running" /\ process' = "hung"
       \/ process # "dead" /\ process' = "dead" /\ \A c \in Conns : ~peerOpen[c]
    /\ UNCHANGED <<vars, status, gameLoop, answers, thread, proto, app, loops, kind, events>>

-----------------------------------------------------------------------------
(* The specification.                                                      *)

\* The agent is gone, or its process has ended.
Gone ==
    /\ clientPc = "destroyed" \/ pc \in {"exited", "segfault"}
    /\ UNCHANGED allVars

\* The bounds on requests and connections end a behaviour.
OutOfRequests == pc = "request" /\ connection_ # NULL /\ ~MayRequest
OutOfConnections ==
    /\ pc \in {"connect", "request"} /\ connection_ = NULL
    /\ \A c \in Conns : workerPc[c] # "none"
AtBound == (OutOfRequests \/ OutOfConnections) /\ UNCHANGED allVars

ControlStep ==
    \/ ConnectToGame \/ ConnectGivesUp \/ ConnectToGameCallback
    \/ SendRequestConnect \/ SendRequestNoConnection \/ SendRequestRefused
    \/ SendRequest \/ WaitForResponseInternal \/ Receiving
    \/ TakeResponse \/ TakeTimeout \/ Diagnose \/ Terminate
    \/ StartGameJoins \/ JoinGameCheck \/ GameStarted
    \/ StepAgent \/ Observe \/ SecondLoop
    \/ CallOnGameEnd \/ CallOnStep \/ CallOnStepFeatureLayer
    \/ RealtimeEvents \/ RealtimeEnds \/ UpdateReturns
    \/ ConsumeResponse \/ NothingToWaitFor \/ WaitGivesUp
    \/ ProtoQuit

\* The calls of the program around the coordinator.
UserCall == CreateGame \/ JoinGame \/ Update \/ WaitForAllResponses \/ LeaveGame \/ Destroy

ControlNext ==
    \/ UserCall \/ ControlStep \/ GameFails
    \/ \E c \in Conns : WorkerRuns(c) \/ GameAnswers(c) \/ GameEndsConnection(c)
    \/ Gone \/ AtBound

ControlSpec == ControlInit /\ [][ControlNext]_allVars

\* The client thread runs, and so do the civetweb threads; nothing is asked of the
\* game or of the program.
ControlFairSpec ==
    /\ ControlSpec
    /\ WF_allVars(ControlStep)
    /\ \A c \in Conns : WF_allVars(WorkerRuns(c))

-----------------------------------------------------------------------------
(* Properties.                                                             *)

Pcs == {"connect", "callback", "request", "receive", "receiving", "diagnose",
        "terminate", "menu", "created", "joinCheck", "joined", "idle", "waitAll", "first", "observe",
        "second", "callOnStep", "feature", "events",
        "agentEnds", "check", "quit", "exited", "segfault"}

\* The type invariant of the control layer.
ControlTypeOK ==
    /\ pc \in Pcs /\ task \in Tasks /\ diagnosing \in BOOLEAN /\ realtime \in BOOLEAN
    /\ response_pending_ \in Kinds \cup {NotSet}
    /\ latest_status_ \in Statuses
    /\ app_state_ \in {"normal", "timeout", "timeout_zombie", "crashed"}
    /\ client_errors_ \subseteq {"ResponseNotConsumed", "ResponseMismatch",
          "ConnectionClosed", "SC2UnknownStatus", "SC2AppFailure", "SC2ProtocolError",
          "SC2ProtocolTimeout"}
    /\ {current_game_loop_, previous_game_loop, stepped} \subseteq Nat \cup {NoLoop}
    /\ process \in {"running", "hung", "dead"}
    /\ status \in Statuses \ {"unknown"}
    /\ gameLoop \in Nat
    /\ kind \in Seq(Kinds) /\ Len(kind) = Len(via)
    /\ answers \in [Requests -> [status : Statuses, error : BOOLEAN, loop : Nat]]
    /\ staleStep \in BOOLEAN /\ gameEnds \in 0 .. 2 /\ stopped \in BOOLEAN

\* "This library is not written for" new requests while responses are pending
\* (SendRequest): however requests are refused, lost, timed out or pinged over, no
\* connection ever carries two that are unanswered.
OneRequestInFlight == Len(Outstanding) <= 1

\* No response is ever taken for the answer to another request.
ResponsesMatch == "ResponseMismatch" \notin client_errors_

\* When PollLeaveGame finds the response flag set it does not block: the answer to
\* the leave request is there.  The flag a timeout leaves behind (see
\* PollResponseMeansQueued) has been reset by the answer to a ping by then.
LeaveAnswerIsThere ==
    pc \in {"idle", "waitAll", "first", "second"} /\ app_state_ = "normal"
      /\ response_pending_ = "leave_game" /\ has_response_ => queue_ # <<>>

\* An agent's OnStep runs again with the observation it has seen only when something
\* went wrong that OnError will tell it, never silently.
StaleStepIsReported == staleStep => client_errors_ # {}

\* OnGameEnd is not repeated as long as Update says that the game goes on, whatever
\* becomes of the request to leave it.
GameEndsOnce == ~stopped => gameEnds <= 1

\* Whoever has observed a game in play and sees it ended at the return of a coordinator
\* call has had OnGameEnd, or will be told of an error (a request to leave the game may be
\* refused because it has ended).  "Called when a game has ended." (sc2_client.h)
EndIsAnnounced ==
    pc = "idle" /\ client_errors_ = {} /\ latest_status_ = "ended"
      /\ (\E r \in DOMAIN kind : kind[r] = "observation" /\ answers[r].status = "in_game")
      => gameEnds > 0

\* A game that has been given up, and that a failed kill may have left alive, is asked for
\* nothing more, and never waited for: "assert(app_state_ == AppState::normal)"
\* (WaitForResponse).
GivenUpIsLeftAlone ==
    [][app_state_ # "normal" =>
         kind' = kind /\ pc' \notin {"receive", "receiving", "diagnose"}]_allVars

\* The end of a game process is called a crash: "if there was a crash it should have
\* finished by now" (WaitForResponse), so the look at the process table tells.
CrashIsDetected ==
    [][pc = "diagnose" /\ process = "dead" /\ pc' # pc => app_state_' = "crashed"]_allVars

\* A game that fails while it is observed reaches OnError like any other: "a list of
\* errors encountered" (ClientError).  The client thread survives GetObservation.
ObservationSurvivesFailure == pc # "segfault"

\* Where no call into the coordinator is under way.
CallEnds ==
    pc \in {"idle", "menu", "exited", "segfault"} \/ clientPc = "destroyed"
      \/ OutOfRequests \/ OutOfConnections

\* A call into the coordinator returns, whatever the game does: it hangs, dies,
\* loses a response or closes the socket.
CoordinatorReturns == []<>CallEnds

-----------------------------------------------------------------------------
(* The inductive invariant behind the safety properties.                   *)

ReceivePcs == {"waiting", "ready", "timedOut", "popping", "disconnecting", "joining",
               "clearing", "returned"}
QuitPcs == {"quitting", "quitJoining", "destroyed"}

\* The client thread is inside a call of Connection exactly while pc says so.
CallInv ==
    /\ pc = "receiving" <=> clientPc \in ReceivePcs
    /\ clientPc \in QuitPcs => pc = "quit"

AskTasks == {"connect", "create_game", "join_game", "join_observation", "step",
             "observation", "action", "feature_action", "leave_game", "leave_now", "quit"}
PollTasks == {"poll_leave", "poll_leave_again", "consume"}
WaitTasks == (AskTasks \ {"leave_game", "leave_now", "quit"}) \cup PollTasks

\* A task is there while there is a request, and the tables have an entry for it
\* wherever one is looked up.
TaskInv ==
    /\ pc \notin Busy => task = "none"
    /\ pc = "request" /\ ~diagnosing => task \in AskTasks
    /\ pc \in {"receive", "receiving"} => task \in WaitTasks
    /\ pc \in {"diagnose", "terminate"} \/ diagnosing => task \in WaitTasks \ {"connect"}
    /\ diagnosing => pc \in {"request", "receive", "receiving"}
    /\ pc = "request" /\ task \in {"leave_game", "leave_now"} => Multiplayer
    /\ pc = "request" /\ task = "leave_game" => gameEnds > 0

\* Unanswered is at most the last request, and it is the one expected.  A ping, which
\* alone does not wait for the pending response, goes to a new connection.
FlightInv ==
    /\ Outstanding \in {<<>>, <<Len(via)>>}
    /\ Outstanding # <<>> => response = NULL /\ kind[Len(via)] = response_pending_
    /\ response # NULL => response = Len(via) /\ kind[response] = response_pending_
    /\ pc = "callback" \/ (pc = "request" /\ Kind = "ping") => Outstanding = <<>>
    /\ pc = "diagnose" => connection_ = NULL

\* What the game has answered last is what it is like now.
Current(r) ==
    /\ answers[r].status = status /\ answers[r].loop = gameLoop
    /\ kind[r] = "leave_game" /\ ~answers[r].error => status = "launched"
AnswerInv ==
    /\ response # NULL => Current(response)
    /\ Outstanding # <<>> /\ requests[connection_] = <<>> => Current(Len(via))
    /\ \A r \in Requests : r > Len(via) => answers[r].status = "unknown"

\* Between two requests of the game loop.
PlayTasks == {"join_observation", "step", "observation", "action", "feature_action",
              "leave_game", "leave_now"}
Settled ==
    \/ pc \in {"created", "joinCheck", "joined", "idle", "waitAll", "first", "observe",
               "second", "callOnStep", "feature", "events", "agentEnds", "check"}
    \/ pc = "request" /\ ~diagnosing /\ task \in PlayTasks

\* There, as long as the game is not given up for failed, the connection is up, only the
\* answer to a request to leave the game may be pending, the flag of the queue is right, and
\* the client knows the status of the game.
SettledInv ==
    Settled /\ app_state_ = "normal" =>
        /\ connection_ # NULL
        /\ \/ response_pending_ = NotSet
           \/ /\ response_pending_ = "leave_game" /\ Multiplayer
              /\ pc \in {"idle", "waitAll", "first", "second", "check"} \/ task = "leave_now"
        /\ has_response_ => queue_ # <<>>
        /\ response_pending_ = NotSet => latest_status_ = status

\* Nobody waits without a request that is pending, and what a game that has been given up
\* has not answered stays pending.
GivenUpInv ==
    /\ pc \in {"receive", "receiving", "diagnose", "terminate"} \/ diagnosing
         \/ app_state_ # "normal" => HasResponsePending
    /\ app_state_ # "normal" =>
         /\ ~diagnosing /\ pc \notin {"connect", "callback", "receive", "receiving", "diagnose"}
         /\ pc = "request" => task \notin {"connect", "step"}

\* While an answer is awaited.  Whoever waits because of PollResponse does not wait for
\* long.
WaitInv ==
    /\ pc \in {"receive", "receiving"} /\ ~diagnosing /\ client_errors_ = {}
         => response_pending_ = Kind
    /\ response # NULL /\ has_response_ => queue_ # <<>>
    /\ task \in PollTasks =>
         /\ ~diagnosing /\ app_state_ = "normal" /\ Multiplayer
         /\ response_pending_ = "leave_game"
         /\ \/ pc = "receive" /\ queue_ # <<>>
            \/ pc = "receiving" /\ clientPc \in {"waiting", "ready", "popping"} /\ queue_ # <<>>
            \/ pc = "receiving" /\ response # NULL

\* The errors: what they tell of, and what is not among them.
ErrorInv ==
    /\ app_state_ # "normal" => client_errors_ # {}
    /\ ResponsesMatch
    /\ StaleStepIsReported

\* OnStep has not been called with the last observation, or would not be.
StepIsFresh == stepped < current_game_loop_ \/ current_game_loop_ = previous_game_loop

\* Where OnStep is next, there is a fresh observation, or OnError will be told.
FreshInv ==
    /\ stepped <= current_game_loop_ /\ current_game_loop_ <= gameLoop
    /\ client_errors_ = {} =>
         /\ pc \in {"joined", "events"} => StepIsFresh
         /\ pc = "callOnStep" /\ IsInGame => StepIsFresh
         /\ pc = "second" /\ IsInGame /\ response_pending_ = NotSet => StepIsFresh

\* Where OnGameEnd has been called and the program has not been told to stop, the game
\* is not in play and Update does not come to OnGameEnd again.
OverInv ==
    gameEnds > 0 /\ ~stopped =>
        /\ gameEnds = 1
        /\ pc \notin {"quit", "exited"} /\ ~(pc = "request" /\ task = "quit") =>
             /\ \/ pc = "check"
                \/ /\ Multiplayer
                   /\ \/ pc \in {"idle", "waitAll", "first", "second"}
                      \/ pc = "request" /\ ~diagnosing /\ task \in {"leave_game", "leave_now"}
                      \/ task \in PollTasks
             /\ app_state_ = "normal" => status # "in_game" /\ latest_status_ # "in_game"

ControlInv ==
    /\ ControlTypeOK
    /\ CallInv /\ TaskInv
    /\ FlightInv /\ AnswerInv
    /\ SettledInv /\ GivenUpInv /\ WaitInv
    /\ ErrorInv /\ FreshInv /\ OverInv

\* The agent has observed the game in play.
Seen == \E r \in DOMAIN kind : kind[r] = "observation" /\ answers[r].status = "in_game"

\* A request of one of the given tasks is made or waited for.
Asking(tasks) ==
    pc \in {"request", "receive", "receiving"} /\ ~diagnosing /\ task \in tasks

\* Before the first observation is asked for.
Unobserved ==
    \/ pc \in {"connect", "callback", "menu", "created", "joinCheck"}
    \/ pc \in Busy /\ task \in {"connect", "create_game", "join_game"}

\* The modes: where only some of them lead.
ModeInv ==
    /\ realtime \in Realtime
    /\ MultiThreaded \/ realtime => pc # "second"
    /\ realtime => pc \notin {"callOnStep", "feature"} /\ task # "feature_action"
    /\ ~realtime => pc \notin {"events", "agentEnds"}

\* The observations begin with that of JoinGame.
ObservedInv ==
    \A r \in DOMAIN kind : kind[r] = "observation" =>
      /\ ~Unobserved
      /\ Asking({"join_observation"}) => pc # "request" /\ r = Len(kind)

\* The end of a game that has been observed is not missed.
NotMissedInv ==
    client_errors_ = {} /\ Seen =>
      /\ Asking({"join_observation"}) => status = "in_game"
      /\ ~realtime /\ (pc = "feature" \/ Asking({"action", "feature_action"}))
           => status = "in_game"
      /\ gameEnds = 0 /\ (pc \in {"joined", "idle", "waitAll", "first", "check"} \/ task = "leave_now")
           => latest_status_ # "ended"

\* What EndIsAnnounced needs besides, where the second loop of StepAgents (without
\* multi_threaded) does not take the end of a multiplayer game away from CallOnStep.
EndModes == MultiThreaded \/ ~Multiplayer \/ Realtime \subseteq {TRUE}
EndInv == ModeInv /\ ObservedInv /\ NotMissedInv
=============================================================================
