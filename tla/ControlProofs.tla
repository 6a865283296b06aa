---------------------------- MODULE ControlProofs ----------------------------
(***************************************************************************)
(* Proofs about Control: it uses Connection only through the steps of      *)
(* Connection, so whatever ConnectionProofs shows of a connection holds    *)
(* under the control layer too, for any number of connections and requests *)
(* and every setting of the options; and ControlInv is an invariant of the *)
(* coordinator and its agent.                                              *)
(*                                                                         *)
(* One lemma per conjunct of ControlInv, one step of its proof per action  *)
(* or group of actions that can disturb it.  Each relies on the whole of   *)
(* ControlInv and on IndInv, the invariant of the connection underneath,   *)
(* and uses the steps of Connection only through what ChannelProofs says   *)
(* they do to the outstanding requests.                                    *)
(*                                                                         *)
(* The end of a game is announced: where an agent has observed its game in *)
(* play, no coordinator call returns with the game ended before OnGameEnd  *)
(* has been called, unless OnError will tell of an error.  That does not   *)
(* hold where StepAgents runs its second loop for a multiplayer game.      *)
(***************************************************************************)
EXTENDS Control, ChannelProofs

\* The loop of WaitForAllResponses.
Awaits == ConsumeResponse \/ NothingToWaitFor \/ WaitGivesUp

-----------------------------------------------------------------------------
(* What the connection guarantees.                                         *)

\* The control layer starts with a fresh connection, and each of its steps is a step
\* of the connection or leaves it alone.
LEMMA ControlStepUsesConnection == [ControlNext]_allVars => [Next]_vars
<1> SUFFICES ASSUME ControlNext PROVE Next \/ UNCHANGED vars
  BY DEF allVars
<1> USE DEF Next, ClientCall, ClientStep
<1>1. CASE UserCall \/ Awaits
  BY <1>1 DEF UserCall, CreateGame, JoinGame, Update, WaitForAllResponses, Awaits,
     ConsumeResponse, NothingToWaitFor, WaitGivesUp,
                  LeaveGame, Destroy
<1>2. CASE GameFails
  BY <1>2 DEF GameFails
<1>3. CASE Gone \/ AtBound
  BY <1>3 DEF Gone, AtBound, allVars
<1>4. ASSUME NEW c \in Conns, WorkerRuns(c) \/ GameAnswers(c) \/ GameEndsConnection(c)
      PROVE  Next
  BY <1>4 DEF WorkerRuns, GameAnswers, GameEndsConnection, GameStep
<1>5. CASE ControlStep
  <2>1. CASE ConnectToGame \/ ConnectGivesUp \/ ConnectToGameCallback
    BY <2>1 DEF ConnectToGame, ConnectGivesUp, ConnectToGameCallback
  <2>2. CASE SendRequestConnect \/ SendRequestNoConnection \/ SendRequestRefused
    BY <2>2 DEF SendRequestConnect, SendRequestNoConnection, SendRequestRefused
  <2>3. CASE SendRequest \/ WaitForResponseInternal \/ Receiving
    BY <2>3 DEF SendRequest, SendExpecting, WaitForResponseInternal, Receiving
  <2>4. CASE TakeResponse \/ TakeTimeout
    BY <2>4 DEF TakeResponse, TakeTimeout
  <2>5. CASE Diagnose \/ Terminate \/ StartGameJoins \/ JoinGameCheck \/ GameStarted
    BY <2>5 DEF Diagnose, Terminate, StartGameJoins, JoinGameCheck, GameStarted
  <2>6. CASE StepAgent \/ Observe \/ SecondLoop
    BY <2>6 DEF StepAgent, Observe, SecondLoop
  <2>7. CASE CallOnGameEnd \/ CallOnStep \/ CallOnStepFeatureLayer \/ UpdateReturns
    BY <2>7 DEF CallOnGameEnd, CallOnStep, CallOnStepFeatureLayer, UpdateReturns,
                ReturnStopping
  <2>7a. CASE RealtimeEvents \/ RealtimeEnds
    BY <2>7a DEF RealtimeEvents, RealtimeEnds
  <2>8. CASE ProtoQuit
    BY <2>8 DEF ProtoQuit
  <2>9. QED
    BY <1>1, <1>5, <2>1, <2>2, <2>3, <2>4, <2>5, <2>6, <2>7, <2>7a, <2>8 DEF ControlStep, Awaits
<1>6. QED
  BY <1>1, <1>2, <1>3, <1>4, <1>5 DEF ControlNext

\* The control layer implements the connection: every behaviour of the coordinator and
\* its agent is one of sc2::Connection.
THEOREM UsesConnection == ControlSpec => Spec
<1>1. ControlInit => Init
  BY DEF ControlInit
<1>2. QED
  BY <1>1, ControlStepUsesConnection, PTL DEF ControlSpec, Spec

\* Under the coordinator, too, no answer to a request of an earlier connection is
\* handed out, and none is handed out twice or out of order.
THEOREM AnswersAreFresh == ControlSpec => [](NoStaleResponse /\ DeliveredInOrder)
  BY UsesConnection, Fresh, InOrder, PTL

\* Whatever happens in ~ControlImp, the worker threads are gone before the object is.
THEOREM DestroyedAlone == ControlSpec => []NoCallbackAfterQuit
<1>1. ClearRunsAlone /\ NoCallbackAfterQuit => NoCallbackAfterQuit
  OBVIOUS
<1>2. QED
  BY <1>1, UsesConnection, Alone, PTL

-----------------------------------------------------------------------------
(* The tables.                                                             *)

LEMMA RefusedTable ==
    /\ WhenRefused["connect"] = "connect"
    /\ WhenRefused["create_game"] = "exited" /\ WhenRefused["join_game"] = "exited"
    /\ WhenRefused["join_observation"] = "joined" /\ WhenRefused["step"] = "receive"
    /\ WhenRefused["observation"] = StepDone /\ WhenRefused["action"] = ActionDone
    /\ WhenRefused["feature_action"] = "check" /\ WhenRefused["leave_game"] = "check"
    /\ WhenRefused["leave_now"] = "idle" /\ WhenRefused["quit"] = "quit"
  BY DEF WhenRefused

LEMMA SentTable ==
    ASSUME NEW t \in AskTasks
    PROVE  IF t \in {"leave_game", "leave_now", "quit"}
             THEN WhenSent[t] = WhenRefused[t] ELSE WhenSent[t] = "receive"
  BY DEF WhenSent, AskTasks, Tasks

LEMMA NullTable ==
    /\ WhenNull["connect"] = "connect"
    /\ WhenNull["create_game"] = "exited" /\ WhenNull["join_game"] = "joinCheck"
    /\ WhenNull["join_observation"] = "segfault" /\ WhenNull["step"] = StepDone
    /\ WhenNull["observation"] = "segfault" /\ WhenNull["action"] = ActionDone
    /\ WhenNull["feature_action"] = "check" /\ WhenNull["poll_leave"] = AgentDone
    /\ WhenNull["poll_leave_again"] = "check" /\ WhenNull["consume"] = "waitAll"
  BY DEF WhenNull

LEMMA ErrorsTable ==
    /\ WhenErrors["connect"] = "connect"
    /\ WhenErrors["create_game"] = "exited" /\ WhenErrors["join_game"] = "joinCheck"
    /\ WhenErrors["join_observation"] = "joined" /\ WhenErrors["step"] = StepDone
    /\ WhenErrors["observation"] = StepDone /\ WhenErrors["action"] = ActionDone
    /\ WhenErrors["feature_action"] = "check" /\ WhenErrors["poll_leave"] = AgentDone
    /\ WhenErrors["poll_leave_again"] = "check" /\ WhenErrors["consume"] = "waitAll"
  BY DEF WhenErrors

LEMMA GoodTable ==
    /\ WhenGood["connect"] = "menu"
    /\ WhenGood["create_game"] = "created" /\ WhenGood["join_game"] = "joinCheck"
    /\ WhenGood["join_observation"] = "joined" /\ WhenGood["step"] = "observe"
    /\ WhenGood["observation"] = StepDone /\ WhenGood["action"] = ActionDone
    /\ WhenGood["feature_action"] = "check" /\ WhenGood["poll_leave"] = AgentDone
    /\ WhenGood["poll_leave_again"] = "check" /\ WhenGood["consume"] = "waitAll"
  BY DEF WhenGood, WhenErrors

LEMMA KindTable ==
    /\ RequestKind["connect"] = "ping"
    /\ RequestKind["create_game"] = "create_game" /\ RequestKind["join_game"] = "join_game"
    /\ RequestKind["join_observation"] = "observation" /\ RequestKind["step"] = "step"
    /\ RequestKind["observation"] = "observation" /\ RequestKind["action"] = "action"
    /\ RequestKind["feature_action"] = "action" /\ RequestKind["leave_game"] = "leave_game"
    /\ RequestKind["leave_now"] = "leave_game" /\ RequestKind["poll_leave"] = "leave_game"
    /\ RequestKind["poll_leave_again"] = "leave_game" /\ RequestKind["quit"] = "quit"
    /\ RequestKind["consume"] = response_pending_
  BY DEF RequestKind

\* Where a task may lead: when it is over, out of the connection.
Rests == Pcs \ (Busy \cup {"callback", "quit"})

LEMMA Destinations ==
    /\ \A t \in AskTasks : WhenRefused[t] \in Pcs /\ WhenSent[t] \in Pcs
    /\ \A t \in WaitTasks :
         /\ WhenNull[t] \in Rests
         /\ WhenErrors[t] \in Rests /\ WhenGood[t] \in Rests
    /\ StepDone \in Rests /\ ActionDone \in Rests /\ AgentDone \in Rests
<1> USE DEF StepDone, ActionDone, AgentDone, Rests, Pcs, Busy
<1>1. \A t \in AskTasks : WhenRefused[t] \in Pcs
  BY RefusedTable DEF AskTasks
<1>2. \A t \in AskTasks : WhenSent[t] \in Pcs
  BY <1>1, SentTable DEF AskTasks
<1>3. \A t \in WaitTasks : WhenNull[t] \in Rests
  BY NullTable DEF WaitTasks, PollTasks, AskTasks
<1>4. \A t \in WaitTasks : WhenErrors[t] \in Rests
  BY ErrorsTable DEF WaitTasks, PollTasks, AskTasks
<1>5. \A t \in WaitTasks : WhenGood[t] \in Rests
  BY GoodTable DEF WaitTasks, PollTasks, AskTasks
<1>6. QED
  BY <1>1, <1>2, <1>3, <1>4, <1>5

\* What is asked for is a request.
LEMMA KindAsked ==
    ASSUME ControlTypeOK, TaskInv, pc = "request"
    PROVE  Kind \in Kinds
  BY KindTable DEF TaskInv, AskTasks, Kind, Kinds

\* The game plays on by itself, or serves a request.
LEMMA GameMoves ==
    ASSUME ControlTypeOK, NEW k \in Kinds, GamePlays(k) \/ Serves(k)
    PROVE  /\ status' \in Statuses \ {"unknown"}
           /\ gameLoop' \in Nat /\ gameLoop <= gameLoop'
  BY DEF ControlTypeOK, GamePlays, Serves, Statuses, Kinds

\* The last answer is that of the first request on the socket.
LEMMA AnswerType ==
    ASSUME IndInv, ControlTypeOK, NEW c \in Conns, GameAnswers(c)
    PROVE  /\ Head(requests[c]) \in Requests /\ Head(requests[c]) \in 1 .. Len(via)
           /\ kind[Head(requests[c])] \in Kinds
           /\ status' \in Statuses \ {"unknown"}
           /\ gameLoop' \in Nat /\ gameLoop <= gameLoop'
<1> DEFINE r == Head(requests[c])
<1>1. requests[c] # <<>> /\ requests[c] \in Seq(Requests)
  BY DEF GameAnswers, GameResponds, IndInv, TypeOK
<1>2. r \in Requests /\ r = requests[c][1] /\ 1 \in 1 .. Len(requests[c])
  BY <1>1, HeadTailFacts
<1>3. On(r, c, via)
  BY <1>2 DEF IndInv, OriginInv, AllOn
<1>4. r \in 1 .. Len(kind) /\ kind \in Seq(Kinds)
  BY <1>3 DEF On, ControlTypeOK
<1>5. kind[r] \in Kinds
  BY <1>4, ElementOfSeq
<1>6. GamePlays(kind[r]) \/ Serves(kind[r])
  BY DEF GameAnswers
<1> HIDE DEF r
<1>7. /\ status' \in Statuses \ {"unknown"}
      /\ gameLoop' \in Nat /\ gameLoop <= gameLoop'
  BY <1>5, <1>6, GameMoves
<1>8. QED
  BY <1>2, <1>4, <1>5, <1>7 DEF r, ControlTypeOK

-----------------------------------------------------------------------------
(* The types.                                                              *)

LEMMA ControlTypeStep ==
    ASSUME IndInv, ControlInv, [ControlNext]_allVars
    PROVE  ControlTypeOK'
<1> USE DEF ControlInv, ControlTypeOK, thread, proto, app, loops, game, events,
            Goto, Ask, Poll, Error, ErrorIf
<1>0. CASE UNCHANGED allVars
  BY <1>0 DEF allVars, control, vars, history
<1>1. CASE CreateGame \/ JoinGame \/ Update \/ WaitForAllResponses \/ LeaveGame \/ Destroy \/ Awaits
  <2> USE DEF CreateGame, JoinGame, Update, WaitForAllResponses, Awaits, ConsumeResponse,
  NothingToWaitFor, WaitGivesUp, LeaveGame, Destroy
  <2>1. pc' \in Pcs /\ task' \in Tasks
    BY <1>1 DEF Pcs, Tasks, Busy
  <2>2. UNCHANGED <<diagnosing, realtime, via, proto, app, loops, game, kind, events>>
    BY <1>1 DEF vars, history
  <2>3. QED
    BY <2>1, <2>2
<1>2. CASE GameFails
  BY <1>2 DEF GameFails, vars, history
<1>3. CASE Gone \/ AtBound
  BY <1>0, <1>3 DEF Gone, AtBound
<1>4. ASSUME NEW c \in Conns, WorkerRuns(c)
      PROVE  ControlTypeOK'
  <2>1. via' = via
    BY <1>4 DEF WorkerRuns, WorkerStep, DataHandler, TakeFrame, DataHandlerParseError,
        PushResponse, PushTo, PushResponseFlag, ReadLoopEnds, ConnectionClosedHandler, history
  <2>2. QED
    BY <1>4, <2>1 DEF WorkerRuns
<1>5. ASSUME NEW c \in Conns, GameAnswers(c)
      PROVE  ControlTypeOK'
  <2>1. PICK e \in BOOLEAN :
          answers' = [answers EXCEPT ![Head(requests[c])] =
                        [status |-> status', error |-> e, loop |-> gameLoop']]
    BY <1>5 DEF GameAnswers
  <2>2. /\ status' \in Statuses \ {"unknown"} /\ gameLoop' \in Nat
        /\ Head(requests[c]) \in Requests
    BY <1>5, AnswerType
  <2>3. answers' \in [Requests -> [status : Statuses, error : BOOLEAN, loop : Nat]]
    BY <2>1, <2>2
  <2>4. QED
    BY <1>5, <2>2, <2>3 DEF GameAnswers, GameResponds, history
<1>6. ASSUME NEW c \in Conns, GameEndsConnection(c)
      PROVE  ControlTypeOK'
  BY <1>6 DEF GameEndsConnection, GameCloses, history
<1>7. CASE ConnectToGame \/ ConnectGivesUp \/ ConnectToGameCallback
  <2> USE DEF ConnectToGame, ConnectGivesUp, ConnectToGameCallback
  <2>1. pc' \in Pcs /\ task' \in Tasks
    BY <1>7 DEF Pcs, Tasks, Busy
  <2>2. UNCHANGED via
    BY <1>7 DEF Connect, SetConnectionClosedCallback, vars, history
  <2>3. UNCHANGED <<diagnosing, realtime, app, loops, game, kind, events>>
    BY <1>7
  <2>4. response_pending_' = response_pending_ /\ latest_status_' \in Statuses
    BY <1>7 DEF Statuses
  <2>5. QED
    BY <2>1, <2>2, <2>3, <2>4
<1>8. CASE SendRequestConnect \/ Receiving
  <2>1. via' = via
    BY <1>8 DEF SendRequestConnect, Connect, Receiving, ClientStep, ReceiveReady,
        ReceiveTimeout, ReceiveUnlock, PopResponse, PopWith, Disconnect, Disconnected,
        SocketGone, DisconnectNull, ReceiveClear, ReceiveReturn, history
  <2>2. QED
    BY <1>8, <2>1 DEF SendRequestConnect, Receiving, control
<1>9. CASE SendRequest
  <2>1. Kind \in Kinds
    BY <1>9, KindAsked DEF SendRequest
  <2>2. via \in Seq(Conns) /\ connection_ \in Conns /\ via' = Append(via, connection_)
    BY <1>9 DEF IndInv, TypeOK, SendRequest, SendExpecting, Send, CanSend
  <2>3. kind' \in Seq(Kinds) /\ Len(kind') = Len(via')
    BY <1>9, <2>1, <2>2, AppendFacts DEF SendRequest, SendExpecting
  <2>4. pc' \in Pcs /\ task' \in Tasks
    BY <1>9, Destinations DEF Rests, SendRequest, SendExpecting, TaskInv, Pcs, Tasks
  <2>5. QED
    BY <1>9, <2>1, <2>3, <2>4 DEF SendRequest, SendExpecting
<1>10. CASE SendRequestNoConnection \/ SendRequestRefused
  <2>1. pc' \in Pcs /\ task' \in Tasks
    BY <1>10, Destinations DEF Rests, SendRequestNoConnection, SendRequestRefused, Refused,
                               TaskInv, Pcs, Tasks
  <2>2. QED
    BY <1>10, <2>1 DEF SendRequestNoConnection, SendRequestRefused, Refused, vars, history
<1>11. CASE WaitForResponseInternal
  BY <1>11 DEF WaitForResponseInternal, Receive, Pcs, Tasks, Busy, Statuses, history
<1>12. CASE TakeResponse
  <2>1. answers[response] \in [status : Statuses, error : BOOLEAN, loop : Nat]
    BY <1>12 DEF TakeResponse, IndInv, TypeOK
  <2>2. pc' \in Pcs /\ task' \in Tasks
    BY <1>12, Destinations DEF Rests, TakeResponse, TaskInv, Tasks
  <2>3. /\ current_game_loop_' \in Nat \cup {NoLoop}
        /\ previous_game_loop' \in Nat \cup {NoLoop}
    BY <1>12, <2>1 DEF TakeResponse, ObservationUpdate
  <2>4. UNCHANGED via
    BY <1>12 DEF TakeResponse, ReceiveReturn, history
  <2>5. QED
    BY <1>12, <2>1, <2>2, <2>3, <2>4 DEF TakeResponse, ResponseErrors
<1>13. CASE TakeTimeout
  <2>1. UNCHANGED via
    BY <1>13 DEF TakeTimeout, ReceiveReturn, history
  <2>2. pc' \in Pcs /\ task' \in Tasks
    BY <1>13 DEF TakeTimeout, Refused, Pcs, Tasks, Busy
  <2>3. QED
    BY <1>13, <2>1, <2>2 DEF TakeTimeout, Refused
<1>14. CASE Diagnose \/ Terminate
  <2>1. pc' \in Pcs /\ task' \in Tasks
    BY <1>14, Destinations DEF Rests, Diagnose, Terminate, TaskInv, Pcs, Tasks
  <2>2. QED
    BY <1>14, <2>1 DEF Diagnose, Terminate, vars, history
<1>15. CASE StartGameJoins \/ JoinGameCheck \/ Observe
  <2> USE DEF StartGameJoins, JoinGameCheck, Observe
  <2>1. pc' \in Pcs /\ task' \in Tasks
    BY <1>15 DEF Pcs, Tasks, Busy
  <2>2. QED
    BY <1>15, <2>1 DEF vars, history
<1>16. CASE StepAgent \/ SecondLoop
  <2> USE DEF StepAgent, SecondLoop, PollLeaveGame
  <2>1. pc' \in Pcs /\ task' \in Tasks
    BY <1>16, Destinations DEF Rests, Pcs, Tasks, Busy
  <2>2. QED
    BY <1>16, <2>1 DEF vars, history
<1>17. CASE GameStarted \/ CallOnStep \/ RealtimeEvents
  <2> USE DEF GameStarted, CallOnStep, RealtimeEvents
  <2>1. pc' \in Pcs /\ task' \in Tasks
    BY <1>17 DEF Pcs, Tasks, Busy
  <2>2. QED
    BY <1>17, <2>1 DEF vars, history, IssueEvents
<1>18. CASE CallOnGameEnd \/ RealtimeEnds
  <2> USE DEF CallOnGameEnd, RealtimeEnds
  <2>1. pc' \in Pcs /\ task' \in Tasks
    BY <1>18 DEF Pcs, Tasks, Busy
  <2>2. /\ UNCHANGED <<diagnosing, realtime, via, proto, app, loops, game, kind>>
        /\ UNCHANGED <<stepped, staleStep, stopped>>
    BY <1>18 DEF vars, history
  <2>3. gameEnds' \in 0 .. 2
    BY <1>18
  <2>4. QED
    BY <2>1, <2>2, <2>3
<1>19. CASE CallOnStepFeatureLayer \/ UpdateReturns
  <2> USE DEF CallOnStepFeatureLayer, UpdateReturns, ReturnStopping
  <2>1. pc' \in Pcs /\ task' \in Tasks
    BY <1>19 DEF Pcs, Tasks, Busy
  <2>2. QED
    BY <1>19, <2>1 DEF vars, history
<1>20. CASE ProtoQuit
  BY <1>20 DEF ProtoQuit, Quit, Disconnect, Disconnected, SocketGone, DisconnectNull,
               control, history
<1>21. QED
  BY <1>0, <1>1, <1>2, <1>3, <1>4, <1>5, <1>6, <1>7, <1>8, <1>9, <1>10, <1>11, <1>12,
     <1>13, <1>14, <1>15, <1>16, <1>17, <1>18, <1>19, <1>20
     DEF ControlNext, ControlStep, UserCall, Awaits

-----------------------------------------------------------------------------
(* Kinds of steps.  The coordinator's own steps touch neither the          *)
(* connection nor the game; in the steps of others and inside a call of    *)
(* Connection the client thread stays where it is.                         *)

Coordinates ==
    \/ UserCall \/ Awaits \/ StartGameJoins \/ JoinGameCheck \/ GameStarted
    \/ StepAgent \/ Observe \/ SecondLoop
    \/ CallOnGameEnd \/ CallOnStep \/ CallOnStepFeatureLayer
    \/ RealtimeEvents \/ RealtimeEnds \/ UpdateReturns

Others ==
    \/ \E c \in Conns : WorkerRuns(c) \/ GameAnswers(c) \/ GameEndsConnection(c)
    \/ GameFails

Within == SendRequestConnect \/ Receiving \/ ProtoQuit

LEMMA StepKinds ==
    ASSUME [ControlNext]_allVars
    PROVE  \/ UNCHANGED allVars \/ Coordinates \/ Others \/ Within
           \/ ConnectToGame \/ ConnectGivesUp \/ ConnectToGameCallback
           \/ SendRequest \/ SendRequestNoConnection \/ SendRequestRefused
           \/ WaitForResponseInternal \/ TakeResponse \/ TakeTimeout
           \/ Diagnose \/ Terminate
  BY DEF ControlNext, ControlStep, Coordinates, Awaits, Others, Within, Gone, AtBound

LEMMA UnchangedFacts ==
    ASSUME UNCHANGED allVars
    PROVE  UNCHANGED <<vars, thread, proto, app, loops, game, kind, events>>
  BY DEF allVars, control

LEMMA CoordinatesFacts ==
    ASSUME Coordinates
    PROVE  /\ UNCHANGED <<vars, diagnosing, realtime, proto, app_state_, loops, game, kind>>
           /\ client_errors_ \subseteq client_errors_'
           /\ client_errors_' \subseteq client_errors_ \cup {"ResponseNotConsumed"}
           /\ pc \in {"menu", "created", "joinCheck", "joined", "idle", "waitAll", "first",
                      "observe", "second", "callOnStep", "feature", "events", "agentEnds", "check"}
           /\ pc' \notin {"connect", "callback", "receiving", "diagnose", "terminate",
                          "segfault", "quit"}
           /\ pc' = "request" => task' # "connect"
<1> USE DEF app, events, Goto, Ask, Poll, ErrorIf
<1>1. CASE UserCall \/ Awaits
  BY <1>1 DEF UserCall, CreateGame, JoinGame, Update, WaitForAllResponses, Awaits,
     ConsumeResponse, NothingToWaitFor, WaitGivesUp, LeaveGame, Destroy
<1>2. CASE StartGameJoins \/ JoinGameCheck \/ Observe
  BY <1>2 DEF StartGameJoins, JoinGameCheck, Observe
<1>3. CASE GameStarted \/ CallOnStep \/ RealtimeEvents
  BY <1>3 DEF GameStarted, CallOnStep, RealtimeEvents
<1>4. CASE StepAgent
  BY <1>4 DEF StepAgent, PollLeaveGame, AgentDone
<1>5. CASE SecondLoop
  BY <1>5 DEF SecondLoop, PollLeaveGame
<1>6. CASE CallOnGameEnd \/ RealtimeEnds
  BY <1>6 DEF CallOnGameEnd, RealtimeEnds
<1>7. CASE CallOnStepFeatureLayer \/ UpdateReturns
  BY <1>7 DEF CallOnStepFeatureLayer, UpdateReturns, ReturnStopping
<1>8. QED
  BY <1>1, <1>2, <1>3, <1>4, <1>5, <1>6, <1>7 DEF Coordinates

LEMMA OthersFacts ==
    ASSUME Others
    PROVE  /\ UNCHANGED <<thread, proto, app_state_, loops, kind, events>>
           /\ client_errors_ \subseteq client_errors_'
           /\ client_errors_' \subseteq client_errors_ \cup {"ConnectionClosed"}
           /\ UNCHANGED client
<1> USE DEF app
<1>1. CASE GameFails
  BY <1>1 DEF GameFails, vars
<1>2. ASSUME NEW c \in Conns, WorkerRuns(c)
      PROVE  /\ UNCHANGED <<thread, proto, app_state_, loops, kind, events>>
             /\ client_errors_ \subseteq client_errors_'
             /\ client_errors_' \subseteq client_errors_ \cup {"ConnectionClosed"}
             /\ UNCHANGED client
  <2>1. UNCHANGED client
    BY <1>2 DEF WorkerRuns, WorkerStep, DataHandler, TakeFrame, DataHandlerParseError,
                PushResponse, PushTo, PushResponseFlag, ReadLoopEnds,
                ConnectionClosedHandler
  <2>2. QED
    BY <1>2, <2>1 DEF WorkerRuns, ErrorIf
<1>3. ASSUME NEW c \in Conns, GameAnswers(c) \/ GameEndsConnection(c)
      PROVE  /\ UNCHANGED <<thread, proto, app, loops, kind, events>>
             /\ UNCHANGED client
  BY <1>3 DEF GameAnswers, GameEndsConnection, GameResponds, GameCloses
<1>4. QED
  BY <1>1, <1>2, <1>3 DEF Others

LEMMA WithinFacts ==
    ASSUME Within
    PROVE  /\ UNCHANGED <<thread, proto, app, loops, game, kind, events>>
           /\ pc \in {"request", "receiving", "quit"}
  BY DEF Within, SendRequestConnect, Receiving, ProtoQuit, control

-----------------------------------------------------------------------------
(* Where the client thread is.                                             *)

LEMMA CallStep ==
    ASSUME IndInv, ControlInv, [ControlNext]_allVars
    PROVE  CallInv'
<1> USE DEF ControlInv, CallInv, ReceivePcs, QuitPcs, thread, Goto, Ask
<1>1. CASE UNCHANGED allVars
  BY <1>1, UnchangedFacts DEF vars, client
<1>2. CASE Coordinates
  BY <1>2, CoordinatesFacts DEF vars, client
<1>3. CASE Others
  BY <1>3, OthersFacts DEF client
<1>4. CASE SendRequestConnect
  BY <1>4, WithinFacts DEF Within, SendRequestConnect, Connect, client
<1>5. CASE Receiving
  BY <1>5, WithinFacts
     DEF Within, Receiving, ClientStep, ReceiveReady, ReceiveTimeout, ReceiveUnlock,
         PopResponse, PopWith, Disconnect, Disconnected, SocketGone, DisconnectNull,
         ReceiveClear, ReceiveReturn
<1>6. CASE ProtoQuit
  BY <1>6, WithinFacts
     DEF Within, ProtoQuit, Quit, Disconnect, Disconnected, SocketGone, DisconnectNull
<1>7. CASE ConnectToGame \/ ConnectGivesUp \/ ConnectToGameCallback
  BY <1>7 DEF ConnectToGame, ConnectGivesUp, ConnectToGameCallback, Connect,
              SetConnectionClosedCallback, vars, client
<1>8. CASE SendRequest \/ SendRequestNoConnection \/ SendRequestRefused
  <2>1. UNCHANGED client /\ pc' # "receiving" /\ pc = "request"
    <3>1. \A t \in AskTasks : WhenRefused[t] # "receiving" /\ WhenSent[t] # "receiving"
      BY RefusedTable, SentTable DEF AskTasks, StepDone, ActionDone
    <3>2. QED
      BY <1>8, <3>1 DEF SendRequest, SendExpecting, Send, SendRequestNoConnection,
                        SendRequestRefused, Refused, TaskInv, vars
  <2>2. QED
    BY <2>1 DEF client
<1>9. CASE WaitForResponseInternal
  BY <1>9 DEF WaitForResponseInternal, Receive
<1>10. CASE TakeResponse
  BY <1>10, Destinations DEF Rests, TakeResponse, ReceiveReturn, TaskInv, Busy
<1>11. CASE TakeTimeout
  BY <1>11 DEF TakeTimeout, ReceiveReturn, Refused
<1>12. CASE Diagnose \/ Terminate
  BY <1>12, Destinations DEF Rests, Diagnose, Terminate, TaskInv, Busy, vars, client
<1>13. QED
  BY <1>1, <1>2, <1>3, <1>4, <1>5, <1>6, <1>7, <1>8, <1>9, <1>10, <1>11, <1>12, StepKinds
     DEF Within

LEMMA TaskStep ==
    ASSUME IndInv, ControlInv, [ControlNext]_allVars
    PROVE  TaskInv'
<1> USE DEF ControlInv, TaskInv, thread, events, Goto, Ask
<1>1. CASE UNCHANGED allVars \/ Others \/ Within
  BY <1>1, UnchangedFacts, OthersFacts, WithinFacts
<1>2. CASE UserCall \/ Awaits
  BY <1>2 DEF Busy, UserCall, CreateGame, JoinGame, Update, WaitForAllResponses, Awaits,
     ConsumeResponse, NothingToWaitFor, WaitGivesUp, LeaveGame,
              Destroy, Poll, AskTasks, WaitTasks, PollTasks
<1>3. CASE StartGameJoins \/ JoinGameCheck \/ Observe \/ GameStarted \/ UpdateReturns
  BY <1>3 DEF Busy, StartGameJoins, JoinGameCheck, Observe, GameStarted, UpdateReturns,
              ReturnStopping, AskTasks
<1>4. CASE StepAgent
  <2>1. AgentDone \notin Busy
    BY Destinations DEF Rests
  <2>2. QED
    BY <1>4, <2>1 DEF StepAgent, PollLeaveGame, Poll, Busy, AskTasks, WaitTasks, PollTasks
<1>5. CASE SecondLoop
  BY <1>5 DEF Busy, SecondLoop, PollLeaveGame, Poll, WaitTasks, PollTasks
<1>6. CASE CallOnGameEnd \/ RealtimeEnds
  BY <1>6 DEF Busy, CallOnGameEnd, RealtimeEnds, ControlTypeOK, AskTasks
<1>7. CASE CallOnStep \/ RealtimeEvents \/ CallOnStepFeatureLayer
  BY <1>7 DEF Busy, CallOnStep, RealtimeEvents, CallOnStepFeatureLayer, AskTasks
<1>8. CASE ConnectToGame \/ ConnectGivesUp \/ ConnectToGameCallback
  BY <1>8 DEF Busy, ConnectToGame, ConnectGivesUp, ConnectToGameCallback, AskTasks
<1>9. CASE SendRequest
  <2>1. pc' \notin {"request", "receiving", "diagnose", "terminate"}
    BY <1>9, RefusedTable, SentTable
       DEF SendRequest, SendExpecting, AskTasks, StepDone, ActionDone
  <2>2. pc' = "receive" => task \in WaitTasks /\ task' = task
    BY <1>9, RefusedTable, SentTable
       DEF SendRequest, SendExpecting, AskTasks, WaitTasks, Busy
  <2>3. diagnosing' = diagnosing /\ (diagnosing => pc' = "receive")
    BY <1>9 DEF SendRequest, SendExpecting
  <2>4. QED
    <3>1. task' = IF pc' \in Busy THEN task ELSE "none"
      BY <1>9 DEF SendRequest, SendExpecting
    <3>2. pc' \in Busy => pc' = "receive"
      BY <2>1 DEF Busy
    <3>3. diagnosing => task \in WaitTasks \ {"connect"}
      BY <1>9 DEF SendRequest
    <3>4. QED
      BY <2>1, <2>2, <2>3, <3>1, <3>2, <3>3 DEF Busy
<1>10. CASE SendRequestNoConnection \/ SendRequestRefused
  <2>1. CASE diagnosing
    BY <1>10, <2>1 DEF SendRequestNoConnection, SendRequestRefused, Refused, Busy
  <2>2. CASE ~diagnosing
    <3>1. /\ pc' = WhenRefused[task] /\ diagnosing' = diagnosing /\ task \in AskTasks
          /\ task' = IF pc' \in Busy THEN task ELSE "none"
      BY <1>10, <2>2 DEF SendRequestNoConnection, SendRequestRefused, Refused
    <3>2. pc' \notin {"request", "receiving", "diagnose", "terminate"}
      BY <3>1, RefusedTable DEF AskTasks, StepDone, ActionDone
    <3>3. pc' = "receive" => task = "step"
      BY <3>1, RefusedTable DEF AskTasks, StepDone, ActionDone
    <3>4. QED
      BY <2>2, <3>1, <3>2, <3>3 DEF Busy, WaitTasks, AskTasks
  <2>3. QED
    BY <2>1, <2>2
<1>11. CASE WaitForResponseInternal
  BY <1>11 DEF WaitForResponseInternal, Busy
<1>12. CASE TakeResponse
  BY <1>12, Destinations DEF Rests, TakeResponse, Busy
<1>13. CASE TakeTimeout
  BY <1>13 DEF TakeTimeout, Refused, Busy
<1>14. CASE Diagnose \/ Terminate
  <2>1. task \in WaitTasks \ {"connect"} /\ task \notin {"leave_game", "leave_now"}
    BY <1>14 DEF Diagnose, Terminate, WaitTasks, AskTasks, PollTasks
  <2>2. WhenNull[task] \notin Busy
    BY <2>1, Destinations DEF Rests
  <2>3. CASE Diagnose
    BY <2>1, <2>2, <2>3 DEF Diagnose, Busy
  <2>4. CASE Terminate
    BY <2>2, <2>4 DEF Terminate, Busy
  <2>5. QED
    BY <1>14, <2>3, <2>4
<1>15. QED
  BY <1>1, <1>2, <1>3, <1>4, <1>5, <1>6, <1>7, <1>8, <1>9, <1>10, <1>11, <1>12, <1>13,
     <1>14, StepKinds DEF Coordinates

-----------------------------------------------------------------------------
(* The request in flight.                                                  *)

\* What may be lost of at most one.
LEMMA LostShort ==
    ASSUME NEW n, NEW s \in Seq(Requests), s \in {<<>>, <<n>>}, NEW t, Lost(s, t)
    PROVE  t \in {<<>>, s}
<1>1. s \in Seq(Requests) /\ Len(s) \in {0, 1} /\ (Len(s) = 0 => s = <<>>)
  <2>1. CASE s = <<>>
    BY <2>1
  <2>2. CASE s = <<n>>
    BY <2>2
  <2>3. QED
    BY <2>1, <2>2
<1>a. PICK i \in 0 .. Len(s) : \E j \in i .. Len(s) :
        t = SubSeq(s, 1, i) \o SubSeq(s, j + 1, Len(s))
  BY DEF Lost
<1>2. PICK j \in i .. Len(s) : t = SubSeq(s, 1, i) \o SubSeq(s, j + 1, Len(s))
  BY <1>a
<1>3. SubSeq(s, 1, 0) = <<>> /\ SubSeq(s, 2, 1) = <<>>
  BY <1>1, SubSeqEmpty
<1>4. <<>> \o <<>> = <<>> /\ s \o <<>> = s /\ <<>> \o s = s
  BY <1>1, EmptySeq, ConcatEmptySeq
<1>5. CASE Len(s) = 0
  <2>1. i = 0 /\ j = 0 /\ SubSeq(s, j + 1, Len(s)) = <<>>
    BY <1>3, <1>5
  <2>2. QED
    BY <1>2, <1>3, <1>4, <2>1
<1>6. CASE Len(s) = 1
  <2>1. SubSeq(s, 1, 1) = s
    BY <1>1, <1>6, SubSeqFull
  <2>2. CASE i = 0 /\ j = 0
    BY <1>2, <1>3, <1>4, <1>6, <2>1, <2>2
  <2>3. CASE i = 0 /\ j = 1
    BY <1>2, <1>3, <1>4, <1>6, <2>3
  <2>4. CASE i = 1 /\ j = 1
    BY <1>2, <1>3, <1>4, <1>6, <2>1, <2>4
  <2>5. QED
    BY <1>6, <2>2, <2>3, <2>4
<1>7. QED
  BY <1>1, <1>5, <1>6

\* One outstanding request is in one place: with the game, on the socket, in the
\* worker's hand, or in the queue.
LEMMA OnlyOne ==
    ASSUME TypeOK, NEW c \in Conns, c = connection_, c # NULL,
           NEW n, Outstanding \in {<<>>, <<n>>}
    PROVE  /\ requests[c] # <<>> =>
                /\ Outstanding = <<n>> /\ requests[c] = <<n>>
                /\ queue_ = <<>> /\ Hand(c) = <<>> /\ responses[c] = <<>>
           /\ queue_ # <<>> =>
                /\ Outstanding = <<n>> /\ Len(queue_) = 1 /\ requests[c] = <<>>
<1> DEFINE a == queue_
           h == Hand(c)
           p == responses[c]
           q == requests[c]
<1>1. /\ a \in Seq(Requests) /\ h \in Seq(Requests)
      /\ p \in Seq(Requests) /\ q \in Seq(Requests)
  BY WayTypes DEF TypeOK
<1>2. Outstanding = a \o (h \o (p \o q))
  BY DEF Outstanding, UnderWay
<1>3. Outstanding = <<>> => Len(Outstanding) = 0
  BY EmptySeq
<1> HIDE DEF a, h, p, q
<1>4. /\ p \o q \in Seq(Requests) /\ Len(p \o q) = Len(p) + Len(q)
  BY <1>1, ConcatProperties
<1>5. h \o (p \o q) \in Seq(Requests) /\ Len(h \o (p \o q)) = Len(h) + Len(p \o q)
  BY <1>1, <1>4, ConcatProperties
<1>6. Len(a \o (h \o (p \o q))) = Len(a) + Len(h \o (p \o q))
  BY <1>1, <1>5, ConcatProperties
<1>7. /\ Len(a) \in Nat /\ Len(h) \in Nat /\ Len(p) \in Nat /\ Len(q) \in Nat
      /\ (Len(a) = 0 <=> a = <<>>) /\ (Len(h) = 0 <=> h = <<>>)
      /\ (Len(p) = 0 <=> p = <<>>) /\ (Len(q) = 0 <=> q = <<>>)
  BY <1>1, EmptySeq, LenProperties
<1>8. Len(Outstanding) = Len(a) + (Len(h) + (Len(p) + Len(q)))
  BY <1>2, <1>4, <1>5, <1>6
<1>9. Len(Outstanding) = IF Outstanding = <<>> THEN 0 ELSE 1
  BY <1>3
<1>9a. /\ Len(q) # 0 => Len(Outstanding) = 1 /\ Len(a) = 0 /\ Len(h) = 0 /\ Len(p) = 0
       /\ Len(a) # 0 => Len(Outstanding) = 1 /\ Len(a) = 1 /\ Len(q) = 0
  <2> DEFINE x == Len(a)
             y == Len(h)
             z == Len(p)
             w == Len(q)
             l == Len(Outstanding)
  <2>1. x \in Nat /\ y \in Nat /\ z \in Nat /\ w \in Nat
    BY <1>7
  <2>1a. l = x + (y + (z + w))
    BY <1>8
  <2>1b. l \in {0, 1}
    BY <1>9
  <2> HIDE DEF x, y, z, w, l
  <2>2. /\ w # 0 => l = 1 /\ x = 0 /\ y = 0 /\ z = 0
        /\ x # 0 => l = 1 /\ x = 1 /\ w = 0
    BY <2>1, <2>1a, <2>1b
  <2>3. QED
    BY <2>2 DEF x, y, z, w, l
<1>9b. Len(Outstanding) = 1 => Outstanding = <<n>>
  BY <1>9
<1>10. ASSUME q # <<>>
       PROVE  Outstanding = <<n>> /\ q = <<n>> /\ a = <<>> /\ h = <<>> /\ p = <<>>
  <2>1. a = <<>> /\ h = <<>> /\ p = <<>> /\ Outstanding = <<n>>
    BY <1>7, <1>9a, <1>9b, <1>10
  <2>2. <<>> \o q = q
    BY <1>1, ConcatEmptySeq
  <2>3. QED
    BY <1>2, <2>1, <2>2
<1>11. a # <<>> => Outstanding = <<n>> /\ Len(a) = 1 /\ q = <<>>
  BY <1>7, <1>9a, <1>9b
<1>12. QED
  BY <1>10, <1>11 DEF a, h, p, q

\* A ping is asked for by PingGame, in ConnectToGame or to diagnose.
LEMMA PingAsked ==
    ASSUME TaskInv, pc = "request"
    PROVE  Kind = "ping" <=> diagnosing \/ task = "connect"
  BY KindTable DEF TaskInv, AskTasks, Kind

LEMMA PingAskedNext ==
    ASSUME TaskInv', pc' = "request"
    PROVE  Kind' = "ping" <=> diagnosing' \/ task' = "connect"
  BY DEF TaskInv, AskTasks, Kind, RequestKind

\* The number of the last request, if there is one outstanding.
LEMMA LastRequest ==
    ASSUME IndInv, ControlTypeOK, FlightInv, Outstanding # <<>>
    PROVE  /\ Outstanding = <<Len(via)>> /\ Len(via) \in Requests
           /\ Head(Outstanding) = Len(via) /\ Tail(Outstanding) = <<>>
           /\ response_pending_ \in Kinds /\ connection_ \in Conns /\ connection_ # NULL
<1>1. Outstanding = <<Len(via)>> /\ Outstanding \in Seq(Requests)
  BY OutstandingType DEF FlightInv, IndInv
<1>2. Len(via) \in Requests /\ Len(via) \in 1 .. Len(kind)
  <2>1. <<Len(via)>>[1] \in Requests
    BY <1>1, ElementOfSeq
  <2>2. QED
    BY <2>1 DEF Requests, ControlTypeOK
<1>3. kind[Len(via)] \in Kinds
  BY <1>2, ElementOfSeq DEF ControlTypeOK
<1>4. connection_ \in Conns /\ connection_ # NULL
  BY DEF IndInv, TypeOK, Outstanding
<1>5. QED
  BY <1>1, <1>2, <1>3, <1>4 DEF FlightInv

\* In the steps of others a request in flight stays so or is lost.
LEMMA OthersOutstanding ==
    ASSUME IndInv, ControlInv, Others
    PROVE  Outstanding' \in {<<>>, Outstanding} /\ UNCHANGED <<connection_, via>>
<1> USE DEF IndInv
<1>1. Outstanding \in Seq(Requests) /\ Outstanding \in {<<>>, <<Len(via)>>}
  BY OutstandingType DEF ControlInv, FlightInv
<1>2. \A t : Lost(Outstanding, t) => t \in {<<>>, Outstanding}
  BY <1>1, LostShort
<1>3. CASE GameFails
  BY <1>3, OutstandingUnchanged DEF GameFails, vars, fields, workers, sockets, history
<1>4. ASSUME NEW c \in Conns, DataHandler(c) \/ PushResponse(c) \/ GameResponds(c)
      PROVE  Outstanding' = Outstanding /\ UNCHANGED <<connection_, via>>
  BY <1>4, DataHandlerOutstanding, PushOutstanding, RespondsOutstanding
     DEF DataHandler, TakeFrame, PushResponse, PushTo, GameResponds, fields, history
<1>5. ASSUME NEW c \in Conns, DataHandlerParseError(c) \/ GameCloses(c)
      PROVE  Lost(Outstanding, Outstanding') /\ UNCHANGED <<connection_, via>>
  BY <1>5, ParseErrorOutstanding, ClosesOutstanding
     DEF DataHandlerParseError, GameCloses, fields, history
<1>6. ASSUME NEW c \in Conns,
             PushResponseFlag(c) \/ ReadLoopEnds(c) \/ ConnectionClosedHandler(c)
      PROVE  Outstanding' = Outstanding /\ UNCHANGED <<connection_, via>>
  BY <1>6, OutstandingUnchanged
     DEF PushResponseFlag, ReadLoopEnds, ConnectionClosedHandler, fields, sockets, history
<1>7. ASSUME NEW c \in Conns, WorkerRuns(c) \/ GameAnswers(c) \/ GameEndsConnection(c)
      PROVE  Outstanding' \in {<<>>, Outstanding} /\ UNCHANGED <<connection_, via>>
  BY <1>2, <1>4, <1>5, <1>6, <1>7
     DEF WorkerRuns, WorkerStep, GameAnswers, GameEndsConnection
<1>8. QED
  BY <1>3, <1>7 DEF Others

\* A request that is sent is alone in flight, and with the game, or lost at once.
LEMMA SendsAlone ==
    ASSUME IndInv, ControlInv, SendRequest
    PROVE  /\ Outstanding = <<>> /\ connection_' = connection_ /\ connection_ # NULL
           /\ Outstanding' # <<>> =>
                /\ Outstanding' = <<Len(via) + 1>>
                /\ requests'[connection_] # <<>>
           /\ response = NULL /\ response' = NULL
           /\ Len(via') = Len(via) + 1
           /\ kind' = Append(kind, Kind) /\ Kind \in Kinds
           /\ kind'[Len(via) + 1] = Kind
           /\ response_pending_' = Kind
           /\ pc = "request"
<1> USE DEF IndInv, ControlInv
<1>1. Send /\ pc = "request" /\ Kind \in Kinds /\ response_pending_' = Kind
  BY KindAsked DEF SendRequest, SendExpecting
<1>2. Outstanding = <<>>
  <2>1. CASE Kind = "ping"
    BY <1>1, <2>1 DEF FlightInv
  <2>2. CASE ~HasResponsePending
    BY <2>2, LastRequest DEF HasResponsePending, NotSet, Kinds
  <2>3. QED
    BY <2>1, <2>2 DEF SendRequest
<1>3. /\ connection_ \in Conns /\ connection_ # NULL /\ via \in Seq(Conns)
      /\ via' = Append(via, connection_) /\ requests \in [Conns -> Seq(Requests)]
      /\ UNCHANGED <<connection_, queue_, inHand, responses, client>>
  BY <1>1 DEF Send, CanSend, fields, workers, TypeOK
<1>4. /\ kind \in Seq(Kinds) /\ Len(kind) = Len(via) /\ kind' = Append(kind, Kind)
  BY DEF SendRequest, SendExpecting, ControlTypeOK
<1>5. kind'[Len(via) + 1] = Kind /\ Len(via') = Len(via) + 1
  BY <1>1, <1>3, <1>4, AppendFacts
<1>6. response = NULL /\ response' = NULL
  BY <1>1, <1>3 DEF Send, CanSend, ClientInv, client
<1>7. Outstanding' # <<>> =>
        Outstanding' = <<Len(via) + 1>> /\ requests'[connection_] # <<>>
  <2>1. CASE ~peerOpen[connection_]
    <3>1. UNCHANGED requests
      BY <1>1, <2>1 DEF Send, Write
    <3>2. QED
      BY <1>2, <1>3, <3>1, OutstandingUnchanged
  <2>2. CASE peerOpen[connection_]
    <3>1. requests'[connection_] = Append(requests[connection_], Len(via) + 1)
      BY <1>1, <1>3, <2>2 DEF Send, Write
    <3>2. requests[connection_] \in Seq(Requests) /\ Len(via) + 1 \in Requests
      <4>1. Len(via) \in Nat /\ Len(via) < MaxRequests /\ MaxRequests \in Nat
        BY <1>1, <1>3, LenProperties, BoundsAssumption DEF Send, CanSend
      <4>2. QED
        BY <1>3, <4>1 DEF Requests
    <3>3. requests'[connection_] # <<>>
      BY <3>1, <3>2, AppendFacts
    <3>4. Outstanding' \in {<<>>, Append(<<>>, Len(via) + 1)}
      BY <1>1, <1>2, SendOutstanding
    <3>5. QED
      BY <3>3, <3>4
  <2>3. QED
    BY <2>1, <2>2
<1>8. QED
  BY <1>1, <1>2, <1>3, <1>4, <1>5, <1>6, <1>7

\* Inside a call of Connection the request in flight stays so, is given up with its
\* connection, or its response is handed out.
LEMMA WithinOutstanding ==
    ASSUME IndInv, ControlInv, Within
    PROVE  /\ UNCHANGED via
           /\ \/ /\ Outstanding' \in {<<>>, Outstanding} /\ response' = response
                 /\ Outstanding' # <<>> => UNCHANGED <<connection_, requests>>
              \/ /\ PopResponse
                 /\ Outstanding = <<Len(via)>> /\ Outstanding' = <<>>
                 /\ response' = Len(via) /\ response' # NULL
                 /\ Len(queue_) = 1 /\ requests[connection_] = <<>>
<1> USE DEF IndInv
<1>1. ASSUME NEW c \in Conns, Connect(c)
      PROVE  /\ Outstanding' = <<>> /\ UNCHANGED <<via, response>>
  BY <1>1, ConnectOutstanding DEF Connect, client, history
<1>2. CASE ReceiveReady \/ ReceiveTimeout \/ ReceiveUnlock \/ Disconnect \/ DisconnectNull \/ Quit
  <2>1. /\ UNCHANGED <<via, connection_, queue_, inHand, responses, requests>>
        /\ response' = response
    BY <1>2 DEF ReceiveReady, ReceiveTimeout, ReceiveUnlock, Disconnect, DisconnectNull,
                Quit, fields, workers, sockets, history, ClientInv
  <2>2. QED
    BY <2>1, OutstandingUnchanged
<1>3. CASE Disconnected
  BY <1>3, DisconnectedOutstanding DEF Disconnected, SocketGone, history
<1>4. CASE ReceiveClear
  BY <1>4, ClearOutstanding DEF ReceiveClear
<1>5. CASE PopResponse
  <2>1. /\ connection_ # NULL /\ queue_ # <<>> /\ Outstanding # <<>>
        /\ response' = Head(Outstanding) /\ Outstanding' = Tail(Outstanding)
        /\ response' \in Requests
    BY <1>5, PopOutstanding
  <2>2. /\ Outstanding = <<Len(via)>> /\ Head(Outstanding) = Len(via)
        /\ Tail(Outstanding) = <<>> /\ connection_ \in Conns
    BY <2>1, LastRequest DEF ControlInv
  <2>3. Len(queue_) = 1 /\ requests[connection_] = <<>>
    BY <2>1, <2>2, OnlyOne
  <2>4. response' # NULL
    BY <2>1 DEF Requests, NULL
  <2>5. QED
    BY <1>5, <2>1, <2>2, <2>3, <2>4 DEF PopResponse, PopWith
<1>6. QED
  BY <1>1, <1>2, <1>3, <1>4, <1>5
     DEF Within, SendRequestConnect, Receiving, ProtoQuit, ClientStep, ReceiveReturn

LEMMA FlightStep ==
    ASSUME IndInv, ControlInv, [ControlNext]_allVars, TaskInv'
    PROVE  FlightInv'
<1> USE DEF ControlInv, FlightInv
<1>0. UNCHANGED vars => UNCHANGED <<Outstanding, response, via, connection_>>
  BY OutstandingUnchanged
     DEF vars, fields, client, workers, sockets, history, IndInv
<1>a. pc' = "request" => (Kind' = "ping" <=> diagnosing' \/ task' = "connect")
  BY PingAskedNext
<1>b. pc = "request" => (Kind = "ping" <=> diagnosing \/ task = "connect")
  BY PingAsked
<1>1. CASE UNCHANGED allVars
  BY <1>0, <1>1, <1>a, <1>b, UnchangedFacts DEF thread, proto
<1>2. CASE Coordinates
  BY <1>0, <1>2, <1>a, CoordinatesFacts DEF proto, TaskInv
<1>3. CASE Others
  BY <1>3, <1>a, <1>b, OthersFacts, OthersOutstanding DEF thread, proto, client
<1>4. CASE Within
  <2>1. UNCHANGED <<thread, proto, kind>> /\ pc \in {"request", "receiving", "quit"}
    BY <1>4, WithinFacts
  <2>2. UNCHANGED via
    BY <1>4, WithinOutstanding
  <2>3. CASE Outstanding' \in {<<>>, Outstanding} /\ response' = response
    BY <2>1, <2>2, <2>3, <1>a, <1>b DEF thread, proto
  <2>4. CASE /\ Outstanding = <<Len(via)>> /\ Outstanding' = <<>>
             /\ response' = Len(via)
    <3>1. kind[Len(via)] = response_pending_
      BY <2>4
    <3>2. pc' = pc /\ UNCHANGED <<kind, response_pending_>>
      BY <2>1 DEF thread, proto
    <3>3. pc' # "diagnose"
      BY <2>1, <3>2
    <3>4. QED
      BY <2>2, <2>4, <3>1, <3>2, <3>3
  <2>5. QED
    BY <1>4, <2>3, <2>4, WithinOutstanding
<1>5. CASE ConnectToGame
  <2>1. Outstanding' = <<>> /\ UNCHANGED <<response, via>>
    BY <1>5, ConnectOutstanding DEF ConnectToGame, Connect, client, history
  <2>2. QED
    BY <1>5, <2>1 DEF ConnectToGame, Goto
<1>6. CASE ConnectGivesUp
  BY <1>0, <1>6 DEF ConnectGivesUp, Goto, proto
<1>7. CASE ConnectToGameCallback
  <2>1. UNCHANGED <<Outstanding, response, via>> /\ pc = "callback"
    BY <1>7, OutstandingUnchanged
       DEF ConnectToGameCallback, SetConnectionClosedCallback, client, workers, sockets,
           history, IndInv
  <2>2. QED
    BY <1>7, <2>1 DEF ConnectToGameCallback, Ask, proto
<1>8. CASE SendRequest
  <2>1. pc' \notin {"callback", "request", "diagnose"}
    BY <1>8, RefusedTable, SentTable
       DEF SendRequest, SendExpecting, Goto, AskTasks, StepDone, ActionDone, TaskInv
  <2>2. QED
    BY <1>8, <2>1, SendsAlone
<1>9. CASE SendRequestNoConnection \/ SendRequestRefused
  <2>1. pc' \notin {"callback", "request", "diagnose"}
    BY <1>9, RefusedTable
       DEF SendRequestNoConnection, SendRequestRefused, Refused, Goto, AskTasks, StepDone,
           ActionDone, TaskInv
  <2>2. QED
    BY <1>0, <1>9, <2>1 DEF SendRequestNoConnection, SendRequestRefused, proto
<1>10. CASE WaitForResponseInternal
  <2>1. UNCHANGED <<Outstanding, response, via>>
    BY <1>10, OutstandingUnchanged
       DEF WaitForResponseInternal, Receive, fields, workers, sockets, history, IndInv
  <2>2. QED
    BY <1>10, <2>1 DEF WaitForResponseInternal, Goto
<1>11. CASE TakeResponse
  <2>1. UNCHANGED <<Outstanding, via>> /\ response # NULL /\ response' = NULL
    BY <1>11, OutstandingUnchanged
       DEF TakeResponse, ReceiveReturn, fields, workers, sockets, history, IndInv
  <2>2. pc' \notin {"callback", "request", "diagnose"}
    BY <1>11, Destinations DEF TakeResponse, TaskInv, Rests, Busy
  <2>3. QED
    BY <2>1, <2>2
<1>12. CASE TakeTimeout
  <2>1. UNCHANGED <<Outstanding, via, connection_>> /\ connection_ = NULL /\ response' = NULL
    BY <1>12, OutstandingUnchanged
       DEF TakeTimeout, ReceiveReturn, fields, workers, sockets, history, IndInv, ClientInv
  <2>2. Outstanding = <<>>
    BY <2>1 DEF Outstanding
  <2>3. QED
    BY <1>12, <2>1, <2>2
<1>13. CASE Diagnose \/ Terminate
  <2>1. /\ UNCHANGED <<Outstanding, response, via, kind, proto, connection_>>
        /\ pc' \notin {"callback", "diagnose"}
    BY <1>0, <1>13, Destinations DEF Diagnose, Terminate, Goto, TaskInv, Rests, Busy
  <2>2. pc' = "request" => Outstanding = <<>>
    BY <1>13, Destinations DEF Diagnose, Terminate, Goto, TaskInv, Rests, Busy, Outstanding
  <2>3. QED
    BY <2>1, <2>2 DEF proto
<1>14. QED
  BY <1>1, <1>2, <1>3, <1>4, <1>5, <1>6, <1>7, <1>8, <1>9, <1>10, <1>11, <1>12, <1>13,
     StepKinds

-----------------------------------------------------------------------------
(* What the game has answered.                                             *)

\* The game's answer is to the request in flight, and no request is left then.
LEMMA AnswersLast ==
    ASSUME IndInv, ControlInv, NEW c \in Conns, GameAnswers(c)
    PROVE  /\ c = connection_ /\ Outstanding = <<Len(via)>> /\ response = NULL
           /\ Len(via) \in Requests /\ Head(requests[c]) = Len(via)
           /\ requests'[c] = <<>>
           /\ UNCHANGED <<connection_, via, response, kind>>
           /\ Current(Len(via))'
           /\ \A r \in Requests : r # Len(via) => answers'[r] = answers[r]
<1> USE DEF IndInv, ControlInv
<1>1. /\ peerOpen[c] /\ requests[c] # <<>>
      /\ requests' = [requests EXCEPT ![c] = Tail(@)]
      /\ UNCHANGED <<connection_, via, response, kind>>
  BY DEF GameAnswers, GameResponds, fields, client, history
<1>2. c = connection_ /\ c # NULL
  BY <1>1, BoundsAssumption DEF SocketInv, Conns, NULL
<1>3. Outstanding = <<Len(via)>> /\ requests[c] = <<Len(via)>>
  BY <1>1, <1>2, OnlyOne DEF FlightInv
<1>4. Len(via) \in Requests
  BY <1>3, LastRequest
<1>5. Head(requests[c]) = Len(via) /\ requests'[c] = <<>>
  BY <1>1, <1>3 DEF TypeOK
<1>6. response = NULL
  BY <1>3 DEF FlightInv
<1> DEFINE n == Len(via)
<1>7. PICK error \in BOOLEAN :
        /\ IF error THEN kind[n] # "ping" /\ GamePlays(kind[n]) ELSE Serves(kind[n])
        /\ answers' = [answers EXCEPT ![n] =
                         [status |-> status', error |-> error, loop |-> gameLoop']]
  BY <1>5 DEF GameAnswers
<1> HIDE DEF n
<1>8. /\ answers'[n] = [status |-> status', error |-> error, loop |-> gameLoop']
      /\ \A r \in Requests : r # n => answers'[r] = answers[r]
  BY <1>4, <1>7 DEF n, ControlTypeOK
<1>9. ~error /\ kind[n] = "leave_game" => status' = "launched"
  BY <1>7 DEF Serves
<1>10. n' = n /\ kind' = kind
  BY <1>1 DEF n
<1>11. Current(n)'
  BY <1>8, <1>9, <1>10 DEF Current
<1>12. QED
  BY <1>1, <1>2, <1>3, <1>4, <1>5, <1>6, <1>8, <1>10, <1>11 DEF n

LEMMA AnswerStep ==
    ASSUME IndInv, ControlInv, [ControlNext]_allVars
    PROVE  AnswerInv'
<1> USE DEF ControlInv, AnswerInv, Current
<1>0. UNCHANGED vars => UNCHANGED <<Outstanding, response, via, connection_, requests>>
  BY OutstandingUnchanged
     DEF vars, fields, client, workers, sockets, history, IndInv
<1>1. CASE UNCHANGED allVars
  BY <1>0, <1>1, UnchangedFacts DEF game
<1>2. CASE Coordinates
  BY <1>0, <1>2, CoordinatesFacts DEF game
<1>3. ASSUME NEW c \in Conns, GameAnswers(c)
      PROVE  AnswerInv'
  <2>1. \A r \in Requests : r > Len(via') => answers'[r].status = "unknown"
    BY <1>3, AnswersLast DEF ControlTypeOK, Requests
  <2>2. QED
    BY <1>3, <2>1, AnswersLast
<1>4. ASSUME NEW c \in Conns, WorkerRuns(c)
      PROVE  AnswerInv'
  <2>1. /\ Outstanding' \in {<<>>, Outstanding} /\ UNCHANGED <<connection_, via>>
        /\ UNCHANGED <<kind, response>>
    BY <1>4, OthersOutstanding, OthersFacts DEF Others, client
  <2>2. UNCHANGED <<requests, status, gameLoop, answers>>
    BY <1>4 DEF WorkerRuns, game, WorkerStep, DataHandler, TakeFrame,
                DataHandlerParseError, PushResponse, PushTo, PushResponseFlag,
                ReadLoopEnds, ConnectionClosedHandler, sockets
  <2>3. QED
    BY <2>1, <2>2
<1>5. ASSUME NEW c \in Conns, GameEndsConnection(c)
      PROVE  AnswerInv'
  <2>1. /\ Outstanding' \in {<<>>, Outstanding} /\ UNCHANGED <<connection_, via>>
        /\ UNCHANGED <<kind, response, queue_, inHand>>
        /\ UNCHANGED <<status, gameLoop, answers>>
    BY <1>5, OthersOutstanding, OthersFacts
       DEF Others, client, GameEndsConnection, GameCloses, fields, workers
  <2>2. c = connection_ /\ c # NULL /\ TypeOK
    BY <1>5, BoundsAssumption
       DEF GameEndsConnection, GameCloses, SocketInv, Conns, NULL, IndInv
  <2>3. CASE requests[c] = <<>>
    BY <2>1, <2>2, <2>3
  <2>4. CASE requests[c] # <<>>
    <3>1. queue_ = <<>> /\ Hand(c) = <<>> /\ responses[c] = <<>>
      BY <2>2, <2>4, OnlyOne DEF FlightInv
    <3>2. requests'[c] = <<>> /\ responses'[c] = <<>>
      <4>1. \E k \in 0 .. Len(responses[c]) : responses'[c] = SubSeq(responses[c], 1, k)
        BY <1>5, <2>2 DEF GameEndsConnection, GameCloses, TypeOK
      <4>2. SubSeq(<<>>, 1, 0) = <<>> /\ Len(<<>>) = 0
        BY SubSeqEmpty
      <4>3. requests'[c] = <<>>
        BY <1>5, <2>2 DEF GameEndsConnection, GameCloses, TypeOK
      <4>4. QED
        BY <3>1, <4>1, <4>2, <4>3
    <3>3. Hand(c)' = <<>>
      BY <2>1, <3>1 DEF Hand
    <3>4. Outstanding' = <<>> \o (<<>> \o (<<>> \o <<>>))
      BY <2>1, <2>2, <3>1, <3>2, <3>3 DEF Outstanding, UnderWay
    <3>5. Outstanding' = <<>>
      BY <3>4, EmptySeq, ConcatEmptySeq
    <3>6. QED
      BY <2>1, <3>5
  <2>5. QED
    BY <2>3, <2>4
<1>6. CASE GameFails
  BY <1>0, <1>6 DEF GameFails
<1>7. CASE Within
  <2>1. UNCHANGED <<via, kind, game>>
    BY <1>7, WithinFacts, WithinOutstanding
  <2>2. QED
    BY <1>7, <2>1, WithinOutstanding DEF game
<1>8. CASE ConnectToGame
  <2>1. Outstanding' = <<>> /\ UNCHANGED <<response, via>>
    BY <1>8, ConnectOutstanding DEF ConnectToGame, Connect, client, history
  <2>2. QED
    BY <1>8, <2>1 DEF ConnectToGame, game
<1>9. CASE ConnectGivesUp \/ SendRequestNoConnection \/ SendRequestRefused \/ Diagnose
  BY <1>0, <1>9
     DEF ConnectGivesUp, SendRequestNoConnection, SendRequestRefused, Diagnose, game
<1>10. CASE Terminate
  BY <1>0, <1>10 DEF Terminate
<1>11. CASE ConnectToGameCallback
  BY <1>11, OutstandingUnchanged
     DEF ConnectToGameCallback, SetConnectionClosedCallback, client, workers, sockets,
         history, IndInv, game
<1>12. CASE SendRequest
  <2>1. UNCHANGED game
    BY <1>12 DEF SendRequest, SendExpecting
  <2>2. Len(via) \in Nat
    BY LenProperties DEF IndInv, TypeOK
  <2>3. QED
    BY <1>12, <2>1, <2>2, SendsAlone DEF game, Requests
<1>13. CASE WaitForResponseInternal
  BY <1>13, OutstandingUnchanged
     DEF WaitForResponseInternal, Receive, fields, workers, sockets, history, IndInv, game
<1>14. CASE TakeResponse \/ TakeTimeout
  <2>1. /\ UNCHANGED <<Outstanding, via, connection_, requests, kind, game>>
        /\ response' = NULL
    BY <1>14, OutstandingUnchanged
       DEF TakeResponse, TakeTimeout, ReceiveReturn, fields, workers, sockets, history,
           IndInv
  <2>2. QED
    BY <2>1 DEF game
<1>15. QED
  BY <1>1, <1>2, <1>3, <1>4, <1>5, <1>6, <1>7, <1>8, <1>9, <1>10, <1>11, <1>12, <1>13,
     <1>14, StepKinds DEF Others

-----------------------------------------------------------------------------
(* Between two requests.                                                   *)

\* A response that is handed out has come over the connection in use.
LEMMA ResponseConnected ==
    ASSUME IndInv, response # NULL
    PROVE  connection_ # NULL /\ response \in Requests
<1>1. connection_ = via[response] /\ response \in 1 .. Len(via) /\ via \in Seq(Conns)
  BY DEF IndInv, OriginInv, On, TypeOK
<1>2. connection_ \in Conns
  BY <1>1, ElementOfSeq
<1>3. QED
  BY <1>2, BoundsAssumption DEF Conns, NULL, IndInv, TypeOK

\* In the steps of others the flag of the queue stays right, and the queue does not
\* lose a response.
LEMMA OthersQueue ==
    ASSUME IndInv, Others
    PROVE  /\ UNCHANGED connection_
           /\ (has_response_ => queue_ # <<>>) => (has_response_' => queue_' # <<>>)
           /\ queue_ # <<>> => queue_' # <<>>
<1> USE DEF IndInv
<1>1. CASE GameFails
  BY <1>1 DEF GameFails, vars, fields
<1>2. ASSUME NEW c \in Conns, PushResponse(c)
      PROVE  queue_' # <<>> /\ UNCHANGED connection_
  <2>1. queue_' = Append(queue_, inHand[c]) /\ queue_ \in Seq(Requests)
    BY <1>2 DEF PushResponse, PushTo, TypeOK
  <2>2. inHand[c] \in Requests
    BY <1>2, HandIsRequest DEF PushResponse, PushTo
  <2>3. QED
    BY <1>2, <2>1, <2>2, AppendFacts DEF PushResponse, PushTo
<1>3. ASSUME NEW c \in Conns, PushResponseFlag(c)
      PROVE  queue_ # <<>> /\ UNCHANGED <<queue_, connection_>>
  BY <1>3 DEF PushResponseFlag, FlagInv
<1>4. ASSUME NEW c \in Conns,
             \/ DataHandler(c) \/ DataHandlerParseError(c) \/ ReadLoopEnds(c)
             \/ ConnectionClosedHandler(c) \/ GameResponds(c) \/ GameCloses(c)
      PROVE  UNCHANGED <<connection_, queue_, has_response_>>
  BY <1>4 DEF DataHandler, TakeFrame, DataHandlerParseError, ReadLoopEnds,
              ConnectionClosedHandler, GameResponds, GameCloses, fields
<1>5. ASSUME NEW c \in Conns, WorkerRuns(c) \/ GameAnswers(c) \/ GameEndsConnection(c)
      PROVE  /\ UNCHANGED connection_
             /\ (has_response_ => queue_ # <<>>) => (has_response_' => queue_' # <<>>)
             /\ queue_ # <<>> => queue_' # <<>>
  BY <1>2, <1>3, <1>4, <1>5 DEF WorkerRuns, WorkerStep, GameAnswers, GameEndsConnection
<1>6. QED
  BY <1>1, <1>5 DEF Others

\* While no answer is expected the game does nothing.
LEMMA OthersStatus ==
    ASSUME IndInv, ControlInv, Others
    PROVE  /\ response_pending_ = NotSet => UNCHANGED status
           /\ response_pending_ = "leave_game" /\ status # "in_game" => status' # "in_game"
           /\ gameLoop <= gameLoop'
<1> USE DEF ControlInv, ControlTypeOK
<1>1. ASSUME NEW c \in Conns, GameAnswers(c)
      PROVE  /\ response_pending_ # NotSet
             /\ response_pending_ = "leave_game" /\ status # "in_game" => status' # "in_game"
             /\ gameLoop <= gameLoop'
  <2>0. Head(requests[c]) = Len(via) /\ Outstanding = <<Len(via)>>
    BY <1>1, AnswersLast
  <2>1. Head(requests[c]) = Len(via) /\ Outstanding # <<>>
    BY <2>0
  <2>2. kind[Len(via)] = response_pending_ /\ response_pending_ \in Kinds
    BY <2>1, LastRequest DEF FlightInv
  <2>3. GamePlays(response_pending_) \/ Serves(response_pending_)
    BY <1>1, <2>1, <2>2 DEF GameAnswers
  <2>4. gameLoop <= gameLoop'
    BY <1>1, AnswerType
  <2>5. QED
    BY <2>2, <2>3, <2>4 DEF GamePlays, Serves, Kinds, NotSet
<1>2. ASSUME NEW c \in Conns, WorkerRuns(c) \/ GameEndsConnection(c)
      PROVE  UNCHANGED <<status, gameLoop>>
  BY <1>2 DEF WorkerRuns, GameEndsConnection, game
<1>3. CASE GameFails
  BY <1>3 DEF GameFails
<1>4. QED
  BY <1>1, <1>2, <1>3 DEF Others

LEMMA SettledStep ==
    ASSUME IndInv, ControlInv, [ControlNext]_allVars
    PROVE  SettledInv'
<1> USE DEF ControlInv, SettledInv
<1>0. UNCHANGED vars => UNCHANGED <<connection_, has_response_, queue_>>
  BY DEF vars, fields
<1>n. pc \notin Busy => task = "none"
  BY DEF TaskInv
<1>1. CASE UNCHANGED allVars
  BY <1>0, <1>1, UnchangedFacts DEF Settled, thread, proto, app, game
<1>2. CASE Coordinates
  <2>1. /\ UNCHANGED <<connection_, has_response_, queue_, response_pending_>>
        /\ UNCHANGED <<latest_status_, status, app_state_>>
        /\ client_errors_ \subseteq client_errors_'
    BY <1>0, <1>2, CoordinatesFacts DEF proto, game
  <2>2. Settled' => Settled
    <3>1. pc # "menu" => Settled
      BY <1>2, CoordinatesFacts DEF Settled
    <3>2. pc = "menu" => CreateGame \/ JoinGame \/ Destroy
      BY <1>2 DEF Coordinates, UserCall, Update, WaitForAllResponses, Awaits, ConsumeResponse,
         NothingToWaitFor, WaitGivesUp, LeaveGame,
         StartGameJoins, JoinGameCheck, GameStarted, StepAgent, Observe, SecondLoop,
         CallOnGameEnd, CallOnStep, CallOnStepFeatureLayer, RealtimeEvents, RealtimeEnds,
         UpdateReturns, ReturnStopping
    <3>3. CreateGame \/ JoinGame \/ Destroy => ~Settled'
      BY DEF CreateGame, JoinGame, Destroy, Ask, Settled, PlayTasks
    <3>4. QED
      BY <3>1, <3>2, <3>3
  <2>3. ASSUME Settled', app_state_ = "normal", response_pending_ # NotSet
        PROVE  /\ response_pending_ = "leave_game" /\ Multiplayer
               /\ \/ pc' \in {"idle", "waitAll", "first", "second", "check"}
                  \/ task' = "leave_now"
    <3>1. /\ response_pending_ = "leave_game" /\ Multiplayer
          /\ pc \in {"idle", "waitAll", "first", "second", "check"}
      BY <1>2, <1>n, <2>2, <2>3, CoordinatesFacts DEF Settled, Busy
    <3>2. CASE UserCall \/ Awaits
      BY <2>3, <3>1, <3>2 DEF UserCall, CreateGame, JoinGame, Update,
         WaitForAllResponses, Awaits, ConsumeResponse, NothingToWaitFor, WaitGivesUp, LeaveGame,
         Destroy, Goto, Ask, Poll, Settled, PlayTasks
    <3>3. CASE StepAgent
      BY <2>3, <3>1, <3>3
         DEF StepAgent, PollLeaveGame, NotLeaving, Goto, Poll, AgentDone, Settled
    <3>4. CASE SecondLoop
      BY <2>3, <3>1, <3>4 DEF SecondLoop, PollLeaveGame, NotLeaving, Goto, Poll, Settled
    <3>5. CASE UpdateReturns
      BY <3>1, <3>5 DEF UpdateReturns, ReturnStopping, Goto
    <3>6. QED
      BY <1>2, <3>1, <3>2, <3>3, <3>4, <3>5
         DEF Coordinates, StartGameJoins, JoinGameCheck, GameStarted, Observe, CallOnGameEnd,
             CallOnStep, CallOnStepFeatureLayer, RealtimeEvents, RealtimeEnds
  <2>4. QED
    BY <2>1, <2>2, <2>3
<1>3. CASE Others
  <2>1. /\ UNCHANGED <<thread, proto, app_state_, connection_>>
        /\ client_errors_ \subseteq client_errors_'
    BY <1>3, OthersFacts, OthersQueue
  <2>2. Settled' <=> Settled
    BY <2>1 DEF Settled, thread
  <2>3. QED
    BY <1>3, <2>1, <2>2, OthersQueue, OthersStatus DEF thread, proto
<1>4. CASE Within
  <2>1. UNCHANGED <<thread, proto, app, game>>
    BY <1>4, WithinFacts
  <2>2. Settled' <=> Settled
    BY <2>1 DEF Settled, thread
  <2>3. CASE SendRequestConnect
    <3>1. connection_' # NULL /\ UNCHANGED <<has_response_, queue_>>
      BY <2>3, BoundsAssumption DEF SendRequestConnect, Connect, Conns, NULL
    <3>2. QED
      BY <2>1, <2>2, <3>1 DEF thread, proto, app, game
  <2>4. CASE Receiving \/ ProtoQuit
    BY <2>2, <2>4 DEF Receiving, ProtoQuit, Settled
  <2>5. QED
    BY <1>4, <2>3, <2>4 DEF Within
<1>5. CASE ConnectToGame \/ ConnectGivesUp \/ ConnectToGameCallback
  BY <1>5 DEF ConnectToGame, ConnectGivesUp, ConnectToGameCallback, Goto, Ask, Settled,
              PlayTasks
<1>6. CASE SendRequest
  <2>1. /\ UNCHANGED <<connection_, has_response_, queue_, app>> /\ connection_ # NULL
        /\ response_pending_' = Kind /\ diagnosing' = diagnosing
        /\ pc' = IF diagnosing THEN "receive" ELSE WhenSent[task]
        /\ pc = "request"
    BY <1>6 DEF SendRequest, SendExpecting, Send, CanSend, fields, Goto
  <2>2. SUFFICES ASSUME Settled' PROVE SettledInv'
    OBVIOUS
  <2>3. ~diagnosing /\ task \in {"leave_game", "leave_now"} /\ pc' \in {"check", "idle"}
    BY <2>1, <2>2, RefusedTable, SentTable DEF Settled, TaskInv, AskTasks
  <2>4. Settled /\ Kind = "leave_game" /\ Multiplayer
    BY <2>1, <2>3, KindTable DEF Settled, PlayTasks, TaskInv, Kind
  <2>5. QED
    BY <2>1, <2>3, <2>4 DEF app, NotSet
<1>7. CASE SendRequestNoConnection \/ SendRequestRefused
  <2>1. /\ UNCHANGED <<connection_, has_response_, queue_, proto, status>>
        /\ pc = "request"
        /\ client_errors_ \subseteq client_errors_'
    BY <1>0, <1>7
       DEF SendRequestNoConnection, SendRequestRefused, Refused, Error, game
  <2>2. SUFFICES ASSUME Settled' PROVE SettledInv'
    OBVIOUS
  <2>3. ~diagnosing /\ pc' = WhenRefused[task] /\ UNCHANGED app_state_ /\ task \in AskTasks
    BY <1>7, <2>1, <2>2
       DEF SendRequestNoConnection, SendRequestRefused, Refused, Goto, Settled, TaskInv
  <2>4. Settled /\ (task = "leave_now" => pc' = "idle")
    BY <2>1, <2>2, <2>3, RefusedTable DEF Settled, AskTasks, PlayTasks
  <2>5. QED
    BY <2>1, <2>3, <2>4 DEF proto
<1>8. CASE WaitForResponseInternal
  BY <1>8 DEF WaitForResponseInternal, Goto, Settled
<1>9. CASE TakeResponse
  <2>1. /\ response_pending_' = NotSet /\ UNCHANGED <<status, app_state_>>
        /\ UNCHANGED <<connection_, has_response_, queue_>>
        /\ response # NULL /\ latest_status_' = answers[response].status
    BY <1>9 DEF TakeResponse, ReceiveReturn, fields, game
  <2>2. connection_ # NULL
    BY <2>1, ResponseConnected
  <2>3. latest_status_' = status' /\ (has_response_' => queue_' # <<>>)
    BY <2>1 DEF AnswerInv, Current, WaitInv
  <2>4. QED
    BY <2>1, <2>2, <2>3
<1>10. CASE TakeTimeout
  BY <1>10 DEF TakeTimeout, Refused, Goto, Settled
<1>11. CASE Diagnose \/ Terminate
  BY <1>0, <1>11 DEF Diagnose, Terminate, Error, Goto, Settled
<1>12. QED
  BY <1>1, <1>2, <1>3, <1>4, <1>5, <1>6, <1>7, <1>8, <1>9, <1>10, <1>11, StepKinds

-----------------------------------------------------------------------------
(* While an answer is awaited.                                             *)

\* The coordinator waits for a response only after PollResponse has found one.
LEMMA PollsQueued ==
    ASSUME ControlInv, Coordinates, pc' = "receive"
    PROVE  /\ task' \in PollTasks /\ response_pending_ = "leave_game" /\ Multiplayer
           /\ app_state_ = "normal" /\ queue_ # <<>> /\ ~diagnosing
<1> USE DEF ControlInv
<1>1. CASE ConsumeResponse
  <2>1. pc = "waitAll" /\ app_state_ = "normal" /\ has_response_ /\ response_pending_ # NotSet
    BY <1>1 DEF ConsumeResponse, HasResponsePending
  <2>2. queue_ # <<>> /\ response_pending_ = "leave_game" /\ Multiplayer /\ ~diagnosing
    BY <2>1 DEF SettledInv, Settled, TaskInv
  <2>3. QED
    BY <1>1, <2>1, <2>2 DEF ConsumeResponse, Poll, PollTasks
<1>2. CASE StepAgent \/ SecondLoop
  <2>1. pc \in {"first", "second"} /\ app_state_ = "normal" /\ has_response_
    BY <1>2, Destinations DEF StepAgent, SecondLoop, PollLeaveGame, Goto, Ask, Rests, Busy
  <2>2. response_pending_ = "leave_game" /\ Multiplayer /\ task' \in PollTasks
    BY <1>2, Destinations
       DEF StepAgent, SecondLoop, PollLeaveGame, Goto, Ask, Poll, PollTasks, Rests, Busy
  <2>3. queue_ # <<>> /\ ~diagnosing
    BY <2>1 DEF SettledInv, Settled, TaskInv
  <2>4. QED
    BY <2>1, <2>2, <2>3
<1>3. QED
  BY <1>1, <1>2
     DEF Coordinates, UserCall, CreateGame, JoinGame, Update, WaitForAllResponses, LeaveGame,
         Destroy, Awaits, NothingToWaitFor, WaitGivesUp,
         StartGameJoins, JoinGameCheck, GameStarted, Observe, CallOnGameEnd, CallOnStep,
         CallOnStepFeatureLayer, RealtimeEvents, RealtimeEnds, UpdateReturns,
         ReturnStopping, Goto, Ask

LEMMA CoordinatesTask ==
    ASSUME Coordinates
    PROVE  pc' \in {"request", "receive"} \/ task' = "none"
<1> USE DEF Goto, Ask, Poll
<1>1. CASE UserCall \/ Awaits
  BY <1>1 DEF UserCall, CreateGame, JoinGame, Update, WaitForAllResponses, Awaits,
     ConsumeResponse, NothingToWaitFor, WaitGivesUp, LeaveGame,
              Destroy, Busy
<1>2. CASE StepAgent \/ SecondLoop
  BY <1>2, Destinations DEF StepAgent, SecondLoop, PollLeaveGame, Rests, Busy
<1>3. QED
  BY <1>1, <1>2
     DEF Coordinates, StartGameJoins, JoinGameCheck, GameStarted, Observe, CallOnGameEnd,
         CallOnStep, CallOnStepFeatureLayer, RealtimeEvents, RealtimeEnds, UpdateReturns,
         ReturnStopping, Busy

\* Whoever waits after PollResponse gets its response: a wait that times out, the
\* diagnosis after it and the requests are for other tasks.
LEMMA PollersWait ==
    ASSUME ControlInv, task \in PollTasks
    PROVE  /\ pc \in {"receive", "receiving"}
           /\ pc = "receiving" => response # NULL \/ clientPc \in {"waiting", "ready", "popping"}
  BY DEF ControlInv, WaitInv

LEMMA WaitStep ==
    ASSUME IndInv, ControlInv, [ControlNext]_allVars, TaskInv'
    PROVE  WaitInv'
<1> USE DEF ControlInv, WaitInv
<1>0. UNCHANGED vars =>
        UNCHANGED <<connection_, has_response_, queue_, clientPc, response>>
  BY DEF vars, fields, client
<1>k. UNCHANGED <<diagnosing, task, response_pending_>> => UNCHANGED Kind
  BY DEF Kind, RequestKind
<1>p. pc \notin {"receive", "receiving"} => task \notin PollTasks
  BY PollersWait
<1>1. CASE UNCHANGED allVars
  BY <1>0, <1>1, <1>k, UnchangedFacts DEF thread, proto, app
<1>2. CASE Coordinates
  <2>1. /\ UNCHANGED <<connection_, has_response_, queue_, clientPc, response>>
        /\ UNCHANGED <<diagnosing, proto, app_state_>>
        /\ pc' # "receiving"
    BY <1>0, <1>2, CoordinatesFacts
  <2>2. CASE pc' = "receive"
    <3>1. /\ task' \in PollTasks /\ response_pending_ = "leave_game" /\ Multiplayer
          /\ app_state_ = "normal" /\ queue_ # <<>> /\ ~diagnosing
      BY <1>2, <2>2, PollsQueued
    <3>2. Kind' = response_pending_'
      BY <2>1, <3>1 DEF Kind, RequestKind, PollTasks, proto
    <3>3. QED
      BY <2>1, <2>2, <3>1, <3>2 DEF proto
  <2>3. CASE pc' # "receive"
    <3>1. task' \notin PollTasks
      <4>1. CASE pc' = "request"
        <5>1. ~diagnosing'
          BY <1>2, CoordinatesFacts DEF TaskInv
        <5>2. QED
          BY <4>1, <5>1 DEF TaskInv, PollTasks, AskTasks
      <4>2. CASE task' = "none"
        BY <4>2 DEF PollTasks
      <4>3. QED
        BY <1>2, <2>3, <4>1, <4>2, CoordinatesTask
    <3>2. QED
      BY <2>1, <2>3, <3>1
  <2>4. QED
    BY <2>2, <2>3
<1>3. CASE Others
  <2>1. /\ UNCHANGED <<thread, proto, app_state_, client>>
        /\ client_errors_ \subseteq client_errors_'
        /\ (has_response_ => queue_ # <<>>) => (has_response_' => queue_' # <<>>)
        /\ queue_ # <<>> => queue_' # <<>>
    BY <1>3, OthersFacts, OthersQueue
  <2>2. UNCHANGED <<pc, task, diagnosing, response_pending_, clientPc, response, Kind>>
    BY <2>1, <1>k DEF thread, proto, client
  <2>3. client_errors_' = {} => client_errors_ = {}
    BY <2>1
  <2>4. QED
    BY <2>1, <2>2, <2>3
<1>4. CASE Within
  <2>1. /\ UNCHANGED <<pc, task, diagnosing, response_pending_, app_state_, client_errors_, Kind>>
        /\ pc \in {"request", "receiving", "quit"}
    BY <1>4, <1>k, WithinFacts DEF thread, proto, app
  <2>2. response' # NULL /\ has_response_' => queue_' # <<>>
    <3>1. CASE response' = response
      <4>1. response # NULL => clientPc = "returned"
        BY DEF IndInv, ClientInv
      <4>2. clientPc # "returned"
        <5>1. CASE pc = "receiving"
          BY <1>4, <5>1 DEF Within, SendRequestConnect, Receiving, ProtoQuit
        <5>2. CASE pc # "receiving"
          BY <5>2 DEF CallInv, ReceivePcs
        <5>3. QED
          BY <5>1, <5>2
      <4>3. QED
        BY <3>1, <4>1, <4>2
    <3>2. CASE PopResponse /\ Len(queue_) = 1
      <4>1. queue_ # <<>>
        BY <3>2 DEF IndInv, PopResponse, PopWith, ClientInv
      <4>2. QED
        BY <3>2, <4>1 DEF PopResponse, PopWith
    <3>3. QED
      BY <1>4, <3>1, <3>2, WithinOutstanding
  <2>3. ASSUME task \in PollTasks
        PROVE  \/ pc = "receiving" /\ clientPc' \in {"waiting", "ready", "popping"} /\ queue_' # <<>>
               \/ pc = "receiving" /\ response' # NULL
    <3>1. pc = "receiving" /\ Receiving
      BY <1>4, <2>1, <2>3, PollersWait DEF Within, SendRequestConnect, ProtoQuit
    <3>2. response = NULL /\ clientPc \in {"waiting", "ready", "popping"} /\ queue_ # <<>>
      BY <2>3, <3>1 DEF Receiving, IndInv, ClientInv
    <3>3. CASE ReceiveReady \/ ReceiveUnlock
      BY <3>1, <3>2, <3>3 DEF ReceiveReady, ReceiveUnlock
    <3>4. CASE PopResponse
      BY <3>1, <3>4, PopOutstanding DEF Requests, NULL
    <3>5. QED
      BY <3>1, <3>2, <3>3, <3>4
         DEF Receiving, ClientStep, ReceiveTimeout, Disconnect, Disconnected,
             DisconnectNull, ReceiveClear, ReceiveReturn
  <2>4. QED
    BY <2>1, <2>2, <2>3
<1>5. CASE ConnectToGame \/ ConnectGivesUp \/ ConnectToGameCallback
  <2>1. UNCHANGED <<response, has_response_, queue_>>
    BY <1>0, <1>5 DEF ConnectToGame, ConnectGivesUp, ConnectToGameCallback, Connect,
                      SetConnectionClosedCallback, client
  <2>2. pc' \notin {"receive", "receiving"} /\ task' \notin PollTasks
    BY <1>5 DEF ConnectToGame, ConnectGivesUp, ConnectToGameCallback, Goto, Ask, Busy,
                PollTasks
  <2>3. CASE response = NULL
    BY <2>1, <2>2, <2>3
  <2>4. CASE response # NULL
    BY <2>1, <2>2, <2>4
  <2>5. QED
    BY <2>3, <2>4
<1>6. CASE SendRequest
  <2>1. /\ response_pending_' = Kind /\ response' = NULL /\ pc = "request"
        /\ pc' # "receiving" /\ diagnosing' = diagnosing
        /\ task' \in {task, "none"} /\ (pc' = "receive" => task' = task)
    <3>1. \A t \in AskTasks : WhenSent[t] # "receiving"
      BY RefusedTable, SentTable DEF AskTasks
    <3>2. QED
      BY <1>6, <3>1, SendsAlone DEF SendRequest, SendExpecting, Goto, TaskInv, Busy
  <2>2. task' \notin PollTasks
    BY <1>p, <2>1 DEF PollTasks
  <2>3. ~diagnosing /\ pc' = "receive" => Kind' = Kind
    BY <2>1, <2>2 DEF Kind, RequestKind, TaskInv, AskTasks
  <2>4. QED
    BY <2>1, <2>2, <2>3
<1>7. CASE SendRequestNoConnection \/ SendRequestRefused
  <2>1. UNCHANGED <<response, has_response_, queue_>> /\ pc = "request"
    BY <1>0, <1>7 DEF SendRequestNoConnection, SendRequestRefused
  <2>2. task' \in {task, "none"} /\ task' \notin PollTasks /\ pc' # "receiving"
    <3>1. \A t \in AskTasks : WhenRefused[t] # "receiving"
      BY RefusedTable DEF AskTasks, StepDone, ActionDone
    <3>2. task' \in {task, "none"} /\ pc' # "receiving"
      BY <1>7, <2>1, <3>1
         DEF SendRequestNoConnection, SendRequestRefused, Refused, Goto, TaskInv
    <3>3. QED
      BY <1>p, <2>1, <3>2 DEF PollTasks
  <2>3. pc' = "receive" => client_errors_' # {}
    <3>1. SUFFICES ASSUME pc' = "receive" PROVE client_errors_' # {}
      OBVIOUS
    <3>2. ~diagnosing /\ task \in AskTasks /\ pc' = WhenRefused[task]
      BY <1>7, <2>1, <3>1
         DEF SendRequestNoConnection, SendRequestRefused, Refused, Goto, TaskInv
    <3>3. task = "step"
      BY <3>1, <3>2, RefusedTable DEF AskTasks, StepDone, ActionDone
    <3>4. Settled
      BY <2>1, <3>2, <3>3 DEF Settled, PlayTasks
    <3>5. QED
      BY <1>7, <3>2, <3>4
         DEF SendRequestNoConnection, SendRequestRefused, Refused, SettledInv, ErrorInv
  <2>4. QED
    BY <2>1, <2>2, <2>3
<1>8. CASE WaitForResponseInternal
  <2>1. /\ UNCHANGED <<response, has_response_, queue_, task, diagnosing, response_pending_>>
        /\ UNCHANGED app
        /\ pc = "receive" /\ pc' = "receiving" /\ clientPc' = "waiting"
    BY <1>8 DEF WaitForResponseInternal, Receive, fields, Goto, Busy
  <2>2. QED
    BY <1>k, <2>1 DEF app
<1>9. CASE TakeResponse
  <2>1. response' = NULL /\ task' = "none" /\ pc' \notin Busy
    BY <1>9, Destinations DEF TakeResponse, ReceiveReturn, TaskInv, Rests
  <2>2. QED
    BY <2>1 DEF PollTasks, Busy
<1>10. CASE TakeTimeout
  <2>1. response' = NULL /\ pc' \notin {"receive", "receiving"} /\ task' \in {task, "none"}
    BY <1>10 DEF TakeTimeout, ReceiveReturn, Refused, Goto
  <2>2. task \notin PollTasks
    BY <1>10 DEF TakeTimeout
  <2>3. QED
    BY <2>1, <2>2 DEF PollTasks
<1>11. CASE Diagnose \/ Terminate
  <2>1. /\ UNCHANGED <<response, has_response_, queue_>>
        /\ pc' \notin {"receive", "receiving"} /\ task' \in {task, "none"}
    BY <1>0, <1>11, Destinations DEF Diagnose, Terminate, Goto, TaskInv, Rests, Busy
  <2>2. task \notin PollTasks
    BY <1>p, <1>11 DEF Diagnose, Terminate
  <2>3. QED
    BY <2>1, <2>2 DEF PollTasks
<1>12. QED
  BY <1>1, <1>2, <1>3, <1>4, <1>5, <1>6, <1>7, <1>8, <1>9, <1>10, <1>11, StepKinds

-----------------------------------------------------------------------------
(* A game that is given up.                                                *)

\* Step is asked for only of a game that has not been given up.
LEMMA StepAsked ==
    ASSUME Coordinates, pc' = "request", task' = "step"
    PROVE  app_state_ = "normal"
<1> USE DEF Goto, Ask, Poll
<1>1. CASE UserCall \/ Awaits
  BY <1>1 DEF UserCall, CreateGame, JoinGame, Update, WaitForAllResponses, LeaveGame,
              Destroy, Awaits, ConsumeResponse, NothingToWaitFor, WaitGivesUp
<1>2. CASE SecondLoop
  BY <1>2 DEF SecondLoop, PollLeaveGame
<1>3. CASE StepAgent
  BY <1>3, Destinations DEF StepAgent, Rests, Busy
<1>4. QED
  BY <1>1, <1>2, <1>3
     DEF Coordinates, StartGameJoins, JoinGameCheck, GameStarted, Observe, CallOnGameEnd,
         CallOnStep, CallOnStepFeatureLayer, RealtimeEvents, RealtimeEnds, UpdateReturns,
         ReturnStopping

LEMMA GivenUpStep ==
    ASSUME IndInv, ControlInv, [ControlNext]_allVars
    PROVE  GivenUpInv'
<1> USE DEF ControlInv, GivenUpInv, HasResponsePending
<1>d. diagnosing => pc \in {"request", "receive", "receiving"}
  BY DEF TaskInv
<1>1. CASE UNCHANGED allVars \/ Others \/ Within
  <2>1. UNCHANGED <<pc, task, diagnosing, response_pending_, app_state_>>
    BY <1>1, UnchangedFacts, OthersFacts, WithinFacts DEF thread, proto, app
  <2>2. QED
    BY <2>1
<1>2. CASE Coordinates
  <2>1. UNCHANGED <<response_pending_, app_state_>> /\ ~diagnosing'
    BY <1>2, <1>d, CoordinatesFacts DEF proto
  <2>2. pc' \notin {"connect", "callback", "receiving", "diagnose", "terminate"}
    BY <1>2, CoordinatesFacts
  <2>3. pc' = "receive" => response_pending_ = "leave_game" /\ app_state_ = "normal"
    BY <1>2, PollsQueued
  <2>4. pc' = "request" => task' # "connect" /\ (task' = "step" => app_state_ = "normal")
    BY <1>2, CoordinatesFacts, StepAsked
  <2>5. QED
    BY <2>1, <2>2, <2>3, <2>4 DEF NotSet
<1>3. CASE ConnectToGame \/ ConnectGivesUp \/ ConnectToGameCallback
  BY <1>3, <1>d
     DEF ConnectToGame, ConnectGivesUp, ConnectToGameCallback, Goto, Ask, proto, app
<1>4. CASE SendRequest
  <2>1. pc = "request" /\ (Kind = "ping" \/ response_pending_ = NotSet)
    BY <1>4 DEF SendRequest
  <2>2. app_state_ = "normal"
    <3>1. SUFFICES ASSUME app_state_ # "normal" PROVE FALSE
      OBVIOUS
    <3>2. ~diagnosing /\ task \in AskTasks \ {"connect"}
      BY <2>1, <3>1 DEF TaskInv
    <3>3. Kind # "ping"
      BY <3>2, KindTable DEF Kind, AskTasks
    <3>4. QED
      BY <2>1, <3>1, <3>3
  <2>3. response_pending_' = Kind /\ UNCHANGED app_state_ /\ Kind \in Kinds
    BY <1>4, <2>1, KindAsked DEF SendRequest, SendExpecting, app
  <2>4. QED
    BY <2>2, <2>3 DEF Kinds, NotSet
<1>5. CASE SendRequestNoConnection \/ SendRequestRefused
  <2>1. pc = "request" /\ UNCHANGED response_pending_
    BY <1>5 DEF SendRequestNoConnection, SendRequestRefused, proto
  <2>2. CASE diagnosing
    BY <1>5, <2>1, <2>2 DEF SendRequestNoConnection, SendRequestRefused, Refused
  <2>3. CASE ~diagnosing
    <3>1. /\ pc' = WhenRefused[task] /\ ~diagnosing' /\ UNCHANGED app_state_
          /\ task \in AskTasks
      BY <1>5, <2>1, <2>3
         DEF SendRequestNoConnection, SendRequestRefused, Refused, Goto, TaskInv
    <3>2. /\ pc' \notin {"request", "callback", "receiving", "diagnose", "terminate"}
          /\ pc' = "receive" => task = "step"
          /\ pc' = "connect" => task = "connect"
      BY <3>1, RefusedTable DEF AskTasks, StepDone, ActionDone
    <3>3. pc' = "receive" => app_state_ = "normal" /\ response_pending_ # NotSet
      <4>1. SUFFICES ASSUME pc' = "receive"
                     PROVE  app_state_ = "normal" /\ response_pending_ # NotSet
        OBVIOUS
      <4>2. task = "step" /\ app_state_ = "normal"
        BY <2>1, <3>2, <4>1
      <4>3. connection_ # NULL
        BY <2>1, <2>3, <4>2 DEF SettledInv, Settled, PlayTasks
      <4>4. QED
        BY <1>5, <4>2, <4>3 DEF SendRequestNoConnection, SendRequestRefused
    <3>4. QED
      BY <2>1, <3>1, <3>2, <3>3
  <2>4. QED
    BY <2>2, <2>3
<1>6. CASE WaitForResponseInternal
  BY <1>6 DEF WaitForResponseInternal, Goto, app
<1>7. CASE TakeResponse
  <2>1. pc = "receiving" /\ pc' \in Rests /\ ~diagnosing' /\ UNCHANGED app_state_
    BY <1>7, Destinations DEF TakeResponse, TaskInv
  <2>2. QED
    BY <2>1 DEF Rests, Busy
<1>8. CASE TakeTimeout
  BY <1>8 DEF TakeTimeout, Refused, Goto, proto, app
<1>9. CASE Diagnose \/ Terminate
  <2>1. /\ pc \in {"diagnose", "terminate"} /\ ~diagnosing /\ UNCHANGED response_pending_
        /\ task \in WaitTasks \ {"connect"}
    BY <1>9, <1>d DEF Diagnose, Terminate, TaskInv, proto
  <2>2. WhenNull[task] \in Rests \ {"connect"}
    BY <2>1, NullTable, Destinations
       DEF WaitTasks, PollTasks, AskTasks, StepDone, ActionDone, AgentDone
  <2>3. CASE Diagnose
    BY <2>1, <2>2, <2>3 DEF Diagnose, Goto, Rests, Busy, app
  <2>4. CASE Terminate
    BY <2>1, <2>2, <2>4 DEF Terminate, Goto, Rests, Busy
  <2>5. QED
    BY <1>9, <2>3, <2>4
<1>10. QED
  BY <1>1, <1>2, <1>3, <1>4, <1>5, <1>6, <1>7, <1>8, <1>9, StepKinds

-----------------------------------------------------------------------------
(* The errors, and the observations OnStep has run with.                   *)

\* Where OnStep is called, an observation is new or an error has been recorded.
LEMMA StepsFresh ==
    ASSUME ControlInv, GameStarted \/ CallOnStep \/ RealtimeEvents
    PROVE  /\ staleStep' => client_errors_ # {}
           /\ stepped' <= current_game_loop_
<1> USE DEF ControlInv
<1>1. IssueEvents /\ (client_errors_ = {} => StepIsFresh)
  BY DEF GameStarted, CallOnStep, RealtimeEvents, FreshInv
<1>2. stepped \in Int /\ current_game_loop_ \in Int
  BY DEF ControlTypeOK, NoLoop
<1>3. CASE current_game_loop_ = previous_game_loop
  BY <1>1, <1>3 DEF IssueEvents, ErrorInv, StaleStepIsReported, FreshInv
<1>4. CASE current_game_loop_ # previous_game_loop
  <2>1. stepped' = current_game_loop_
    BY <1>1, <1>4 DEF IssueEvents
  <2>2. staleStep' => staleStep \/ stepped = current_game_loop_
    BY <1>1, <1>4 DEF IssueEvents
  <2>3. client_errors_ = {} => stepped # current_game_loop_
    BY <1>1, <1>2, <1>4 DEF StepIsFresh
  <2>4. QED
    BY <1>2, <2>1, <2>2, <2>3 DEF ErrorInv, StaleStepIsReported
<1>5. QED
  BY <1>3, <1>4

\* All other steps leave alone what OnStep has done.
LEMMA StepsOnly ==
    ASSUME [ControlNext]_allVars
    PROVE  \/ UNCHANGED <<stepped, staleStep>>
           \/ GameStarted \/ CallOnStep \/ RealtimeEvents
<1> USE DEF events
<1>1. CASE UNCHANGED allVars \/ Others \/ Within
  BY <1>1, UnchangedFacts, OthersFacts, WithinFacts
<1>2. CASE Coordinates
  BY <1>2 DEF Coordinates, UserCall, CreateGame, JoinGame, Update, WaitForAllResponses, Awaits,
     ConsumeResponse, NothingToWaitFor, WaitGivesUp,
     LeaveGame, Destroy, StartGameJoins, JoinGameCheck, StepAgent, Observe, SecondLoop,
     CallOnGameEnd, CallOnStepFeatureLayer, RealtimeEnds, UpdateReturns, ReturnStopping
<1>3. QED
  BY <1>1, <1>2, StepKinds
     DEF ConnectToGame, ConnectGivesUp, ConnectToGameCallback, SendRequest, SendExpecting,
         SendRequestNoConnection, SendRequestRefused, WaitForResponseInternal,
         TakeResponse, TakeTimeout, Diagnose, Terminate

\* Errors are never forgotten, and a game is not given up without one.
LEMMA ErrorsGrow ==
    ASSUME IndInv, ControlInv, [ControlNext]_allVars
    PROVE  /\ client_errors_ \subseteq client_errors_'
           /\ app_state_' = app_state_ \/ client_errors_' # {}
           /\ "ResponseMismatch" \in client_errors_' => "ResponseMismatch" \in client_errors_
<1> USE DEF app, Error
<1>1. CASE UNCHANGED allVars \/ Others \/ Within \/ Coordinates
  BY <1>1, UnchangedFacts, OthersFacts, WithinFacts, CoordinatesFacts
<1>2. CASE SendRequestNoConnection \/ SendRequestRefused
  BY <1>2 DEF SendRequestNoConnection, SendRequestRefused, Refused
<1>3. CASE TakeTimeout
  BY <1>3 DEF TakeTimeout, Refused
<1>4. CASE TakeResponse
  BY <1>4 DEF TakeResponse, ResponseErrors, ControlInv, FlightInv
<1>5. CASE Diagnose \/ Terminate
  BY <1>5 DEF Diagnose, Terminate
<1>6. QED
  BY <1>1, <1>2, <1>3, <1>4, <1>5, StepKinds
     DEF ConnectToGame, ConnectGivesUp, ConnectToGameCallback, SendRequest, SendExpecting,
         WaitForResponseInternal

LEMMA ErrorStep ==
    ASSUME IndInv, ControlInv, [ControlNext]_allVars
    PROVE  ErrorInv'
<1>1. /\ client_errors_ # {} => client_errors_' # {}
      /\ app_state_' = app_state_ \/ client_errors_' # {}
      /\ ResponsesMatch'
  BY ErrorsGrow DEF ControlInv, ErrorInv, ResponsesMatch
<1>2. staleStep' => client_errors_ # {}
  BY StepsFresh, StepsOnly DEF ControlInv, ErrorInv, StaleStepIsReported
<1>3. QED
  BY <1>1, <1>2 DEF ControlInv, ErrorInv, StaleStepIsReported

\* A response without an error, and none recorded before, is to what the client thread
\* has asked for.
LEMMA GoodResponse ==
    ASSUME IndInv, ControlInv, TakeResponse, client_errors_' = {}
    PROVE  /\ client_errors_ = {} /\ ~diagnosing /\ kind[response] = Kind
           /\ task # "connect" => ~answers[response].error /\ pc' = WhenGood[task]
           /\ task = "connect" => pc' \in {"menu", "connect"}
<1> USE DEF ControlInv
<1>1. client_errors_ = {} /\ ResponseErrors(response) = {}
  BY DEF TakeResponse
<1>2. ~diagnosing /\ (task # "connect" => ~answers[response].error)
  BY <1>1 DEF ResponseErrors
<1>3. pc = "receiving" /\ response # NULL
  BY DEF TakeResponse
<1>4. kind[response] = Kind
  BY <1>1, <1>2, <1>3 DEF WaitInv, FlightInv
<1>5. QED
  BY <1>1, <1>2, <1>3, <1>4, GoodTable, ErrorsTable DEF TakeResponse

LEMMA FreshStep ==
    ASSUME IndInv, ControlInv, [ControlNext]_allVars, ControlTypeOK'
    PROVE  FreshInv'
<1> USE DEF ControlInv
<1>t. /\ stepped \in Int /\ current_game_loop_ \in Int /\ gameLoop \in Int
      /\ stepped' \in Int /\ current_game_loop_' \in Int /\ gameLoop' \in Int
      /\ stepped <= current_game_loop_ /\ current_game_loop_ <= gameLoop
  BY DEF ControlTypeOK, NoLoop, FreshInv
<1>e. client_errors_' = {} => client_errors_ = {}
  BY ErrorsGrow
<1>1. CASE UNCHANGED allVars \/ Within
  <2>1. UNCHANGED <<thread, proto, app, loops, game, events>>
    BY <1>1, UnchangedFacts, WithinFacts
  <2>2. QED
    BY <2>1 DEF FreshInv, StepIsFresh, IsInGame, thread, proto, app, loops, game, events
<1>2. CASE Others
  <2>1. UNCHANGED <<thread, proto, app_state_, loops, events>> /\ gameLoop <= gameLoop'
    BY <1>2, OthersFacts, OthersStatus
  <2>2. QED
    BY <1>t, <1>e, <2>1
       DEF FreshInv, StepIsFresh, IsInGame, thread, proto, loops, events
<1>3. CASE Coordinates
  <2>1. /\ UNCHANGED <<proto, app_state_, loops, game>>
        /\ pc' \notin {"joined", "events"}
    <3>1. UNCHANGED <<proto, app_state_, loops, game>>
      BY <1>3, CoordinatesFacts
    <3>2. pc' \notin {"joined", "events"}
      BY <1>3 DEF Coordinates, UserCall, CreateGame, JoinGame, Update,
         WaitForAllResponses, Awaits, ConsumeResponse, NothingToWaitFor, WaitGivesUp, LeaveGame,
         Destroy, StartGameJoins, JoinGameCheck,
         GameStarted, StepAgent, PollLeaveGame, AgentDone, Observe, SecondLoop,
         CallOnGameEnd, CallOnStep, CallOnStepFeatureLayer, RealtimeEvents, RealtimeEnds,
         UpdateReturns, ReturnStopping, Goto, Ask, Poll
    <3>3. QED
      BY <3>1, <3>2
  <2>2. stepped' <= current_game_loop_
    BY <1>t, StepsOnly, StepsFresh
  <2>3. ASSUME pc' = "callOnStep", IsInGame', client_errors_' = {}
        PROVE  StepIsFresh'
    <3>1. SecondLoop
      BY <1>3, <2>3 DEF Coordinates, UserCall, CreateGame, JoinGame, Update,
         WaitForAllResponses, Awaits, ConsumeResponse, NothingToWaitFor, WaitGivesUp, LeaveGame,
         Destroy, StartGameJoins, JoinGameCheck,
         GameStarted, StepAgent, PollLeaveGame, AgentDone, Observe,
         CallOnGameEnd, CallOnStep, CallOnStepFeatureLayer, RealtimeEvents, RealtimeEnds,
         UpdateReturns, ReturnStopping, Goto, Ask, Poll
    <3>2. IsInGame /\ app_state_ = "normal" /\ NotLeaving /\ pc = "second"
      BY <2>1, <2>3, <3>1 DEF SecondLoop, PollLeaveGame, Goto, Poll, IsInGame, proto
    <3>3. response_pending_ = NotSet
      BY <3>2 DEF SettledInv, Settled, NotLeaving
    <3>4. StepIsFresh
      BY <1>e, <2>3, <3>2, <3>3 DEF FreshInv
    <3>5. UNCHANGED stepped
      BY <3>1 DEF SecondLoop, events
    <3>6. QED
      BY <2>1, <3>4, <3>5 DEF StepIsFresh, loops
  <2>4. ASSUME pc' = "second", IsInGame', response_pending_' = NotSet
        PROVE  FALSE
    <3>1. StepAgent
      BY <1>3, <2>4 DEF Coordinates, UserCall, CreateGame, JoinGame, Update,
         WaitForAllResponses, Awaits, ConsumeResponse, NothingToWaitFor, WaitGivesUp, LeaveGame,
         Destroy, StartGameJoins, JoinGameCheck,
         GameStarted, SecondLoop, PollLeaveGame, Observe,
         CallOnGameEnd, CallOnStep, CallOnStepFeatureLayer, RealtimeEvents, RealtimeEnds,
         UpdateReturns, ReturnStopping, Goto, Ask, Poll
    <3>2. IsInGame /\ response_pending_ = NotSet
      BY <2>1, <2>4 DEF IsInGame, proto
    <3>3. QED
      BY <2>4, <3>1, <3>2
         DEF StepAgent, PollLeaveGame, IsFinishedGame, IsInGame, Ask, Poll, NotSet
  <2>5. QED
    BY <1>t, <2>1, <2>2, <2>3, <2>4 DEF FreshInv, loops, game
<1>4. CASE ConnectToGame \/ ConnectGivesUp \/ ConnectToGameCallback \/ WaitForResponseInternal
  BY <1>4, <1>t DEF ConnectToGame, ConnectGivesUp, ConnectToGameCallback,
     WaitForResponseInternal, Goto, Ask, loops, game, events, FreshInv
<1>5. CASE SendRequest
  <2>1. UNCHANGED <<loops, game, events>>
    BY <1>5 DEF SendRequest, SendExpecting
  <2>2. pc' \notin {"joined", "events", "callOnStep", "second"}
    BY <1>5, RefusedTable, SentTable
       DEF SendRequest, SendExpecting, Goto, TaskInv, AskTasks
  <2>3. QED
    BY <1>t, <2>1, <2>2 DEF FreshInv, loops, game, events
<1>6. CASE SendRequestNoConnection \/ SendRequestRefused
  <2>1. UNCHANGED <<loops, game, events>> /\ pc = "request"
    BY <1>6 DEF SendRequestNoConnection, SendRequestRefused
  <2>2. client_errors_' = {} => pc' \notin {"joined", "events", "callOnStep", "second"}
    <3>1. SUFFICES ASSUME client_errors_' = {}
                   PROVE  pc' \notin {"joined", "events", "callOnStep", "second"}
      OBVIOUS
    <3>2. /\ SendRequestNoConnection /\ ~diagnosing /\ client_errors_ = {}
          /\ task \in AskTasks /\ pc' = WhenRefused[task] /\ connection_ = NULL
      BY <1>6, <1>e, <2>1, <3>1
         DEF SendRequestNoConnection, SendRequestRefused, Refused, Error, Goto, TaskInv
    <3>3. task \notin PlayTasks
      BY <2>1, <3>2 DEF SettledInv, Settled, ErrorInv
    <3>4. QED
      BY <3>2, <3>3, RefusedTable DEF AskTasks, PlayTasks
  <2>3. QED
    BY <1>t, <2>1, <2>2 DEF FreshInv, loops, game, events
<1>7. CASE TakeResponse
  <2>1. UNCHANGED <<game, events>> /\ response # NULL
    BY <1>7 DEF TakeResponse
  <2>2. answers[response].loop = gameLoop /\ latest_status_' = answers[response].status
    BY <1>7, <2>1 DEF AnswerInv, Current, TakeResponse
  <2>3. CASE TakesObservation(response)
    <3>1. current_game_loop_' = gameLoop /\ previous_game_loop' = current_game_loop_
      BY <1>7, <2>2, <2>3 DEF TakeResponse, ObservationUpdate
    <3>2. StepIsFresh'
      BY <1>t, <2>1, <3>1 DEF StepIsFresh, events
    <3>3. QED
      BY <1>t, <2>1, <3>1, <3>2 DEF FreshInv, game, events
  <2>4. CASE ~TakesObservation(response)
    <3>1. UNCHANGED loops
      BY <1>7, <2>4 DEF TakeResponse, ObservationUpdate
    <3>2. ASSUME client_errors_' = {}
          PROVE  /\ pc' \notin {"joined", "events", "callOnStep"}
                 /\ pc' = "second" => ~IsInGame'
      <4>1. /\ ~diagnosing /\ kind[response] = Kind
            /\ task # "connect" => ~answers[response].error /\ pc' = WhenGood[task]
            /\ task = "connect" => pc' \in {"menu", "connect"}
        BY <1>7, <3>2, GoodResponse
      <4>2. task \notin {"join_observation", "observation"}
        BY <2>4, <4>1, KindTable DEF TakesObservation, Kind
      <4>3. task \in WaitTasks
        BY <1>7 DEF TakeResponse, TaskInv
      <4>4. pc' \notin {"joined", "events", "callOnStep"}
        BY <4>1, <4>2, <4>3, GoodTable
           DEF WaitTasks, AskTasks, PollTasks, AgentDone, ActionDone
      <4>5. pc' = "second" => task = "poll_leave"
        BY <4>1, <4>2, <4>3, GoodTable DEF WaitTasks, AskTasks, PollTasks, ActionDone
      <4>6. task = "poll_leave" => answers[response].status = "launched"
        BY <2>1, <4>1, KindTable DEF Kind, AnswerInv, Current
      <4>7. QED
        BY <2>2, <4>4, <4>5, <4>6 DEF IsInGame
    <3>3. QED
      BY <1>t, <2>1, <3>1, <3>2 DEF FreshInv, loops, game, events
  <2>5. QED
    BY <2>3, <2>4
<1>8. CASE TakeTimeout
  BY <1>8, <1>t DEF TakeTimeout, Refused, Goto, loops, game, events, FreshInv
<1>9. CASE Diagnose \/ Terminate
  <2>1. UNCHANGED <<loops, gameLoop, events>>
    BY <1>9 DEF Diagnose, Terminate, game
  <2>2. client_errors_' = {} => pc' = "request"
    BY <1>9 DEF Diagnose, Terminate, Error
  <2>3. QED
    BY <1>t, <2>1, <2>2 DEF FreshInv, loops, events
<1>10. QED
  BY <1>1, <1>2, <1>3, <1>4, <1>5, <1>6, <1>7, <1>8, <1>9, StepKinds

-----------------------------------------------------------------------------
(* After the game.                                                         *)

\* OnGameEnd is called at two places, when the client does not take the game to be in
\* play.
LEMMA GameEndsOnly ==
    ASSUME [ControlNext]_allVars
    PROVE  \/ UNCHANGED gameEnds
           \/ /\ CallOnGameEnd \/ RealtimeEnds
              /\ ~IsInGame /\ pc \in {"callOnStep", "agentEnds"}
              /\ gameEnds' = IF gameEnds = 2 THEN 2 ELSE gameEnds + 1
              /\ IF Multiplayer THEN pc' = "request" /\ task' = "leave_game"
                                ELSE pc' = "check"
<1> USE DEF events, Goto, Ask
<1>1. CASE UNCHANGED allVars \/ Others \/ Within
  BY <1>1, UnchangedFacts, OthersFacts, WithinFacts
<1>2. CASE CallOnGameEnd \/ RealtimeEnds
  BY <1>2 DEF CallOnGameEnd, RealtimeEnds
<1>3. CASE Coordinates
  BY <1>2, <1>3 DEF Coordinates, UserCall, CreateGame, JoinGame, Update,
     WaitForAllResponses, Awaits, ConsumeResponse, NothingToWaitFor, WaitGivesUp, LeaveGame,
     Destroy, StartGameJoins, JoinGameCheck, GameStarted,
     StepAgent, Observe, SecondLoop, CallOnStep, CallOnStepFeatureLayer, RealtimeEvents,
     UpdateReturns, ReturnStopping
<1>4. QED
  BY <1>1, <1>3, StepKinds
     DEF ConnectToGame, ConnectGivesUp, ConnectToGameCallback, SendRequest, SendExpecting,
         SendRequestNoConnection, SendRequestRefused, WaitForResponseInternal,
         TakeResponse, TakeTimeout, Diagnose, Terminate

\* The program is told to stop by Update.
LEMMA StoppedOnly ==
    ASSUME [ControlNext]_allVars
    PROVE  UNCHANGED stopped \/ UpdateReturns
<1> USE DEF events
<1>1. CASE UNCHANGED allVars \/ Others \/ Within
  BY <1>1, UnchangedFacts, OthersFacts, WithinFacts
<1>2. CASE Coordinates
  BY <1>2 DEF Coordinates, UserCall, CreateGame, JoinGame, Update,
     WaitForAllResponses, Awaits, ConsumeResponse, NothingToWaitFor, WaitGivesUp, LeaveGame,
     Destroy, StartGameJoins, JoinGameCheck, GameStarted,
     StepAgent, Observe, SecondLoop, CallOnStep, CallOnStepFeatureLayer, RealtimeEvents,
     CallOnGameEnd, RealtimeEnds
<1>3. QED
  BY <1>1, <1>2, StepKinds
     DEF ConnectToGame, ConnectGivesUp, ConnectToGameCallback, SendRequest, SendExpecting,
         SendRequestNoConnection, SendRequestRefused, WaitForResponseInternal,
         TakeResponse, TakeTimeout, Diagnose, Terminate

\* Where the client thread may be between OnGameEnd and the return of Update that
\* stops the program.
OverAt ==
    \/ pc = "check"
    \/ /\ Multiplayer
       /\ \/ pc \in {"idle", "waitAll", "first", "second"}
          \/ pc = "request" /\ ~diagnosing /\ task \in {"leave_game", "leave_now"}
          \/ task \in PollTasks
Quits == pc \in {"quit", "exited"} \/ (pc = "request" /\ task = "quit")
NotInPlay == app_state_ = "normal" => status # "in_game" /\ latest_status_ # "in_game"

LEMMA OverStep ==
    ASSUME IndInv, ControlInv, [ControlNext]_allVars
    PROVE  OverInv'
<1> USE DEF ControlInv
<1> SUFFICES ASSUME gameEnds' > 0, ~stopped'
             PROVE  gameEnds' = 1 /\ (Quits' \/ (OverAt' /\ NotInPlay'))
  BY DEF OverInv, Quits, OverAt, NotInPlay
<1>s. ~stopped
  BY StoppedOnly DEF UpdateReturns, ReturnStopping
<1>g. gameEnds \in 0 .. 2
  BY DEF ControlTypeOK
<1>o. gameEnds > 0 => gameEnds = 1 /\ (Quits \/ (OverAt /\ NotInPlay))
  BY <1>s DEF OverInv, Quits, OverAt, NotInPlay
<1>n. pc \notin Busy => task = "none"
  BY DEF TaskInv
<1>p. task \in PollTasks => pc \in {"receive", "receiving"}
  BY PollersWait
<1>1. CASE gameEnds' # gameEnds
  <2>1. /\ CallOnGameEnd \/ RealtimeEnds
        /\ ~IsInGame /\ pc \in {"callOnStep", "agentEnds"}
        /\ gameEnds' = IF gameEnds = 2 THEN 2 ELSE gameEnds + 1
        /\ IF Multiplayer THEN pc' = "request" /\ task' = "leave_game"
                          ELSE pc' = "check"
    BY <1>1, GameEndsOnly
  <2>2. ~Quits /\ ~OverAt /\ gameEnds = 0
    BY <1>n, <1>g, <1>o, <2>1 DEF Quits, OverAt, PollTasks, Busy
  <2>3. ~diagnosing /\ Coordinates
    BY <2>1 DEF TaskInv, Coordinates
  <2>4. UNCHANGED <<diagnosing, proto, app_state_, game>>
    BY <2>3, CoordinatesFacts
  <2>5. OverAt'
    BY <2>1, <2>3, <2>4 DEF OverAt
  <2>6. NotInPlay
    BY <1>n, <2>1 DEF NotInPlay, SettledInv, Settled, IsInGame, Busy
  <2>7. NotInPlay'
    BY <2>4, <2>6 DEF NotInPlay, proto, game
  <2>8. QED
    BY <2>1, <2>2, <2>5, <2>7
<1>2. CASE gameEnds' = gameEnds
  <2>1. gameEnds = 1 /\ (Quits \/ (OverAt /\ NotInPlay))
    BY <1>2, <1>o
  <2> SUFFICES Quits' \/ (OverAt' /\ NotInPlay')
    BY <1>2, <2>1
  <2>a. pc \in {"check", "idle", "waitAll", "first", "second", "request", "receive", "receiving", "quit",
              "exited"}
    BY <1>p, <2>1 DEF Quits, OverAt
  <2>2. CASE UNCHANGED allVars \/ Within
    <3>1. UNCHANGED <<thread, proto, app, game>>
      BY <2>2, UnchangedFacts, WithinFacts
    <3>2. QED
      BY <2>1, <3>1 DEF Quits, OverAt, NotInPlay, thread, proto, app, game
  <2>3. CASE Others
    <3>1. UNCHANGED <<thread, proto, app_state_>>
      BY <2>3, OthersFacts
    <3>2. CASE Quits
      BY <3>1, <3>2 DEF Quits, thread
    <3>3. CASE OverAt /\ NotInPlay
      <4>1. app_state_ = "normal" => response_pending_ \in {NotSet, "leave_game"}
        BY <3>3 DEF OverAt, SettledInv, Settled, PlayTasks, WaitInv
      <4>2. app_state_ = "normal" => status' # "in_game"
        BY <2>3, <3>3, <4>1, OthersStatus DEF NotInPlay
      <4>3. QED
        BY <3>1, <3>3, <4>2 DEF OverAt, NotInPlay, thread, proto
    <3>4. QED
      BY <2>1, <3>2, <3>3
  <2>4. CASE Coordinates
    <3>1. UNCHANGED <<diagnosing, proto, app_state_, game>>
      BY <2>4, CoordinatesFacts
    <3>2. pc \in {"check", "idle", "waitAll", "first", "second"}
      BY <2>4, <2>a, CoordinatesFacts
    <3>3. /\ task = "none" /\ ~diagnosing /\ NotInPlay
          /\ pc # "check" => Multiplayer
      BY <1>n, <2>1, <3>2 DEF Busy, Quits, OverAt, PollTasks, TaskInv
    <3>4. NotInPlay'
      BY <3>1, <3>3 DEF NotInPlay, proto, game
    <3>5. CASE UserCall \/ Awaits
      BY <3>1, <3>2, <3>3, <3>4, <3>5 DEF UserCall, CreateGame, JoinGame, Update,
         WaitForAllResponses, Awaits, ConsumeResponse, NothingToWaitFor, WaitGivesUp, LeaveGame,
         Destroy, Goto, Ask, Poll, Busy, OverAt, Quits, PollTasks
    <3>6. CASE StepAgent
      <4>1. ~IsInGame
        BY <3>3 DEF NotInPlay, IsInGame
      <4>2. pc = "first" /\ Multiplayer
        BY <3>3, <3>6 DEF StepAgent
      <4>3. pc' \in {"check", "second"} \/ task' \in PollTasks
        BY <3>6, <4>1, <4>2
           DEF StepAgent, PollLeaveGame, NotLeaving, Goto, Poll, AgentDone, PollTasks
      <4>4. QED
        BY <3>4, <4>2, <4>3 DEF OverAt
    <3>7. CASE SecondLoop
      <4>1. ~IsInGame
        BY <3>3 DEF NotInPlay, IsInGame
      <4>2. pc = "second" /\ Multiplayer
        BY <3>3, <3>7 DEF SecondLoop
      <4>3. pc' = "check" \/ task' \in PollTasks
        BY <3>7, <4>1, <4>2
           DEF SecondLoop, PollLeaveGame, NotLeaving, Goto, Poll, PollTasks
      <4>4. QED
        BY <3>4, <4>2, <4>3 DEF OverAt
    <3>8. CASE UpdateReturns
      <4>1. pc = "check" /\ pc' = "idle" /\ client_errors_ = {} /\ (IsInGame \/ HasResponsePending)
        BY <3>8 DEF UpdateReturns, ReturnStopping, Goto
      <4>2. app_state_ = "normal"
        BY <4>1 DEF ErrorInv
      <4>3. response_pending_ # NotSet
        BY <3>3, <4>1, <4>2 DEF NotInPlay, IsInGame, HasResponsePending
      <4>4. Multiplayer
        BY <4>1, <4>2, <4>3 DEF SettledInv, Settled
      <4>5. QED
        BY <3>4, <4>1, <4>4 DEF OverAt
    <3>9. QED
      BY <2>4, <3>2, <3>5, <3>6, <3>7, <3>8
         DEF Coordinates, StartGameJoins, JoinGameCheck, GameStarted, Observe,
             CallOnGameEnd, CallOnStep, CallOnStepFeatureLayer, RealtimeEvents, RealtimeEnds
  <2>5. CASE SendRequest
    <3>1. /\ pc = "request" /\ UNCHANGED <<app_state_, game, latest_status_, diagnosing>>
          /\ ~diagnosing => pc' = WhenSent[task]
      BY <2>5 DEF SendRequest, SendExpecting, Goto, app
    <3>2. CASE Quits
      BY <3>1, <3>2, RefusedTable, SentTable DEF Quits, TaskInv, WaitTasks, AskTasks, PollTasks
    <3>3. CASE OverAt /\ NotInPlay
      <4>1. Multiplayer /\ ~diagnosing /\ task \in {"leave_game", "leave_now"}
        BY <1>p, <3>1, <3>3 DEF OverAt
      <4>2. pc' \in {"check", "idle"}
        BY <3>1, <4>1, RefusedTable, SentTable DEF AskTasks
      <4>3. QED
        BY <3>1, <3>3, <4>1, <4>2 DEF OverAt, NotInPlay, game
    <3>4. QED
      BY <2>1, <3>2, <3>3
  <2>6. CASE SendRequestNoConnection \/ SendRequestRefused
    <3>1. /\ pc = "request" /\ UNCHANGED <<proto, game>>
          /\ ~diagnosing => pc' = WhenRefused[task] /\ UNCHANGED app_state_
      BY <2>6 DEF SendRequestNoConnection, SendRequestRefused, Refused, Goto
    <3>2. CASE Quits
      BY <3>1, <3>2, RefusedTable DEF Quits, TaskInv, WaitTasks, AskTasks, PollTasks
    <3>3. CASE OverAt /\ NotInPlay
      <4>1. Multiplayer /\ ~diagnosing /\ task \in {"leave_game", "leave_now"}
        BY <1>p, <3>1, <3>3 DEF OverAt
      <4>2. pc' \in {"check", "idle"}
        BY <3>1, <4>1, RefusedTable
      <4>3. QED
        BY <3>1, <3>3, <4>1, <4>2 DEF OverAt, NotInPlay, proto, game
    <3>4. QED
      BY <2>1, <3>2, <3>3
  <2>7. CASE WaitForResponseInternal
    <3>1. /\ pc = "receive" /\ UNCHANGED <<task, app_state_, game>>
          /\ latest_status_' = "unknown"
      BY <2>7 DEF WaitForResponseInternal, Goto, Busy, app
    <3>2. Multiplayer /\ task \in PollTasks /\ NotInPlay
      BY <2>1, <3>1 DEF Quits, OverAt
    <3>3. QED
      BY <3>1, <3>2 DEF OverAt, NotInPlay, game
  <2>8. CASE TakeResponse
    <3>1. pc = "receiving" /\ response # NULL /\ UNCHANGED <<app_state_, game>>
      BY <2>8 DEF TakeResponse
    <3>2. Multiplayer /\ task \in PollTasks /\ NotInPlay
      BY <2>1, <3>1 DEF Quits, OverAt
    <3>3. latest_status_' = status
      BY <2>8, <3>1 DEF TakeResponse, AnswerInv, Current
    <3>4. pc' \in {AgentDone, "check", "waitAll"}
      BY <2>8, <3>2, NullTable, ErrorsTable, GoodTable DEF TakeResponse, PollTasks
    <3>5. QED
      BY <3>1, <3>2, <3>3, <3>4 DEF OverAt, NotInPlay, AgentDone, game
  <2>9. CASE TakeTimeout
    <3>1. pc = "receiving" /\ response = NULL /\ clientPc = "returned"
      BY <2>9 DEF TakeTimeout
    <3>2. task \in PollTasks
      BY <2>1, <3>1 DEF Quits, OverAt
    <3>3. QED
      BY <3>1, <3>2, PollersWait
  <2>10. CASE ConnectToGame \/ ConnectGivesUp \/ ConnectToGameCallback \/ Diagnose \/ Terminate
    BY <2>a, <2>10
       DEF ConnectToGame, ConnectGivesUp, ConnectToGameCallback, Diagnose, Terminate
  <2>11. QED
    BY <2>2, <2>3, <2>4, <2>5, <2>6, <2>7, <2>8, <2>9, <2>10, StepKinds
<1>3. QED
  BY <1>1, <1>2

-----------------------------------------------------------------------------
(* The theorems.                                                           *)

LEMMA ControlInitInv == ControlInit => ControlInv
<1> SUFFICES ASSUME ControlInit PROVE ControlInv
  OBVIOUS
<1> USE DEF ControlInit, Init
<1>1. Outstanding = <<>> /\ via = <<>> /\ Len(via) = 0 /\ <<>> \in Seq(Kinds)
  BY EmptySeq DEF Outstanding
<1>2. ControlTypeOK
  <2>1. answers \in [Requests -> [status : Statuses, error : BOOLEAN, loop : Nat]]
    BY DEF Statuses
  <2>2. kind \in Seq(Kinds) /\ Len(kind) = Len(via)
    BY <1>1
  <2>3. realtime \in BOOLEAN
    BY OptionsAssumption
  <2>4. {current_game_loop_, previous_game_loop, stepped} \subseteq Nat \cup {NoLoop}
    OBVIOUS
  <2>5. pc \in Pcs /\ task \in Tasks /\ latest_status_ \in Statuses
    BY DEF Pcs, Tasks, Statuses
  <2>6. status \in Statuses \ {"unknown"} /\ gameLoop \in Nat
    BY DEF Statuses
  <2>7. /\ diagnosing = FALSE /\ response_pending_ = NotSet /\ app_state_ = "normal"
        /\ client_errors_ = {} /\ process = "running"
        /\ staleStep = FALSE /\ gameEnds = 0 /\ stopped = FALSE
    OBVIOUS
  <2> HIDE DEF ControlInit, Init
  <2>8. /\ response_pending_ \in Kinds \cup {NotSet}
        /\ app_state_ \in {"normal", "timeout", "timeout_zombie", "crashed"}
        /\ process \in {"running", "hung", "dead"}
    BY <2>7
  <2>9. diagnosing \in BOOLEAN /\ staleStep \in BOOLEAN /\ stopped \in BOOLEAN
    BY <2>7, Zenon
  <2>10. gameEnds \in 0 .. 2 /\ \A S : client_errors_ \subseteq S
    BY <2>7
  <2>11. QED
    BY <2>1, <2>2, <2>3, <2>4, <2>5, <2>6, <2>8, <2>9, <2>10 DEF ControlTypeOK
<1>3. CallInv /\ TaskInv /\ SettledInv
  BY DEF CallInv, TaskInv, SettledInv, Settled, ReceivePcs, QuitPcs, Busy
<1>4. FlightInv /\ AnswerInv
  BY <1>1 DEF FlightInv, AnswerInv
<1>5. GivenUpInv /\ WaitInv /\ ErrorInv /\ FreshInv /\ OverInv
  BY DEF GivenUpInv, WaitInv, ErrorInv, FreshInv, OverInv, PollTasks, ResponsesMatch,
         StaleStepIsReported, NoLoop
<1>6. QED
  BY <1>2, <1>3, <1>4, <1>5 DEF ControlInv

LEMMA ControlStepInv == IndInv /\ ControlInv /\ [ControlNext]_allVars => ControlInv'
<1> SUFFICES ASSUME IndInv, ControlInv, [ControlNext]_allVars PROVE ControlInv'
  OBVIOUS
<1>1. ControlTypeOK' /\ TaskInv' /\ CallInv'
  BY ControlTypeStep, TaskStep, CallStep
<1>2. FlightInv' /\ WaitInv' /\ FreshInv'
  BY <1>1, FlightStep, WaitStep, FreshStep
<1>3. AnswerInv' /\ SettledInv' /\ GivenUpInv' /\ ErrorInv' /\ OverInv'
  BY AnswerStep, SettledStep, GivenUpStep, ErrorStep, OverStep
<1>4. QED
  BY <1>1, <1>2, <1>3 DEF ControlInv

\* The inductive invariant of the agent and its coordinator holds for any number of
\* requests and connections and in every mode.
THEOREM ControlInvariant == ControlSpec => []ControlInv
<1>1. ControlSpec => []IndInv
  BY UsesConnection, Invariance, PTL
<1>2. QED
  BY <1>1, ControlInitInv, ControlStepInv, PTL DEF ControlSpec

\* Every variable of the control layer keeps its type, and every table has an entry
\* where the client thread looks one up.
THEOREM ControlTypes == ControlSpec => []ControlTypeOK
  BY ControlInvariant, PTL DEF ControlInv

\* No connection ever carries two unanswered requests (SendRequest), however requests
\* are refused, lost, timed out or pinged over.
THEOREM OneInFlight == ControlSpec => []OneRequestInFlight
<1>1. ControlInv => OneRequestInFlight
  <2>1. Len(<<>>) = 0 /\ Len(<<Len(via)>>) = 1
    OBVIOUS
  <2>2. QED
    <3>1. ControlInv => Outstanding = <<>> \/ Outstanding = <<Len(via)>>
      BY DEF ControlInv, FlightInv
    <3>2. Outstanding = <<>> => Len(Outstanding) <= 1
      BY <2>1
    <3>3. Outstanding = <<Len(via)>> => Len(Outstanding) <= 1
      BY <2>1
    <3>4. QED
      BY <3>1, <3>2, <3>3 DEF OneRequestInFlight
<1>2. QED
  BY <1>1, ControlInvariant, PTL

\* No response is ever taken for the answer to another request
\* (WaitForResponseInternal's comparison with response_pending_ never fails).
THEOREM Matching == ControlSpec => []ResponsesMatch
  BY ControlInvariant, PTL DEF ControlInv, ErrorInv

\* OnStep never runs again silently with the observation it has seen (IssueEvents).
THEOREM StaleReported == ControlSpec => []StaleStepIsReported
  BY ControlInvariant, PTL DEF ControlInv, ErrorInv

\* PollLeaveGame does not block: where it finds the response flag, the answer is there.
THEOREM LeaveAnswered == ControlSpec => []LeaveAnswerIsThere
<1>1. ControlInv => LeaveAnswerIsThere
  BY DEF ControlInv, SettledInv, Settled, LeaveAnswerIsThere
<1>2. QED
  BY <1>1, ControlInvariant, PTL

\* OnGameEnd is called once before Update tells the program to stop.
THEOREM EndsOnce == ControlSpec => []GameEndsOnce
<1>1. ControlInv => GameEndsOnce
  BY DEF ControlInv, OverInv, ControlTypeOK, GameEndsOnce
<1>2. QED
  BY <1>1, ControlInvariant, PTL

\* A game given up gets no request and is not waited for, also if the kill has failed: what
\* it has not answered stays pending, and stops SendRequest.
THEOREM GivenUpLeftAlone == ControlSpec => GivenUpIsLeftAlone
<1>1. IndInv /\ ControlInv /\ ControlInv' /\ [ControlNext]_allVars
        => [app_state_ # "normal" =>
              kind' = kind /\ pc' \notin {"receive", "receiving", "diagnose"}]_allVars
  <2> SUFFICES ASSUME IndInv, ControlInv, ControlInv', [ControlNext]_allVars,
                      app_state_ # "normal"
               PROVE  kind' = kind /\ pc' \notin {"receive", "receiving", "diagnose"}
    OBVIOUS
  <2>1. app_state_' # "normal"
    BY StepKinds, UnchangedFacts, CoordinatesFacts, OthersFacts, WithinFacts
       DEF ConnectToGame, ConnectGivesUp, ConnectToGameCallback, SendRequest, SendExpecting,
           SendRequestNoConnection, SendRequestRefused, Refused, WaitForResponseInternal,
           TakeResponse, TakeTimeout, Diagnose, Terminate, app
  <2>2. HasResponsePending /\ (pc = "request" => Kind # "ping")
    BY KindTable DEF ControlInv, GivenUpInv, TaskInv, AskTasks, Kind, Settled
  <2>3. ~SendRequest
    BY <2>2 DEF SendRequest
  <2>4. kind' = kind
    BY <2>3, StepKinds, UnchangedFacts, CoordinatesFacts, OthersFacts, WithinFacts
       DEF ConnectToGame, ConnectGivesUp, ConnectToGameCallback,
           SendRequestNoConnection, SendRequestRefused, WaitForResponseInternal,
           TakeResponse, TakeTimeout, Diagnose, Terminate
  <2>5. pc' \notin {"receive", "receiving", "diagnose"}
    BY <2>1 DEF ControlInv, GivenUpInv
  <2>6. QED
    BY <2>4, <2>5
<1>2. QED
  BY <1>1, ControlInvariant, UsesConnection, Invariance, PTL DEF ControlSpec, GivenUpIsLeftAlone

-----------------------------------------------------------------------------
(* The modes and the first observation.                                    *)

\* The steps outside the coordinator's own that move the client thread, and where
\* they take it.
Moves ==
    \/ ConnectToGame \/ ConnectGivesUp \/ ConnectToGameCallback
    \/ SendRequest \/ SendRequestNoConnection \/ SendRequestRefused
    \/ WaitForResponseInternal \/ TakeResponse \/ TakeTimeout
    \/ Diagnose \/ Terminate

LEMMA MovesTo ==
    ASSUME TaskInv, Moves
    PROVE  /\ UNCHANGED <<realtime, events>>
           /\ task' \in {task, "none", "connect"}
           /\ pc' \in {"callback", "request", "receive", "receiving", "diagnose",
                       "terminate", "menu", "connect", "exited", "segfault", "quit",
                       "idle", "waitAll", "joined", "check", "created", "joinCheck", "observe",
                       StepDone, ActionDone, AgentDone}
<1>1. CASE ConnectToGame \/ ConnectGivesUp \/ ConnectToGameCallback
  BY <1>1 DEF ConnectToGame, ConnectGivesUp, ConnectToGameCallback, Goto, Ask
<1>2. CASE SendRequest
  BY <1>2, RefusedTable, SentTable DEF SendRequest, SendExpecting, Goto, TaskInv, AskTasks
<1>3. CASE SendRequestNoConnection \/ SendRequestRefused
  BY <1>3, RefusedTable
     DEF SendRequestNoConnection, SendRequestRefused, Refused, Goto, TaskInv, AskTasks
<1>4. CASE WaitForResponseInternal \/ TakeTimeout
  BY <1>4 DEF WaitForResponseInternal, TakeTimeout, Refused, Goto, TaskInv
<1>5. CASE TakeResponse
  <2>1. task \in WaitTasks /\ task' = "none" /\ UNCHANGED <<realtime, events>>
        /\ pc' \in {WhenNull[task], WhenErrors[task], WhenGood[task]}
    BY <1>5 DEF TakeResponse, TaskInv
  <2>2. QED
    BY <2>1, NullTable, ErrorsTable, GoodTable DEF WaitTasks, AskTasks, PollTasks
<1>6. CASE Diagnose \/ Terminate
  BY <1>6, NullTable
     DEF Diagnose, Terminate, Goto, TaskInv, WaitTasks, AskTasks, PollTasks
<1>7. QED
  BY <1>1, <1>2, <1>3, <1>4, <1>5, <1>6 DEF Moves

LEMMA ModeStep ==
    ASSUME ControlInv, ModeInv, [ControlNext]_allVars
    PROVE  ModeInv'
<1> USE DEF ControlInv
<1>1. CASE UNCHANGED allVars \/ Others \/ Within
  <2>1. UNCHANGED thread
    BY <1>1, UnchangedFacts, OthersFacts, WithinFacts
  <2>2. QED
    BY <2>1 DEF ModeInv, thread
<1>2. CASE Moves
  <2>1. StepDone # "feature" /\ ActionDone \notin {"second", "callOnStep", "events"}
    BY DEF StepDone, ActionDone
  <2>2. QED
    BY <1>2, MovesTo DEF ModeInv, StepDone, ActionDone, AgentDone
<1>3. CASE Coordinates
  <2>1. UNCHANGED realtime
    BY <1>3, CoordinatesFacts
  <2>2. CASE UserCall \/ Awaits \/ StartGameJoins \/ JoinGameCheck \/ GameStarted \/ Observe
    BY <2>1, <2>2 DEF UserCall, CreateGame, JoinGame, Update,
       WaitForAllResponses, Awaits, ConsumeResponse, NothingToWaitFor, WaitGivesUp, LeaveGame,
       Destroy, StartGameJoins, JoinGameCheck,
       GameStarted, Observe, ModeInv, Goto, Ask, Poll
  <2>3. CASE StepAgent
    BY <2>1, <2>3 DEF StepAgent, PollLeaveGame, AgentDone, ModeInv, Goto, Ask, Poll
  <2>4. CASE SecondLoop
    BY <2>1, <2>4 DEF SecondLoop, PollLeaveGame, ModeInv, Goto, Poll
  <2>5. CASE CallOnGameEnd \/ RealtimeEnds \/ UpdateReturns
    BY <2>1, <2>5
       DEF CallOnGameEnd, RealtimeEnds, UpdateReturns, ReturnStopping, ModeInv, Goto, Ask
  <2>6. CASE CallOnStep \/ CallOnStepFeatureLayer \/ RealtimeEvents
    BY <2>1, <2>6 DEF CallOnStep, CallOnStepFeatureLayer, RealtimeEvents, ModeInv, Goto, Ask
  <2>7. QED
    BY <1>3, <2>2, <2>3, <2>4, <2>5, <2>6 DEF Coordinates
<1>4. QED
  BY <1>1, <1>2, <1>3, StepKinds DEF Moves

\* A request of the kind observation is made for one of two tasks.
LEMMA ObservationAsked ==
    ASSUME ControlTypeOK, TaskInv, pc = "request", Kind = "observation"
    PROVE  ~diagnosing /\ task \in {"join_observation", "observation"}
  BY KindTable DEF TaskInv, AskTasks, Kind

\* The way from the connection to the first observation is not gone back.
LEMMA OnceObserved ==
    ASSUME ControlInv, [ControlNext]_allVars, ~Unobserved
    PROVE  ~Unobserved'
<1> USE DEF ControlInv
<1>1. CASE UNCHANGED allVars \/ Others \/ Within
  <2>1. UNCHANGED thread
    BY <1>1, UnchangedFacts, OthersFacts, WithinFacts
  <2>2. QED
    BY <2>1 DEF Unobserved, thread
<1>2. CASE Coordinates
  <2>1. CASE UserCall \/ Awaits \/ StartGameJoins \/ JoinGameCheck \/ GameStarted \/ Observe
    BY <2>1 DEF UserCall, CreateGame, JoinGame, Update,
       WaitForAllResponses, Awaits, ConsumeResponse, NothingToWaitFor, WaitGivesUp, LeaveGame,
       Destroy, StartGameJoins, JoinGameCheck,
       GameStarted, Observe, Unobserved, Goto, Ask, Poll, Busy
  <2>2. CASE StepAgent \/ SecondLoop
    BY <2>2
       DEF StepAgent, SecondLoop, PollLeaveGame, AgentDone, Unobserved, Goto, Ask, Poll, Busy
  <2>3. CASE CallOnGameEnd \/ RealtimeEnds \/ UpdateReturns
    BY <2>3 DEF CallOnGameEnd, RealtimeEnds, UpdateReturns, ReturnStopping, Unobserved,
                Goto, Ask, Busy
  <2>4. CASE CallOnStep \/ CallOnStepFeatureLayer \/ RealtimeEvents
    BY <2>4 DEF CallOnStep, CallOnStepFeatureLayer, RealtimeEvents, Unobserved, Goto, Ask, Busy
  <2>5. QED
    BY <1>2, <2>1, <2>2, <2>3, <2>4 DEF Coordinates
<1>3. CASE Moves
  <2>0. /\ pc \notin {"connect", "callback"}
        /\ pc \in Busy => task \notin {"connect", "create_game", "join_game"}
    BY DEF Unobserved
  <2> USE DEF StepDone, ActionDone, AgentDone
  <2>1. CASE ConnectToGame \/ ConnectGivesUp \/ ConnectToGameCallback
    BY <2>0, <2>1 DEF ConnectToGame, ConnectGivesUp, ConnectToGameCallback
  <2>2. CASE SendRequest
    BY <2>0, <2>2, RefusedTable, SentTable
       DEF SendRequest, SendExpecting, Goto, TaskInv, AskTasks, Unobserved, Busy
  <2>3. CASE SendRequestNoConnection \/ SendRequestRefused
    BY <2>0, <2>3, RefusedTable
       DEF SendRequestNoConnection, SendRequestRefused, Refused, Goto, TaskInv, AskTasks,
           Unobserved, Busy
  <2>4. CASE WaitForResponseInternal \/ TakeTimeout
    BY <2>0, <2>4 DEF WaitForResponseInternal, TakeTimeout, Refused, Goto, Unobserved, Busy
  <2>5. CASE TakeResponse
    <3>1. /\ task \in WaitTasks /\ task' = "none" /\ pc \in Busy
          /\ pc' \in {WhenNull[task], WhenErrors[task], WhenGood[task]}
      BY <2>5 DEF TakeResponse, TaskInv, Busy
    <3>2. QED
      BY <2>0, <3>1, NullTable, ErrorsTable, GoodTable
         DEF WaitTasks, AskTasks, PollTasks, Unobserved, Busy
  <2>6. CASE Diagnose \/ Terminate
    BY <2>0, <2>6, NullTable
       DEF Diagnose, Terminate, Goto, TaskInv, WaitTasks, AskTasks, PollTasks,
           Unobserved, Busy
  <2>7. QED
    BY <1>3, <2>1, <2>2, <2>3, <2>4, <2>5, <2>6 DEF Moves
<1>4. QED
  BY <1>1, <1>2, <1>3, StepKinds DEF Moves

\* Only SendRequest makes a request.
LEMMA KindOnly ==
    ASSUME [ControlNext]_allVars
    PROVE  \/ UNCHANGED kind
           \/ SendRequest /\ pc = "request" /\ kind' = Append(kind, Kind)
<1>1. CASE UNCHANGED allVars \/ Others \/ Within \/ Coordinates
  BY <1>1, UnchangedFacts, OthersFacts, WithinFacts, CoordinatesFacts
<1>2. QED
  BY <1>1, StepKinds
     DEF ConnectToGame, ConnectGivesUp, ConnectToGameCallback, SendRequest, SendExpecting,
         SendRequestNoConnection, SendRequestRefused, WaitForResponseInternal,
         TakeResponse, TakeTimeout, Diagnose, Terminate

\* The observation of JoinGame is asked for in JoinGame.
LEMMA JoinObservationAsked ==
    ASSUME ControlInv, [ControlNext]_allVars, Asking({"join_observation"})'
    PROVE  \/ Asking({"join_observation"}) /\ (pc' = "request" => pc = "request")
           \/ pc = "joinCheck" /\ pc' = "request"
<1> USE DEF ControlInv
<1>1. CASE UNCHANGED allVars \/ Others \/ Within
  <2>1. UNCHANGED thread
    BY <1>1, UnchangedFacts, OthersFacts, WithinFacts
  <2>2. QED
    BY <1>1, <2>1 DEF Asking, thread
<1>2. CASE Coordinates
  <2>1. CASE UserCall \/ Awaits \/ StartGameJoins \/ GameStarted \/ Observe
    BY <2>1 DEF UserCall, CreateGame, JoinGame, Update,
       WaitForAllResponses, Awaits, ConsumeResponse, NothingToWaitFor, WaitGivesUp, LeaveGame,
       Destroy, StartGameJoins,
       GameStarted, Observe, Asking, Goto, Ask, Poll, Busy
  <2>2. CASE StepAgent \/ SecondLoop
    BY <2>2
       DEF StepAgent, SecondLoop, PollLeaveGame, AgentDone, Asking, Goto, Ask, Poll, Busy
  <2>3. CASE CallOnGameEnd \/ RealtimeEnds \/ UpdateReturns
    BY <2>3 DEF CallOnGameEnd, RealtimeEnds, UpdateReturns, ReturnStopping, Asking,
                Goto, Ask, Busy
  <2>4. CASE CallOnStep \/ CallOnStepFeatureLayer \/ RealtimeEvents
    BY <2>4 DEF CallOnStep, CallOnStepFeatureLayer, RealtimeEvents, Asking, Goto, Ask, Busy
  <2>5. CASE JoinGameCheck
    BY <2>5 DEF JoinGameCheck, Asking, Goto, Ask, Busy
  <2>6. QED
    BY <1>2, <2>1, <2>2, <2>3, <2>4, <2>5 DEF Coordinates
<1>3. CASE ConnectToGame \/ ConnectGivesUp \/ ConnectToGameCallback \/ Diagnose \/ Terminate
  BY <1>3, NullTable
     DEF ConnectToGame, ConnectGivesUp, ConnectToGameCallback, Diagnose, Terminate,
         Goto, Ask, Asking, TaskInv, WaitTasks, AskTasks, PollTasks
<1>4. CASE SendRequest \/ SendRequestNoConnection \/ SendRequestRefused
  BY <1>4 DEF SendRequest, SendExpecting, SendRequestNoConnection, SendRequestRefused,
     Refused, Goto, Asking
<1>5. CASE WaitForResponseInternal \/ TakeResponse \/ TakeTimeout
  BY <1>5 DEF WaitForResponseInternal, TakeResponse, TakeTimeout, Refused, Goto, Asking
<1>6. QED
  BY <1>1, <1>2, <1>3, <1>4, <1>5, StepKinds

LEMMA ObservedStep ==
    ASSUME ControlInv, ObservedInv, [ControlNext]_allVars
    PROVE  ObservedInv'
<1> USE DEF ControlInv
<1> SUFFICES ASSUME NEW r \in DOMAIN kind', kind'[r] = "observation"
             PROVE  /\ ~Unobserved'
                    /\ Asking({"join_observation"})' => pc' # "request" /\ r = Len(kind')
  BY DEF ObservedInv
<1>1. kind \in Seq(Kinds)
  BY DEF ControlTypeOK
<1>2. CASE r \in DOMAIN kind /\ kind'[r] = kind[r]
  <2>1. ~Unobserved /\ (Asking({"join_observation"}) => pc # "request" /\ r = Len(kind))
    BY <1>2 DEF ObservedInv
  <2>2. ~Unobserved'
    BY <2>1, OnceObserved
  <2>3. ASSUME Asking({"join_observation"})'
        PROVE  pc' # "request" /\ r = Len(kind')
    <3>1. Asking({"join_observation"}) /\ (pc' = "request" => pc = "request")
      BY <2>1, <2>3, JoinObservationAsked DEF Unobserved
    <3>2. kind' = kind
      BY <2>1, <3>1, KindOnly
    <3>3. QED
      BY <2>1, <3>1, <3>2
  <2>4. QED
    BY <2>2, <2>3
<1>3. CASE ~(r \in DOMAIN kind /\ kind'[r] = kind[r])
  <2>1. SendRequest /\ pc = "request" /\ kind' = Append(kind, Kind)
    BY <1>3, KindOnly
  <2>2. r = Len(kind) + 1 /\ Len(kind') = Len(kind) + 1 /\ kind'[r] = Kind
    BY <1>1, <1>3, <2>1, KindAsked
  <2>3. ~diagnosing /\ task \in {"join_observation", "observation"}
    BY <2>1, <2>2, ObservationAsked
  <2>4. pc' = "receive"
    BY <2>1, <2>3, SentTable DEF SendRequest, SendExpecting, Goto, AskTasks
  <2>5. ~Unobserved
    BY <2>1, <2>3 DEF Unobserved
  <2>6. QED
    BY <2>2, <2>4, <2>5, OnceObserved
<1>4. QED
  BY <1>2, <1>3

-----------------------------------------------------------------------------
(* The end of the game.                                                    *)

\* What has not been observed is not observed now: a new request has no answer, and
\* only an answer adds one.
LEMMA SeenOnly ==
    ASSUME IndInv, ControlInv, [ControlNext]_allVars, Seen'
    PROVE  Seen \/ \E c \in Conns : GameAnswers(c)
<1> USE DEF ControlInv
<1>1. PICK r \in DOMAIN kind' : kind'[r] = "observation" /\ answers'[r].status = "in_game"
  BY DEF Seen
<1>2. kind \in Seq(Kinds) /\ Len(kind) = Len(via) /\ via \in Seq(Conns)
  BY DEF ControlTypeOK, IndInv, TypeOK
<1>3. CASE UNCHANGED <<kind, answers>>
  BY <1>1, <1>3 DEF Seen
<1>4. CASE SendRequest
  <2>1. UNCHANGED answers /\ kind' = Append(kind, Kind) /\ pc = "request" /\ Len(via) < MaxRequests
    BY <1>4 DEF SendRequest, SendExpecting, game, MayRequest
  <2>2. \/ r \in DOMAIN kind /\ kind'[r] = kind[r]
        \/ r = Len(kind) + 1
    BY <1>1, <1>2, <2>1, KindAsked
  <2>3. CASE r = Len(kind) + 1
    <3>1. r \in Requests /\ r > Len(via)
      BY <1>2, <2>1, <2>3, BoundsAssumption DEF Requests
    <3>2. QED
      BY <1>1, <2>1, <3>1 DEF AnswerInv
  <2>4. QED
    BY <1>1, <2>1, <2>2, <2>3 DEF Seen
<1>5. UNCHANGED <<kind, answers>> \/ SendRequest \/ \E c \in Conns : GameAnswers(c)
  <2>1. CASE UNCHANGED allVars \/ Coordinates \/ Within
    BY <2>1, UnchangedFacts, CoordinatesFacts, WithinFacts DEF game
  <2>2. CASE Others
    BY <2>2 DEF Others, WorkerRuns, GameEndsConnection, GameFails, game
  <2>3. QED
    BY <2>1, <2>2, StepKinds
       DEF ConnectToGame, ConnectGivesUp, ConnectToGameCallback, SendRequestNoConnection,
           SendRequestRefused, WaitForResponseInternal, TakeResponse, TakeTimeout,
           Diagnose, Terminate, game
<1>6. QED
  BY <1>3, <1>4, <1>5

\* The parts of NotMissedInv.
JoinsInGame == Asking({"join_observation"}) => status = "in_game"
ActsInGame ==
    ~realtime /\ (pc = "feature" \/ Asking({"action", "feature_action"}))
      => status = "in_game"
EndsKnown ==
    gameEnds = 0 /\ (pc \in {"joined", "idle", "waitAll", "first", "check"} \/ task = "leave_now")
      => latest_status_ # "ended"

\* The answer of the game to the request in flight.
LEMMA AnswerNotMissed ==
    ASSUME IndInv, ControlInv, ObservedInv, NotMissedInv,
           NEW c \in Conns, GameAnswers(c), client_errors_ = {}, Seen'
    PROVE  JoinsInGame' /\ ActsInGame' /\ EndsKnown'
<1> USE DEF ControlInv
<1> DEFINE n == Len(via)
<1>1. /\ Outstanding # <<>> /\ UNCHANGED <<via, kind>>
      /\ n \in Requests /\ Head(requests[c]) = n
      /\ answers'[n].status = status'
      /\ \A r \in Requests : r # n => answers'[r] = answers[r]
  BY AnswersLast DEF Current
<1>2. response_pending_ \in Kinds /\ kind[n] = response_pending_
  BY <1>1, LastRequest DEF FlightInv
<1>3. UNCHANGED <<pc, task, diagnosing, realtime, proto, app_state_, gameEnds>>
  BY DEF GameAnswers, thread, app, events
<1>4. app_state_ = "normal" /\ (pc \notin Busy => task = "none")
  BY DEF ErrorInv, TaskInv
<1>5. ASSUME kind[n] # "observation" PROVE Seen
  <2>1. PICK r \in DOMAIN kind : kind[r] = "observation" /\ answers'[r].status = "in_game"
    BY <1>1 DEF Seen
  <2>2. r # n
    BY <1>5, <2>1
  <2>3. kind \in Seq(Kinds) /\ Len(kind) = n /\ n \in 1 .. MaxRequests
    BY <1>1 DEF ControlTypeOK, Requests
  <2>4. r \in 1 .. n
    BY <2>3
  <2> HIDE DEF n
  <2>5. r \in Requests
    BY <2>3, <2>4, BoundsAssumption DEF Requests
  <2>6. QED
    BY <1>1, <2>1, <2>2, <2>5 DEF Seen
<1>6. JoinsInGame'
  <2>1. SUFFICES ASSUME Asking({"join_observation"}) PROVE status' = "in_game"
    BY <1>3 DEF JoinsInGame, Asking
  <2>2. PICK r \in DOMAIN kind : kind[r] = "observation" /\ answers'[r].status = "in_game"
    BY <1>1 DEF Seen
  <2>3. r = n
    BY <2>1, <2>2 DEF ObservedInv, ControlTypeOK
  <2>4. QED
    BY <1>1, <2>2, <2>3
<1>7. ActsInGame'
  <2>1. SUFFICES ASSUME ~realtime, pc = "feature" \/ Asking({"action", "feature_action"})
                 PROVE  status' = "in_game"
    BY <1>3 DEF ActsInGame, Asking
  <2>2. ~(Settled /\ pc \notin {"idle", "waitAll", "first", "second", "check"} /\ task # "leave_now")
    BY <1>2, <1>4 DEF SettledInv, Kinds, NotSet, Settled
  <2>3. pc \in {"receive", "receiving"} /\ ~diagnosing /\ task \in {"action", "feature_action"}
    BY <1>4, <2>1, <2>2 DEF Settled, PlayTasks, Asking, Busy
  <2>4. kind[n] = "action"
    BY <1>2, <2>3, KindTable DEF WaitInv, Kind
  <2>5. GamePlays("action") \/ Serves("action")
    BY <1>1, <2>4 DEF GameAnswers
  <2>6. status' = status
    BY <2>1, <2>5 DEF GamePlays, Serves
  <2>7. status = "in_game"
    BY <1>5, <2>1, <2>4 DEF NotMissedInv
  <2>8. QED
    BY <2>6, <2>7
<1>8. EndsKnown'
  <2>1. SUFFICES ASSUME gameEnds = 0,
                        pc \in {"joined", "idle", "waitAll", "first", "check"} \/ task = "leave_now"
                 PROVE  latest_status_ # "ended"
    BY <1>3 DEF EndsKnown, proto
  <2>2. Settled
    BY <2>1 DEF Settled, PlayTasks, TaskInv, Busy, WaitTasks, AskTasks, PollTasks
  <2>3. kind[n] = "leave_game"
    BY <1>2, <1>4, <2>2 DEF SettledInv, Kinds, NotSet
  <2>4. QED
    BY <1>5, <2>1, <2>3 DEF NotMissedInv
<1>9. QED
  BY <1>6, <1>7, <1>8

\* The steps of the coordinator itself.
LEMMA CoordinatesNotMissed ==
    ASSUME IndInv, ControlInv, ModeInv, ObservedInv, NotMissedInv, EndModes,
           Coordinates, client_errors_ = {}, Seen
    PROVE  JoinsInGame' /\ ActsInGame' /\ EndsKnown'
<1> USE DEF ControlInv
<1>1. UNCHANGED <<diagnosing, realtime, proto, app_state_, status>>
  BY CoordinatesFacts DEF game
<1>2. /\ app_state_ = "normal" /\ gameEnds \in 0 .. 2
      /\ pc \notin {"menu", "created", "joinCheck"}
  BY DEF ErrorInv, ControlTypeOK, Seen, ObservedInv, Unobserved
<1>3. ActsInGame /\ EndsKnown
  BY DEF NotMissedInv, ActsInGame, EndsKnown
<1>4. ASSUME pc \in {"callOnStep", "feature", "events", "agentEnds"}
      PROVE  latest_status_ = status
  BY <1>2, <1>4 DEF SettledInv, Settled, TaskInv, Busy
<1> USE DEF JoinsInGame, ActsInGame, EndsKnown, Asking, Goto, Ask, Poll, Busy
<1>5. CASE UserCall \/ Awaits
  <2>1. UNCHANGED gameEnds
    BY <1>5 DEF UserCall, CreateGame, JoinGame, Update, WaitForAllResponses, Awaits,
       ConsumeResponse, NothingToWaitFor, WaitGivesUp, LeaveGame,
                Destroy, events
  <2>2. QED
    BY <1>1, <1>2, <1>3, <1>5, <2>1 DEF UserCall, CreateGame, JoinGame, Update,
       WaitForAllResponses, Awaits, ConsumeResponse, NothingToWaitFor, WaitGivesUp, LeaveGame,
       Destroy, proto
<1>6. CASE StartGameJoins \/ JoinGameCheck
  BY <1>2, <1>6 DEF StartGameJoins, JoinGameCheck
<1>7. CASE GameStarted \/ Observe \/ UpdateReturns
  <2>1. UNCHANGED gameEnds
    BY <1>7 DEF GameStarted, Observe, UpdateReturns, ReturnStopping, events
  <2>2. QED
    BY <1>1, <1>3, <1>7, <2>1 DEF GameStarted, Observe, UpdateReturns, ReturnStopping, proto
<1>8. CASE StepAgent
  <2>1. UNCHANGED gameEnds /\ pc = "first"
    BY <1>8 DEF StepAgent, events
  <2>2. \/ pc' \in {"check", "second"} /\ task' = "none"
        \/ task' \in {"poll_leave", "observation", "step"} /\ pc' \in {"request", "receive"}
    BY <1>8 DEF StepAgent, PollLeaveGame, AgentDone
  <2>3. QED
    BY <1>1, <1>3, <2>1, <2>2 DEF proto
<1>9. CASE SecondLoop
  <2>1. ~MultiThreaded /\ realtime = FALSE
    BY <1>9 DEF SecondLoop, ModeInv, ControlTypeOK
  <2>2. ~Multiplayer
    BY <2>1 DEF EndModes, ModeInv
  <2>3. pc' = "callOnStep" /\ task' = "none"
    BY <1>2, <1>9, <2>2 DEF SecondLoop, PollLeaveGame
  <2>4. QED
    BY <2>3
<1>10. CASE CallOnGameEnd \/ RealtimeEnds
  <2>1. \/ gameEnds' # 0 /\ (pc' = "check" \/ task' = "leave_game")
        \/ pc' = "check" /\ latest_status_ = "in_game"
    BY <1>2, <1>10 DEF CallOnGameEnd, RealtimeEnds, IsInGame
  <2>2. task' \in {"none", "leave_game"} /\ pc' \in {"check", "request"}
    BY <1>10 DEF CallOnGameEnd, RealtimeEnds
  <2>3. QED
    BY <1>1, <2>1, <2>2 DEF proto
<1>11. CASE CallOnStep
  <2>1. status = "in_game"
    BY <1>4, <1>11 DEF CallOnStep, IsInGame
  <2>2. pc' \in {"request", "feature"} /\ task' \in {"action", "none"}
    BY <1>11 DEF CallOnStep
  <2>3. QED
    BY <1>1, <2>1, <2>2
<1>12. CASE CallOnStepFeatureLayer
  <2>1. status = "in_game" /\ latest_status_ = "in_game"
    BY <1>3, <1>4, <1>12 DEF CallOnStepFeatureLayer, ModeInv
  <2>2. pc' \in {"request", "check"} /\ task' \in {"feature_action", "none"}
    BY <1>12 DEF CallOnStepFeatureLayer
  <2>3. QED
    BY <1>1, <2>1, <2>2 DEF proto
<1>13. CASE RealtimeEvents
  <2>1. realtime /\ pc' \in {"request", "agentEnds"} /\ task' \in {"action", "none"}
    BY <1>13 DEF RealtimeEvents, ModeInv
  <2>2. QED
    BY <1>1, <2>1
<1>14. QED
  BY <1>5, <1>6, <1>7, <1>8, <1>9, <1>10, <1>11, <1>12, <1>13 DEF Coordinates

\* The steps that move the client thread through a request.
LEMMA MovesNotMissed ==
    ASSUME IndInv, ControlInv, ModeInv, ObservedInv, NotMissedInv, [ControlNext]_allVars,
           Moves, client_errors_' = {}, Seen
    PROVE  JoinsInGame' /\ ActsInGame' /\ EndsKnown'
<1> USE DEF ControlInv
<1>1. client_errors_ = {} /\ UNCHANGED <<realtime, gameEnds>> /\ gameEnds \in 0 .. 2
  BY ErrorsGrow, MovesTo DEF events, ControlTypeOK
<1>2. JoinsInGame /\ ActsInGame /\ EndsKnown
  BY <1>1 DEF NotMissedInv, JoinsInGame, ActsInGame, EndsKnown
<1>3. /\ ~Unobserved
      /\ pc = "request" => ~Asking({"join_observation"})
  BY DEF Seen, ObservedInv
<1> USE DEF JoinsInGame, ActsInGame, EndsKnown, Asking, Goto, Ask, Busy
<1>4. CASE ConnectToGame \/ ConnectGivesUp \/ ConnectToGameCallback
  BY <1>3, <1>4 DEF ConnectToGame, ConnectGivesUp, ConnectToGameCallback, Unobserved
<1>5. CASE SendRequest
  <2>1. UNCHANGED <<diagnosing, status, latest_status_>> /\ pc = "request"
    BY <1>5 DEF SendRequest, SendExpecting, game
  <2>2. CASE diagnosing
    <3>1. pc' = "receive" /\ task' = task /\ task # "leave_now"
      BY <1>5, <2>2
         DEF SendRequest, SendExpecting, TaskInv, WaitTasks, AskTasks, PollTasks
    <3>2. QED
      BY <2>1, <2>2, <3>1
  <2>3. CASE ~diagnosing
    <3>1. task \in AskTasks /\ pc' = WhenSent[task]
      BY <1>5, <2>1, <2>3 DEF SendRequest, SendExpecting, TaskInv
    <3>2. CASE task \in {"leave_game", "leave_now", "quit"}
      <4>1. task = "leave_game" => gameEnds > 0
        BY <2>1, <3>2 DEF TaskInv
      <4>2. task' = "none" /\ pc' \in {"check", "idle", "quit"}
            /\ (pc' = "check" => task = "leave_game")
            /\ (pc' = "idle" => task = "leave_now")
        BY <1>5, <2>3, <3>1, <3>2, RefusedTable, SentTable DEF SendRequest, SendExpecting
      <4>3. QED
        BY <1>1, <1>2, <2>1, <4>1, <4>2
    <3>3. CASE task \notin {"leave_game", "leave_now", "quit"}
      <4>1. pc' = "receive" /\ task' = task
        BY <1>5, <2>3, <3>1, <3>3, SentTable DEF SendRequest, SendExpecting
      <4>2. QED
        BY <1>1, <1>2, <1>3, <2>1, <2>3, <3>3, <4>1
    <3>4. QED
      BY <3>2, <3>3
  <2>4. QED
    BY <2>2, <2>3
<1>6. CASE SendRequestNoConnection \/ SendRequestRefused
  <2>1. /\ SendRequestNoConnection /\ ~diagnosing /\ pc = "request"
        /\ task \in AskTasks /\ pc' = WhenRefused[task] /\ connection_ = NULL
    BY <1>6 DEF SendRequestNoConnection, SendRequestRefused, Refused, Error, TaskInv
  <2>2. task \notin PlayTasks
    BY <1>1, <2>1 DEF SettledInv, Settled, ErrorInv
  <2>3. task = "quit"
    BY <1>3, <2>1, <2>2 DEF AskTasks, PlayTasks, Unobserved
  <2>4. pc' = "quit" /\ task' = "none"
    BY <2>1, <2>3, RefusedTable DEF SendRequestNoConnection, Refused
  <2>5. QED
    BY <2>4
<1>7. CASE WaitForResponseInternal
  <2>1. /\ pc = "receive" /\ pc' = "receiving" /\ UNCHANGED <<task, diagnosing, status>>
        /\ task # "leave_now"
    BY <1>7 DEF WaitForResponseInternal, TaskInv, WaitTasks, AskTasks, PollTasks, game
  <2>2. QED
    BY <1>1, <1>2, <2>1
<1>8. CASE TakeResponse
  <2>1. /\ pc = "receiving" /\ response # NULL /\ UNCHANGED status /\ task' = "none"
        /\ task \in WaitTasks
    BY <1>8 DEF TakeResponse, game, TaskInv
  <2>2. ~diagnosing /\ kind[response] = Kind
        /\ (task # "connect" => ~answers[response].error /\ pc' = WhenGood[task])
    BY <1>8, GoodResponse
  <2>3. latest_status_' = status
    BY <1>8, <2>1 DEF TakeResponse, AnswerInv, Current
  <2>4. task \notin {"connect", "create_game", "join_game"}
    BY <1>3, <2>1 DEF Unobserved
  <2>5. CASE task = "join_observation"
    <3>1. pc' = "joined" /\ status = "in_game"
      BY <1>2, <2>1, <2>2, <2>5, GoodTable
    <3>2. QED
      BY <2>1, <2>3, <3>1
  <2>6. CASE task \in {"step", "observation"}
    <3>1. pc' \in {"observe", StepDone}
      BY <2>2, <2>6, GoodTable
    <3>2. QED
      BY <2>1, <3>1 DEF StepDone
  <2>7. CASE task = "action"
    <3>1. pc' = ActionDone /\ (~realtime => status = "in_game")
      BY <1>2, <2>1, <2>2, <2>7, GoodTable
    <3>2. QED
      BY <1>1, <2>1, <3>1 DEF ActionDone
  <2>8. CASE task = "feature_action"
    <3>1. pc' = "check" /\ status = "in_game"
      BY <1>2, <2>1, <2>2, <2>8, GoodTable DEF ModeInv
    <3>2. QED
      BY <2>1, <2>3, <3>1
  <2>9. CASE task \in PollTasks
    <3>1. pc' \in {AgentDone, "check", "waitAll"}
      BY <2>2, <2>9, GoodTable DEF PollTasks
    <3>2. kind[response] = "leave_game"
      BY <2>2, <2>9, KindTable DEF Kind, WaitInv, PollTasks
    <3>3. status = "launched"
      BY <2>1, <2>2, <2>9, <3>2 DEF AnswerInv, Current, PollTasks
    <3>4. QED
      BY <2>1, <2>3, <3>1, <3>3 DEF AgentDone
  <2>10. QED
    BY <2>1, <2>4, <2>5, <2>6, <2>7, <2>8, <2>9 DEF WaitTasks, AskTasks
<1>9. CASE TakeTimeout
  <2>1. pc = "receiving" /\ ~diagnosing
    BY <1>9 DEF TakeTimeout, Refused, Error
  <2>2. task # "connect"
    BY <1>3, <2>1 DEF Unobserved
  <2>3. pc' = "diagnose" /\ task' = task /\ task # "leave_now"
    BY <1>9, <2>1, <2>2 DEF TakeTimeout, TaskInv, WaitTasks, AskTasks, PollTasks
  <2>4. QED
    BY <2>3
<1>10. CASE Diagnose \/ Terminate
  <2>1. pc' = "request" /\ diagnosing' = TRUE /\ task' = task /\ pc = "diagnose"
    BY <1>10 DEF Diagnose, Terminate, Error
  <2>2. task # "leave_now"
    BY <2>1 DEF TaskInv, WaitTasks, AskTasks, PollTasks
  <2>3. QED
    BY <2>1, <2>2
<1>11. QED
  BY <1>4, <1>5, <1>6, <1>7, <1>8, <1>9, <1>10 DEF Moves

LEMMA NotMissedStep ==
    ASSUME IndInv, ControlInv, EndInv, EndModes, [ControlNext]_allVars
    PROVE  NotMissedInv'
<1> USE DEF EndInv
<1> SUFFICES ASSUME client_errors_' = {}, Seen'
             PROVE  JoinsInGame' /\ ActsInGame' /\ EndsKnown'
  BY DEF NotMissedInv, JoinsInGame, ActsInGame, EndsKnown
<1>1. client_errors_ = {}
  BY ErrorsGrow
<1>2. ASSUME NEW c \in Conns, GameAnswers(c)
      PROVE  JoinsInGame' /\ ActsInGame' /\ EndsKnown'
  BY <1>1, <1>2, AnswerNotMissed
<1>3. CASE ~ \E c \in Conns : GameAnswers(c)
  <2>1. Seen
    BY <1>3, SeenOnly
  <2>2. CASE UNCHANGED allVars \/ Within \/ Others
    <3>1. UNCHANGED <<thread, proto, status, gameEnds>>
      <4>1. CASE UNCHANGED allVars \/ Within
        BY <4>1, UnchangedFacts, WithinFacts DEF game, events
      <4>2. CASE Others
        <5>1. UNCHANGED <<thread, proto, events>>
          BY <4>2, OthersFacts
        <5>2. UNCHANGED status
          BY <1>3, <4>2 DEF Others, WorkerRuns, GameEndsConnection, GameFails, game
        <5>3. QED
          BY <5>1, <5>2 DEF events
      <4>3. QED
        BY <2>2, <4>1, <4>2
    <3>2. JoinsInGame /\ ActsInGame /\ EndsKnown
      BY <1>1, <2>1 DEF NotMissedInv, JoinsInGame, ActsInGame, EndsKnown
    <3>3. QED
      BY <3>1, <3>2 DEF thread, proto, JoinsInGame, ActsInGame, EndsKnown, Asking
  <2>3. CASE Coordinates
    BY <1>1, <2>1, <2>3, CoordinatesNotMissed
  <2>4. CASE Moves
    BY <2>1, <2>4, MovesNotMissed
  <2>5. QED
    BY <2>2, <2>3, <2>4, StepKinds DEF Moves
<1>4. QED
  BY <1>2, <1>3

-----------------------------------------------------------------------------
(* The theorem.                                                            *)

LEMMA EndInitInv == ControlInit => EndInv
<1> SUFFICES ASSUME ControlInit PROVE EndInv
  OBVIOUS
<1>1. ModeInv
  BY OptionsAssumption DEF ControlInit, ModeInv
<1>2. kind = <<>> /\ DOMAIN kind = {}
  BY DEF ControlInit
<1>3. QED
  BY <1>1, <1>2 DEF EndInv, ObservedInv, NotMissedInv, Seen

LEMMA EndStepInv ==
    EndModes /\ IndInv /\ ControlInv /\ EndInv /\ [ControlNext]_allVars => EndInv'
  BY ModeStep, ObservedStep, NotMissedStep DEF EndInv

\* Whoever has observed a game in play and sees it ended at the return of a coordinator
\* call has had OnGameEnd or will be told of an error ("Called when a game has ended.",
\* sc2_client.h).  EndModes leaves out the one mode in which StepAgents does not do so.
THEOREM EndAnnounced == ASSUME EndModes PROVE ControlSpec => []EndIsAnnounced
<1>1. ControlSpec => []IndInv
  BY UsesConnection, Invariance, PTL
<1>2. ControlInit => EndInv
  BY EndInitInv
<1>3. IndInv /\ ControlInv /\ EndInv /\ [ControlNext]_allVars => EndInv'
  BY EndStepInv
<1>4. ControlInv /\ EndInv => EndIsAnnounced
  BY DEF ControlInv, ControlTypeOK, EndInv, NotMissedInv, Seen, EndIsAnnounced
<1>5. QED
  BY <1>1, <1>2, <1>3, <1>4, ControlInvariant, PTL DEF ControlSpec
=============================================================================
