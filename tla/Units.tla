-------------------------------- MODULE Units --------------------------------
(***************************************************************************)
(* The units of ObservationImp and the events ControlImp derives from two  *)
(* observations: the pool that keeps a Unit for every tag ever seen, the   *)
(* units that exist, those of the observation before, and the commands of  *)
(* the agent, under the loop of a coordinator: an agent or a replay        *)
(* observer, stepped or in real time, over several games of one process,   *)
(* which give the same tags to their units, and over relaunches.           *)
(*                                                                         *)
(* What a unit does is one name: an own unit is "building" (build_progress *)
(* below 1), "busy" (it has orders) or "idle", an enemy is "visible" or a  *)
(* "snapshot".  A unit that is "away" is alive and not in the observation: *)
(* in a transport or a refinery, or in the fog of war.  Upgrades and alerts *)
(* are left out.  The game is taken to answer with the raw data and the    *)
(* score the library asks for whenever it creates a game or loads a replay. *)
(***************************************************************************)
EXTENDS Integers, FiniteSets

CONSTANTS
    Own, Enemy,     \* the tags of the player's units, and of the enemy's
    ENTRY_SIZE,     \* the units of an entry of the pool
    MaxLoop,        \* bound on the game loops, of all games together
    MaxGames        \* bound on the games of a process

ASSUME UnitsAssumption ==
    /\ IsFiniteSet(Own) /\ IsFiniteSet(Enemy) /\ Own \cap Enemy = {}
    /\ ENTRY_SIZE \in Nat \ {0} /\ MaxLoop \in Nat /\ MaxGames \in Nat

Tags == Own \cup Enemy
NoLoop == MaxLoop + 1   \* the largest uint32_t
OwnStates == {"building", "busy", "idle"}
EnemyStates == {"visible", "snapshot"}
UnitStates == OwnStates \cup EnemyStates

VARIABLES
    pc, realtime,
    agent,                      \* an agent, or else a replay observer
    multi_threaded,             \* of a replay observer: the agents' loops issue events once
    errors,                     \* client_errors_ is not empty
    \* UnitPool; a pointer to a unit is its index in unit_pool_
    unit_pool_,                 \* the units: their tag, state and is_alive
    entries, available_index_, tag_to_unit_, tag_to_existing_unit_,
    \* ObservationImp
    units_previous_map_, current_game_loop_, previous_game_loop,
    dead_units,                 \* of observation_
    converting,                 \* the units of the observation still to be converted
    \* ActionImp
    request_actions_, commands_,
    \* the game
    world, loop, died, over, games, played,
    \* history
    told,       \* the events of each unit, as long as they hold
    noted,      \* what excuses an event that is missing, or comes twice
    wrong       \* the events that have been told before, or of a destroyed unit, and
                \* whether it was their observation whose events were issued again

pool == <<unit_pool_, entries, available_index_, tag_to_unit_, tag_to_existing_unit_>>
observation == <<units_previous_map_, current_game_loop_, previous_game_loop,
                 dead_units, converting>>
actions == <<request_actions_, commands_>>
game == <<world, loop, died, over, games, played>>
history == <<told, noted, wrong>>
mode == <<realtime, agent, multi_threaded>>
vars == <<pc, mode, errors, pool, observation, actions, game, history>>

Empty == [t \in {} |-> {}]

NewGame == [t \in Tags |-> "unborn"]
NothingOf == [t \in Tags |-> {}]

Init ==
    /\ pc = "launched" /\ errors = FALSE
    /\ realtime \in BOOLEAN /\ agent \in BOOLEAN
    /\ multi_threaded \in BOOLEAN /\ (agent => multi_threaded)
    /\ unit_pool_ = Empty /\ entries = 0 /\ available_index_ = <<0, 0>>
    /\ tag_to_unit_ = Empty /\ tag_to_existing_unit_ = Empty
    /\ units_previous_map_ = Empty
    /\ current_game_loop_ = NoLoop /\ previous_game_loop = NoLoop
    /\ dead_units = {} /\ converting = {}
    /\ request_actions_ = {} /\ commands_ = {}
    /\ world = NewGame /\ loop = 0 /\ died = {}
    /\ over = FALSE /\ games = 0 /\ played = 0
    /\ told = NothingOf /\ noted = NothingOf /\ wrong = {}

-----------------------------------------------------------------------------
(* The game.                                                               *)

\* What may become of a unit; a building is in every observation.
Successors(t) ==
    LET seen == IF t \in Own THEN OwnStates ELSE EnemyStates
    IN  CASE world[t] = "dead" -> {"dead"}
          [] world[t] = "unborn" -> {"unborn", "dead", "away"} \cup seen
          [] world[t] = "building" -> OwnStates \cup {"dead"}
          [] OTHER -> {"away", "dead"} \cup (seen \ {"building"})

\* One game loop, in which one unit changes.  A game does not end before its second one.
Plays ==
    /\ ~over /\ played < MaxLoop
    /\ loop' = loop + 1 /\ played' = played + 1
    /\ \E t \in Tags : \E state \in Successors(t) : world' = [world EXCEPT ![t] = state]
    /\ died' = died \cup {t \in Tags : world'[t] = "dead" /\ world[t] # "dead"}
    /\ over' \in {played + 1 = MaxLoop, played + 1 = MaxLoop \/ loop > 0}
    /\ UNCHANGED games

\* A game begins, with units that are there from the beginning.
Begins ==
    /\ games < MaxGames /\ games' = games + 1
    /\ played < MaxLoop /\ UNCHANGED played
    /\ loop' = 0 /\ died' = {} /\ over' = FALSE
    /\ world' \in {w \in [Tags -> {"unborn", "idle", "busy", "snapshot"}] :
                     \A t \in Tags : w[t] \in (IF t \in Own THEN {"unborn", "idle", "busy"}
                                                           ELSE {"unborn", "snapshot"})}

\* What has been told holds for one game.  A tag the library still has from the game
\* before is not new to it, nor is a command for it undone.
ForgetGame ==
    /\ told' = [t \in Tags |-> {}]
    /\ noted' = [t \in Tags |->
                   {"fresh"} \cup (IF t \in DOMAIN tag_to_existing_unit_ THEN {"left"} ELSE {})
                             \cup (IF t \in commands_ THEN {"ordered"} ELSE {})]
    /\ UNCHANGED wrong

-----------------------------------------------------------------------------
(* UnitPool.                                                               *)

\* tag_to_unit_ and the others, with an element more.
Updated(f, x, v) == [y \in DOMAIN f \cup {x} |-> IF y = x THEN v ELSE f[y]]

\* Faulty variant: an entry is full one unit too late.
IncrementIndexLate(index) ==
    IF index[2] = ENTRY_SIZE THEN <<index[1] + 1, 0>> ELSE <<index[1], index[2] + 1>>

IncrementIndex(index) ==
    IF index[2] + 1 = ENTRY_SIZE THEN <<index[1] + 1, 0>> ELSE <<index[1], index[2] + 1>>

\* A unit at the end of the pool.
NewUnit(t) ==
    /\ entries' = IF entries = 0 \/ entries = available_index_[1] THEN entries + 1 ELSE entries
    /\ tag_to_unit_' = Updated(tag_to_unit_, t, available_index_)
    /\ available_index_' = IncrementIndex(available_index_)

\* Faulty variant: a unit that comes back is looked for among those that exist.
CreateUnitAnew(t) ==
    IF t \in DOMAIN tag_to_existing_unit_
      THEN UNCHANGED <<entries, available_index_, tag_to_unit_>> ELSE NewUnit(t)

CreateUnit(t) ==
    IF t \in DOMAIN tag_to_unit_
      THEN UNCHANGED <<entries, available_index_, tag_to_unit_>> ELSE NewUnit(t)

\* Convert, for one unit: it is created, and written to.
Convert(t, state) ==
    LET unit == [tag |-> t, state |-> state, is_alive |-> TRUE]
    IN  /\ CreateUnit(t)
        /\ tag_to_existing_unit_' = Updated(tag_to_existing_unit_, t, tag_to_unit_'[t])
        /\ unit_pool_' = Updated(unit_pool_, tag_to_unit_'[t], unit)

-----------------------------------------------------------------------------
(* ObservationImp.                                                         *)

Existing == DOMAIN tag_to_existing_unit_
StateOf(t) == unit_pool_[tag_to_existing_unit_[t]].state

PreviousUnits == [t \in Existing |-> StateOf(t)]

\* The units the game shows.
Shown == [t \in {t \in Tags : world[t] \in UnitStates} |-> world[t]]

\* What the user knows of a unit, and what is noted of it, once it is seen like this.
Lasting(t) ==
    told[t] \ (IF t \notin DOMAIN Shown THEN {"created", "vision", "idle"}
               ELSE IF Shown[t] # "idle" THEN {"idle"} ELSE {})
StillNoted(t) ==
    LET first == "fresh" \in noted[t]
    IN  IF t \notin DOMAIN Shown THEN noted[t] \cap {"ordered"}
        ELSE (noted[t] \ ({"fresh"} \cup IF Shown[t] = "busy" THEN {"dropped"} ELSE {}))
               \cup (IF Shown[t] = "building" THEN {"building"} ELSE {})
               \cup (IF Shown[t] = "snapshot" THEN {"snapshot"} ELSE {})
               \cup (IF first /\ (~agent \/ loop = current_game_loop_) THEN {"left"} ELSE {})

\* Faulty variant: the new loop is stored before the old one is saved.
NextFrameSwapped == current_game_loop_' = loop /\ previous_game_loop' = loop

NextFrame == current_game_loop_' = loop /\ previous_game_loop' = current_game_loop_

\* UpdateObservation, with the events since the last observation.  ClearExisting; what
\* the game shows is then converted.
UpdateObservation ==
    /\ NextFrame
    /\ units_previous_map_' = PreviousUnits
    /\ tag_to_existing_unit_' = Empty /\ converting' = DOMAIN Shown
    /\ UNCHANGED <<unit_pool_, entries, available_index_, tag_to_unit_>>
    /\ dead_units' = died /\ died' = {}
    /\ told' = [t \in Tags |-> Lasting(t)] /\ noted' = [t \in Tags |-> StillNoted(t)]
    /\ UNCHANGED <<world, loop, over, games, played, wrong, errors>>

\* GetObservation gets it, or a response with errors.
GetObservation ==
    \/ UpdateObservation
    \/ errors' = TRUE /\ UNCHANGED <<pool, observation, game, history>>

\* The units of an observation come in any order.
ConvertUnit ==
    /\ \E t \in converting : Convert(t, Shown[t]) /\ converting' = converting \ {t}
    /\ UNCHANGED <<pc, mode, errors, units_previous_map_, current_game_loop_, previous_game_loop,
                   dead_units, actions, game, history>>

-----------------------------------------------------------------------------
(* The events of ControlImp.                                               *)

Destroyed == dead_units \cap DOMAIN tag_to_unit_
Added == {t \in Existing \ Destroyed : t \notin DOMAIN units_previous_map_}
OwnUnits == (Existing \ Destroyed) \cap Own

\* Faulty variant: an order that failed is not an occasion.
IdleOnce ==
    {t \in OwnUnits :
       /\ StateOf(t) = "idle"
       /\ t \in DOMAIN units_previous_map_ => units_previous_map_[t] \in {"busy", "building"}}

\* IssueIdleEvent: for a new unit, for one that was busy or under construction, and for
\* one that has been commanded and is idle nevertheless.
Idle ==
    {t \in OwnUnits :
       /\ StateOf(t) = "idle"
       /\ t \in DOMAIN units_previous_map_ =>
            units_previous_map_[t] \in {"busy", "building"} \/ (agent /\ t \in commands_)}

Completed ==
    {t \in OwnUnits :
       /\ StateOf(t) \in {"busy", "idle"}
       /\ t \in DOMAIN units_previous_map_ /\ units_previous_map_[t] = "building"}

Events == {"destroyed", "created", "vision", "idle", "complete"}

\* The events of a unit.
EventsOf(t) ==
    {e \in Events :
       \/ e = "destroyed" /\ t \in Destroyed
       \/ e = "created" /\ t \in Added \cap Own
       \/ e = "vision" /\ t \in Added \cap Enemy /\ StateOf(t) = "visible"
       \/ e = "idle" /\ t \in Idle
       \/ e = "complete" /\ t \in Completed}

\* Those the user knows of: what has been told and not become true again, unless he has
\* commanded the unit in between, and whatever comes after its destruction.
KnownEvents(t) ==
    {e \in EventsOf(t) :
       \/ "destroyed" \in told[t]
       \/ e \in told[t] /\ (e = "idle" => "ordered" \notin noted[t])}

\* The user commands some of these units.
Commands(units) ==
    \E commanded \in SUBSET units :
        request_actions_' = IF agent THEN request_actions_ \cup commanded ELSE {}

IsNewFrame == current_game_loop_ # previous_game_loop

\* IssueEvents ends with OnStep, which may command units.
IssueEvents(again) ==
    IF ~IsNewFrame THEN UNCHANGED <<pool, actions, history>>
    ELSE /\ unit_pool_' = [u \in DOMAIN unit_pool_ |->
                             [unit_pool_[u] EXCEPT !.is_alive =
                                IF \E t \in Destroyed : tag_to_unit_[t] = u THEN FALSE ELSE @]]
         /\ tag_to_existing_unit_' = [t \in Existing \ Destroyed |-> tag_to_existing_unit_[t]]
         /\ told' = [t \in Tags |-> told[t] \cup EventsOf(t)]
         /\ wrong' = wrong \cup (UNION {KnownEvents(t) : t \in Tags}) \X {again}
         /\ Commands(OwnUnits)
         /\ UNCHANGED <<entries, available_index_, tag_to_unit_, commands_, noted>>

-----------------------------------------------------------------------------
(* The coordinator.                                                        *)

\* StartGame, once for a process.
StartGame ==
    /\ pc = "launched" /\ agent
    /\ Begins /\ ForgetGame
    /\ pc' = "joining"
    /\ UNCHANGED <<mode, errors, pool, observation, actions>>

\* JoinGame gets an observation for OnGameStart, which may command units, and issues
\* events after it.
JoinGame ==
    /\ pc = "joining" /\ agent
    /\ GetObservation
    /\ pc' = "starting"
    /\ UNCHANGED <<mode, actions>>

GameStarted ==
    /\ pc = "starting" /\ agent /\ converting = {}
    /\ IF IsNewFrame THEN IssueEvents(FALSE)
       ELSE Commands(Existing \cap Own) /\ UNCHANGED <<pool, commands_, history>>
    /\ pc' = IF IsNewFrame THEN "begun" ELSE "ready"
    /\ UNCHANGED <<mode, errors, observation, game>>

\* StartReplay sends a request for the next replay.
StartReplay ==
    /\ pc \in {"launched", "ended"} /\ ~agent /\ ~errors
    /\ pc' = "waiting"
    /\ UNCHANGED <<mode, errors, pool, observation, actions, game, history>>

\* The loops of the replay observers step those that are in a game.  Without
\* multi_threaded a second loop issues the events of all of them, of one that waits for
\* its replay or has no other too: those of its last observation, once more.
IssueEventsAgain ==
    /\ pc \in {"waiting", "ended"} /\ ~agent /\ ~multi_threaded
    /\ IssueEvents(TRUE)
    /\ UNCHANGED <<pc, mode, errors, observation, game>>

\* WaitForReplay: the replay plays, or it has failed, which is no error of the client if
\* the game says so and one if the response has errors or there is none ...
WaitForReplay ==
    /\ pc = "waiting"
    /\ \/ Begins /\ ForgetGame /\ pc' = "joining" /\ UNCHANGED errors
       \/ pc' = "ended" /\ (errors' = TRUE \/ UNCHANGED errors) /\ UNCHANGED <<game, history>>
    /\ UNCHANGED <<mode, pool, observation, actions>>

\* ... and it gets an observation for OnGameStart, without events.
ObserveReplay ==
    /\ pc = "joining" /\ ~agent
    /\ GetObservation
    /\ pc' = "starting"
    /\ UNCHANGED <<mode, actions>>

ReplayStarted ==
    /\ pc = "starting" /\ ~agent /\ converting = {}
    /\ pc' = "ready"
    /\ UNCHANGED <<mode, errors, pool, observation, actions, game, history>>

Ready == pc \in {"begun", "ready"}

\* In real time the game plays by itself.
GamePlays ==
    /\ Ready /\ realtime
    /\ Plays
    /\ UNCHANGED <<pc, mode, errors, pool, observation, actions, history>>

\* Update: Step, unless in real time.
Step ==
    /\ Ready
    /\ IF realtime THEN UNCHANGED game ELSE Plays
    /\ pc' = "stepped"
    /\ UNCHANGED <<mode, errors, pool, observation, actions, history>>

Observe ==
    /\ pc = "stepped"
    /\ GetObservation
    /\ pc' = "observed"
    /\ UNCHANGED <<mode, actions>>

\* Faulty variant: the events of the last observation of a replay are not issued either.
CallOnGameEndOfReplay ==
    /\ pc = "observed" /\ converting = {}
    /\ ~realtime /\ over
    /\ pc' = "ended"
    /\ UNCHANGED <<mode, errors, pool, observation, actions, game, history>>

\* CallOnStep does not issue the events of the last observation of a game ...
CallOnGameEnd ==
    /\ pc = "observed" /\ converting = {}
    /\ agent /\ ~realtime /\ over
    /\ pc' = "ended"
    /\ UNCHANGED <<mode, errors, pool, observation, actions, game, history>>

\* ... the other loops do.
CallOnStep ==
    /\ pc = "observed" /\ converting = {}
    /\ agent /\ ~realtime => ~over
    /\ IssueEvents(FALSE)
    /\ pc' = IF IsNewFrame THEN "told" ELSE "silent"
    /\ UNCHANGED <<mode, errors, observation, game>>

AfterUpdate == IF errors THEN "stopped" ELSE IF over THEN "ended" ELSE "ready"

\* The commands that are sent: none if SendRequest refuses, as it may after an error, and
\* the request stays then.
Sent == IF errors THEN {{}, request_actions_} ELSE {request_actions_}

\* Faulty variant: commands are forgotten only with others.
SendActionsKeeping ==
    /\ pc \in {"told", "silent"} /\ agent
    /\ \E sent \in Sent :
          /\ commands_' = IF sent = {} THEN commands_ ELSE sent
          /\ request_actions_' = request_actions_ \ sent
          /\ told' = [t \in Tags |-> IF t \in sent THEN told[t] \ {"idle"} ELSE told[t]]
    /\ pc' = AfterUpdate
    /\ UNCHANGED <<mode, errors, pool, observation, game, noted, wrong>>

\* SendActions forgets the commands of the step before, whether IssueEvents has looked at
\* them or not.
SendActions ==
    /\ pc \in {"told", "silent"} /\ agent
    /\ \E sent \in Sent :
          /\ commands_' = sent /\ request_actions_' = request_actions_ \ sent
          /\ told' = [t \in Tags |-> IF t \in sent THEN told[t] \ {"idle"} ELSE told[t]]
    /\ noted' = [t \in Tags |->
                   (noted[t] \ {"ordered"})
                     \cup (IF pc = "silent" /\ t \in commands_ THEN {"dropped"} ELSE {})]
    /\ pc' = AfterUpdate
    /\ UNCHANGED <<mode, errors, pool, observation, game, wrong>>

\* A replay observer has none.
NoActions ==
    /\ pc \in {"told", "silent"} /\ ~agent
    /\ pc' = AfterUpdate
    /\ UNCHANGED <<mode, errors, pool, observation, actions, game, history>>

\* OnGameEnd may restart the game: OnGameStart is called with the observation that is
\* there, the last one of the game before.
Restart ==
    /\ pc = "ended" /\ agent /\ ~errors
    /\ Begins /\ ForgetGame
    /\ Commands(Existing \cap Own)
    /\ pc' = "ready"
    /\ UNCHANGED <<mode, errors, pool, observation, commands_>>

\* Update terminates the game of a replay observer after an error, launches another and
\* constructs its ControlImp anew, with an empty pool.
Relaunch ==
    /\ pc \in {"stopped", "ended"} /\ ~agent /\ errors
    /\ pc' = "launched" /\ errors' = FALSE
    /\ unit_pool_' = Empty /\ entries' = 0 /\ available_index_' = <<0, 0>>
    /\ tag_to_unit_' = Empty /\ tag_to_existing_unit_' = Empty
    /\ units_previous_map_' = Empty
    /\ current_game_loop_' = NoLoop /\ previous_game_loop' = NoLoop
    /\ dead_units' = {} /\ converting' = {}
    /\ world' = NewGame /\ loop' = 0 /\ died' = {} /\ over' = FALSE
    /\ told' = NothingOf /\ noted' = NothingOf /\ wrong' = {}
    /\ UNCHANGED <<mode, actions, games, played>>

\* The loop of the program is over.
Ended ==
    /\ pc = "stopped" \/ (pc = "ended" /\ (errors \/ games = MaxGames \/ played = MaxLoop))
    /\ UNCHANGED vars

Next ==
    \/ StartGame \/ JoinGame \/ GameStarted
    \/ StartReplay \/ IssueEventsAgain \/ WaitForReplay \/ ObserveReplay \/ ReplayStarted
    \/ ConvertUnit
    \/ GamePlays \/ Step \/ Observe \/ CallOnGameEnd \/ CallOnStep
    \/ SendActions \/ NoActions \/ Restart \/ Relaunch
    \/ Ended

Spec == Init /\ [][Next]_vars

-----------------------------------------------------------------------------
(* Properties.                                                             *)

Indices == (0..Cardinality(Tags)) \X (0..ENTRY_SIZE - 1)

\* The variables have their types.
UnitsTypeOK ==
    /\ pc \in {"launched", "waiting", "joining", "starting", "begun", "ready", "stepped", "observed",
               "told", "silent", "ended", "stopped"}
    /\ realtime \in BOOLEAN /\ agent \in BOOLEAN /\ errors \in BOOLEAN
    /\ multi_threaded \in BOOLEAN
    /\ DOMAIN unit_pool_ \subseteq Indices
    /\ \A u \in DOMAIN unit_pool_ :
          unit_pool_[u] \in [tag : Tags, state : UnitStates, is_alive : BOOLEAN]
    /\ entries \in 0..Cardinality(Tags) /\ available_index_ \in Indices
    /\ DOMAIN tag_to_unit_ \subseteq Tags
    /\ DOMAIN tag_to_existing_unit_ \subseteq Tags /\ DOMAIN units_previous_map_ \subseteq Tags
    /\ \A t \in DOMAIN tag_to_unit_ : tag_to_unit_[t] \in Indices
    /\ \A t \in DOMAIN units_previous_map_ : units_previous_map_[t] \in UnitStates
    /\ {current_game_loop_, previous_game_loop} \subseteq 0..NoLoop
    /\ dead_units \subseteq Tags /\ converting \subseteq Tags /\ died \subseteq Tags
    /\ request_actions_ \subseteq Own /\ commands_ \subseteq Own
    /\ world \in [Tags -> UnitStates \cup {"unborn", "away", "dead"}]
    /\ loop \in 0..MaxLoop /\ over \in BOOLEAN /\ games \in 0..MaxGames /\ played \in 0..MaxLoop
    /\ told \in [Tags -> SUBSET Events]
    /\ noted \in [Tags -> SUBSET {"fresh", "left", "ordered", "dropped", "building", "snapshot"}]
    /\ wrong \subseteq Events \X BOOLEAN

\* Every tag has a Unit of its own, within an entry of the pool, that carries the tag; the
\* units that exist are among them.
PoolIsSound ==
    /\ \A t \in DOMAIN tag_to_unit_ :
          /\ tag_to_unit_[t][1] < entries /\ tag_to_unit_[t][2] < ENTRY_SIZE
          /\ tag_to_unit_[t] \in DOMAIN unit_pool_ /\ unit_pool_[tag_to_unit_[t]].tag = t
    /\ \A t \in Existing :
          /\ t \in DOMAIN tag_to_unit_ /\ tag_to_existing_unit_[t] = tag_to_unit_[t]
          /\ unit_pool_[tag_to_unit_[t]].is_alive

\* A const Unit* the user has kept stays that of its unit, over the death of the unit and
\* over games, until an error makes the client of a replay observer start anew.
PointersStay ==
    [][(errors => errors') =>
       \A t \in DOMAIN tag_to_unit_ :
          t \in DOMAIN tag_to_unit_' /\ tag_to_unit_'[t] = tag_to_unit_[t]]_vars

\* After the events of an observation the user knows of it: of each unit of his own, that
\* it is there, that it is idle, and that it is complete if it was not; of each enemy in
\* sight and of each death.  Not so of units that were there before the first events of the
\* game ("left"), of those whose commands SendActions has dropped before IssueEvents looked
\* at them, which happens in real time only, and of enemies that come out of a snapshot.
ObservationIsTold ==
    pc \in {"begun", "told"} /\ ~errors =>
        /\ \A t \in Existing \cap Own :
              /\ "created" \in told[t] \/ "left" \in noted[t]
              /\ StateOf(t) = "idle" =>
                    "idle" \in told[t] \/ "left" \in noted[t] \/ (realtime /\ "dropped" \in noted[t])
              /\ "building" \in noted[t] /\ StateOf(t) # "building" => "complete" \in told[t]
        /\ \A t \in Existing \cap Enemy :
              StateOf(t) = "visible" => "vision" \in told[t] \/ noted[t] \cap {"left", "snapshot"} # {}
        /\ \A t \in dead_units \cap DOMAIN tag_to_unit_ : "destroyed" \in told[t]

\* No event comes twice, if it has not become true again in between, and none after
\* OnUnitDestroyed, unless an error is about to be reported.  Only the events of a replay
\* observer without multi_threaded do, when those of an observation are issued again; "will
\* only be called when the unit becomes idle and not a second time" (OnUnitIdle,
\* sc2_client.h) is not true of it.
NothingToldTwice ==
    ~errors => wrong \subseteq (IF agent \/ multi_threaded THEN {} ELSE Events \X {TRUE})

\* While a replay observer waits it is told nothing it has not been told before: no event
\* of a replay, that of the last observation least of all, comes when the replay is over.
NothingToldLate ==
    [][~errors /\ pc \in {"waiting", "ended"} /\ pc' = pc => told' = told]_vars

-----------------------------------------------------------------------------
(* The inductive invariant.                                                *)

Pending == pc \in {"starting", "observed"}
InPlay == pc \in {"joining", "begun", "ready", "stepped", "told", "silent"}

\* An own unit does not look like an enemy, nor an enemy like an own unit.
StatesOf(t) == IF t \in Own THEN OwnStates ELSE EnemyStates
SideInv ==
    \A t \in Tags :
        /\ world[t] \in StatesOf(t) \cup {"unborn", "away", "dead"}
        /\ t \in Existing => StateOf(t) \in StatesOf(t)
        /\ t \in DOMAIN units_previous_map_ => units_previous_map_[t] \in StatesOf(t)

\* What the phases of a game leave alone.
PhaseInv ==
    /\ loop <= played
    /\ converting \subseteq DOMAIN Shown /\ (~Pending => converting = {})
    /\ ~agent => request_actions_ = {} /\ commands_ = {}

\* The pool is filled one unit after the other.
Before(index, next) == index[1] < next[1] \/ (index[1] = next[1] /\ index[2] < next[2])
PoolInv ==
    /\ available_index_[1] * ENTRY_SIZE + available_index_[2] = Cardinality(DOMAIN tag_to_unit_)
    /\ entries = IF available_index_[2] = 0 THEN available_index_[1] ELSE available_index_[1] + 1
    /\ \A t \in DOMAIN tag_to_unit_ : Before(tag_to_unit_[t], available_index_)

\* What has been told of a unit, or will never be, when the events of an observation
\* have been issued.
Left(t) == "left" \in noted[t]
SettledUnit(t) ==
    /\ t \in Own => "created" \in told[t] \/ Left(t)
    /\ t \in Own /\ StateOf(t) = "idle" =>
         \/ "idle" \in told[t] \/ Left(t) \/ (realtime /\ "dropped" \in noted[t])
         \/ t \in commands_ /\ pc \notin {"begun", "told"}
    /\ t \in Enemy => "vision" \in told[t] \/ Left(t) \/ "snapshot" \in noted[t]
    /\ "complete" \in told[t] => StateOf(t) # "building"
    /\ pc = "silent" /\ ~realtime => Left(t)

\* What has been told is true still, until it is observed that it is not.
SettledInv(t) ==
    /\ t \in Existing => SettledUnit(t)
    /\ {"created", "vision"} \cap told[t] # {} => t \in Existing
    /\ "idle" \in told[t] => t \in Existing /\ StateOf(t) = "idle"
    /\ "building" \in noted[t] =>
         t \in Existing /\ (StateOf(t) = "building" \/ "complete" \in told[t])
    /\ "complete" \in told[t] => world[t] \notin {"unborn", "building"}
    /\ "destroyed" \in told[t] => world[t] = "dead" /\ t \notin died
    /\ t \in died => world[t] = "dead"
    /\ pc \in {"begun", "told"} /\ t \in Destroyed => "destroyed" \in told[t]
    /\ t \in commands_ /\ (pc \in {"joining", "begun"} \/ (pc # "told" /\ "idle" \in told[t])) =>
         "ordered" \in noted[t]
    /\ IF "fresh" \in noted[t]
         THEN pc \in {"joining", "ready", "stepped"} /\ "building" \notin noted[t]
         ELSE /\ pc # "joining"
              /\ current_game_loop_ <= loop
              /\ current_game_loop_ = loop =>
                   /\ t \in Existing <=> t \in DOMAIN Shown
                   /\ t \in Existing => StateOf(t) = Shown[t]
                   /\ pc = "stepped" => realtime

\* While an observation is converted what is told is about the one before.
Same(t) == t \in DOMAIN units_previous_map_ /\ units_previous_map_[t] = Shown[t]
PendingUnit(t) ==
    /\ "building" \in noted[t] =>
         Shown[t] = "building" \/ "complete" \in told[t] \/ units_previous_map_[t] = "building"
    /\ Shown[t] = "snapshot" => "snapshot" \in noted[t]
    /\ t \in DOMAIN units_previous_map_ =>
         /\ t \in Own => "created" \in told[t] \/ Left(t)
         /\ t \in Own /\ Shown[t] = "idle" /\ units_previous_map_[t] = "idle" =>
              "idle" \in told[t] \/ Left(t) \/ (realtime /\ "dropped" \in noted[t]) \/ t \in commands_
         /\ t \in Enemy => "vision" \in told[t] \/ Left(t) \/ "snapshot" \in noted[t]
    /\ t \in DOMAIN units_previous_map_ \/ Shown[t] = "building" \/ "building" \notin noted[t]
    /\ ~IsNewFrame =>
         \/ Left(t) /\ ("building" \in noted[t] => Shown[t] = "building")
         \/ Same(t) /\ realtime
    /\ pc = "starting" /\ ~agent => Left(t) /\ ("building" \in noted[t] => Shown[t] = "building")

PendingInv(t) ==
    /\ t \in DOMAIN Shown <=> t \in Existing \cup converting
    /\ t \in Existing => t \notin converting /\ StateOf(t) = Shown[t]
    /\ t \in DOMAIN Shown => PendingUnit(t)
    /\ {"created", "vision"} \cap told[t] # {} => t \in DOMAIN units_previous_map_ \cap DOMAIN Shown
    /\ "idle" \in told[t] => t \in DOMAIN Shown /\ Same(t) /\ Shown[t] = "idle"
    /\ "building" \in noted[t] => t \in DOMAIN Shown
    /\ "complete" \in told[t] =>
         /\ world[t] \notin {"unborn", "building"}
         /\ t \in DOMAIN units_previous_map_ => units_previous_map_[t] # "building"
    /\ "destroyed" \in told[t] => world[t] = "dead" /\ t \notin dead_units
    /\ t \in dead_units => world[t] = "dead"
    /\ t \notin died
    /\ t \in commands_ /\ (pc = "starting" \/ "idle" \in told[t]) => "ordered" \in noted[t]
    /\ "fresh" \notin noted[t] /\ current_game_loop_ = loop

\* What the second loop would issue once more has been told.
RepeatInv ==
    ~agent /\ pc \in {"launched", "told", "silent", "waiting", "ended"} /\ IsNewFrame =>
        \A t \in Tags : EventsOf(t) \subseteq told[t]

\* As long as there is no error nothing is told twice, since what is told is known.
UnitsInv ==
    /\ UnitsTypeOK /\ SideInv /\ PhaseInv
    /\ PoolIsSound /\ PoolInv
    /\ NothingToldTwice
    /\ ~errors =>
         /\ RepeatInv
         /\ \A t \in Tags : (InPlay => SettledInv(t)) /\ (Pending => PendingInv(t))
=============================================================================
