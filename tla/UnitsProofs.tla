----------------------------- MODULE UnitsProofs -----------------------------
(***************************************************************************)
(* What the events of ControlImp tell of the units is proved for any units, *)
(* any size of an entry of the pool and any number of game loops and games: *)
(* the pool is sound and its pointers stay, after the events of an         *)
(* observation the user knows of it, and nothing is told twice.            *)
(***************************************************************************)
EXTENDS Units, FiniteSetTheorems, TLAPS

-----------------------------------------------------------------------------
(* The constants and the data.                                             *)

LEMMA TagsAre ==
    /\ IsFiniteSet(Tags) /\ Cardinality(Tags) \in Nat
    /\ \A t \in Tags : t \in Own <=> t \notin Enemy
    /\ Own \subseteq Tags /\ Enemy \subseteq Tags
<1>1. IsFiniteSet(Tags)
  BY UnitsAssumption, FS_Union DEF Tags
<1>2. Cardinality(Tags) \in Nat
  BY <1>1, FS_CardinalityType
<1> QED
  BY <1>1, <1>2, UnitsAssumption DEF Tags

LEMMA UpdatedIs ==
    ASSUME NEW f, NEW x, NEW v
    PROVE  /\ DOMAIN Updated(f, x, v) = DOMAIN f \cup {x}
           /\ Updated(f, x, v)[x] = v
           /\ \A y \in DOMAIN f : y # x => Updated(f, x, v)[y] = f[y]
  BY DEF Updated

\* The units the game shows are those it has in a state that can be seen.
LEMMA ShownIs ==
    /\ \A t : t \in DOMAIN Shown <=> t \in Tags /\ world[t] \in UnitStates
    /\ \A t \in DOMAIN Shown : Shown[t] = world[t]
  BY DEF Shown

LEMMA ShownStays ==
    ASSUME world' = world
    PROVE  Shown' = Shown
  BY DEF Shown

LEMMA EmptyIs == DOMAIN Empty = {}
  BY DEF Empty

\* Where the units of an entry have room for one more, and where they have not.
LEMMA Filling ==
    ASSUME NEW a \in Nat, NEW b \in Nat, NEW size \in Nat \ {0}
    PROVE  /\ (a + 1) * size = a * size + size
           /\ a * size \in Nat /\ a <= a * size
<1>1. (a + 1) * size = a * size + size
  BY SMT
<1>2. a * size = a + a * (size - 1)
  BY SMT
<1>3. a * (size - 1) \in Nat /\ a * size \in Nat
  <2>1. size - 1 \in Nat
    OBVIOUS
  <2> QED
    BY <2>1, SMT
<1> QED
  BY <1>1, <1>2, <1>3

-----------------------------------------------------------------------------
(* The pool.                                                               *)

PoolTypes ==
    /\ DOMAIN unit_pool_ \subseteq Indices
    /\ \A u \in DOMAIN unit_pool_ :
          unit_pool_[u] \in [tag : Tags, state : UnitStates, is_alive : BOOLEAN]
    /\ entries \in 0..Cardinality(Tags) /\ available_index_ \in Indices
    /\ DOMAIN tag_to_unit_ \subseteq Tags /\ DOMAIN tag_to_existing_unit_ \subseteq Tags
    /\ \A t \in DOMAIN tag_to_unit_ : tag_to_unit_[t] \in Indices

SoundPool == PoolTypes /\ PoolIsSound /\ PoolInv

\* A pointer to a unit is that of no other, nor the one that is available.
LEMMA PointersDiffer ==
    ASSUME SoundPool, NEW t \in DOMAIN tag_to_unit_
    PROVE  /\ tag_to_unit_[t] # available_index_
           /\ \A s \in DOMAIN tag_to_unit_ : s # t => tag_to_unit_[s] # tag_to_unit_[t]
<1>1. tag_to_unit_[t] # available_index_
  <2>1. available_index_[1] \in Nat /\ available_index_[2] \in Nat
    BY DEF SoundPool, PoolTypes, Indices
  <2>2. Before(tag_to_unit_[t], available_index_)
    BY DEF SoundPool, PoolInv
  <2> QED
    BY <2>1, <2>2 DEF Before
<1>2. \A s \in DOMAIN tag_to_unit_ : unit_pool_[tag_to_unit_[s]].tag = s
  BY DEF SoundPool, PoolIsSound
<1> QED
  BY <1>1, <1>2

\* The indices of a pool with one unit more.
LEMMA NewUnitPool ==
    ASSUME SoundPool, NEW t \in Tags, t \notin DOMAIN tag_to_unit_, NewUnit(t)
    PROVE  /\ entries' \in 0..Cardinality(Tags) /\ available_index_' \in Indices
           /\ DOMAIN tag_to_unit_' = DOMAIN tag_to_unit_ \cup {t}
           /\ tag_to_unit_'[t] = available_index_
           /\ \A s \in DOMAIN tag_to_unit_ : tag_to_unit_'[s] = tag_to_unit_[s]
           /\ available_index_[1] < entries' /\ entries <= entries'
           /\ PoolInv'
<1> DEFINE a == available_index_[1]
           b == available_index_[2]
           n == Cardinality(DOMAIN tag_to_unit_)
<1>1. /\ a \in 0..Cardinality(Tags) /\ b \in 0..ENTRY_SIZE - 1 /\ ENTRY_SIZE \in Nat \ {0}
      /\ available_index_ = <<a, b>> /\ Cardinality(Tags) \in Nat
  BY UnitsAssumption, TagsAre DEF SoundPool, PoolTypes, Indices
<1>2. /\ DOMAIN tag_to_unit_' = DOMAIN tag_to_unit_ \cup {t}
      /\ tag_to_unit_'[t] = available_index_
      /\ \A s \in DOMAIN tag_to_unit_ : tag_to_unit_'[s] = tag_to_unit_[s]
  BY DEF NewUnit, Updated
<1>3. /\ n \in Nat /\ Cardinality(DOMAIN tag_to_unit_') = n + 1
      /\ n + 1 <= Cardinality(Tags)
  <2>1. DOMAIN tag_to_unit_ \subseteq Tags /\ DOMAIN tag_to_unit_' \subseteq Tags
    BY <1>2 DEF SoundPool, PoolTypes
  <2>2. IsFiniteSet(DOMAIN tag_to_unit_)
    BY <2>1, TagsAre, FS_Subset
  <2>3. n \in Nat /\ Cardinality(DOMAIN tag_to_unit_ \cup {t}) = n + 1
    BY <2>2, FS_CardinalityType, FS_AddElement
  <2>4. Cardinality(DOMAIN tag_to_unit_') <= Cardinality(Tags)
    BY <2>1, TagsAre, FS_Subset
  <2> QED
    BY <2>3, <2>4, <1>2
<1>4. a * ENTRY_SIZE + b = n /\ entries = IF b = 0 THEN a ELSE a + 1
  BY DEF SoundPool, PoolInv
<1>5. /\ (a + 1) * ENTRY_SIZE = a * ENTRY_SIZE + ENTRY_SIZE
      /\ a * ENTRY_SIZE \in Nat /\ a <= a * ENTRY_SIZE
  BY <1>1, Filling
<1>6. entries' = a + 1
  BY <1>1, <1>4 DEF NewUnit
<1>7. available_index_' = IF b + 1 = ENTRY_SIZE THEN <<a + 1, 0>> ELSE <<a, b + 1>>
  BY DEF NewUnit, IncrementIndex
<1> HIDE DEF a, b, n
<1>8. a + 1 \in 0..Cardinality(Tags)
  BY <1>1, <1>3, <1>4, <1>5
<1>9. available_index_' \in Indices
  BY <1>1, <1>7, <1>8 DEF Indices
<1>10. PoolInv'
  <2>1. available_index_'[1] * ENTRY_SIZE + available_index_'[2] = n + 1
    <3>1. CASE b + 1 = ENTRY_SIZE
      BY <3>1, <1>1, <1>4, <1>5, <1>7
    <3>2. CASE b + 1 # ENTRY_SIZE
      BY <3>2, <1>1, <1>4, <1>5, <1>7
    <3> QED
      BY <3>1, <3>2
  <2>2. entries' = IF available_index_'[2] = 0 THEN available_index_'[1] ELSE available_index_'[1] + 1
    BY <1>1, <1>6, <1>7
  <2>3. \A s \in DOMAIN tag_to_unit_' : Before(tag_to_unit_'[s], available_index_')
    <3>1. ASSUME NEW i, i = available_index_ \/ (i \in Indices /\ Before(i, available_index_))
          PROVE  Before(i, available_index_')
      BY <3>1, <1>1, <1>7 DEF Before, Indices
    <3>2. \A s \in DOMAIN tag_to_unit_ :
             tag_to_unit_[s] \in Indices /\ Before(tag_to_unit_[s], available_index_)
      BY DEF SoundPool, PoolTypes, PoolInv
    <3> QED
      BY <3>1, <3>2, <1>2
  <2> QED
    BY <2>1, <2>2, <2>3, <1>3 DEF PoolInv
<1>11. a < entries' /\ entries <= entries'
  BY <1>1, <1>4, <1>6
<1> QED
  BY <1>2, <1>6, <1>8, <1>9, <1>10, <1>11 DEF a

\* A unit that has been converted is there; the other units and their pointers stay.
LEMMA ConvertPool ==
    ASSUME SoundPool, NEW t \in Tags, NEW state \in UnitStates, Convert(t, state)
    PROVE  /\ SoundPool'
           /\ \A s \in DOMAIN tag_to_unit_ :
                s \in DOMAIN tag_to_unit_' /\ tag_to_unit_'[s] = tag_to_unit_[s]
           /\ Existing' = Existing \cup {t}
           /\ StateOf(t)' = state
           /\ \A s \in Existing : s # t => StateOf(s)' = StateOf(s)
<1> DEFINE unit == [tag |-> t, state |-> state, is_alive |-> TRUE]
           i == tag_to_unit_'[t]
<1>1. /\ unit \in [tag : Tags, state : UnitStates, is_alive : BOOLEAN]
      /\ unit.tag = t /\ unit.state = state /\ unit.is_alive
  OBVIOUS
<1> HIDE DEF unit
<1>2. /\ DOMAIN tag_to_unit_' = DOMAIN tag_to_unit_ \cup {t}
      /\ \A s \in DOMAIN tag_to_unit_ : tag_to_unit_'[s] = tag_to_unit_[s]
      /\ \A s \in DOMAIN tag_to_unit_ : s # t => tag_to_unit_[s] # i
      /\ i \in Indices /\ i[1] < entries' /\ entries <= entries'
      /\ entries' \in 0..Cardinality(Tags) /\ available_index_' \in Indices
      /\ PoolInv'
  <2>1. CASE t \in DOMAIN tag_to_unit_
    <3>1. UNCHANGED <<entries, available_index_, tag_to_unit_>>
      BY <2>1 DEF Convert, CreateUnit
    <3>2. /\ tag_to_unit_[t] \in Indices /\ tag_to_unit_[t][1] < entries
          /\ entries \in 0..Cardinality(Tags) /\ available_index_ \in Indices /\ PoolInv
      BY <2>1 DEF SoundPool, PoolTypes, PoolIsSound
    <3>3. \A s \in DOMAIN tag_to_unit_ : s # t => tag_to_unit_[s] # tag_to_unit_[t]
      BY <2>1, PointersDiffer
    <3>4. PoolInv'
      BY <3>1, <3>2 DEF PoolInv
    <3>5. entries <= entries
      BY <3>2
    <3> QED
      BY <2>1, <3>1, <3>2, <3>3, <3>4, <3>5
  <2>2. CASE t \notin DOMAIN tag_to_unit_
    <3>1. NewUnit(t)
      BY <2>2 DEF Convert, CreateUnit
    <3>2. \A s \in DOMAIN tag_to_unit_ : tag_to_unit_[s] # available_index_
      BY PointersDiffer
    <3>3. available_index_ \in Indices
      BY DEF SoundPool, PoolTypes
    <3> QED
      BY <2>2, <3>1, <3>2, <3>3, NewUnitPool
  <2> QED
    BY <2>1, <2>2
<1>3. tag_to_existing_unit_' = Updated(tag_to_existing_unit_, t, i) /\ unit_pool_' = Updated(unit_pool_, i, unit)
  BY DEF Convert, unit
<1> HIDE DEF i
<1>4. /\ DOMAIN tag_to_existing_unit_' = Existing \cup {t} /\ tag_to_existing_unit_'[t] = i
      /\ \A s \in Existing : s # t => tag_to_existing_unit_'[s] = tag_to_existing_unit_[s]
      /\ DOMAIN unit_pool_' = DOMAIN unit_pool_ \cup {i} /\ unit_pool_'[i] = unit
      /\ \A u \in DOMAIN unit_pool_ : u # i => unit_pool_'[u] = unit_pool_[u]
  BY <1>3 DEF Updated, Existing
<1>5. /\ \A s \in DOMAIN tag_to_unit_ :
            /\ tag_to_unit_[s][1] < entries /\ tag_to_unit_[s][2] < ENTRY_SIZE
            /\ tag_to_unit_[s] \in DOMAIN unit_pool_ /\ unit_pool_[tag_to_unit_[s]].tag = s
            /\ tag_to_unit_[s] \in Indices
      /\ \A s \in Existing :
            /\ s \in DOMAIN tag_to_unit_ /\ tag_to_existing_unit_[s] = tag_to_unit_[s]
            /\ unit_pool_[tag_to_unit_[s]].is_alive
      /\ DOMAIN tag_to_unit_ \subseteq Tags /\ DOMAIN tag_to_existing_unit_ \subseteq Tags
      /\ DOMAIN unit_pool_ \subseteq Indices
      /\ \A u \in DOMAIN unit_pool_ :
            unit_pool_[u] \in [tag : Tags, state : UnitStates, is_alive : BOOLEAN]
      /\ entries \in 0..Cardinality(Tags)
  BY DEF SoundPool, PoolTypes, PoolIsSound
<1>6. \A s \in DOMAIN tag_to_unit_ : s # t =>
         /\ tag_to_unit_'[s] = tag_to_unit_[s] /\ tag_to_unit_[s] \in DOMAIN unit_pool_
         /\ unit_pool_'[tag_to_unit_[s]] = unit_pool_[tag_to_unit_[s]]
  BY <1>2, <1>4, <1>5
<1>7. \A s \in Existing : s # t =>
         /\ s \in DOMAIN tag_to_unit_
         /\ tag_to_existing_unit_'[s] = tag_to_unit_[s] /\ tag_to_existing_unit_[s] = tag_to_unit_[s]
         /\ unit_pool_'[tag_to_unit_[s]] = unit_pool_[tag_to_unit_[s]]
  BY <1>4, <1>5, <1>6
<1>8. PoolTypes'
  <2>1. \A u \in DOMAIN unit_pool_' :
           unit_pool_'[u] \in [tag : Tags, state : UnitStates, is_alive : BOOLEAN]
    BY <1>1, <1>4, <1>5
  <2>2. \A s \in DOMAIN tag_to_unit_' : tag_to_unit_'[s] \in Indices
    BY <1>2, <1>5 DEF i
  <2>3. DOMAIN unit_pool_' \subseteq Indices
    BY <1>2, <1>4, <1>5
  <2> QED
    BY <2>1, <2>2, <2>3, <1>2, <1>4, <1>5 DEF PoolTypes
<1>9. PoolIsSound'
  <2>1. ASSUME NEW s \in DOMAIN tag_to_unit_'
        PROVE  /\ tag_to_unit_'[s][1] < entries' /\ tag_to_unit_'[s][2] < ENTRY_SIZE
               /\ tag_to_unit_'[s] \in DOMAIN unit_pool_' /\ unit_pool_'[tag_to_unit_'[s]].tag = s
    <3>1. CASE s = t
      <4>1. i[2] < ENTRY_SIZE
        BY <1>2, UnitsAssumption DEF Indices
      <4> QED
        BY <3>1, <4>1, <1>1, <1>2, <1>4 DEF i
    <3>2. CASE s # t
      <4>1. s \in DOMAIN tag_to_unit_ /\ tag_to_unit_[s][1] < entries /\ tag_to_unit_[s] \in Indices
        BY <3>2, <1>2, <1>5
      <4>2. tag_to_unit_[s][1] < entries'
        BY <4>1, <1>2, <1>5 DEF Indices
      <4> QED
        BY <3>2, <4>1, <4>2, <1>4, <1>5, <1>6
    <3> QED
      BY <3>1, <3>2
  <2>2. ASSUME NEW s \in Existing'
        PROVE  /\ s \in DOMAIN tag_to_unit_' /\ tag_to_existing_unit_'[s] = tag_to_unit_'[s]
               /\ unit_pool_'[tag_to_unit_'[s]].is_alive
    <3>1. CASE s = t
      BY <3>1, <1>1, <1>2, <1>4 DEF i
    <3>2. CASE s # t
      BY <3>2, <1>2, <1>4, <1>5, <1>6, <1>7 DEF Existing
    <3> QED
      BY <3>1, <3>2
  <2> QED
    BY <2>1, <2>2 DEF PoolIsSound
<1>10. /\ Existing' = Existing \cup {t} /\ StateOf(t)' = state
       /\ \A s \in Existing : s # t => StateOf(s)' = StateOf(s)
  BY <1>1, <1>4, <1>7 DEF StateOf, Existing
<1> QED
  BY <1>2, <1>8, <1>9, <1>10 DEF SoundPool

\* Units that are dead do not exist any more.
LEMMA EventsPool ==
    ASSUME SoundPool, IsNewFrame, NEW again \in BOOLEAN, IssueEvents(again)
    PROVE  /\ SoundPool' /\ tag_to_unit_' = tag_to_unit_
           /\ Existing' = Existing \ Destroyed
           /\ \A s \in Existing' : StateOf(s)' = StateOf(s)
<1>1. /\ unit_pool_' = [u \in DOMAIN unit_pool_ |->
                          [unit_pool_[u] EXCEPT !.is_alive =
                             IF \E t \in Destroyed : tag_to_unit_[t] = u THEN FALSE ELSE @]]
      /\ tag_to_existing_unit_' = [t \in Existing \ Destroyed |-> tag_to_existing_unit_[t]]
      /\ UNCHANGED <<entries, available_index_, tag_to_unit_>>
  BY DEF IssueEvents
<1>2. /\ Existing' = Existing \ Destroyed
      /\ \A s \in Existing' : tag_to_existing_unit_'[s] = tag_to_existing_unit_[s]
  BY <1>1 DEF Existing
<1>3. ASSUME NEW u \in DOMAIN unit_pool_
      PROVE  /\ unit_pool_'[u] \in [tag : Tags, state : UnitStates, is_alive : BOOLEAN]
             /\ unit_pool_'[u].tag = unit_pool_[u].tag /\ unit_pool_'[u].state = unit_pool_[u].state
             /\ (~\E t \in Destroyed : tag_to_unit_[t] = u) =>
                  unit_pool_'[u] = unit_pool_[u]
  <2>1. unit_pool_[u] \in [tag : Tags, state : UnitStates, is_alive : BOOLEAN]
    BY DEF SoundPool, PoolTypes
  <2>2. CASE \E t \in Destroyed : tag_to_unit_[t] = u
    <3>1. unit_pool_'[u] = [unit_pool_[u] EXCEPT !.is_alive = FALSE]
      BY <1>1, <2>2
    <3> QED
      BY <2>1, <2>2, <3>1
  <2>3. CASE ~\E t \in Destroyed : tag_to_unit_[t] = u
    <3>1. unit_pool_'[u] = [unit_pool_[u] EXCEPT !.is_alive = unit_pool_[u].is_alive]
      BY <1>1, <2>3
    <3>2. unit_pool_'[u] = unit_pool_[u]
      BY <2>1, <3>1
    <3> QED
      BY <2>1, <3>2
  <2> QED
    BY <2>2, <2>3
<1>4. DOMAIN unit_pool_' = DOMAIN unit_pool_
  BY <1>1
<1>5. PoolTypes'
  BY <1>1, <1>2, <1>3, <1>4 DEF SoundPool, PoolTypes, Existing
<1>6. ASSUME NEW s \in Existing'
      PROVE  /\ s \in DOMAIN tag_to_unit_ /\ tag_to_existing_unit_[s] = tag_to_unit_[s]
             /\ unit_pool_[tag_to_unit_[s]].is_alive
             /\ tag_to_unit_[s] \in DOMAIN unit_pool_
             /\ unit_pool_'[tag_to_unit_[s]] = unit_pool_[tag_to_unit_[s]]
  <2>1. /\ s \in DOMAIN tag_to_unit_ /\ tag_to_existing_unit_[s] = tag_to_unit_[s]
        /\ unit_pool_[tag_to_unit_[s]].is_alive /\ tag_to_unit_[s] \in DOMAIN unit_pool_
    BY <1>2 DEF SoundPool, PoolIsSound
  <2>2. ~\E t \in Destroyed : tag_to_unit_[t] = tag_to_unit_[s]
    BY <2>1, <1>2, PointersDiffer DEF Destroyed
  <2> QED
    BY <2>1, <2>2, <1>3
<1>7. PoolIsSound'
  <2>1. \A t \in DOMAIN tag_to_unit_ :
          /\ tag_to_unit_[t][1] < entries /\ tag_to_unit_[t][2] < ENTRY_SIZE
          /\ tag_to_unit_[t] \in DOMAIN unit_pool_ /\ unit_pool_'[tag_to_unit_[t]].tag = t
    BY <1>3 DEF SoundPool, PoolIsSound
  <2>2. /\ tag_to_unit_' = tag_to_unit_ /\ entries' = entries
        /\ DOMAIN unit_pool_' = DOMAIN unit_pool_
    BY <1>1, <1>4
  <2>3. \A s \in Existing' :
          /\ s \in DOMAIN tag_to_unit_' /\ tag_to_existing_unit_'[s] = tag_to_unit_'[s]
          /\ unit_pool_'[tag_to_unit_'[s]].is_alive
    BY <1>2, <1>6, <2>2
  <2> QED
    BY <2>1, <2>2, <2>3 DEF PoolIsSound
<1>8. PoolInv'
  BY <1>1 DEF SoundPool, PoolInv
<1>9. \A s \in Existing' : StateOf(s)' = StateOf(s)
  BY <1>2, <1>6 DEF StateOf
<1> QED
  BY <1>1, <1>2, <1>5, <1>7, <1>8, <1>9 DEF SoundPool

\* ClearExisting.
LEMMA ClearedPool ==
    ASSUME SoundPool, tag_to_existing_unit_' = Empty,
           UNCHANGED <<unit_pool_, entries, available_index_, tag_to_unit_>>
    PROVE  SoundPool' /\ Existing' = {}
<1>1. Existing' = {}
  BY EmptyIs DEF Existing
<1> QED
  BY <1>1 DEF SoundPool, PoolTypes, PoolIsSound, PoolInv, Existing

\* The pool stays as it is.
LEMMA PoolStays ==
    ASSUME UNCHANGED pool
    PROVE  /\ SoundPool => SoundPool'
           /\ tag_to_unit_' = tag_to_unit_ /\ Existing' = Existing
           /\ \A t : StateOf(t)' = StateOf(t)
  BY DEF pool, SoundPool, PoolTypes, PoolIsSound, PoolInv, Existing, StateOf

-----------------------------------------------------------------------------
(* The types of the other variables.                                       *)

Places == {"launched", "waiting", "joining", "starting", "begun", "ready", "stepped", "observed",
           "told", "silent", "ended", "stopped"}
ModeOK ==
    /\ pc \in Places /\ realtime \in BOOLEAN /\ agent \in BOOLEAN /\ errors \in BOOLEAN
    /\ multi_threaded \in BOOLEAN
ObservationOK ==
    /\ DOMAIN units_previous_map_ \subseteq Tags
    /\ \A t \in DOMAIN units_previous_map_ : units_previous_map_[t] \in StatesOf(t)
    /\ {current_game_loop_, previous_game_loop} \subseteq 0..NoLoop
    /\ dead_units \subseteq Tags /\ converting \subseteq Tags
ActionsOK ==
    /\ request_actions_ \subseteq Own /\ commands_ \subseteq Own
    /\ ~agent => request_actions_ = {} /\ commands_ = {}
GameOK ==
    /\ world \in [Tags -> UnitStates \cup {"unborn", "away", "dead"}]
    /\ \A t \in Tags : world[t] \in StatesOf(t) \cup {"unborn", "away", "dead"}
    /\ loop \in 0..MaxLoop /\ played \in 0..MaxLoop /\ loop <= played
    /\ over \in BOOLEAN /\ games \in 0..MaxGames /\ died \subseteq Tags
HistoryOK ==
    /\ told \in [Tags -> SUBSET Events]
    /\ noted \in [Tags -> SUBSET {"fresh", "left", "ordered", "dropped", "building", "snapshot"}]
    /\ wrong \subseteq Events \X BOOLEAN
StatesOK == \A t \in Existing : StateOf(t) \in StatesOf(t)
OtherTypes ==
    /\ ModeOK /\ ObservationOK /\ ActionsOK /\ GameOK /\ HistoryOK /\ StatesOK
    /\ converting \subseteq DOMAIN Shown /\ (~Pending => converting = {})

LEMMA Sides == \A t : StatesOf(t) \subseteq UnitStates
  BY DEF StatesOf, UnitStates

LEMMA TypesAre ==
    UnitsTypeOK /\ SideInv /\ PhaseInv <=> PoolTypes /\ OtherTypes
<1>1. ASSUME UnitsTypeOK, SideInv, PhaseInv
      PROVE  PoolTypes /\ OtherTypes
  <2>1. DOMAIN units_previous_map_ \subseteq Tags /\ Existing \subseteq Tags
    BY <1>1 DEF UnitsTypeOK, Existing
  <2>2. PoolTypes /\ ModeOK /\ HistoryOK
    BY <1>1 DEF UnitsTypeOK, PoolTypes, ModeOK, HistoryOK, Places
  <2>3. ObservationOK /\ ActionsOK
    BY <1>1, <2>1 DEF UnitsTypeOK, SideInv, PhaseInv, ObservationOK, ActionsOK
  <2>4. GameOK /\ StatesOK /\ converting \subseteq DOMAIN Shown /\ (~Pending => converting = {})
    BY <1>1, <2>1 DEF UnitsTypeOK, SideInv, PhaseInv, GameOK, StatesOK
  <2> QED
    BY <2>2, <2>3, <2>4 DEF OtherTypes
<1>2. ASSUME PoolTypes, OtherTypes
      PROVE  UnitsTypeOK /\ SideInv /\ PhaseInv
  <2>1. UnitsTypeOK
    BY <1>2, Sides DEF UnitsTypeOK, PoolTypes, OtherTypes, ModeOK, HistoryOK, Places, ObservationOK,
                       ActionsOK, GameOK
  <2>2. SideInv /\ PhaseInv
    BY <1>2 DEF OtherTypes, SideInv, PhaseInv, StatesOK, GameOK, ActionsOK, ObservationOK
  <2> QED
    BY <2>1, <2>2
<1> QED
  BY <1>1, <1>2

LEMMA PlaysOK ==
    ASSUME GameOK, Plays
    PROVE  GameOK'
<1>1. PICK t \in Tags : \E state \in Successors(t) : world' = [world EXCEPT ![t] = state]
  BY DEF Plays
<1>2. PICK state \in Successors(t) : world' = [world EXCEPT ![t] = state]
  BY <1>1
<1>3. state \in StatesOf(t) \cup {"unborn", "away", "dead"}
  BY <1>2 DEF Successors, StatesOf, GameOK, OwnStates, EnemyStates
<1>4. /\ world' \in [Tags -> UnitStates \cup {"unborn", "away", "dead"}]
      /\ \A s \in Tags : world'[s] \in StatesOf(s) \cup {"unborn", "away", "dead"}
  BY <1>2, <1>3, Sides DEF GameOK
<1>5. /\ loop' \in 0..MaxLoop /\ played' \in 0..MaxLoop /\ loop' <= played'
      /\ games' \in 0..MaxGames
  BY UnitsAssumption DEF GameOK, Plays
<1>6. over' \in BOOLEAN /\ died' \subseteq Tags
  BY DEF GameOK, Plays
<1> QED
  BY <1>4, <1>5, <1>6 DEF GameOK

LEMMA BeginsOK ==
    ASSUME GameOK, Begins
    PROVE  GameOK'
<1>1. /\ world' \in [Tags -> {"unborn", "idle", "busy", "snapshot"}]
      /\ \A t \in Tags : world'[t] \in (IF t \in Own THEN {"unborn", "idle", "busy"}
                                                     ELSE {"unborn", "snapshot"})
  BY DEF Begins
<1>2. /\ world' \in [Tags -> UnitStates \cup {"unborn", "away", "dead"}]
      /\ \A t \in Tags : world'[t] \in StatesOf(t) \cup {"unborn", "away", "dead"}
  BY <1>1 DEF StatesOf, UnitStates, OwnStates, EnemyStates
<1>3. loop' \in 0..MaxLoop /\ played' \in 0..MaxLoop /\ loop' <= played' /\ games' \in 0..MaxGames
  BY UnitsAssumption DEF GameOK, Begins
<1>4. over' \in BOOLEAN /\ died' \subseteq Tags
  BY DEF Begins
<1> QED
  BY <1>2, <1>3, <1>4 DEF GameOK

LEMMA ForgetOK ==
    ASSUME HistoryOK, ForgetGame
    PROVE  HistoryOK'
  BY DEF HistoryOK, ForgetGame

LEMMA CommandsOK ==
    ASSUME ActionsOK, NEW units \in SUBSET Own, Commands(units), UNCHANGED <<commands_, agent>>
    PROVE  ActionsOK'
  BY DEF ActionsOK, Commands

LEMMA ShownOK ==
    ASSUME GameOK
    PROVE  /\ DOMAIN Shown \subseteq Tags
           /\ \A t \in DOMAIN Shown : Shown[t] \in StatesOf(t)
  BY DEF Shown, GameOK, UnitStates, OwnStates, EnemyStates

LEMMA UpdateOK ==
    ASSUME OtherTypes, PoolTypes, UpdateObservation
    PROVE  /\ ObservationOK' /\ GameOK' /\ HistoryOK' /\ StatesOK'
           /\ converting' \subseteq DOMAIN Shown'
<1>1. Existing \subseteq Tags /\ Existing' = {}
  BY EmptyIs DEF PoolTypes, Existing, UpdateObservation
<1>2. ObservationOK'
  <2>1. units_previous_map_' = [t \in Existing |-> StateOf(t)]
    BY DEF UpdateObservation, PreviousUnits
  <2>2. \A t \in Existing : StateOf(t) \in StatesOf(t)
    BY DEF OtherTypes, StatesOK
  <2>3. DOMAIN units_previous_map_' \subseteq Tags
    BY <1>1, <2>1
  <2>4. \A t \in DOMAIN units_previous_map_' : units_previous_map_'[t] \in StatesOf(t)
    BY <2>1, <2>2
  <2>5. {current_game_loop_', previous_game_loop'} \subseteq 0..NoLoop
    BY UnitsAssumption DEF UpdateObservation, NextFrame, OtherTypes, ObservationOK, GameOK, NoLoop
  <2>6. dead_units' \subseteq Tags /\ converting' \subseteq Tags
    BY ShownOK DEF UpdateObservation, OtherTypes, GameOK
  <2> QED
    BY <2>3, <2>4, <2>5, <2>6 DEF ObservationOK, StatesOf
<1>3. GameOK'
  BY DEF UpdateObservation, OtherTypes, GameOK, StatesOf
<1>4. HistoryOK'
  <2>1. ASSUME NEW t \in Tags
        PROVE  /\ Lasting(t) \in SUBSET Events
               /\ StillNoted(t) \in SUBSET {"fresh", "left", "ordered", "dropped", "building", "snapshot"}
    <3>1. /\ told[t] \in SUBSET Events
          /\ noted[t] \in SUBSET {"fresh", "left", "ordered", "dropped", "building", "snapshot"}
      BY DEF OtherTypes, HistoryOK
    <3> QED
      BY <3>1 DEF Lasting, StillNoted
  <2> QED
    BY <2>1 DEF UpdateObservation, OtherTypes, HistoryOK
<1>5. StatesOK'
  BY <1>1 DEF StatesOK
<1>6. converting' \subseteq DOMAIN Shown'
  BY ShownStays DEF UpdateObservation
<1> QED
  BY <1>2, <1>3, <1>4, <1>5, <1>6

LEMMA IssueOK ==
    ASSUME OtherTypes, SoundPool, NEW again \in BOOLEAN, IssueEvents(again), UNCHANGED agent
    PROVE  ActionsOK' /\ HistoryOK' /\ StatesOK' /\ SoundPool'
<1>1. CASE ~IsNewFrame
  <2>1. UNCHANGED <<pool, actions, history>>
    BY <1>1 DEF IssueEvents
  <2>2. SoundPool' /\ StatesOK'
    BY <2>1, PoolStays DEF OtherTypes, StatesOK, StatesOf
  <2> QED
    BY <2>1, <2>2 DEF OtherTypes, ActionsOK, HistoryOK, actions, history
<1>2. CASE IsNewFrame
  <2>1. ActionsOK'
    <3>1. OwnUnits \in SUBSET Own
      BY DEF OwnUnits
    <3>2. Commands(OwnUnits) /\ UNCHANGED commands_
      BY <1>2 DEF IssueEvents
    <3> QED
      BY <3>1, <3>2, CommandsOK DEF OtherTypes
  <2>2. HistoryOK'
    <3>1. \A t \in Tags : EventsOf(t) \in SUBSET Events /\ KnownEvents(t) \subseteq Events
      BY DEF EventsOf, KnownEvents
    <3>2. told' = [t \in Tags |-> told[t] \cup EventsOf(t)] /\ noted' = noted
      BY <1>2 DEF IssueEvents
    <3>3. wrong' \subseteq Events \X BOOLEAN
      BY <1>2, <3>1 DEF IssueEvents, OtherTypes, HistoryOK
    <3> QED
      BY <3>1, <3>2, <3>3 DEF OtherTypes, HistoryOK
  <2>3. SoundPool' /\ StatesOK'
    <3>1. /\ SoundPool' /\ Existing' \subseteq Existing
          /\ \A s \in Existing' : StateOf(s)' = StateOf(s)
      BY <1>2, EventsPool
    <3> QED
      BY <3>1 DEF OtherTypes, StatesOK, StatesOf
  <2> QED
    BY <2>1, <2>2, <2>3
<1> QED
  BY <1>1, <1>2

\* GetObservation leaves the agent's commands alone.
LEMMA GetObservationOK ==
    ASSUME OtherTypes, SoundPool, GetObservation, UNCHANGED <<mode, actions>>,
           pc' \in {"starting", "observed"}
    PROVE  OtherTypes' /\ SoundPool'
<1>1. ModeOK' /\ ActionsOK' /\ Pending'
  BY DEF GetObservation, UpdateObservation, mode, actions, OtherTypes, ModeOK, ActionsOK, Places,
         Pending
<1>2. CASE UpdateObservation
  <2>1. SoundPool'
    BY <1>2, ClearedPool DEF UpdateObservation
  <2> QED
    BY <1>1, <1>2, <2>1, UpdateOK DEF OtherTypes, SoundPool
<1>3. CASE UNCHANGED <<pool, observation, game, history>>
  <2>1. SoundPool' /\ StatesOK'
    BY <1>3, PoolStays DEF OtherTypes, StatesOK, StatesOf
  <2>2. ObservationOK' /\ GameOK' /\ HistoryOK'
    BY <1>3 DEF OtherTypes, ObservationOK, GameOK, HistoryOK, observation, game, history, StatesOf
  <2>3. converting' \subseteq DOMAIN Shown'
    BY <1>3, ShownStays DEF OtherTypes, observation, game
  <2> QED
    BY <1>1, <2>1, <2>2, <2>3 DEF OtherTypes
<1> QED
  BY <1>2, <1>3 DEF GetObservation

\* A step that leaves the pool, the observation and the history of the events alone.
LEMMA OthersOK ==
    ASSUME OtherTypes, SoundPool, UNCHANGED <<mode, errors, pool, observation>>,
           pc' \in Places, Pending => converting = {},
           ActionsOK', GameOK', HistoryOK'
    PROVE  OtherTypes' /\ SoundPool'
<1>1. SoundPool' /\ StatesOK'
  BY PoolStays DEF OtherTypes, StatesOK, StatesOf
<1>2. ModeOK' /\ ObservationOK'
  BY DEF OtherTypes, ModeOK, ObservationOK, mode, observation, StatesOf
<1>3. converting' = {}
  BY DEF OtherTypes, observation
<1> QED
  BY <1>1, <1>2, <1>3 DEF OtherTypes

LEMMA UnchangedOK ==
    /\ OtherTypes /\ UNCHANGED <<mode, actions>> => ActionsOK'
    /\ OtherTypes /\ UNCHANGED game => GameOK'
    /\ OtherTypes /\ UNCHANGED history => HistoryOK'
  BY DEF OtherTypes, ActionsOK, GameOK, HistoryOK, mode, actions, game, history, StatesOf

LEMMA ConvertOK ==
    ASSUME OtherTypes, SoundPool, ConvertUnit
    PROVE  OtherTypes' /\ SoundPool'
<1>1. PICK t \in converting : Convert(t, Shown[t]) /\ converting' = converting \ {t}
  BY DEF ConvertUnit
<1>2. UNCHANGED <<pc, mode, errors, units_previous_map_, current_game_loop_, previous_game_loop,
                  dead_units, actions, game, history>>
  BY DEF ConvertUnit
<1>3. t \in Tags /\ Shown[t] \in StatesOf(t) /\ Shown[t] \in UnitStates
  BY ShownOK, Sides DEF OtherTypes, ObservationOK
<1>4. /\ SoundPool' /\ Existing' = Existing \cup {t} /\ StateOf(t)' = Shown[t]
      /\ \A s \in Existing : s # t => StateOf(s)' = StateOf(s)
  BY <1>1, <1>3, ConvertPool
<1>5. StatesOK'
  BY <1>3, <1>4 DEF OtherTypes, StatesOK, StatesOf
<1>6. ModeOK' /\ ActionsOK' /\ GameOK' /\ HistoryOK'
  BY <1>2 DEF OtherTypes, ModeOK, mode, ActionsOK, actions, GameOK, game, HistoryOK, history, StatesOf
<1>7. ObservationOK'
  BY <1>1, <1>2 DEF OtherTypes, ObservationOK, StatesOf
<1>8. converting' \subseteq DOMAIN Shown' /\ (~Pending' => converting' = {})
  <2>1. Shown' = Shown /\ Pending' = Pending
    BY <1>2, ShownStays DEF game, Pending
  <2> QED
    BY <2>1, <1>1 DEF OtherTypes
<1> QED
  BY <1>4, <1>5, <1>6, <1>7, <1>8 DEF OtherTypes

\* What is known of the units as long as there is no error.
Known ==
    ~errors =>
      /\ wrong \subseteq (IF agent \/ multi_threaded THEN {} ELSE Events \X {TRUE})
      /\ RepeatInv
      /\ \A t \in Tags : (InPlay => SettledInv(t)) /\ (Pending => PendingInv(t))

\* A client that has just been constructed.
Fresh ==
    /\ pc = "launched" /\ errors = FALSE
    /\ realtime \in BOOLEAN /\ agent \in BOOLEAN /\ multi_threaded \in BOOLEAN
    /\ unit_pool_ = Empty /\ entries = 0 /\ available_index_ = <<0, 0>>
    /\ tag_to_unit_ = Empty /\ tag_to_existing_unit_ = Empty
    /\ units_previous_map_ = Empty
    /\ current_game_loop_ = NoLoop /\ previous_game_loop = NoLoop
    /\ dead_units = {} /\ converting = {}
    /\ request_actions_ = {} /\ commands_ = {}
    /\ world = NewGame /\ loop = 0 /\ died = {} /\ over = FALSE
    /\ games \in 0..MaxGames /\ played \in 0..MaxLoop
    /\ told = NothingOf /\ noted = NothingOf /\ wrong = {}

LEMMA FreshOK == Fresh => OtherTypes /\ SoundPool /\ Known
<1> SUFFICES ASSUME Fresh
             PROVE  OtherTypes /\ SoundPool /\ Known
  OBVIOUS
<1>1. Existing = {} /\ DOMAIN tag_to_unit_ = {} /\ DOMAIN unit_pool_ = {}
  BY EmptyIs DEF Fresh, Existing
<1>2. PoolTypes
  BY <1>1, TagsAre, UnitsAssumption DEF Fresh, PoolTypes, Existing, Indices
<1>3. PoolIsSound
  BY <1>1 DEF PoolIsSound
<1>4. PoolInv
  BY <1>1, FS_EmptySet, UnitsAssumption DEF Fresh, PoolInv
<1>5. OtherTypes
  <2>1. ModeOK /\ ActionsOK /\ HistoryOK
    BY DEF Fresh, ModeOK, Places, ActionsOK, HistoryOK, NothingOf
  <2>2. ObservationOK
    BY UnitsAssumption, EmptyIs DEF Fresh, ObservationOK, NoLoop
  <2>3. GameOK
    <3>1. /\ world \in [Tags -> UnitStates \cup {"unborn", "away", "dead"}]
          /\ \A t \in Tags : world[t] \in StatesOf(t) \cup {"unborn", "away", "dead"}
      BY DEF Fresh, NewGame
    <3>2. loop \in 0..MaxLoop /\ played \in 0..MaxLoop /\ loop <= played /\ games \in 0..MaxGames
      BY UnitsAssumption DEF Fresh
    <3>3. over \in BOOLEAN /\ died \subseteq Tags
      BY DEF Fresh
    <3> QED
      BY <3>1, <3>2, <3>3 DEF GameOK
  <2>4. StatesOK /\ converting = {}
    BY <1>1 DEF Fresh, StatesOK
  <2> QED
    BY <2>1, <2>2, <2>3, <2>4 DEF OtherTypes
<1>6. Known
  BY DEF Fresh, Known, InPlay, Pending, RepeatInv, IsNewFrame
<1> QED
  BY <1>2, <1>3, <1>4, <1>5, <1>6 DEF SoundPool

LEMMA FreshStep == Fresh' => (OtherTypes /\ SoundPool /\ Known)'
  BY FreshOK, PTL

\* After a relaunch everything is as it is after a launch.
LEMMA RelaunchOK ==
    ASSUME OtherTypes, Relaunch
    PROVE  OtherTypes' /\ SoundPool' /\ Known'
<1>1. Fresh'
  BY DEF Relaunch, Fresh, OtherTypes, ModeOK, ActionsOK, GameOK, mode, actions, NewGame, NothingOf,
         NoLoop, Empty
<1> QED
  BY <1>1, FreshStep

\* No step takes a variable out of its type, or the pool out of order.
LEMMA TypesStep ==
    ASSUME OtherTypes, SoundPool, Next
    PROVE  OtherTypes' /\ SoundPool'
<1>1. CASE StartGame
  <2>1. GameOK' /\ HistoryOK' /\ ActionsOK'
    BY <1>1, BeginsOK, ForgetOK, UnchangedOK DEF StartGame, OtherTypes
  <2> QED
    BY <1>1, <2>1, OthersOK DEF StartGame, Pending, Places, OtherTypes
<1>2. CASE JoinGame \/ ObserveReplay \/ Observe
  BY <1>2, GetObservationOK DEF JoinGame, ObserveReplay, Observe
<1>3. CASE (GameStarted /\ IsNewFrame) \/ CallOnStep \/ IssueEventsAgain
  <2>1. /\ \E again \in BOOLEAN : IssueEvents(again)
        /\ UNCHANGED <<mode, errors, observation, game>>
        /\ pc' \in Places /\ converting = {}
    BY <1>3 DEF GameStarted, CallOnStep, IssueEventsAgain, OtherTypes, ModeOK, Pending, Places
  <2>2. ActionsOK' /\ HistoryOK' /\ StatesOK' /\ SoundPool'
    BY <2>1, IssueOK DEF mode
  <2>3. ModeOK' /\ ObservationOK' /\ GameOK'
    BY <2>1 DEF OtherTypes, ModeOK, ObservationOK, GameOK, mode, observation, game, StatesOf
  <2>4. converting' = {}
    BY <2>1 DEF observation
  <2> QED
    BY <2>2, <2>3, <2>4 DEF OtherTypes
<1>4. CASE GameStarted /\ ~IsNewFrame
  <2>1. Existing \cap Own \in SUBSET Own
    OBVIOUS
  <2>2. GameOK' /\ HistoryOK' /\ ActionsOK'
    BY <1>4, <2>1, CommandsOK, UnchangedOK DEF GameStarted, OtherTypes, mode
  <2> QED
    BY <1>4, <2>2, OthersOK DEF GameStarted, Places
<1>5. CASE ReplayStarted \/ CallOnGameEnd \/ StartReplay
  BY <1>5, OthersOK, UnchangedOK DEF ReplayStarted, CallOnGameEnd, StartReplay, Pending, Places,
                                    OtherTypes
<1>6. CASE ConvertUnit
  BY <1>6, ConvertOK
<1>7. CASE GamePlays \/ Step
  <2>1. GameOK'
    BY <1>7, PlaysOK, UnchangedOK DEF GamePlays, Step, OtherTypes
  <2>2. ~Pending /\ pc' \in Places
    BY <1>7 DEF GamePlays, Step, Ready, Pending, Places, OtherTypes, ModeOK
  <2> QED
    BY <1>7, <2>1, <2>2, OthersOK, UnchangedOK DEF GamePlays, Step
<1>8. CASE SendActions
  <2>1. PICK sent \in Sent :
          /\ commands_' = sent /\ request_actions_' = request_actions_ \ sent
          /\ told' = [t \in Tags |-> IF t \in sent THEN told[t] \ {"idle"} ELSE told[t]]
    BY <1>8 DEF SendActions
  <2>2. sent \subseteq request_actions_
    BY DEF Sent
  <2>3. ActionsOK'
    BY <1>8, <2>1, <2>2 DEF SendActions, OtherTypes, ActionsOK, mode
  <2>4. HistoryOK'
    BY <1>8, <2>1 DEF SendActions, OtherTypes, HistoryOK
  <2>5. ~Pending /\ pc' \in Places
    BY <1>8 DEF SendActions, Pending, AfterUpdate, Places
  <2> QED
    BY <1>8, <2>3, <2>4, <2>5, OthersOK, UnchangedOK DEF SendActions
<1>9. CASE NoActions
  <2>1. ~Pending /\ pc' \in Places
    BY <1>9 DEF NoActions, Pending, AfterUpdate, Places
  <2> QED
    BY <1>9, <2>1, OthersOK, UnchangedOK DEF NoActions
<1>10. CASE Restart
  <2>1. Existing \cap Own \in SUBSET Own
    OBVIOUS
  <2>2. GameOK' /\ HistoryOK' /\ ActionsOK'
    BY <1>10, <2>1, BeginsOK, ForgetOK, CommandsOK DEF Restart, OtherTypes, mode
  <2>3. ~Pending /\ pc' \in Places
    BY <1>10 DEF Restart, Pending, Places
  <2> QED
    BY <1>10, <2>2, <2>3, OthersOK DEF Restart
<1>11. CASE Ended
  <2>1. UNCHANGED <<pc, mode, errors, pool, observation, actions, game, history>>
    BY <1>11 DEF Ended, vars
  <2>2. pc' \in Places /\ ~Pending
    BY <1>11, <2>1 DEF OtherTypes, ModeOK, Ended, Pending
  <2> QED
    BY <2>1, <2>2, OthersOK, UnchangedOK
<1>12. CASE WaitForReplay
  <2>1. /\ UNCHANGED <<mode, pool, observation, actions>> /\ converting = {}
        /\ errors' \in BOOLEAN /\ pc' \in Places
    BY <1>12 DEF WaitForReplay, OtherTypes, ModeOK, Pending, Places
  <2>2. GameOK' /\ HistoryOK' /\ ActionsOK'
    BY <1>12, BeginsOK, ForgetOK, UnchangedOK DEF WaitForReplay, OtherTypes
  <2>3. SoundPool' /\ StatesOK'
    BY <2>1, PoolStays DEF OtherTypes, StatesOK, StatesOf
  <2>4. ModeOK' /\ ObservationOK' /\ converting' = {}
    BY <2>1 DEF OtherTypes, ModeOK, ObservationOK, mode, observation, StatesOf
  <2> QED
    BY <2>2, <2>3, <2>4 DEF OtherTypes
<1>13. CASE Relaunch
  BY <1>13, RelaunchOK
<1> QED
  BY <1>1, <1>2, <1>3, <1>4, <1>5, <1>6, <1>7, <1>8, <1>9, <1>10, <1>11, <1>12, <1>13 DEF Next

-----------------------------------------------------------------------------
(* What is known of a unit, from step to step.                             *)

\* A game that begins tells everything anew, and a unit the library has already is left
\* out of that.
LEMMA BeginsTold ==
    ASSUME OtherTypes, NEW t \in Tags, Begins, ForgetGame,
           UNCHANGED <<mode, pool, observation, commands_>>, pc' \in {"joining", "ready"}
    PROVE  SettledInv(t)'
<1>1. /\ told'[t] = {}
      /\ noted'[t] = {"fresh"} \cup (IF t \in Existing THEN {"left"} ELSE {})
                               \cup (IF t \in commands_ THEN {"ordered"} ELSE {})
  BY DEF ForgetGame, Existing
<1>2. died' = {} /\ commands_' = commands_ /\ Existing' = Existing
  BY PoolStays DEF Begins
<1>3. t \in Existing => SettledUnit(t)'
  BY <1>1, <1>2 DEF SettledUnit, Left
<1> QED
  BY <1>1, <1>2, <1>3 DEF SettledInv

\* What is left of it when the unit is observed again.
LEMMA UpdateTold ==
    ASSUME OtherTypes, SoundPool, NEW t \in Tags, SettledInv(t), UpdateObservation,
           UNCHANGED <<mode, actions>>,
           (pc = "joining" /\ pc' = "starting") \/ (pc = "stepped" /\ pc' = "observed")
    PROVE  PendingInv(t)'
<1> DEFINE shown == t \in DOMAIN Shown
           first == "fresh" \in noted[t]
<1>1. /\ Shown' = Shown /\ Existing' = {} /\ converting' = DOMAIN Shown /\ world' = world
      /\ dead_units' = died /\ died' = {} /\ commands_' = commands_
      /\ current_game_loop_' = loop /\ loop' = loop
      /\ IsNewFrame' <=> loop # current_game_loop_
      /\ agent' = agent /\ realtime' = realtime
  BY ShownStays, EmptyIs DEF UpdateObservation, NextFrame, IsNewFrame, Existing, mode, actions
<1>2. /\ t \in DOMAIN units_previous_map_' <=> t \in Existing
      /\ t \in Existing => units_previous_map_'[t] = StateOf(t)
  BY DEF UpdateObservation, PreviousUnits
<1>3. told'[t] = Lasting(t) /\ noted'[t] = StillNoted(t)
  BY DEF UpdateObservation
<1>4. /\ "created" \in told'[t] <=> "created" \in told[t] /\ shown
      /\ "vision" \in told'[t] <=> "vision" \in told[t] /\ shown
      /\ "idle" \in told'[t] <=> "idle" \in told[t] /\ shown /\ Shown[t] = "idle"
      /\ "complete" \in told'[t] <=> "complete" \in told[t]
      /\ "destroyed" \in told'[t] <=> "destroyed" \in told[t]
  BY <1>3 DEF Lasting
<1>5. /\ "ordered" \in noted'[t] <=> "ordered" \in noted[t]
      /\ "fresh" \notin noted'[t]
      /\ ~shown => "building" \notin noted'[t]
      /\ shown => /\ Left(t)' <=> Left(t) \/ (first /\ (~agent \/ loop = current_game_loop_))
                  /\ "dropped" \in noted'[t] <=> "dropped" \in noted[t] /\ Shown[t] # "busy"
                  /\ "building" \in noted'[t] <=> "building" \in noted[t] \/ Shown[t] = "building"
                  /\ "snapshot" \in noted'[t] <=> "snapshot" \in noted[t] \/ Shown[t] = "snapshot"
  <2>1. CASE ~shown
    BY <1>3, <2>1 DEF StillNoted
  <2>2. CASE shown
    BY <1>3, <2>2 DEF StillNoted, Left
  <2> QED
    BY <2>1, <2>2
<1>6. shown => Shown[t] = world[t]
  BY ShownIs
<1>7. ASSUME shown
      PROVE  PendingUnit(t)'
  <2>1. t \in Existing => SettledUnit(t)
    BY DEF SettledInv
  <2>2. "building" \in noted'[t] =>
          \/ Shown[t] = "building"
          \/ t \in Existing /\ ("complete" \in told[t] \/ StateOf(t) = "building")
    BY <1>5, <1>7 DEF SettledInv
  <2>3. t \in Existing =>
          /\ t \in Own => "created" \in told'[t] \/ Left(t)'
          /\ t \in Enemy => "vision" \in told'[t] \/ Left(t)' \/ "snapshot" \in noted'[t]
    BY <2>1, <1>4, <1>5, <1>7 DEF SettledUnit
  <2>4. t \in Existing /\ t \in Own /\ Shown[t] = "idle" /\ StateOf(t) = "idle" =>
          \/ "idle" \in told'[t] \/ Left(t)' \/ (realtime /\ "dropped" \in noted'[t])
          \/ t \in commands_
    BY <2>1, <1>4, <1>5, <1>7 DEF SettledUnit
  <2>5. ~IsNewFrame' =>
          \/ Left(t)' /\ ("building" \in noted'[t] => Shown[t] = "building")
          \/ t \in Existing /\ StateOf(t) = Shown[t] /\ realtime
    <3>1. CASE first
      BY <3>1, <1>1, <1>5, <1>7 DEF SettledInv
    <3>2. CASE ~first
      BY <3>2, <1>1, <1>7 DEF SettledInv
    <3> QED
      BY <3>1, <3>2
  <2>6. pc' = "starting" /\ ~agent => Left(t)' /\ ("building" \in noted'[t] => Shown[t] = "building")
    BY <1>5, <1>7 DEF SettledInv
  <2> QED
    BY <2>2, <2>3, <2>4, <2>5, <2>6, <1>1, <1>2, <1>4, <1>5, <1>7 DEF PendingUnit, Same
<1>8. /\ {"created", "vision"} \cap told'[t] # {} => t \in Existing /\ shown
      /\ "idle" \in told'[t] => t \in Existing /\ StateOf(t) = "idle" /\ shown /\ Shown[t] = "idle"
      /\ "complete" \in told'[t] =>
           world[t] \notin {"unborn", "building"} /\ (t \in Existing => StateOf(t) # "building")
      /\ "destroyed" \in told'[t] => world[t] = "dead" /\ t \notin died
      /\ t \in died => world[t] = "dead"
      /\ t \in commands_ /\ (pc' = "starting" \/ "idle" \in told'[t]) => "ordered" \in noted'[t]
  BY <1>4, <1>5 DEF SettledInv, SettledUnit
<1> QED
  BY <1>1, <1>2, <1>5, <1>7, <1>8 DEF PendingInv, Same

\* A unit is converted, this one or another.
LEMMA ConvertTold ==
    ASSUME OtherTypes, SoundPool, NEW t \in Tags, PendingInv(t), ConvertUnit
    PROVE  PendingInv(t)'
<1>1. PICK u \in converting : Convert(u, Shown[u]) /\ converting' = converting \ {u}
  BY DEF ConvertUnit
<1>2. u \in Tags /\ Shown[u] \in UnitStates
  BY ShownOK, Sides DEF OtherTypes, ObservationOK
<1>3. /\ Existing' = Existing \cup {u} /\ StateOf(u)' = Shown[u]
      /\ \A s \in Existing : s # u => StateOf(s)' = StateOf(s)
  BY <1>1, <1>2, ConvertPool
<1>4. /\ Shown' = Shown /\ UNCHANGED <<pc, realtime, agent, units_previous_map_, dead_units,
                    current_game_loop_, previous_game_loop, commands_, world, loop, died, told, noted>>
  BY ShownStays DEF ConvertUnit, mode, actions, game, history
<1>5. /\ t \in Existing' => t \notin converting' /\ StateOf(t)' = Shown[t]
      /\ t \in Existing \cup converting <=> t \in Existing' \cup converting'
  BY <1>1, <1>3 DEF PendingInv
<1>6. PendingUnit(t) => PendingUnit(t)'
  BY <1>4 DEF PendingUnit, Left, Same, IsNewFrame
<1> QED
  BY <1>4, <1>5, <1>6 DEF PendingInv, Same

\* What EventsOf has for a unit.
LEMMA EventsAre ==
    ASSUME NEW t
    PROVE  /\ "destroyed" \in EventsOf(t) <=> t \in Destroyed
           /\ "created" \in EventsOf(t) <=> t \in Added /\ t \in Own
           /\ "vision" \in EventsOf(t) <=> t \in Added /\ t \in Enemy /\ StateOf(t) = "visible"
           /\ "idle" \in EventsOf(t) <=> t \in Idle
           /\ "complete" \in EventsOf(t) <=> t \in Completed
           /\ EventsOf(t) \subseteq {"destroyed", "created", "vision", "idle", "complete"}
  BY DEF EventsOf, Events

\* The events of a new observation tell what was not known, and nothing else.
LEMMA IssueTold ==
    ASSUME OtherTypes, SoundPool, NEW t \in Tags, PendingInv(t), IssueEvents(FALSE), IsNewFrame,
           converting = {},
           UNCHANGED <<mode, errors, observation, game>>,
           (pc = "starting" /\ pc' = "begun" /\ agent) \/ (pc = "observed" /\ pc' = "told")
    PROVE  SettledInv(t)' /\ KnownEvents(t) = {}
<1> DEFINE previous == t \in DOMAIN units_previous_map_
           was == units_previous_map_[t]
<1>1. /\ Shown' = Shown /\ UNCHANGED <<realtime, agent, dead_units, current_game_loop_, commands_,
                    world, loop, died, noted, tag_to_unit_>>
      /\ told'[t] = told[t] \cup EventsOf(t)
  BY ShownStays DEF IssueEvents, mode, observation, game
<1>2. /\ t \in Existing <=> t \in DOMAIN Shown
      /\ t \in Existing => StateOf(t) = Shown[t] /\ StateOf(t) = world[t] /\ PendingUnit(t)
      /\ t \in Destroyed => world[t] = "dead"
      /\ world[t] = "dead" => t \notin Existing
      /\ t \in Existing => world[t] \in UnitStates
  <2>1. "dead" \notin UnitStates
    BY DEF UnitStates, OwnStates, EnemyStates
  <2> QED
    BY <2>1, ShownIs DEF PendingInv, Destroyed
<1>3. /\ t \in Existing' <=> t \in Existing
      /\ t \in Existing => StateOf(t)' = StateOf(t)
      /\ t \in Destroyed' <=> t \in Destroyed
  BY <1>1, <1>2, EventsPool DEF Destroyed
<1>4. /\ t \in Own => t \notin Enemy
      /\ t \in Enemy => t \notin Own
      /\ t \in Own /\ t \in Existing => StateOf(t) \in {"building", "busy", "idle"}
      /\ t \in Own /\ previous => was \in {"building", "busy", "idle"}
      /\ t \in Enemy /\ t \in Existing => StateOf(t) \in {"visible", "snapshot"}
      /\ t \in Own \/ t \in Enemy
  BY TagsAre DEF OtherTypes, StatesOK, ObservationOK, StatesOf, OwnStates, EnemyStates
<1>5. /\ "destroyed" \in EventsOf(t) <=> t \in Destroyed
      /\ "created" \in EventsOf(t) <=> t \in Existing /\ ~previous /\ t \in Own
      /\ "vision" \in EventsOf(t) <=>
           t \in Existing /\ ~previous /\ t \in Enemy /\ StateOf(t) = "visible"
      /\ "idle" \in EventsOf(t) <=>
           /\ t \in Existing /\ t \in Own /\ StateOf(t) = "idle"
           /\ previous => was \in {"busy", "building"} \/ (agent /\ t \in commands_)
      /\ "complete" \in EventsOf(t) <=>
           /\ t \in Existing /\ t \in Own /\ StateOf(t) \in {"busy", "idle"}
           /\ previous /\ was = "building"
      /\ EventsOf(t) \subseteq {"destroyed", "created", "vision", "idle", "complete"}
  BY <1>2, EventsAre DEF Added, Idle, Completed, OwnUnits
<1>6. /\ {"created", "vision"} \cap told[t] # {} => previous /\ t \in Existing
      /\ "idle" \in told[t] => t \in Existing /\ previous /\ was = "idle" /\ StateOf(t) = "idle"
      /\ "building" \in noted[t] => t \in Existing
      /\ "complete" \in told[t] =>
           world[t] \notin {"unborn", "building"} /\ (previous => was # "building")
      /\ "destroyed" \in told[t] => world[t] = "dead" /\ t \notin dead_units
      /\ t \notin died /\ "fresh" \notin noted[t] /\ current_game_loop_ = loop
      /\ t \in commands_ /\ (pc = "starting" \/ "idle" \in told[t]) => "ordered" \in noted[t]
  BY <1>2 DEF PendingInv, Same
<1>7. (t \in commands_ => agent) /\ loop \in Nat
  BY DEF OtherTypes, ActionsOK, GameOK
<1>8. ASSUME t \in Existing
      PROVE  SettledUnit(t)'
  <2>1. t \in Own => "created" \in told'[t] \/ Left(t)
    BY <1>1, <1>2, <1>5, <1>8 DEF PendingUnit
  <2>2. t \in Own /\ StateOf(t) = "idle" =>
          "idle" \in told'[t] \/ Left(t) \/ (realtime /\ "dropped" \in noted[t])
    BY <1>1, <1>2, <1>4, <1>5, <1>7, <1>8 DEF PendingUnit
  <2>3. t \in Enemy => "vision" \in told'[t] \/ Left(t) \/ "snapshot" \in noted[t]
    BY <1>1, <1>2, <1>4, <1>5, <1>8 DEF PendingUnit
  <2>4. "complete" \in told'[t] => StateOf(t) # "building"
    BY <1>1, <1>2, <1>5, <1>6, <1>8
  <2> QED
    BY <2>1, <2>2, <2>3, <2>4, <1>1, <1>3, <1>8 DEF SettledUnit, Left
<1>9. "building" \in noted[t] =>
         t \in Existing /\ (StateOf(t) = "building" \/ "complete" \in told'[t])
  <2>1. "building" \in noted[t] /\ StateOf(t) # "building" /\ "complete" \notin told[t] =>
           previous /\ was = "building"
    BY <1>2, <1>6 DEF PendingUnit
  <2>2. previous /\ was = "building" => t \in Own
    BY <1>4 DEF OtherTypes, ObservationOK, StatesOf, EnemyStates
  <2> QED
    BY <2>1, <2>2, <1>1, <1>2, <1>4, <1>5, <1>6
<1>10. /\ {"created", "vision"} \cap told'[t] # {} => t \in Existing
       /\ "idle" \in told'[t] => t \in Existing /\ StateOf(t) = "idle"
       /\ "complete" \in told'[t] => world[t] \notin {"unborn", "building"}
       /\ "destroyed" \in told'[t] => world[t] = "dead"
       /\ t \in Destroyed => "destroyed" \in told'[t]
       /\ t \in commands_ /\ pc' = "begun" => "ordered" \in noted[t]
  BY <1>1, <1>2, <1>5, <1>6 DEF UnitStates, OwnStates, EnemyStates
<1>11. SettledInv(t)'
  BY <1>1, <1>2, <1>3, <1>6, <1>7, <1>8, <1>9, <1>10 DEF SettledInv
<1>12. KnownEvents(t) = {}
  <2>1. \A e \in EventsOf(t) \cap told[t] : e = "idle" /\ "ordered" \in noted[t]
    <3>1. "destroyed" \notin EventsOf(t) \cap told[t]
      BY <1>5, <1>6 DEF Destroyed
    <3>2. "created" \notin EventsOf(t) \cap told[t] /\ "vision" \notin EventsOf(t) \cap told[t]
      BY <1>5, <1>6
    <3>3. "complete" \notin EventsOf(t) \cap told[t]
      BY <1>5, <1>6
    <3>4. "idle" \in EventsOf(t) \cap told[t] => "ordered" \in noted[t]
      BY <1>5, <1>6
    <3> QED
      BY <3>1, <3>2, <3>3, <3>4, <1>5
  <2>2. "destroyed" \in told[t] => EventsOf(t) = {}
    BY <1>2, <1>5, <1>6 DEF Destroyed
  <2> QED
    BY <2>1, <2>2 DEF KnownEvents
<1> QED
  BY <1>11, <1>12

\* Where no events are issued there is nothing to tell, or it is left out.
LEMMA QuietTold ==
    ASSUME OtherTypes, SoundPool, NEW t \in Tags, PendingInv(t), converting = {},
           ~IsNewFrame \/ (pc = "starting" /\ ~agent),
           UNCHANGED <<mode, errors, pool, observation, commands_, game, history>>,
           (pc = "starting" /\ pc' = "ready") \/ (pc = "observed" /\ pc' = "silent")
    PROVE  SettledInv(t)'
<1>1. /\ Shown' = Shown /\ UNCHANGED <<realtime, agent, dead_units, current_game_loop_, commands_,
                    world, loop, died, told, noted>>
      /\ Existing' = Existing /\ StateOf(t)' = StateOf(t)
  BY ShownStays, PoolStays DEF mode, observation, game, history
<1>2. /\ t \in Existing <=> t \in DOMAIN Shown
      /\ t \in Existing => StateOf(t) = Shown[t] /\ StateOf(t) = world[t] /\ PendingUnit(t)
  BY ShownIs DEF PendingInv
<1>3. t \in Existing =>
        \/ Left(t) /\ ("building" \in noted[t] => Shown[t] = "building")
        \/ Same(t) /\ realtime /\ ~IsNewFrame
  BY <1>2 DEF PendingUnit
<1>4. loop \in Nat
  BY DEF OtherTypes, GameOK
<1>5. t \in Existing => SettledUnit(t)
  BY <1>2, <1>3 DEF PendingUnit, PendingInv, SettledUnit, Same
<1>6. ASSUME t \in Existing
      PROVE  SettledUnit(t)'
  <2>1. pc' = "silent" /\ ~realtime => Left(t)
    BY <1>3, <1>6
  <2>2. t \in Own => "created" \in told[t] \/ Left(t)
    BY <1>5, <1>6 DEF SettledUnit
  <2>3. t \in Own /\ StateOf(t) = "idle" =>
          \/ "idle" \in told[t] \/ Left(t) \/ (realtime /\ "dropped" \in noted[t])
          \/ t \in commands_
    BY <1>5, <1>6 DEF SettledUnit
  <2>4. t \in Enemy => "vision" \in told[t] \/ Left(t) \/ "snapshot" \in noted[t]
    BY <1>5, <1>6 DEF SettledUnit
  <2>5. "complete" \in told[t] => StateOf(t) # "building"
    BY <1>5, <1>6 DEF SettledUnit
  <2>6. pc' \notin {"begun", "told"}
    OBVIOUS
  <2> QED
    BY <2>1, <2>2, <2>3, <2>4, <2>5, <2>6, <1>1 DEF SettledUnit, Left
<1>7. "building" \in noted[t] =>
        t \in Existing /\ (StateOf(t) = "building" \/ "complete" \in told[t])
  BY <1>2, <1>3 DEF PendingInv, PendingUnit, Same
<1>8. /\ {"created", "vision"} \cap told[t] # {} => t \in Existing
      /\ "idle" \in told[t] => t \in Existing /\ StateOf(t) = "idle"
      /\ "complete" \in told[t] => world[t] \notin {"unborn", "building"}
      /\ "destroyed" \in told[t] => world[t] = "dead"
      /\ t \notin died /\ "fresh" \notin noted[t] /\ current_game_loop_ = loop
      /\ t \in commands_ /\ "idle" \in told[t] => "ordered" \in noted[t]
  BY <1>2 DEF PendingInv
<1> QED
  BY <1>1, <1>2, <1>4, <1>6, <1>7, <1>8 DEF SettledInv

\* A game that goes on makes things true that have not been observed, and no others.
LEMMA PlaysTold ==
    ASSUME OtherTypes, SoundPool, NEW t \in Tags, SettledInv(t),
           UNCHANGED <<mode, errors, pool, observation, actions, history>>,
           pc \in {"begun", "ready"},
           \/ Plays /\ realtime /\ pc' = pc
           \/ Plays /\ ~realtime /\ pc' = "stepped"
           \/ UNCHANGED game /\ realtime /\ pc' = "stepped"
    PROVE  SettledInv(t)'
<1>1. /\ UNCHANGED <<realtime, agent, dead_units, current_game_loop_, commands_, told, noted, tag_to_unit_>>
      /\ Existing' = Existing /\ StateOf(t)' = StateOf(t) /\ Destroyed' = Destroyed
  BY PoolStays DEF mode, observation, actions, history, Destroyed
<1>2. t \in Existing => SettledUnit(t)'
  BY <1>1 DEF SettledInv, SettledUnit, Left
<1>3. CASE UNCHANGED game
  <2>1. Shown' = Shown /\ UNCHANGED <<world, loop, died>>
    BY <1>3, ShownStays DEF game
  <2>2. pc' \in {pc, "stepped"} /\ (pc' = "stepped" => realtime \/ Plays)
    OBVIOUS
  <2>3. Plays => loop' = loop + 1 /\ loop \in Nat
    BY DEF Plays, OtherTypes, GameOK
  <2>4. ~Plays
    BY <2>1, <2>3
  <2> QED
    BY <2>1, <2>2, <2>4, <1>1, <1>2 DEF SettledInv
<1>4. CASE Plays
  <2>1. PICK u \in Tags : \E state \in Successors(u) : world' = [world EXCEPT ![u] = state]
    BY <1>4 DEF Plays
  <2>2. PICK state \in Successors(u) : world' = [world EXCEPT ![u] = state]
    BY <2>1
  <2>3. /\ world[t] = "dead" => world'[t] = "dead"
        /\ world[t] \notin {"unborn", "building"} => world'[t] \notin {"unborn", "building"}
    <3>1. world[u] = "dead" => state = "dead"
      BY <2>2 DEF Successors
    <3>2. world[u] \notin {"unborn", "building"} => state \notin {"unborn", "building"}
      BY <2>2 DEF Successors, OwnStates, EnemyStates
    <3>3. world'[t] = IF t = u THEN state ELSE world[t]
      BY <2>2 DEF OtherTypes, GameOK
    <3> QED
      BY <3>1, <3>2, <3>3
  <2>4. /\ loop \in Nat /\ loop' = loop + 1
        /\ t \in died' <=> t \in died \/ (world'[t] = "dead" /\ world[t] # "dead")
    BY <1>4 DEF Plays, OtherTypes, GameOK
  <2>5. current_game_loop_ \in Nat
    BY UnitsAssumption DEF OtherTypes, ObservationOK, NoLoop
  <2>6. "fresh" \notin noted[t] => pc # "joining" /\ current_game_loop_ <= loop
    BY DEF SettledInv
  <2>7. "fresh" \notin noted[t] => current_game_loop_' <= loop' /\ current_game_loop_' # loop'
    BY <2>4, <2>5, <2>6, <1>1
  <2>8. /\ {"created", "vision"} \cap told[t] # {} => t \in Existing
        /\ "idle" \in told[t] => t \in Existing /\ StateOf(t) = "idle"
        /\ "building" \in noted[t] =>
             t \in Existing /\ (StateOf(t) = "building" \/ "complete" \in told[t])
        /\ "complete" \in told[t] => world'[t] \notin {"unborn", "building"}
        /\ "destroyed" \in told[t] => world'[t] = "dead" /\ t \notin died'
        /\ t \in died' => world'[t] = "dead"
        /\ pc \in {"begun", "told"} /\ t \in Destroyed => "destroyed" \in told[t]
        /\ t \in commands_ /\ (pc \in {"joining", "begun"} \/ (pc # "told" /\ "idle" \in told[t])) =>
             "ordered" \in noted[t]
        /\ "fresh" \in noted[t] =>
             pc \in {"joining", "ready", "stepped"} /\ "building" \notin noted[t]
    BY <2>3, <2>4 DEF SettledInv
  <2>9. pc' \in {pc, "stepped"}
    OBVIOUS
  <2> QED
    BY <2>7, <2>8, <2>9, <1>1, <1>2 DEF SettledInv
<1> QED
  BY <1>3, <1>4

\* A commanded unit may become idle again.
LEMMA SendTold ==
    ASSUME OtherTypes, SoundPool, NEW t \in Tags, SettledInv(t), SendActions, ~errors
    PROVE  pc' = "ready" => SettledInv(t)'
<1> SUFFICES ASSUME pc' = "ready"
             PROVE  SettledInv(t)'
  OBVIOUS
<1>1. /\ UNCHANGED <<realtime, agent, dead_units, current_game_loop_, tag_to_unit_, world, loop, died>>
      /\ Shown' = Shown /\ Existing' = Existing /\ StateOf(t)' = StateOf(t)
  BY PoolStays, ShownStays DEF SendActions, mode, observation, game
<1>2. PICK sent \in Sent :
        /\ commands_' = sent
        /\ told' = [u \in Tags |-> IF u \in sent THEN told[u] \ {"idle"} ELSE told[u]]
  BY DEF SendActions
<1>3. /\ told'[t] = IF t \in commands_' THEN told[t] \ {"idle"} ELSE told[t]
      /\ noted'[t] = (noted[t] \ {"ordered"})
                       \cup (IF pc = "silent" /\ t \in commands_ THEN {"dropped"} ELSE {})
      /\ pc \in {"told", "silent"}
  BY <1>2 DEF SendActions
<1>4. /\ \A e \in {"created", "vision", "complete", "destroyed"} : e \in told'[t] <=> e \in told[t]
      /\ "idle" \in told'[t] <=> "idle" \in told[t] /\ t \notin commands_'
      /\ \A e \in {"left", "building", "snapshot", "fresh"} : e \in noted'[t] <=> e \in noted[t]
      /\ "dropped" \in noted'[t] <=> "dropped" \in noted[t] \/ (pc = "silent" /\ t \in commands_)
  BY <1>3
<1>5. ASSUME t \in Existing
      PROVE  SettledUnit(t)'
  <2>1. SettledUnit(t)
    BY <1>5 DEF SettledInv
  <2>2. t \in Own /\ StateOf(t) = "idle" =>
          \/ "idle" \in told'[t] \/ Left(t)' \/ (realtime /\ "dropped" \in noted'[t])
          \/ t \in commands_'
    BY <2>1, <1>3, <1>4 DEF SettledUnit, Left
  <2>3. /\ t \in Own => "created" \in told'[t] \/ Left(t)'
        /\ t \in Enemy => "vision" \in told'[t] \/ Left(t)' \/ "snapshot" \in noted'[t]
        /\ "complete" \in told'[t] => StateOf(t) # "building"
    BY <2>1, <1>4 DEF SettledUnit, Left
  <2> QED
    BY <2>2, <2>3, <1>1 DEF SettledUnit
<1>6. /\ {"created", "vision"} \cap told'[t] # {} => {"created", "vision"} \cap told[t] # {}
      /\ ~(t \in commands_' /\ "idle" \in told'[t])
  BY <1>4
<1> QED
  BY <1>1, <1>3, <1>4, <1>5, <1>6 DEF SettledInv

LEMMA NoActionsTold ==
    ASSUME OtherTypes, SoundPool, NEW t \in Tags, SettledInv(t), NoActions
    PROVE  pc' = "ready" => SettledInv(t)'
<1> SUFFICES ASSUME pc' = "ready"
             PROVE  SettledInv(t)'
  OBVIOUS
<1>1. /\ UNCHANGED <<realtime, agent, dead_units, current_game_loop_, tag_to_unit_, world, loop, died,
                    commands_, told, noted>>
      /\ Shown' = Shown /\ Existing' = Existing /\ StateOf(t)' = StateOf(t)
  BY PoolStays, ShownStays DEF NoActions, mode, observation, game, actions, history
<1>2. pc \in {"told", "silent"} /\ commands_ = {}
  BY DEF NoActions, OtherTypes, ActionsOK
<1>3. t \in Existing => SettledUnit(t)'
  BY <1>1, <1>2 DEF SettledInv, SettledUnit, Left
<1> QED
  BY <1>1, <1>2, <1>3 DEF SettledInv

-----------------------------------------------------------------------------
(* The invariant, and what it says.                                        *)

LEMMA UnitsInvIs == UnitsInv <=> OtherTypes /\ SoundPool /\ Known
  BY TypesAre DEF UnitsInv, SoundPool, Known, NothingToldTwice

LEMMA UnitsInit == Init => UnitsInv
<1>1. Init => Fresh
  BY UnitsAssumption DEF Init, Fresh
<1> QED
  BY <1>1, FreshOK, UnitsInvIs

\* The events of an observation that has been told, once it is told again.
LEMMA EventsStay ==
    ASSUME OtherTypes, SoundPool, IsNewFrame, NEW again \in BOOLEAN, IssueEvents(again), ~agent,
           UNCHANGED <<mode, observation>>, NEW t \in Tags
    PROVE  EventsOf(t)' \subseteq EventsOf(t) /\ told'[t] = told[t] \cup EventsOf(t)
<1>1. /\ Existing' = Existing \ Destroyed /\ tag_to_unit_' = tag_to_unit_
      /\ \A s \in Existing' : StateOf(s)' = StateOf(s)
  BY EventsPool
<1>2. UNCHANGED <<agent, dead_units, units_previous_map_>>
  BY DEF mode, observation
<1>3. Destroyed' = Destroyed
  BY <1>1, <1>2 DEF Destroyed
<1>4. Added' = Added /\ OwnUnits' = OwnUnits /\ OwnUnits \subseteq Existing'
  BY <1>1, <1>2, <1>3 DEF Added, OwnUnits
<1>5. \A s \in Added : StateOf(s)' = StateOf(s)
  BY <1>1 DEF Added
<1>6. Idle' = Idle /\ Completed' = Completed
  BY <1>1, <1>2, <1>4 DEF Idle, Completed
<1>7. told'[t] = told[t] \cup EventsOf(t)
  BY DEF IssueEvents
<1> QED
  BY <1>3, <1>4, <1>5, <1>6, <1>7 DEF EventsOf

LEMMA EventsSame ==
    ASSUME UNCHANGED <<mode, pool, observation, actions>>
    PROVE  (IsNewFrame' <=> IsNewFrame) /\ \A t : EventsOf(t)' = EventsOf(t)
<1>1. Existing' = Existing /\ \A t : StateOf(t)' = StateOf(t)
  BY PoolStays
<1>2. UNCHANGED <<agent, dead_units, units_previous_map_, tag_to_unit_, commands_>>
  BY DEF mode, pool, observation, actions
<1>3. Destroyed' = Destroyed
  BY <1>2 DEF Destroyed
<1>4. Added' = Added /\ OwnUnits' = OwnUnits
  BY <1>1, <1>2, <1>3 DEF Added, OwnUnits
<1>5. Idle' = Idle /\ Completed' = Completed
  BY <1>1, <1>2, <1>4 DEF Idle, Completed
<1> QED
  BY <1>1, <1>3, <1>4, <1>5 DEF EventsOf, IsNewFrame, observation

\* What an observer that waits is told again has been told.
LEMMA RepeatStep ==
    ASSUME OtherTypes, SoundPool, Known, Next, ~errors'
    PROVE  RepeatInv'
<1> DEFINE Told == ~agent /\ pc \in {"launched", "told", "silent", "waiting", "ended"}
<1>1. CASE StartReplay \/ (WaitForReplay /\ pc' = "ended") \/ NoActions \/ (Ended /\ pc = "ended")
  <2>1. /\ UNCHANGED <<mode, pool, observation, actions, told>> /\ ~errors
        /\ agent' = agent /\ (~agent => Told)
    <3>1. CASE StartReplay
      BY <3>1 DEF StartReplay, history, mode
    <3>2. CASE WaitForReplay /\ pc' = "ended"
      BY <3>2 DEF WaitForReplay, history, mode
    <3>3. CASE NoActions
      BY <3>3 DEF NoActions, history, mode
    <3>4. CASE Ended /\ pc = "ended"
      BY <3>4 DEF Ended, vars, history, mode
    <3> QED
      BY <1>1, <3>1, <3>2, <3>3, <3>4
  <2>2. ~agent /\ IsNewFrame => \A t \in Tags : EventsOf(t) \subseteq told[t]
    BY <2>1 DEF Known, RepeatInv
  <2> QED
    BY <2>1, <2>2, EventsSame DEF RepeatInv
<1>2. CASE (CallOnStep \/ IssueEventsAgain) /\ ~agent /\ IsNewFrame
  <2>1. PICK again \in BOOLEAN : IssueEvents(again)
    BY <1>2 DEF CallOnStep, IssueEventsAgain
  <2>2. UNCHANGED <<mode, observation>>
    BY <1>2 DEF CallOnStep, IssueEventsAgain
  <2> QED
    BY <1>2, <2>1, <2>2, EventsStay DEF RepeatInv
<1>3. CASE (CallOnStep \/ IssueEventsAgain) /\ ~IsNewFrame
  <2>1. ~IsNewFrame'
    BY <1>3 DEF CallOnStep, IssueEventsAgain, IsNewFrame, observation
  <2> QED
    BY <2>1 DEF RepeatInv
<1>4. CASE StartGame \/ JoinGame \/ GameStarted \/ CallOnGameEnd \/ SendActions \/ Restart
           \/ (CallOnStep /\ agent)
  <2>1. agent'
    BY <1>4 DEF StartGame, JoinGame, GameStarted, CallOnGameEnd, SendActions, Restart, CallOnStep,
                mode
  <2> QED
    BY <2>1 DEF RepeatInv
<1>5. CASE ObserveReplay \/ ReplayStarted \/ ConvertUnit \/ GamePlays \/ Step \/ Observe
           \/ (WaitForReplay /\ pc' # "ended") \/ (Ended /\ pc # "ended")
  <2>1. pc' \notin {"launched", "told", "silent", "waiting", "ended"}
    BY <1>5 DEF ObserveReplay, ReplayStarted, ConvertUnit, GamePlays, Step, Observe, WaitForReplay,
                Ready, OtherTypes, Pending, Ended, vars
  <2> QED
    BY <2>1 DEF RepeatInv
<1>6. CASE Relaunch
  BY <1>6, RelaunchOK DEF Known
<1> QED
  BY <1>1, <1>2, <1>3, <1>4, <1>5, <1>6 DEF Next, IssueEventsAgain

\* Every step keeps what is known of the units.
LEMMA KnownStep ==
    ASSUME OtherTypes, SoundPool, Known, Next
    PROVE  Known'
<1>1. CASE errors'
  BY <1>1 DEF Known
<1>2. CASE Relaunch
  BY <1>2, RelaunchOK
<1>3. CASE ~errors' /\ ~Relaunch
  <2> DEFINE Again == IF agent \/ multi_threaded THEN {} ELSE Events \X {TRUE}
  <2>0. /\ UNCHANGED mode /\ ~errors
        /\ wrong \subseteq Again /\ (agent' \/ multi_threaded' <=> agent \/ multi_threaded)
    <3> SUFFICES UNCHANGED mode /\ ~errors
      BY DEF Known, mode
    <3>1. CASE JoinGame \/ ObserveReplay \/ Observe
      BY <3>1, <1>3 DEF JoinGame, ObserveReplay, Observe, GetObservation, UpdateObservation
    <3>2. CASE WaitForReplay
      BY <3>2, <1>3 DEF WaitForReplay
    <3>3. CASE StartGame \/ GameStarted \/ StartReplay \/ IssueEventsAgain \/ ReplayStarted
      <4>1. UNCHANGED <<mode, errors>>
        BY <3>3 DEF StartGame, GameStarted, StartReplay, IssueEventsAgain, ReplayStarted
      <4> QED
        BY <4>1, <1>3
    <3>4. CASE ConvertUnit \/ GamePlays \/ Step \/ CallOnGameEnd \/ CallOnStep
      <4>1. UNCHANGED <<mode, errors>>
        BY <3>4 DEF ConvertUnit, GamePlays, Step, CallOnGameEnd, CallOnStep
      <4> QED
        BY <4>1, <1>3
    <3>5. CASE SendActions \/ NoActions \/ Restart \/ Ended
      BY <3>5, <1>3 DEF SendActions, NoActions, Restart, Ended, vars
    <3> QED
      BY <3>1, <3>2, <3>3, <3>4, <3>5, <1>3 DEF Next
  <2> SUFFICES /\ wrong' \subseteq Again
               /\ \A t \in Tags : (InPlay' => SettledInv(t)') /\ (Pending' => PendingInv(t)')
    BY <1>3, <2>0, RepeatStep DEF Known
  <2>1. CASE StartGame \/ Restart \/ (WaitForReplay /\ pc' # "ended")
    <3>1. /\ Begins /\ ForgetGame /\ UNCHANGED <<mode, pool, observation, commands_, errors, wrong>>
          /\ pc' \in {"joining", "ready"} /\ ~Pending'
      BY <2>1 DEF StartGame, Restart, WaitForReplay, ForgetGame, Pending, actions
    <3> QED
      BY <3>1, <2>0, BeginsTold
  <2>2. CASE JoinGame \/ ObserveReplay \/ Observe
    <3>1. /\ UpdateObservation /\ UNCHANGED <<mode, actions, errors, wrong>>
          /\ (pc = "joining" /\ pc' = "starting") \/ (pc = "stepped" /\ pc' = "observed")
      BY <2>2, <1>3 DEF JoinGame, ObserveReplay, Observe, GetObservation, UpdateObservation
    <3>2. InPlay /\ ~InPlay' /\ ~errors
      BY <3>1, <2>0 DEF InPlay
    <3> QED
      BY <3>1, <3>2, <2>0, UpdateTold DEF Known
  <2>3. CASE (GameStarted \/ CallOnStep) /\ IsNewFrame
    <3>1. /\ IssueEvents(FALSE) /\ converting = {} /\ UNCHANGED <<mode, errors, observation, game>>
          /\ (pc = "starting" /\ pc' = "begun" /\ agent) \/ (pc = "observed" /\ pc' = "told")
      BY <2>3 DEF GameStarted, CallOnStep
    <3>2. Pending /\ ~Pending' /\ ~errors
      BY <3>1, <2>0 DEF Pending
    <3>3. \A t \in Tags : SettledInv(t)' /\ KnownEvents(t) = {}
      BY <2>3, <3>1, <3>2, IssueTold DEF Known
    <3>4. wrong' = wrong
      <4>1. wrong' = wrong \cup (UNION {KnownEvents(t) : t \in Tags}) \X {FALSE}
        BY <2>3, <3>1 DEF IssueEvents
      <4>2. UNION {KnownEvents(t) : t \in Tags} = {}
        BY <3>3, Zenon
      <4> QED
        BY <4>1, <4>2, Zenon
    <3> QED
      BY <3>2, <3>3, <3>4, <2>0
  <2>4. CASE ((GameStarted \/ CallOnStep) /\ ~IsNewFrame) \/ ReplayStarted
    <3>1. /\ UNCHANGED <<mode, errors, pool, observation, commands_, game, history>>
          /\ converting = {} /\ (~IsNewFrame \/ (pc = "starting" /\ ~agent))
          /\ (pc = "starting" /\ pc' = "ready") \/ (pc = "observed" /\ pc' = "silent")
      BY <2>4 DEF GameStarted, CallOnStep, ReplayStarted, IssueEvents, actions
    <3>2. Pending /\ ~Pending' /\ ~errors /\ wrong' = wrong
      BY <3>1, <2>0 DEF Pending, history
    <3> QED
      BY <3>1, <3>2, <2>0, QuietTold DEF Known
  <2>5. CASE ConvertUnit
    <3>1. UNCHANGED <<pc, errors, wrong>>
      BY <2>5 DEF ConvertUnit, history
    <3>2. Pending /\ ~InPlay'
      BY <2>5, <3>1 DEF ConvertUnit, OtherTypes, Pending, InPlay
    <3> QED
      BY <2>5, <3>1, <3>2, <2>0, ConvertTold DEF Known
  <2>6. CASE GamePlays \/ Step
    <3>1. /\ UNCHANGED <<mode, errors, pool, observation, actions, history>>
          /\ pc \in {"begun", "ready"}
          /\ \/ Plays /\ realtime /\ pc' = pc
             \/ Plays /\ ~realtime /\ pc' = "stepped"
             \/ UNCHANGED game /\ realtime /\ pc' = "stepped"
      BY <2>6 DEF GamePlays, Step, Ready
    <3>2. InPlay /\ ~Pending' /\ ~errors /\ wrong' = wrong
      BY <3>1, <2>0 DEF InPlay, Pending, history
    <3> QED
      BY <3>1, <3>2, <2>0, PlaysTold DEF Known
  <2>7. CASE SendActions \/ NoActions
    <3>1. pc \in {"told", "silent"} /\ pc' = AfterUpdate /\ UNCHANGED <<errors, wrong>>
      BY <2>7 DEF SendActions, NoActions, history
    <3>2. InPlay /\ ~errors /\ ~Pending' /\ (InPlay' => pc' = "ready")
      BY <3>1, <2>0 DEF InPlay, Pending, AfterUpdate
    <3> QED
      BY <2>7, <3>1, <3>2, <2>0, SendTold, NoActionsTold DEF Known
  <2>8. CASE CallOnGameEnd \/ StartReplay \/ (WaitForReplay /\ pc' = "ended") \/ Ended
    <3>1. /\ pc' \in {"waiting", "ended", "stopped"} /\ UNCHANGED wrong
      BY <2>8 DEF CallOnGameEnd, StartReplay, WaitForReplay, Ended, vars, history
    <3>2. ~InPlay' /\ ~Pending'
      BY <3>1 DEF InPlay, Pending
    <3> QED
      BY <3>1, <3>2, <2>0
  <2>9. CASE IssueEventsAgain
    <3>1. Again = Events \X {TRUE} /\ ~InPlay' /\ ~Pending'
      BY <2>9 DEF IssueEventsAgain, InPlay, Pending
    <3>2. wrong' \subseteq wrong \cup (Events \X {TRUE})
      <4>1. UNION {KnownEvents(t) : t \in Tags} \subseteq Events
        BY DEF KnownEvents, EventsOf
      <4>2. \/ wrong' = wrong
            \/ wrong' = wrong \cup (UNION {KnownEvents(t) : t \in Tags}) \X {TRUE}
        BY <2>9 DEF IssueEventsAgain, IssueEvents, history
      <4> QED
        BY <4>1, <4>2
    <3> QED
      BY <3>1, <3>2, <2>0
  <2> QED
    BY <1>3, <2>1, <2>2, <2>3, <2>4, <2>5, <2>6, <2>7, <2>8, <2>9 DEF Next
<1> QED
  BY <1>1, <1>2, <1>3

LEMMA StutterStep ==
    ASSUME OtherTypes, SoundPool, Known, UNCHANGED vars
    PROVE  OtherTypes' /\ SoundPool' /\ Known'
<1>1. UNCHANGED <<pc, mode, errors, pool, observation, actions, game, history>>
  BY DEF vars
<1>2. SoundPool' /\ Existing' = Existing /\ (\A t : StateOf(t)' = StateOf(t)) /\ Shown' = Shown
      /\ tag_to_unit_' = tag_to_unit_
  BY <1>1, PoolStays, ShownStays DEF game
<1>3. OtherTypes'
  BY <1>1, <1>2 DEF OtherTypes, ModeOK, ObservationOK, ActionsOK, GameOK, HistoryOK, StatesOK,
       Pending, mode, observation, actions, game, history, StatesOf
<1>4. RepeatInv => RepeatInv'
  BY <1>1, EventsSame DEF RepeatInv, mode, history
<1>5. \A t : (SettledInv(t) <=> SettledInv(t)') /\ (PendingInv(t) <=> PendingInv(t)')
  BY <1>1, <1>2 DEF SettledInv, SettledUnit, PendingInv, PendingUnit, Left,
       Same, IsNewFrame, Destroyed, mode, observation, actions, game, history
<1>6. UNCHANGED <<errors, wrong, agent, multi_threaded, pc>>
  BY <1>1 DEF mode, history
<1>7. Known'
  BY <1>4, <1>5, <1>6 DEF Known, InPlay, Pending
<1> QED
  BY <1>2, <1>3, <1>7

\* The units, the pool and what the user knows of them are as UnitsInv says, at every
\* moment of every run.
THEOREM UnitsInvariant == Spec => []UnitsInv
<1> DEFINE Inv == OtherTypes /\ SoundPool /\ Known
<1>1. Init => Inv
  BY UnitsInit, UnitsInvIs
<1>2. Inv /\ [Next]_vars => Inv'
  <2>1. Inv /\ Next => Inv'
    BY TypesStep, KnownStep
  <2> QED
    BY <2>1, StutterStep
<1>3. Inv => UnitsInv
  BY UnitsInvIs
<1> QED
  BY <1>1, <1>2, <1>3, PTL DEF Spec

\* Every tag has a Unit of its own that carries it, over deaths and games.
THEOREM PoolAlwaysSound == Spec => []PoolIsSound
<1>1. UnitsInv => PoolIsSound
  BY DEF UnitsInv
<1> QED
  BY <1>1, UnitsInvariant, PTL

\* A pointer the user has kept stays that of its unit: CreateUnit gives no tag another
\* one, and nothing else touches tag_to_unit_.
THEOREM PointersAlwaysStay == Spec => PointersStay
<1> DEFINE Stay ==
             (errors => errors') =>
                \A t \in DOMAIN tag_to_unit_ :
                   t \in DOMAIN tag_to_unit_' /\ tag_to_unit_'[t] = tag_to_unit_[t]
<1>1. UnitsInv /\ Next => Stay
  <2> SUFFICES ASSUME UnitsInv, Next
               PROVE  Stay
    OBVIOUS
  <2>1. OtherTypes /\ SoundPool
    BY UnitsInvIs
  <2>2. CASE ConvertUnit
    <3>1. PICK t \in converting : Convert(t, Shown[t])
      BY <2>2 DEF ConvertUnit
    <3>2. t \in Tags /\ Shown[t] \in UnitStates
      BY <2>1, ShownOK, Sides DEF OtherTypes, ObservationOK
    <3> QED
      BY <2>1, <3>1, <3>2, ConvertPool
  <2>3. CASE ~ConvertUnit
    <3>1. CASE JoinGame \/ ObserveReplay \/ Observe
      BY <3>1 DEF JoinGame, ObserveReplay, Observe, GetObservation, UpdateObservation, pool
    <3>2. CASE GameStarted \/ CallOnStep \/ IssueEventsAgain
      BY <3>2 DEF GameStarted, CallOnStep, IssueEventsAgain, IssueEvents, pool
    <3>3. CASE StartGame \/ StartReplay \/ WaitForReplay \/ ReplayStarted \/ GamePlays \/ Step
               \/ CallOnGameEnd \/ SendActions \/ NoActions \/ Restart \/ Ended
      BY <3>3 DEF StartGame, StartReplay, WaitForReplay, ReplayStarted, GamePlays, Step, CallOnGameEnd,
                  SendActions, NoActions, Restart, Ended, vars, pool
    <3>4. CASE Relaunch
      BY <3>4 DEF Relaunch
    <3> QED
      BY <2>3, <3>1, <3>2, <3>3, <3>4 DEF Next
  <2> QED
    BY <2>2, <2>3
<1>2. UnitsInv /\ [Next]_vars => [Stay]_vars
  BY <1>1
<1> QED
  BY <1>2, UnitsInvariant, PTL DEF Spec, PointersStay

\* After the events of an observation the user knows of it what it shows, except for
\* what the code leaves out.
THEOREM ObservationAlwaysTold == Spec => []ObservationIsTold
<1>1. UnitsInv => ObservationIsTold
  <2> SUFFICES ASSUME UnitsInv, pc \in {"begun", "told"}, ~errors
               PROVE  /\ \A t \in Existing \cap Own :
                            /\ "created" \in told[t] \/ "left" \in noted[t]
                            /\ StateOf(t) = "idle" =>
                                 \/ "idle" \in told[t] \/ "left" \in noted[t]
                                 \/ (realtime /\ "dropped" \in noted[t])
                            /\ "building" \in noted[t] /\ StateOf(t) # "building" =>
                                 "complete" \in told[t]
                      /\ \A t \in Existing \cap Enemy :
                            StateOf(t) = "visible" =>
                              "vision" \in told[t] \/ noted[t] \cap {"left", "snapshot"} # {}
                      /\ \A t \in dead_units \cap DOMAIN tag_to_unit_ : "destroyed" \in told[t]
    BY DEF ObservationIsTold
  <2>1. /\ \A t \in Tags : SettledInv(t)
        /\ Existing \subseteq Tags /\ dead_units \subseteq Tags
    BY UnitsInvIs DEF Known, InPlay, SoundPool, PoolTypes, OtherTypes, ObservationOK, Existing
  <2>2. ASSUME NEW t \in Existing
        PROVE  SettledUnit(t) /\ ("building" \in noted[t] =>
                                    StateOf(t) = "building" \/ "complete" \in told[t])
    BY <2>1 DEF SettledInv
  <2>3. \A t \in dead_units \cap DOMAIN tag_to_unit_ : "destroyed" \in told[t]
    BY <2>1 DEF SettledInv, Destroyed
  <2> QED
    BY <2>2, <2>3 DEF SettledUnit, Left
<1> QED
  BY <1>1, UnitsInvariant, PTL

\* No event comes again before it has become true again, and none after OnUnitDestroyed,
\* unless an error is about to be reported or a loop without multi_threaded issues the
\* events of a waiting replay observer again.
THEOREM NothingEverToldTwice == Spec => []NothingToldTwice
<1>1. UnitsInv => NothingToldTwice
  BY DEF UnitsInv
<1> QED
  BY <1>1, UnitsInvariant, PTL

\* And those are all events the observer has been told before.
THEOREM NothingEverToldLate == Spec => NothingToldLate
<1> DEFINE Late == ~errors /\ pc \in {"waiting", "ended"} /\ pc' = pc => told' = told
<1>1. UnitsInv /\ Next => Late
  <2> SUFFICES ASSUME UnitsInv, Next, ~errors, pc \in {"waiting", "ended"}, pc' = pc
               PROVE  told' = told
    OBVIOUS
  <2>1. OtherTypes /\ Known
    BY UnitsInvIs
  <2>2. IssueEventsAgain \/ Ended
    BY <2>1 DEF Next, StartGame, JoinGame, GameStarted, StartReplay, WaitForReplay, ObserveReplay,
                ReplayStarted, ConvertUnit, GamePlays, Step, Observe, CallOnGameEnd, CallOnStep,
                SendActions, NoActions, Restart, Relaunch, Ready, OtherTypes, Pending
  <2>3. CASE Ended \/ ~IsNewFrame
    BY <2>2, <2>3 DEF Ended, vars, IssueEventsAgain, IssueEvents, history
  <2>4. CASE IssueEventsAgain /\ IsNewFrame
    <3>1. told' = [t \in Tags |-> told[t] \cup EventsOf(t)]
      BY <2>4 DEF IssueEventsAgain, IssueEvents
    <3>2. \A t \in Tags : told[t] \cup EventsOf(t) = told[t]
      BY <2>1, <2>4 DEF Known, RepeatInv, IssueEventsAgain
    <3>3. told = [t \in Tags |-> told[t]]
      BY <2>1 DEF OtherTypes, HistoryOK
    <3> QED
      BY <3>1, <3>2, <3>3
  <2> QED
    BY <2>2, <2>3, <2>4
<1>2. UnitsInv /\ [Next]_vars => [Late]_vars
  BY <1>1
<1> QED
  BY <1>2, UnitsInvariant, PTL DEF Spec, NothingToldLate
=============================================================================
