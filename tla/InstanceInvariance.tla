----------------------------- MODULE InstanceInvariance -----------------------------
(***************************************************************************)
(* The invariance of InstanceInv, the inductive invariant of               *)
(* InstanceManager: no id is given twice, what a thread removes is there   *)
(* and its own, and nothing throws.  A lemma for each action; before them, *)
(* what a step that leaves a part of the state alone preserves.            *)
(***************************************************************************)
EXTENDS InstanceProofs

-----------------------------------------------------------------------------
(* Types.                                                                  *)

LEMMA UserTypes ==
    /\ Main \in Users /\ NULL \notin Users /\ Threads \subseteq Users
    /\ \A t \in Users : t # Main <=> t \in Threads
  BY ThreadsAssumption DEF Users

LEMMA ThreadTypes ==
    ASSUME TypeOK
    PROVE  /\ JobOK
           /\ pc \in [Users -> {"idle", "locking", "counting", "writing", "discarding", "thrown"}]
           /\ at \in [Users -> Nat \ {0}]
           /\ own \in [Users -> IdLists]
           /\ running \subseteq Threads
  BY DEF TypeOK, JobOK, IdLists

LEMMA CallType ==
    ASSUME TypeOK, NEW t \in Users
    PROVE  /\ call[t] \in CallStates
           /\ call[t].op \in {"none", "add", "remove"} /\ call[t].kind \in Kinds
           /\ call[t].id \in Nat
           /\ call[t].todo \in Seq(Kinds \X Nat) /\ call[t].drop \in Seq(Kinds \X Nat)
<1>1. call[t] \in CallStates
  BY DEF TypeOK
<1> QED
  BY <1>1 DEF CallStates

LEMMA OwnType ==
    ASSUME TypeOK, NEW t \in Users, NEW k \in Kinds
    PROVE  /\ own[t] \in IdLists /\ own[t][k] \in Seq(Nat) /\ Len(own[t][k]) \in Nat
           /\ DOMAIN own[t][k] = 1..Len(own[t][k])
           /\ \A j \in DOMAIN own[t][k] : own[t][k][j] \in Ids(k)
<1>1. own[t] \in IdLists /\ own[t][k] \in Seq(Nat)
  BY DEF TypeOK, IdLists
<1>2. \A j \in DOMAIN own[t][k] : own[t][k][j] \in Ids(k)
  BY DEF TypeOK
<1> QED
  BY <1>1, <1>2

LEMMA CallMade ==
    ASSUME NEW o \in {"none", "add", "remove"}, NEW k \in Kinds, NEW i \in Nat
    PROVE  /\ CallFor(o, k, i) \in CallStates
           /\ CallFor(o, k, i).op = o /\ CallFor(o, k, i).kind = k /\ CallFor(o, k, i).id = i
           /\ CallFor(o, k, i).todo = <<>> /\ CallFor(o, k, i).drop = <<>>
<1>1. <<>> \in Seq(Kinds \X Nat)
  OBVIOUS
<1> QED
  BY <1>1 DEF CallFor, CallStates

LEMMA NoCallType ==
    /\ NoCall \in CallStates /\ NoCall.op = "none" /\ NoCall.id = NoId
    /\ NoCall.todo = <<>> /\ NoCall.drop = <<>>
  BY CallMade DEF NoCall, NoId, Kinds

-----------------------------------------------------------------------------
(* Steps that leave a part of the state alone.                             *)

\* Where a thread goes on, or stays.
Advances(t) == at' = at \/ at' = [at EXCEPT ![t] = @ + 1]

LEMMA ScriptStays ==
    ASSUME job' = job
    PROVE  /\ \A u : Script(u)' = Script(u)
           /\ Job' = Job /\ StartAt' = StartAt
  BY DEF Script, RunTask, Job, StartAt

LEMMA AdvancesOn ==
    ASSUME TypeOK, NEW t \in Users, Advances(t)
    PROVE  \A u \in Users : /\ at[u] \in Nat \ {0} /\ at'[u] \in Nat \ {0} /\ at[u] <= at'[u]
                            /\ u # t => at'[u] = at[u]
<1>1. at \in [Users -> Nat \ {0}]
  BY DEF TypeOK
<1>2. CASE at' = at
  BY <1>1, <1>2
<1>3. CASE at' = [at EXCEPT ![t] = @ + 1]
  BY <1>1, <1>3
<1> QED
  BY <1>2, <1>3 DEF Advances

\* Nothing comes on the list of what a thread has to remove.
LEMMA ToRemoveShrinks ==
    ASSUME TypeOK, job' = job, NEW t \in Users, Advances(t), NEW u \in Users, own'[u] = own[u],
           NEW k \in Kinds, NEW j \in ToRemove(u, k)'
    PROVE  j \in ToRemove(u, k) /\ j \in DOMAIN own[u][k]
<1>1. Script(u)' = Script(u)
  BY ScriptStays
<1>2. at[u] \in Nat /\ at'[u] \in Nat /\ at[u] <= at'[u]
  BY AdvancesOn
<1>3. j \in DOMAIN own[u][k]
  BY DEF ToRemove
<1>4. PICK n \in DOMAIN Script(u) : n >= at'[u] /\ Script(u)[n] = <<"remove", k, j>>
  BY <1>1 DEF ToRemove
<1>5. n \in Nat
  <2>1. JobOK
    BY DEF TypeOK, JobOK
  <2> QED
    BY <2>1, ScriptType
<1>6. n >= at[u]
  BY <1>2, <1>4, <1>5
<1> QED
  BY <1>3, <1>4, <1>6 DEF ToRemove

\* The object at hand when a removal returns is not among them any more.
LEMMA RemovedIsOff ==
    ASSUME TypeOK, own' = own, job' = job, NEW t \in Users, at' = [at EXCEPT ![t] = @ + 1],
           NEW k \in Kinds, NEW j, at[t] \in DOMAIN Script(t),
           Script(t)[at[t]] = <<"remove", k, j>>
    PROVE  j \notin ToRemove(t, k)'
<1>1. Script(t)' = Script(t)
  BY ScriptStays
<1>2. at'[t] = at[t] + 1 /\ at[t] \in Nat /\ JobOK
  BY DEF TypeOK, JobOK
<1>3. ASSUME j \in ToRemove(t, k)'
      PROVE  FALSE
  <2>1. PICK n \in DOMAIN Script(t) : n >= at'[t] /\ Script(t)[n] = <<"remove", k, j>>
    BY <1>1, <1>3 DEF ToRemove
  <2>2. n = at[t]
    BY <1>2, <2>1, RemovedOnce
  <2> QED
    BY <1>2, <2>1, <2>2
<1> QED
  BY <1>3

\* The next thing to remove is one of them.
LEMMA RemovedIsOn ==
    ASSUME TypeOK, NEW t \in Users, GotBefore(t, at[t], own[t]), at[t] \in DOMAIN Script(t),
           NEW k, NEW j, Script(t)[at[t]] = <<"remove", k, j>>
    PROVE  /\ k \in {"alg", "pro", "rcr", "param"} /\ j \in DOMAIN own[t][k]
           /\ j \in ToRemove(t, k) /\ own[t][k][j] \in Ids(k)
<1>1. JobOK /\ own[t] \in IdLists /\ at[t] \in Nat
  BY ThreadTypes
<1>2. k \in {"alg", "pro", "rcr", "param"} /\ j \in DOMAIN own[t][k]
  BY <1>1, RemovedIsGot
<1>3. k \in Kinds
  BY <1>2 DEF Kinds
<1>4. at[t] >= at[t]
  BY <1>1
<1> QED
  BY <1>2, <1>3, <1>4, OwnType DEF ToRemove

\* No thread begins or ends its work on an object.
WorkGoesOn(u) ==
    /\ Working(u)' <=> Working(u)
    /\ Working(u) => /\ call'[u].kind = call[u].kind /\ call'[u].id = call[u].id
                     /\ call'[u].op = call[u].op
DropsStay == \A u \in Users : Working(u) => call'[u].drop = call[u].drop

LEMMA WorkKept ==
    ASSUME NEW u \in Users, WorkGoesOn(u)
    PROVE  /\ \A x : WorksOn(u, x)' <=> WorksOn(u, x)
           /\ Working(u) => (Removes(u)' <=> Removes(u))
  BY DEF WorkGoesOn, WorksOn, Removes

\* A step that changes neither the objects nor the ids that are held.
Calm(t) ==
    /\ slots' = slots /\ own' = own /\ job' = job /\ Advances(t)
    /\ \A u \in Users : WorkGoesOn(u)

LEMMA CalmShelved ==
    ASSUME ShelvedAreFree, slots' = slots, shelved' = shelved, \A u \in Users : WorkGoesOn(u)
    PROVE  ShelvedAreFree'
<1>1. \A u \in Users : \A x : WorksOn(u, x)' <=> WorksOn(u, x)
  BY WorkKept
<1>2. \A k, i : OnShelf(k, i)' <=> OnShelf(k, i)
  BY DEF OnShelf
<1>3. \A k : Ids(k)' = Ids(k)
  BY DEF Ids
<1> QED
  BY <1>1, <1>2, <1>3 DEF ShelvedAreFree

LEMMA CalmOwn ==
    ASSUME TypeOK, OwnInv, NEW t \in Users, Calm(t)
    PROVE  OwnInv'
<1>1. \A u \in Users : \A x : WorksOn(u, x)' <=> WorksOn(u, x)
  BY WorkKept DEF Calm
<1>2. \A u \in Users : \A x : WorksOn(u, x) => (Removes(u)' <=> Removes(u))
  BY WorkKept DEF Calm, WorksOn
<1>3. \A u \in Users, k \in Kinds : \A j : j \in ToRemove(u, k)' => j \in ToRemove(u, k)
  BY ToRemoveShrinks DEF Calm
<1>4. slots' = slots /\ own' = own
  BY DEF Calm
<1>5. ASSUME NEW u \in Users, NEW k \in Kinds, NEW j \in ToRemove(u, k)'
      PROVE  /\ slots[k][own[u][k][j]] # NULL \/ WorksOn(u, <<k, own[u][k][j]>>)'
             /\ \A v \in Users : WorksOn(v, <<k, own[u][k][j]>>)' => v = u /\ Removes(v)'
             /\ \A v \in Users : \A m \in ToRemove(v, k)' :
                  own[v][k][m] = own[u][k][j] => v = u /\ m = j
  <2>1. j \in ToRemove(u, k)
    BY <1>3, <1>5
  <2>0. PICK i : i = own[u][k][j]
    OBVIOUS
  <2>2. /\ slots[k][i] # NULL \/ WorksOn(u, <<k, i>>)
        /\ \A v \in Users : WorksOn(v, <<k, i>>) => v = u /\ Removes(v)
        /\ \A v \in Users : \A m \in ToRemove(v, k) : own[v][k][m] = i => v = u /\ m = j
    BY <2>0, <2>1 DEF OwnInv
  <2>3. slots[k][i] # NULL \/ WorksOn(u, <<k, i>>)'
    BY <1>1, <2>2
  <2>4. \A v \in Users : WorksOn(v, <<k, i>>)' => v = u /\ Removes(v)'
    BY <1>1, <1>2, <2>2
  <2>5. \A v \in Users : \A m \in ToRemove(v, k)' : own[v][k][m] = i => v = u /\ m = j
    BY <1>3, <2>2
  <2> QED
    BY <1>4, <2>0, <2>3, <2>4, <2>5
<1> QED
  BY <1>4, <1>5 DEF OwnInv

LEMMA CalmRandom ==
    ASSUME RandomInv, slots' = slots, DropsStay, \A u \in Users : WorkGoesOn(u)
    PROVE  RandomInv'
<1>1. \A k, i : HasRandom(k, i)' <=> HasRandom(k, i)
  <2>1. \A u \in Users : \A x : WorksOn(u, x)' <=> WorksOn(u, x)
    BY WorkKept
  <2>2. \A u \in Users : \A x : WorksOn(u, x) =>
          (Removes(u)' <=> Removes(u)) /\ call'[u].drop = call[u].drop
    BY WorkKept DEF WorksOn, DropsStay
  <2> QED
    BY <2>1, <2>2 DEF HasRandom
<1>2. \A k : Ids(k)' = Ids(k)
  BY DEF Ids
<1>3. \A k, i : IsValid(k, i)' <=> IsValid(k, i)
  BY DEF IsValid
<1> QED
  BY <1>1, <1>2, <1>3 DEF RandomInv

LEMMA CalmParts ==
    ASSUME TypeOK, PartInv, NEW t \in Users, Calm(t), DropsStay
    PROVE  PartInv'
<1>1. slots' = slots /\ own' = own
  BY DEF Calm
<1>2. \A u \in Users : \A j : j \in ToRemove(u, "param")' => j \in ToRemove(u, "param")
  BY ToRemoveShrinks DEF Calm, Kinds
<1>3. ASSUME NEW u \in Users
      PROVE  /\ Dropped(u)' = Dropped(u)
             /\ \A n \in DOMAIN Dropped(u) : call'[u].kind = call[u].kind
  BY <1>1 DEF Calm, WorkGoesOn, DropsStay, Dropped, Removes
<1>4. \A k : Ids(k)' = Ids(k)
  BY <1>1 DEF Ids
<1>5. \A k, i : IsValid(k, i)' <=> IsValid(k, i)
  BY <1>1 DEF IsValid
<1>6. \A i : PartsOf(i)' = PartsOf(i)
  BY <1>1 DEF PartsOf
<1>7. /\ \A i \in Ids("alg") : slots["alg"][i] # NULL => slots["alg"][i].parts = <<>>
      /\ \A i \in Ids("pro") : \A p \in DOMAIN PartsOf(i) :
         /\ IsValid("param", PartsOf(i)[p])
         /\ \A m \in Ids("pro") : \A q \in DOMAIN PartsOf(m) :
              PartsOf(m)[q] = PartsOf(i)[p] => m = i /\ q = p
         /\ \A u \in Users : \A j \in ToRemove(u, "param")' :
              own[u]["param"][j] # PartsOf(i)[p]
  BY <1>2 DEF PartInv
<1>8. \A u \in Users : \A n \in DOMAIN Dropped(u) :
         /\ call'[u].kind = "pro"
         /\ Dropped(u)[n][1] = "param" /\ IsValid("param", Dropped(u)[n][2])
         /\ \A m \in DOMAIN Dropped(u) : Dropped(u)[m] = Dropped(u)[n] => m = n
         /\ \A i \in Ids("pro") : \A p \in DOMAIN PartsOf(i) :
              PartsOf(i)[p] # Dropped(u)[n][2]
         /\ \A v \in Users : \A j \in ToRemove(v, "param")' :
              own[v]["param"][j] # Dropped(u)[n][2]
  BY <1>2, <1>3 DEF PartInv
<1> QED
  BY <1>1, <1>3, <1>4, <1>5, <1>6, <1>7, <1>8 DEF PartInv

LEMMA CalmReferences ==
    ASSUME TypeOK, ReferInv, NEW t \in Users, Calm(t)
    PROVE  ReferInv'
<1>1. slots' = slots /\ own' = own
  BY DEF Calm
<1>2. \A u \in Users, k \in {"pro", "alg"} : \A j : j \in ToRemove(u, k)' => j \in ToRemove(u, k)
  BY ToRemoveShrinks DEF Calm, Kinds
<1>3. \A u \in Users : OwnId(u, "pro")' = OwnId(u, "pro")
  BY <1>1 DEF OwnId
<1>4. \A k : Ids(k)' = Ids(k)
  BY <1>1 DEF Ids
<1>5. \A u \in Users : (Working(u) /\ call[u].op = "add")' =>
        /\ Working(u) /\ call[u].op = "add"
        /\ call'[u].kind = call[u].kind /\ call'[u].id = call[u].id
  BY DEF Calm, WorkGoesOn
<1> QED
  BY <1>1, <1>2, <1>3, <1>4, <1>5 DEF ReferInv

\* The call and the work of a thread that does nothing.
LEMMA AtCallKept ==
    ASSUME NEW u \in Users, AtCallInv(u), job' = job, pc'[u] = pc[u], call'[u] = call[u],
           at'[u] = at[u], own'[u] = own[u]
    PROVE  AtCallInv(u)'
<1>1. Script(u)' = Script(u)
  BY ScriptStays
<1> QED
  BY <1>1 DEF AtCallInv, Removes

\* The objects stay, but for the parts of a composition, and so do the ids.
SlotKept(k, i) ==
    /\ slots'[k][i] = NULL <=> slots[k][i] = NULL
    /\ slots[k][i] # NULL => slots'[k][i].rnd = slots[k][i].rnd
IdsStay == \A k \in Kinds : Ids(k) \subseteq Ids(k)'

LEMMA WorkInvKept ==
    ASSUME TypeOK, IdsStay, NEW u \in Users, WorkInv(u), Working(u)' <=> Working(u),
           call'[u] = call[u],
           Working(u) => /\ mutex'[call[u].kind] = mutex[call[u].kind]
                         /\ SlotKept(call[u].kind, call[u].id)
    PROVE  WorkInv(u)'
<1>1. Working(u)' <=> Working(u)
  OBVIOUS
<1>2. /\ call[u].kind \in Kinds /\ call[u].todo \in Seq(Kinds \X Nat)
      /\ \A n \in DOMAIN call[u].todo : call[u].todo[n][1] \in Kinds
  BY CallType
<1>3. CASE Working(u)
  <2>1. /\ mutex'[call[u].kind] = u
        /\ call[u].id \in Ids(call[u].kind)'
        /\ \A n \in DOMAIN call[u].todo : call[u].todo[n][2] \in Ids(call[u].todo[n][1])'
        /\ call[u].op = "add" => slots'[call[u].kind][call[u].id] # NULL
        /\ slots'[call[u].kind][call[u].id] = NULL => call[u].todo = <<>>
    BY <1>2, <1>3 DEF WorkInv, SlotKept, IdsStay
  <2>2. Removes(u) /\ slots'[call[u].kind][call[u].id] # NULL =>
               /\ call[u].drop \in {<<>>, << <<"rnd", slots'[call[u].kind][call[u].id].rnd>> >>}
               /\ call[u].todo # <<>> => call[u].drop # <<>>
    BY <1>3 DEF WorkInv, SlotKept
  <2>3. Removes(u)' <=> Removes(u)
    BY DEF Removes
  <2> QED
    BY <2>1, <2>2, <2>3 DEF WorkInv
<1>4. CASE ~Working(u)
  BY <1>1, <1>4 DEF WorkInv
<1> QED
  BY <1>3, <1>4

\* A thread that is in the middle of its script.
Active(t) == t \in running \cup {Main} /\ at[t] \in DOMAIN Script(t) /\ job # 0

LEMMA CallIsActive ==
    ASSUME InstanceInv, NEW t \in Users, NEW c, Calls(t, c)
    PROVE  Active(t) /\ pc[t] = "idle" /\ Script(t)[at[t]] = c /\ call[t] = NoCall
<1>1. t \in running \cup {Main} /\ at[t] \in DOMAIN Script(t)
  BY DEF Calls, Finished
<1>2. job # 0
  BY <1>1, ScriptOfNobody DEF InstanceInv, PlaceInv
<1>3. call[t] = NoCall
  BY DEF Calls, InstanceInv, AtCallInv
<1> QED
  BY <1>1, <1>2, <1>3 DEF Calls, Active

LEMMA BusyIsActive ==
    ASSUME InstanceInv, NEW t \in Users, pc[t] # "idle"
    PROVE  Active(t)
<1>1. at[t] \in DOMAIN Script(t)
  BY DEF InstanceInv, PlaceInv, Finished
<1>2. job # 0
  <2>1. CASE t = Main
    BY <2>1 DEF InstanceInv, PlaceInv
  <2>2. CASE t \in Threads
    BY <2>2 DEF InstanceInv, PlaceInv
  <2> QED
    BY <2>1, <2>2 DEF Users
<1>3. t \in running \cup {Main}
  BY DEF InstanceInv, PlaceInv, Users
<1> QED
  BY <1>1, <1>2, <1>3 DEF Active

\* Its work is that of problems or algorithms, with their mutex.
LEMMA WorkFacts ==
    ASSUME InstanceInv, NEW t \in Users, Working(t)
    PROVE  /\ call[t].kind \in {"pro", "alg"} /\ call[t].id \in Ids(call[t].kind)
           /\ call[t].op \in {"add", "remove"}
           /\ \A u \in Users : Working(u) /\ call[u].kind = call[t].kind => u = t
           /\ \A u \in Users : \A x : WorksOn(u, x) /\ WorksOn(t, x) => u = t
           /\ WorksOn(t, <<call[t].kind, call[t].id>>)
<1>1. \A u \in Users : AtCallInv(u) /\ WorkInv(u) /\ call[u].op \in {"none", "add", "remove"}
  BY CallType DEF InstanceInv
<1>2. call[t].kind \in {"pro", "alg"} /\ call[t].op \in {"add", "remove"}
  BY <1>1 DEF AtCallInv, Working
<1>3. \A u \in Users : Working(u) => mutex[call[u].kind] = u
  BY <1>1 DEF WorkInv
<1>4. call[t].id \in Ids(call[t].kind)
  BY <1>1 DEF WorkInv
<1>5. \A u \in Users : Working(u) /\ call[u].kind = call[t].kind => u = t
  BY <1>3
<1>6. \A u \in Users : \A x : WorksOn(u, x) /\ WorksOn(t, x) => u = t
  <2>1. ASSUME NEW u \in Users, NEW x, WorksOn(u, x), WorksOn(t, x)
        PROVE  u = t
    <3>1. Working(u) /\ <<call[u].kind, call[u].id>> = <<call[t].kind, call[t].id>>
      BY <2>1 DEF WorksOn
    <3> QED
      BY <1>5, <3>1
  <2> QED
    BY <2>1
<1> QED
  BY <1>2, <1>4, <1>5, <1>6 DEF WorksOn

\* Where the threads are, after a step within a call and after its end.
LEMMA PlaceStays ==
    ASSUME TypeOK, PlaceInv, NEW t \in Users, Active(t), at' = at, job' = job,
           running' = running, \A u \in Users : u # t => pc'[u] = pc[u]
    PROVE  PlaceInv'
<1>1. /\ \A u : Script(u)' = Script(u)
      /\ StartAt' = StartAt
  BY ScriptStays
<1>2. \A u : Finished(u)' <=> Finished(u)
  BY <1>1 DEF Finished
<1>3. ~Finished(t) /\ job # 0 /\ (t \in Threads => t \in running)
  BY UserTypes DEF Finished, Active
<1>4. \A u \in Threads \ running : u # t /\ u \in Users
  BY <1>3 DEF Users
<1>5. \A u \in Threads \ running : pc'[u] = "idle" /\ at'[u] = 1
  BY <1>4 DEF PlaceInv
<1>6. \A u \in Users : Finished(u)' => pc'[u] = "idle"
  BY <1>2, <1>3 DEF PlaceInv
<1>7. \A u \in Users : at'[u] <= Len(Script(u)') + 1
  BY <1>1 DEF PlaceInv
<1>8. /\ job' # 0 /\ at'[Main] <= StartAt' => running' = {}
      /\ job' # 0 /\ at'[Main] > StartAt' + 1 => \A u \in running' : Finished(u)'
  BY <1>1, <1>2 DEF PlaceInv
<1>9. job' # 0
  BY <1>3
<1> QED
  BY <1>5, <1>6, <1>7, <1>8, <1>9 DEF PlaceInv

LEMMA PlaceGoesOn ==
    ASSUME TypeOK, PlaceInv, NEW t \in Users, Active(t), at' = [at EXCEPT ![t] = @ + 1],
           job' = job, running' = running, \A u \in Users : u # t => pc'[u] = pc[u],
           pc'[t] = "idle", t = Main => at[Main] # StartAt + 1 /\ at[Main] # StartAt
    PROVE  PlaceInv'
<1>1. /\ \A u : Script(u)' = Script(u)
      /\ StartAt' = StartAt
  BY ScriptStays
<1>2. /\ at[t] \in Nat /\ at'[t] = at[t] + 1 /\ \A u \in Users : u # t => at'[u] = at[u]
      /\ JobOK
  BY DEF TypeOK, JobOK
<1>3. /\ \A u \in Users : u # t => (Finished(u)' <=> Finished(u))
      /\ at[t] \in DOMAIN Script(t) /\ job # 0 /\ (t \in Threads => t \in running)
  BY <1>1, <1>2, UserTypes DEF Finished, Active
<1>4. \A u \in Threads \ running : u # t /\ u \in Users
  BY <1>3 DEF Users
<1>5. \A u \in Threads \ running : pc'[u] = "idle" /\ at'[u] = 1
  BY <1>2, <1>4 DEF PlaceInv
<1>6. \A u \in Users : Finished(u)' => pc'[u] = "idle"
  BY <1>3 DEF PlaceInv
<1>7. \A u \in Users : at'[u] <= Len(Script(u)') + 1
  <2>1. at'[t] <= Len(Script(t)) + 1
    BY <1>2, <1>3, ScriptType
  <2>2. \A u \in Users : u # t => at'[u] <= Len(Script(u)) + 1
    BY <1>2 DEF PlaceInv
  <2> QED
    BY <1>1, <2>1, <2>2
<1>8. at[Main] \in Nat /\ StartAt \in Nat
  <2>1. Job.runs \in Nat
    BY <1>2, <1>3, ScriptOfMain
  <2>2. at[Main] \in Nat
    BY UserTypes DEF TypeOK
  <2> QED
    BY <2>1, <2>2 DEF StartAt
<1>9. /\ at'[Main] <= StartAt => running = {}
      /\ at'[Main] > StartAt + 1 => \A u \in running : Finished(u)'
  <2>1. CASE t = Main
    <3>1. /\ at[Main] <= StartAt => running = {}
          /\ at[Main] > StartAt + 1 => \A u \in running : Finished(u)
      BY <1>3 DEF PlaceInv
    <3>2. \A u \in running : u \in Users /\ u # Main
      BY UserTypes DEF TypeOK
    <3> QED
      BY <1>2, <1>3, <1>8, <2>1, <3>1, <3>2
  <2>2. CASE t # Main
    <3>1. t \in running /\ ~Finished(t)
      BY <1>3, <2>2, UserTypes DEF Finished
    <3>2. ~(at[Main] <= StartAt) /\ ~(at[Main] > StartAt + 1)
      BY <1>3, <3>1 DEF PlaceInv
    <3>3. at'[Main] = at[Main]
      BY <1>2, <2>2, UserTypes
    <3> QED
      BY <3>2, <3>3
  <2> QED
    BY <2>1, <2>2
<1> QED
  BY <1>1, <1>3, <1>5, <1>6, <1>7, <1>9 DEF PlaceInv

\* What the threads have got.
LEMMA GotSame ==
    ASSUME job' = job
    PROVE  \A u, n, ids : GotBefore(u, n, ids)' <=> GotBefore(u, n, ids)
  BY ScriptStays DEF GotBefore

LEMMA GotStays ==
    ASSUME GotInv, at' = at, own' = own, job' = job
    PROVE  GotInv'
<1>1. ASSUME NEW u \in Users
      PROVE  GotBefore(u, at[u], own[u])'
  <2>1. PICK n, ids : n = at[u] /\ ids = own[u]
    OBVIOUS
  <2>2. GotBefore(u, n, ids)'
    BY <2>1, GotSame DEF GotInv
  <2> QED
    BY <2>1, <2>2
<1> QED
  BY <1>1 DEF GotInv

\* A call that adds nothing, and one that does.
LEMMA GotGoesOn ==
    ASSUME TypeOK, GotInv, NEW t \in Users, at[t] \in DOMAIN Script(t),
           Script(t)[at[t]][1] # "add", at' = [at EXCEPT ![t] = @ + 1], own' = own, job' = job
    PROVE  GotInv'
<1>1. ASSUME NEW u \in Users
      PROVE  GotBefore(u, at'[u], own[u])
  <2>1. CASE u = t
    <3>1. JobOK /\ own[t] \in IdLists /\ at'[t] = at[t] + 1
      BY DEF TypeOK, JobOK, IdLists
    <3>2. GotBefore(t, at[t], own[t])
      BY DEF GotInv
    <3> QED
      BY <2>1, <3>1, <3>2, GotKept
  <2>2. CASE u # t
    BY <2>2 DEF GotInv, TypeOK
  <2> QED
    BY <2>1, <2>2
<1>2. ASSUME NEW u \in Users
      PROVE  GotBefore(u, at[u], own[u])'
  <2>1. PICK n, ids : n = at'[u] /\ ids = own[u]
    OBVIOUS
  <2>2. GotBefore(u, n, ids)'
    BY <1>1, <2>1, GotSame
  <2> QED
    BY <2>1, <2>2
<1> QED
  BY <1>2 DEF GotInv

LEMMA GotMore ==
    ASSUME TypeOK, GotInv, NEW t \in Users, at[t] \in DOMAIN Script(t), NEW k \in Kinds,
           Script(t)[at[t]] = <<"add", k, 1>>, NEW i \in Nat,
           at' = [at EXCEPT ![t] = @ + 1], own' = [own EXCEPT ![t][k] = Append(@, i)], job' = job
    PROVE  GotInv'
<1>1. ASSUME NEW u \in Users
      PROVE  GotBefore(u, at'[u], own'[u])
  <2>1. CASE u = t
    <3>1. JobOK /\ own[t] \in IdLists /\ at'[t] = at[t] + 1
          /\ own'[t] = [own[t] EXCEPT ![k] = Append(@, i)]
      BY DEF TypeOK, JobOK, IdLists
    <3>2. GotBefore(t, at[t], own[t])
      BY DEF GotInv
    <3>3. PICK n, ids : n = at[t] /\ ids = own[t]
      OBVIOUS
    <3>4. GotBefore(t, n + 1, [ids EXCEPT ![k] = Append(@, i)])
      BY <3>1, <3>2, <3>3, GotAdded
    <3> QED
      BY <2>1, <3>1, <3>3, <3>4
  <2>2. CASE u # t
    BY <2>2 DEF GotInv, TypeOK
  <2> QED
    BY <2>1, <2>2
<1>2. ASSUME NEW u \in Users
      PROVE  GotBefore(u, at[u], own[u])'
  <2>1. PICK n, ids : n = at'[u] /\ ids = own'[u]
    OBVIOUS
  <2>2. GotBefore(u, n, ids)'
    BY <1>1, <2>1, GotSame
  <2> QED
    BY <2>1, <2>2
<1> QED
  BY <1>2 DEF GotInv

-----------------------------------------------------------------------------
(* Calls that do nothing to the registry.                                  *)

\* What a thread is going to remove is there, as long as it is not at it.
LEMMA HeldIsValid ==
    ASSUME InstanceInv, NEW t \in Users, ~Working(t), NEW k \in Kinds, NEW j \in ToRemove(t, k)
    PROVE  IsValid(k, own[t][k][j]) /\ own[t][k][j] \in Ids(k)
<1>1. TypeOK /\ OwnInv /\ j \in DOMAIN own[t][k]
  BY DEF InstanceInv, ToRemove
<1>2. own[t][k][j] \in Ids(k) /\ DOMAIN slots[k] = Ids(k)
  BY <1>1, OwnType, SlotFacts
<1>3. slots[k][own[t][k][j]] # NULL
  BY <1>1 DEF OwnInv, WorksOn
<1> QED
  BY <1>2, <1>3 DEF IsValid

\* So it is with all a thread has got, before it removes anything.
LEMMA GotIsValid ==
    ASSUME InstanceInv, NEW t \in Users, ~Working(t), Active(t),
           Script(t)[at[t]][1] # "remove", NEW k \in Kinds, NEW j \in DOMAIN own[t][k]
    PROVE  /\ j \in ToRemove(t, k)
           /\ IsValid(k, own[t][k][j]) /\ own[t][k][j] \in Ids(k)
<1>1. JobOK /\ own[t] \in IdLists /\ GotBefore(t, at[t], own[t]) /\ at[t] \in DOMAIN Script(t)
  BY ThreadTypes DEF InstanceInv, GotInv, Active
<1>2. j \in ToRemove(t, k)
  BY <1>1, AllToRemove
<1> QED
  BY <1>2, HeldIsValid

\* Where a thread is in its script.
LEMMA GotNow ==
    ASSUME InstanceInv, NEW t \in Users
    PROVE  /\ TypeOK /\ JobOK /\ own[t] \in IdLists /\ GotBefore(t, at[t], own[t])
           /\ at[t] \in Nat \ {0} /\ at \in [Users -> Nat \ {0}]
           /\ \A k \in Kinds : Len(own[t][k]) \in Nat /\ DOMAIN own[t][k] = 1..Len(own[t][k])
           /\ \A k \in Kinds : OwnId(t, k) =
                IF Len(own[t][k]) = 0 THEN NoId ELSE own[t][k][Len(own[t][k])]
<1>1. TypeOK /\ GotBefore(t, at[t], own[t])
  BY DEF InstanceInv, GotInv
<1>2. JobOK /\ own[t] \in IdLists /\ at[t] \in Nat \ {0} /\ at \in [Users -> Nat \ {0}]
  BY <1>1 DEF TypeOK, JobOK, IdLists
<1>3. \A k \in Kinds : /\ Len(own[t][k]) \in Nat /\ DOMAIN own[t][k] = 1..Len(own[t][k])
                       /\ own[t][k] = <<>> <=> Len(own[t][k]) = 0
  <2>1. \A k \in Kinds : own[t][k] \in Seq(Nat)
    BY <1>2 DEF IdLists
  <2> QED
    BY <2>1
<1> QED
  BY <1>1, <1>2, <1>3 DEF OwnId

LEMMA PassKeeps ==
    ASSUME InstanceInv, NEW t \in Users, Active(t), pc[t] = "idle",
           Script(t)[at[t]][1] # "add", at' = [at EXCEPT ![t] = @ + 1],
           UNCHANGED <<manager, pc, call, seen, own, job, lost>>,
           running' \subseteq Threads, PlaceInv'
    PROVE  InstanceInv'
<1>1. /\ slots' = slots /\ occupied' = occupied /\ shelved' = shelved /\ mutex' = mutex
      /\ pc' = pc /\ call' = call /\ seen' = seen /\ own' = own /\ job' = job /\ lost' = lost
  BY DEF manager
<1>2. /\ TypeOK /\ ShelvedAreFree /\ GotInv /\ OwnInv /\ RandomInv /\ PartInv /\ ReferInv
      /\ NothingThrows /\ \A u \in Users : AtCallInv(u) /\ WorkInv(u)
  BY DEF InstanceInv
<1>3. TypeOK'
  <2>1. at' \in [Users -> Nat \ {0}]
    BY <1>2 DEF TypeOK
  <2> QED
    BY <1>1, <1>2, <2>1 DEF TypeOK, Ids
<1>4. Calm(t) /\ DropsStay
  BY <1>1 DEF Calm, WorkGoesOn, DropsStay, Working, Advances
<1>5. ShelvedAreFree' /\ OwnInv' /\ RandomInv' /\ PartInv' /\ ReferInv'
  BY <1>1, <1>2, <1>4, CalmShelved, CalmOwn, CalmRandom, CalmParts, CalmReferences DEF Calm
<1>6. GotInv'
  BY <1>1, <1>2, GotGoesOn DEF Active
<1>7. ASSUME NEW u \in Users
      PROVE  AtCallInv(u)'
  <2>1. CASE u = t
    BY <1>1, <1>2, <2>1, NoCallType DEF AtCallInv, Removes
  <2>2. CASE u # t
    <3>1. at'[u] = at[u] /\ pc'[u] = pc[u] /\ call'[u] = call[u] /\ own'[u] = own[u]
      BY <1>1, <1>2, <2>2 DEF TypeOK
    <3> QED
      BY <1>1, <1>2, <3>1, AtCallKept
  <2> QED
    BY <2>1, <2>2
<1>8. ASSUME NEW u \in Users
      PROVE  WorkInv(u)'
  <2>1. IdsStay /\ SlotKept(call[u].kind, call[u].id)
    BY <1>1 DEF IdsStay, Ids, SlotKept
  <2> QED
    BY <1>1, <1>2, <2>1, WorkInvKept DEF Working
<1>9. NothingThrows'
  BY <1>1, <1>2 DEF NothingThrows
<1> QED
  BY <1>3, <1>5, <1>6, <1>7, <1>8, <1>9 DEF InstanceInv

\* A check that ends before a lock.
LEMMA EnterKeeps ==
    ASSUME InstanceInv, NEW t \in Users, Active(t), pc[t] = "idle", Goto(t, "locking"),
           NEW c \in CallStates, c.id \in Ids(c.kind) \cup {NoId},
           call' = [call EXCEPT ![t] = c], AtCallInv(t)',
           UNCHANGED <<manager, at, seen, own, task, lost>>
    PROVE  InstanceInv'
<1>1. /\ slots' = slots /\ occupied' = occupied /\ shelved' = shelved /\ mutex' = mutex
      /\ at' = at /\ seen' = seen /\ own' = own /\ job' = job /\ lost' = lost
      /\ running' = running
  BY DEF manager, task
<1>2. /\ TypeOK /\ ShelvedAreFree /\ PlaceInv /\ GotInv /\ OwnInv /\ RandomInv /\ PartInv
      /\ ReferInv /\ NothingThrows /\ \A u \in Users : AtCallInv(u) /\ WorkInv(u)
  BY DEF InstanceInv
<1>3. /\ pc' \in [Users -> {"idle", "locking", "counting", "writing", "discarding", "thrown"}]
      /\ call' \in [Users -> CallStates] /\ pc'[t] = "locking" /\ call'[t] = c
      /\ \A u \in Users : u # t => pc'[u] = pc[u] /\ call'[u] = call[u]
  BY <1>2 DEF TypeOK, Goto
<1>4. TypeOK'
  <2>1. \A u \in Users : call'[u].id \in Ids(call'[u].kind) \cup {NoId}
    BY <1>2, <1>3 DEF TypeOK
  <2> QED
    BY <1>1, <1>2, <1>3, <2>1 DEF TypeOK, Ids
<1>5. Calm(t) /\ DropsStay
  BY <1>1, <1>3 DEF Calm, WorkGoesOn, DropsStay, Working, Advances
<1>6. ShelvedAreFree' /\ OwnInv' /\ RandomInv' /\ PartInv' /\ ReferInv'
  BY <1>1, <1>2, <1>5, CalmShelved, CalmOwn, CalmRandom, CalmParts, CalmReferences DEF Calm
<1>7. PlaceInv' /\ GotInv'
  BY <1>1, <1>2, <1>3, PlaceStays, GotStays
<1>8. ASSUME NEW u \in Users
      PROVE  AtCallInv(u)'
  BY <1>1, <1>2, <1>3, AtCallKept
<1>9. ASSUME NEW u \in Users
      PROVE  WorkInv(u)'
  <2>1. IdsStay /\ SlotKept(call[u].kind, call[u].id)
    BY <1>1 DEF IdsStay, Ids, SlotKept
  <2>2. CASE u = t
    BY <1>3, <2>2 DEF WorkInv, Working
  <2>3. CASE u # t
    BY <1>1, <1>2, <1>3, <2>1, <2>3, WorkInvKept DEF Working
  <2> QED
    BY <2>2, <2>3
<1>10. NothingThrows'
  BY <1>2, <1>3 DEF NothingThrows
<1> QED
  BY <1>4, <1>6, <1>7, <1>8, <1>9, <1>10 DEF InstanceInv

\* A thread that adds has got what the new object refers to.
LEMMA AddNeeds ==
    ASSUME InstanceInv, NEW t \in Users, Active(t), NEW k \in {"param", "rcr", "pro", "alg"},
           Script(t)[at[t]] = <<"add", k, 1>>
    PROVE  /\ k # "param" => Len(own[t]["param"]) = 1 /\ OwnId(t, "param") = own[t]["param"][1]
           /\ k = "alg" => /\ Len(own[t]["pro"]) = Len(own[t]["alg"]) + 1
                           /\ OwnId(t, "pro") = own[t]["pro"][Len(own[t]["pro"])]
           /\ k = "rcr" => t = Main
           /\ k = "param" => Len(own[t]["pro"]) = 0 /\ Len(own[t]["alg"]) = 0
           /\ Len(own[t]["alg"]) <= Len(own[t]["pro"])
<1>1. /\ JobOK /\ own[t] \in IdLists /\ GotBefore(t, at[t], own[t]) /\ at[t] \in Nat \ {0}
      /\ at[t] \in DOMAIN Script(t) /\ job # 0
      /\ \A x \in Kinds : Len(own[t][x]) \in Nat
      /\ \A x \in Kinds : OwnId(t, x) =
                IF Len(own[t][x]) = 0 THEN NoId ELSE own[t][x][Len(own[t][x])]
  BY GotNow DEF Active
<1>2. Script(t)[at[t]][1] = "add" /\ Script(t)[at[t]][2] = k
  OBVIOUS
<1>3. /\ k # "param" => Len(own[t]["param"]) = 1
      /\ k = "alg" => Len(own[t]["pro"]) = Len(own[t]["alg"]) + 1
      /\ k = "rcr" => t = Main
  <2>1. CASE t = Main
    <3>1. /\ at[t] > 1 => Len(own[t]["param"]) = 1
          /\ k # "param" => at[t] > 1
          /\ k = "alg" => Len(own[t]["pro"]) = Len(own[t]["alg"]) + 1
      <4>1. PICK m, ids : m = at[t] /\ ids = own[t]
        OBVIOUS
      <4>2. m \in DOMAIN Script(Main) /\ ids \in IdLists /\ GotBefore(Main, m, ids)
        BY <1>1, <2>1, <4>1
      <4>3. /\ m > 1 => Len(ids["param"]) = 1
            /\ Script(Main)[m] = <<"add", "pro", 1>> => m > 1
            /\ Script(Main)[m] = <<"add", "rcr", 1>> => m > 1
            /\ Script(Main)[m] = <<"add", "alg", 1>> =>
                 m > 1 /\ Len(ids["pro"]) = Len(ids["alg"]) + 1
        BY <1>1, <4>2, MainNeeds
      <4> QED
        BY <2>1, <4>1, <4>3
    <3> QED
      BY <2>1, <3>1
  <2>2. CASE t # Main
    <3>0. t \in Threads
      BY <2>2, UserTypes
    <3>1. PICK m, ids : m = at[t] /\ ids = own[t]
      OBVIOUS
    <3>2. m \in DOMAIN Script(t) /\ ids \in IdLists /\ GotBefore(t, m, ids)
      BY <1>1, <3>1
    <3>3. /\ m > 1 => Len(ids["param"]) = 1
          /\ Script(t)[m][1] = "add" => Script(t)[m][2] # "rcr"
          /\ Script(t)[m] = <<"add", "pro", 1>> => m > 1
          /\ Script(t)[m] = <<"add", "alg", 1>> =>
                m > 1 /\ Len(ids["pro"]) = 1 /\ Len(ids["alg"]) = 0
      BY <3>0, <3>2, ThreadNeeds
    <3>4. CASE k = "pro"
      BY <3>1, <3>3, <3>4
    <3>5. CASE k = "alg"
      <4>1. at[t] > 1 /\ Len(own[t]["pro"]) = 1 /\ Len(own[t]["alg"]) = 0
        BY <3>1, <3>3, <3>5
      <4> QED
        BY <3>1, <3>3, <3>5, <4>1
    <3>6. k # "rcr"
      BY <1>2, <3>1, <3>3
    <3> QED
      BY <3>4, <3>5, <3>6
  <2> QED
    BY <2>1, <2>2
<1>4. /\ k = "param" => Len(own[t]["pro"]) = 0 /\ Len(own[t]["alg"]) = 0
      /\ Len(own[t]["alg"]) <= Len(own[t]["pro"])
  <2>1. CASE t = Main
    <3> DEFINE n == Job.runs
    <3>1. n \in Nat /\ StartAt = 3 * n + 3 /\ at[t] \in 1..5 * n + 6
      BY <1>1, <2>1, ScriptOfMain
    <3> HIDE DEF n
    <3>2. CASE at[t] \in 3..3 * n + 2
      BY <1>1, <1>2, <2>1, <3>2, MiddleOfMain DEF n, Kinds
    <3>3. CASE at[t] \notin 3..3 * n + 2
      <4>1. at[t] <= 2
        <5>1. at[t] <= 2 \/ at[t] > 3 * n + 2
          BY <3>1, <3>3
        <5>2. /\ at[t] = 3 * n + 3 => Script(t)[at[t]] = <<"start", "alg", 1>>
              /\ at[t] = 3 * n + 4 => Script(t)[at[t]] = <<"join", "alg", 1>>
              /\ at[t] > 3 * n + 4 => Script(t)[at[t]][1] = "remove"
          BY <1>1, <2>1, <3>1, <5>1, EndsOfMain DEF n
        <5> QED
          BY <1>2, <3>1, <5>1, <5>2
      <4>2. Len(own[t]["pro"]) = 0 /\ Len(own[t]["alg"]) = 0
        BY <1>1, <2>1, <4>1 DEF GotBefore
      <4> QED
        BY <4>2
    <3> QED
      BY <3>2, <3>3
  <2>2. CASE t # Main
    <3>0. t \in Threads
      BY <2>2, UserTypes
    <3>1. \/ at[t] = 1 /\ k = "param"
          \/ at[t] = 2 /\ k = "pro"
          \/ at[t] = 3 /\ k = "alg"
      <4>1. \/ at[t] = 1 \/ at[t] = 2 \/ at[t] = 3 \/ at[t] = 4 \/ at[t] = 5 \/ at[t] = 6
            \/ at[t] = 7
        BY <1>1, <3>0, ScriptOfThread
      <4>2. /\ Script(t)[1][2] = "param" /\ Script(t)[2][2] = "pro" /\ Script(t)[3][2] = "alg"
            /\ Script(t)[4][1] # "add" /\ Script(t)[5][1] # "add" /\ Script(t)[6][1] # "add"
            /\ Script(t)[7][1] # "add"
        BY <3>0, ScriptOfThread
      <4> QED
        BY <1>2, <4>1, <4>2
    <3>2. /\ Len(own[t]["pro"]) = (IF at[t] > 2 THEN 1 ELSE 0)
          /\ Len(own[t]["alg"]) = (IF at[t] > 3 THEN 1 ELSE 0)
      BY <1>1, <2>2 DEF GotBefore
    <3> QED
      BY <3>1, <3>2
  <2> QED
    BY <2>1, <2>2
<1> QED
  BY <1>1, <1>3, <1>4 DEF Kinds

LEMMA AddCheckKeeps ==
    ASSUME InstanceInv, NEW t \in Users, NEW k \in {"pro", "alg"}, AddCheck(t, k)
    PROVE  InstanceInv'
<1>1. Active(t) /\ pc[t] = "idle" /\ Script(t)[at[t]] = <<"add", k, 1>>
  BY CallIsActive DEF AddCheck
<1>2. /\ Len(own[t]["param"]) = 1 /\ OwnId(t, "param") = own[t]["param"][1]
      /\ k = "alg" => /\ Len(own[t]["pro"]) = Len(own[t]["alg"]) + 1
                      /\ OwnId(t, "pro") = own[t]["pro"][Len(own[t]["pro"])]
  BY <1>1, AddNeeds
<1>3. ~Working(t) /\ Script(t)[at[t]][1] # "remove"
  BY <1>1 DEF Working
<1>4. /\ \A x \in Kinds : DOMAIN own[t][x] = 1..Len(own[t][x]) /\ Len(own[t][x]) \in Nat
      /\ "param" \in Kinds /\ "pro" \in Kinds /\ "alg" \in Kinds
  BY GotNow DEF Kinds
<1>5. IsValid("param", OwnId(t, "param"))
  <2>1. 1 \in DOMAIN own[t]["param"]
    BY <1>2, <1>4
  <2> QED
    BY <1>1, <1>2, <1>3, <1>4, <2>1, GotIsValid
<1>6. k = "alg" => IsValid("pro", OwnId(t, "pro"))
  <2>1. k = "alg" => Len(own[t]["pro"]) \in DOMAIN own[t]["pro"]
    BY <1>2, <1>4
  <2> QED
    BY <1>1, <1>2, <1>3, <1>4, <2>1, GotIsValid
<1> DEFINE c == CallFor("add", k, NoId)
<1>7. /\ Goto(t, "locking") /\ call' = [call EXCEPT ![t] = c]
      /\ UNCHANGED <<manager, at, seen, own, task, lost>>
  BY <1>5, <1>6 DEF AddCheck
<1>8. /\ c \in CallStates /\ c.op = "add" /\ c.kind = k /\ c.id = NoId /\ c.drop = <<>>
  BY CallMade DEF Kinds, NoId
<1>9. AtCallInv(t)'
  <2>1. call'[t] = c /\ pc'[t] = "locking" /\ at'[t] = at[t] /\ job' = job
    BY <1>7 DEF InstanceInv, TypeOK, Goto, task
  <2>2. Script(t)' = Script(t)
    BY <2>1, ScriptStays
  <2> HIDE DEF c
  <2> QED
    BY <1>1, <1>8, <2>1, <2>2 DEF AtCallInv, Removes
<1> HIDE DEF c
<1> QED
  BY <1>1, <1>7, <1>8, <1>9, EnterKeeps

\* A call that only goes on to the next one.
LEMMA NextCallKeeps ==
    ASSUME InstanceInv, NEW t \in Users, Active(t), pc[t] = "idle",
           Script(t)[at[t]][1] \notin {"add", "start", "join"}, Returns(t),
           UNCHANGED <<manager, pc, call, seen, own, task, lost>>
    PROVE  InstanceInv'
<1>1. /\ job' = job /\ running' = running /\ pc' = pc /\ call' = call
      /\ at' = [at EXCEPT ![t] = @ + 1]
  BY DEF task, Returns
<1>2. TypeOK /\ PlaceInv
  BY DEF InstanceInv
<1>3. t = Main => at[Main] # StartAt + 1 /\ at[Main] # StartAt
  BY GotNow, MainNeeds DEF Active
<1>4. PlaceInv'
  BY <1>1, <1>2, <1>3, PlaceGoesOn
<1>5. running' \subseteq Threads
  BY <1>1, <1>2 DEF TypeOK
<1> QED
  BY <1>1, <1>4, <1>5, PassKeeps DEF task

LEMMA RemoveCheckKeeps ==
    ASSUME InstanceInv, NEW t \in Users, NEW k \in Kinds, NEW j, RemoveCheck(t, k, j)
    PROVE  InstanceInv'
<1>1. Active(t) /\ pc[t] = "idle" /\ Script(t)[at[t]] = <<"remove", k, j>>
  BY CallIsActive DEF RemoveCheck
<1>2. TypeOK /\ GotBefore(t, at[t], own[t]) /\ at[t] \in DOMAIN Script(t)
  BY <1>1, GotNow DEF Active
<1>3. j \in DOMAIN own[t][k] /\ own[t][k][j] \in Ids(k) /\ k \in {"alg", "pro", "rcr", "param"}
  BY <1>1, <1>2, RemovedIsOn
<1>4. CASE Removable(k, own[t][k][j])
  <2> DEFINE c == CallFor("remove", k, own[t][k][j])
  <2>1. /\ Goto(t, "locking") /\ call' = [call EXCEPT ![t] = c]
        /\ UNCHANGED <<manager, at, seen, own, task, lost>>
    BY <1>4 DEF RemoveCheck
  <2>2. own[t][k][j] \in Nat
    BY <1>2, <1>3, SlotFacts
  <2>3. c \in CallStates /\ c.op = "remove" /\ c.kind = k /\ c.id = own[t][k][j]
    BY <2>2, CallMade
  <2>4. AtCallInv(t)'
    <3>1. /\ call'[t] = c /\ pc'[t] = "locking" /\ at'[t] = at[t] /\ job' = job
          /\ own' = own
      BY <2>1 DEF InstanceInv, TypeOK, Goto, task
    <3>2. Script(t)' = Script(t)
      BY <3>1, ScriptStays
    <3> HIDE DEF c
    <3> QED
      BY <1>1, <1>3, <2>3, <3>1, <3>2 DEF AtCallInv, Removes
  <2> HIDE DEF c
  <2> QED
    BY <1>1, <1>3, <2>1, <2>3, <2>4, EnterKeeps
<1>5. CASE ~Removable(k, own[t][k][j])
  <2>1. Returns(t) /\ UNCHANGED <<manager, pc, call, seen, own, task, lost>>
    BY <1>5 DEF RemoveCheck
  <2> QED
    BY <1>1, <2>1, NextCallKeeps
<1> QED
  BY <1>4, <1>5

LEMMA RunAlgorithmKeeps ==
    ASSUME InstanceInv, NEW t \in Users, RunAlgorithm(t)
    PROVE  InstanceInv'
<1>1. Active(t) /\ pc[t] = "idle" /\ Script(t)[at[t]] = <<"run", "alg", 1>>
  BY CallIsActive DEF RunAlgorithm
<1>2. ~Working(t) /\ Script(t)[at[t]][1] = "run"
  BY <1>1 DEF Working
<1>3. /\ TypeOK /\ RandomInv /\ ReferInv /\ OwnInv /\ JobOK
      /\ own[t] \in IdLists /\ GotBefore(t, at[t], own[t]) /\ at[t] \in DOMAIN Script(t)
      /\ \A x \in Kinds : DOMAIN own[t][x] = 1..Len(own[t][x]) /\ Len(own[t][x]) \in Nat
      /\ \A x \in Kinds : OwnId(t, x) =
                IF Len(own[t][x]) = 0 THEN NoId ELSE own[t][x][Len(own[t][x])]
  BY <1>1, GotNow DEF InstanceInv, Active
<1>4. Len(own[t]["param"]) = 1 /\ Len(own[t]["pro"]) = 1 /\ Len(own[t]["alg"]) = 1
  <2>1. t \in Threads
    BY <1>2, <1>3, MainNeeds, UserTypes
  <2>2. PICK m, ids : m = at[t] /\ ids = own[t]
    OBVIOUS
  <2>3. m \in DOMAIN Script(t) /\ ids \in IdLists /\ GotBefore(t, m, ids)
    BY <1>3, <2>2
  <2>4. /\ m > 1 => Len(ids["param"]) = 1
        /\ Script(t)[m] = <<"run", "alg", 1>> => m > 1 /\ Len(ids["pro"]) = 1 /\ Len(ids["alg"]) = 1
    BY <2>1, <2>3, ThreadNeeds
  <2> QED
    BY <1>1, <2>2, <2>4
<1>5. "param" \in Kinds /\ "pro" \in Kinds /\ "alg" \in Kinds
  BY DEF Kinds
<1>6. OwnId(t, "alg") = own[t]["alg"][1]
  BY <1>3, <1>4, <1>5
<1>7. /\ IsValid("param", own[t]["param"][1]) /\ IsValid("pro", own[t]["pro"][1])
      /\ IsValid("alg", own[t]["alg"][1]) /\ 1 \in ToRemove(t, "alg")
      /\ own[t]["alg"][1] \in Ids("alg")
  <2>1. 1 \in DOMAIN own[t]["param"] /\ 1 \in DOMAIN own[t]["pro"] /\ 1 \in DOMAIN own[t]["alg"]
    BY <1>3, <1>4, <1>5
  <2> QED
    BY <1>1, <1>2, <1>5, <2>1, GotIsValid
<1> DEFINE a == own[t]["alg"][1]
           o == slots["alg"][a]
<1>8. o # NULL /\ o.param = own[t]["param"][1] /\ o.pro = own[t]["pro"][1]
  BY <1>3, <1>7 DEF ReferInv, IsValid
<1>9. IsValid("rnd", o.rnd)
  <2>1. \A u \in Users : WorksOn(u, <<"alg", a>>) => u = t
    BY <1>3, <1>5, <1>7 DEF OwnInv
  <2>2. HasRandom("alg", a)
    BY <1>2, <1>8, <2>1 DEF HasRandom, WorksOn
  <2> QED
    BY <1>3, <1>7, <2>2 DEF RandomInv
<1>10. Returns(t) /\ UNCHANGED <<manager, pc, call, seen, own, task, lost>>
  BY <1>6, <1>7, <1>8, <1>9 DEF RunAlgorithm
<1> QED
  BY <1>1, <1>2, <1>10, NextCallKeeps

\* The problem that is initialized is the last one Main has got.
LEMMA InitializeNeeds ==
    ASSUME InstanceInv, NEW j, Calls(Main, <<"initialize", "pro", j>>)
    PROVE  /\ Active(Main) /\ pc[Main] = "idle" /\ ~Working(Main) /\ Main \in Users
           /\ Script(Main)[at[Main]] = <<"initialize", "pro", j>>
           /\ j \in DOMAIN own[Main]["pro"] /\ j \in ToRemove(Main, "pro")
           /\ IsValid("pro", own[Main]["pro"][j]) /\ own[Main]["pro"][j] \in Ids("pro")
           /\ IsValid("param", slots["pro"][own[Main]["pro"][j]].param)
<1>1. /\ Active(Main) /\ pc[Main] = "idle" /\ ~Working(Main) /\ Main \in Users
      /\ Script(Main)[at[Main]] = <<"initialize", "pro", j>>
  BY CallIsActive, UserTypes DEF Working
<1>2. Script(Main)[at[Main]][1] = "initialize"
  BY <1>1
<1>3. /\ TypeOK /\ ReferInv /\ JobOK
      /\ own[Main] \in IdLists /\ GotBefore(Main, at[Main], own[Main])
      /\ at[Main] \in DOMAIN Script(Main)
      /\ \A x \in Kinds : DOMAIN own[Main][x] = 1..Len(own[Main][x])
  BY <1>1, GotNow DEF InstanceInv, Active
<1>4. j \in DOMAIN own[Main]["pro"] /\ Len(own[Main]["param"]) = 1
  <2>1. PICK m, ids : m = at[Main] /\ ids = own[Main]
    OBVIOUS
  <2>2. m \in DOMAIN Script(Main) /\ ids \in IdLists /\ GotBefore(Main, m, ids)
    BY <1>3, <2>1
  <2>3. /\ m > 1 => Len(ids["param"]) = 1
        /\ Script(Main)[m] = <<"initialize", "pro", j>> => m > 1 /\ j \in DOMAIN ids["pro"]
    BY <1>3, <2>2, MainNeeds
  <2> QED
    BY <1>1, <2>1, <2>3
<1>5. "param" \in Kinds /\ "pro" \in Kinds
  BY DEF Kinds
<1>6. 1 \in DOMAIN own[Main]["param"]
  BY <1>3, <1>4, <1>5
<1>7. /\ j \in ToRemove(Main, "pro") /\ IsValid("pro", own[Main]["pro"][j])
      /\ own[Main]["pro"][j] \in Ids("pro")
  BY <1>1, <1>2, <1>4, <1>5, GotIsValid
<1>8. IsValid("param", own[Main]["param"][1])
  BY <1>1, <1>2, <1>5, <1>6, GotIsValid
<1>9. slots["pro"][own[Main]["pro"][j]].param = own[Main]["param"][1]
  BY <1>1, <1>3, <1>7 DEF ReferInv, IsValid
<1> QED
  BY <1>1, <1>4, <1>7, <1>8, <1>9

LEMMA InitializedKeeps ==
    ASSUME InstanceInv, NEW j, Initialized(j)
    PROVE  InstanceInv'
<1>1. /\ Active(Main) /\ pc[Main] = "idle" /\ Main \in Users
      /\ Script(Main)[at[Main]] = <<"initialize", "pro", j>>
      /\ IsValid("pro", own[Main]["pro"][j])
      /\ IsValid("param", slots["pro"][own[Main]["pro"][j]].param)
  BY InitializeNeeds DEF Initialized
<1>2. Returns(Main) /\ UNCHANGED <<manager, pc, call, seen, own, task, lost>>
  BY <1>1 DEF Initialized
<1>3. Script(Main)[at[Main]][1] = "initialize"
  BY <1>1
<1> QED
  BY <1>1, <1>2, <1>3, NextCallKeeps

\* run() at its middle.
LEMMA MainPlace ==
    ASSUME InstanceInv, Active(Main), at' = [at EXCEPT ![Main] = @ + 1], job' = job, pc' = pc
    PROVE  /\ at'[Main] = at[Main] + 1 /\ at[Main] \in Nat /\ StartAt \in Nat
           /\ StartAt' = StartAt /\ \A u : Script(u)' = Script(u)
           /\ \A u \in Users : u # Main => at'[u] = at[u]
           /\ \A u \in Users : at'[u] <= Len(Script(u)) + 1
           /\ pc[Main] = "idle" => \A u \in Users : Finished(u)' => pc'[u] = "idle"
           /\ Script(Main)[at[Main]] = <<"start", "alg", 1>> <=> at[Main] = StartAt
           /\ Script(Main)[at[Main]] = <<"join", "alg", 1>> <=> at[Main] = StartAt + 1
<1>1. /\ Main \in Users /\ JobOK /\ own[Main] \in IdLists /\ GotBefore(Main, at[Main], own[Main])
      /\ at[Main] \in DOMAIN Script(Main) /\ at[Main] \in Nat /\ at \in [Users -> Nat \ {0}]
  BY GotNow, UserTypes DEF Active
<1>2. /\ StartAt \in Nat
      /\ Script(Main)[at[Main]] = <<"start", "alg", 1>> <=> at[Main] = StartAt
      /\ Script(Main)[at[Main]] = <<"join", "alg", 1>> <=> at[Main] = StartAt + 1
  BY <1>1, MainNeeds
<1>3. /\ at'[Main] = at[Main] + 1 /\ \A u \in Users : u # Main => at'[u] = at[u]
      /\ StartAt' = StartAt /\ \A u : Script(u)' = Script(u)
  BY <1>1, ScriptStays
<1>4. \A u \in Users : at'[u] <= Len(Script(u)) + 1
  <2>1. at'[Main] <= Len(Script(Main)) + 1
    BY <1>1, <1>3, ScriptType
  <2>2. \A u \in Users : at[u] <= Len(Script(u)) + 1
    BY DEF InstanceInv, PlaceInv
  <2> QED
    BY <1>3, <2>1, <2>2
<1>5. pc[Main] = "idle" => \A u \in Users : Finished(u)' => pc'[u] = "idle"
  <2>1. \A u \in Users : u # Main => (Finished(u)' <=> Finished(u))
    BY <1>3 DEF Finished
  <2> QED
    BY <2>1 DEF InstanceInv, PlaceInv
<1> QED
  BY <1>1, <1>2, <1>3, <1>4, <1>5

LEMMA StartThreadsKeeps ==
    ASSUME InstanceInv, StartThreads
    PROVE  InstanceInv'
<1>1. /\ Active(Main) /\ pc[Main] = "idle" /\ Main \in Users
      /\ Script(Main)[at[Main]] = <<"start", "alg", 1>>
  BY CallIsActive, UserTypes DEF StartThreads
<1>2. Script(Main)[at[Main]][1] = "start"
  BY <1>1
<1>3. /\ running' \subseteq Threads /\ at' = [at EXCEPT ![Main] = @ + 1]
      /\ UNCHANGED <<manager, pc, call, seen, own, job, lost>>
      /\ job' = job /\ pc' = pc
  BY DEF StartThreads, Returns
<1>4. /\ at'[Main] = at[Main] + 1 /\ at[Main] \in Nat /\ StartAt \in Nat
      /\ StartAt' = StartAt /\ \A u : Script(u)' = Script(u)
      /\ \A u \in Users : u # Main => at'[u] = at[u]
      /\ \A u \in Users : at'[u] <= Len(Script(u)) + 1
      /\ \A u \in Users : Finished(u)' => pc'[u] = "idle"
      /\ at[Main] = StartAt
  BY <1>1, <1>3, MainPlace
<1>5. \A u \in Threads : u \in Users /\ u # Main
  BY UserTypes
<1>6. /\ job # 0 /\ running = {}
      /\ \A u \in Threads : pc[u] = "idle" /\ at[u] = 1
  BY <1>1, <1>4 DEF InstanceInv, PlaceInv, Active
<1>7. PlaceInv'
  <2>1. \A u \in Threads \ running' : pc'[u] = "idle" /\ at'[u] = 1
    BY <1>3, <1>4, <1>5, <1>6
  <2>2. ~(at'[Main] <= StartAt') /\ ~(at'[Main] > StartAt' + 1) /\ job' # 0
    BY <1>3, <1>4, <1>6
  <2> QED
    BY <1>3, <1>4, <2>1, <2>2 DEF PlaceInv
<1> QED
  BY <1>1, <1>2, <1>3, <1>7, PassKeeps

LEMMA JoinKeeps ==
    ASSUME InstanceInv, Join
    PROVE  InstanceInv'
<1>1. /\ Active(Main) /\ pc[Main] = "idle" /\ Main \in Users
      /\ Script(Main)[at[Main]] = <<"join", "alg", 1>>
  BY CallIsActive, UserTypes DEF Join
<1>2. Script(Main)[at[Main]][1] = "join"
  BY <1>1
<1>3. /\ at' = [at EXCEPT ![Main] = @ + 1] /\ running' = running
      /\ UNCHANGED <<manager, pc, call, seen, own, job, lost>>
      /\ job' = job /\ pc' = pc /\ running \subseteq Threads
  BY DEF Join, Returns, task, InstanceInv, TypeOK
<1>4. /\ at'[Main] = at[Main] + 1 /\ at[Main] \in Nat /\ StartAt \in Nat
      /\ StartAt' = StartAt /\ \A u : Script(u)' = Script(u)
      /\ \A u \in Users : u # Main => at'[u] = at[u]
      /\ \A u \in Users : at'[u] <= Len(Script(u)) + 1
      /\ \A u \in Users : Finished(u)' => pc'[u] = "idle"
      /\ at[Main] = StartAt + 1
  BY <1>1, <1>3, MainPlace
<1>5. \A u \in Threads : u \in Users /\ u # Main
  BY UserTypes
<1>6. /\ job # 0
      /\ \A u \in Threads \ running : pc[u] = "idle" /\ at[u] = 1
  BY <1>1 DEF InstanceInv, PlaceInv, Active
<1>7. PlaceInv'
  <2>1. \A u \in Threads \ running' : pc'[u] = "idle" /\ at'[u] = 1
    BY <1>3, <1>4, <1>5, <1>6
  <2>2. \A u \in running' : Finished(u)'
    <3>1. \A u \in running : Finished(u) /\ u \in Users /\ u # Main
      BY <1>3, <1>5 DEF Join
    <3> QED
      BY <1>3, <1>4, <3>1 DEF Finished
  <2>3. ~(at'[Main] <= StartAt') /\ job' # 0
    BY <1>3, <1>4, <1>6
  <2> QED
    BY <1>3, <1>4, <2>1, <2>2, <2>3 DEF PlaceInv
<1> QED
  BY <1>1, <1>2, <1>3, <1>7, PassKeeps

-----------------------------------------------------------------------------
(* Counting.                                                               *)

\* A call with another list of what is left to do.
LEMMA TodoSet ==
    ASSUME call \in [Users -> CallStates], NEW t \in Users, NEW s \in Seq(Kinds \X Nat),
           call' = [call EXCEPT ![t].todo = s]
    PROVE  /\ call' \in [Users -> CallStates] /\ \A u \in Users : u # t => call'[u] = call[u]
           /\ call'[t].todo = s /\ call'[t].op = call[t].op /\ call'[t].kind = call[t].kind
           /\ call'[t].id = call[t].id /\ call'[t].drop = call[t].drop
<1>1. call[t] \in CallStates
  OBVIOUS
<1> DEFINE c == [call[t] EXCEPT !.todo = s]
<1>2. /\ c \in CallStates /\ c.todo = s /\ c.op = call[t].op /\ c.kind = call[t].kind
      /\ c.id = call[t].id /\ c.drop = call[t].drop
  BY <1>1 DEF CallStates
<1>3. call' = [call EXCEPT ![t] = c]
  OBVIOUS
<1> HIDE DEF c
<1> QED
  BY <1>2, <1>3

LEMMA DropSet ==
    ASSUME call \in [Users -> CallStates], NEW t \in Users, NEW s \in Seq(Kinds \X Nat),
           call' = [call EXCEPT ![t].drop = s]
    PROVE  /\ call' \in [Users -> CallStates] /\ \A u \in Users : u # t => call'[u] = call[u]
           /\ call'[t].drop = s /\ call'[t].op = call[t].op /\ call'[t].kind = call[t].kind
           /\ call'[t].id = call[t].id /\ call'[t].todo = call[t].todo
<1>1. call[t] \in CallStates
  OBVIOUS
<1> DEFINE c == [call[t] EXCEPT !.drop = s]
<1>2. /\ c \in CallStates /\ c.drop = s /\ c.op = call[t].op /\ c.kind = call[t].kind
      /\ c.id = call[t].id /\ c.todo = call[t].todo
  BY <1>1 DEF CallStates
<1>3. call' = [call EXCEPT ![t] = c]
  OBVIOUS
<1> HIDE DEF c
<1> QED
  BY <1>2, <1>3

\* A step within the work on an object.
LEMMA WithinWork ==
    ASSUME InstanceInv, NEW t \in Users, Working(t),
           NEW p \in {"counting", "writing", "discarding"}, pc' = [pc EXCEPT ![t] = p],
           \A u \in Users : u # t => call'[u] = call[u],
           at' = at, own' = own, job' = job, running' = running, mutex' = mutex
    PROVE  /\ PlaceInv' /\ GotInv' /\ NothingThrows'
           /\ pc' \in [Users -> {"idle", "locking", "counting", "writing", "discarding", "thrown"}]
           /\ pc'[t] = p /\ \A u \in Users : u # t => pc'[u] = pc[u]
           /\ \A u \in Users : Working(u)' <=> Working(u)
           /\ Script(t)' = Script(t)
           /\ \A u \in Users : u # t => AtCallInv(u)'
           /\ IdsStay /\ (\A u \in Users : u # t /\ Working(u) => SlotKept(call[u].kind, call[u].id))
                => \A u \in Users : u # t => WorkInv(u)'
<1>1. /\ TypeOK /\ PlaceInv /\ GotInv /\ NothingThrows
      /\ \A u \in Users : AtCallInv(u) /\ WorkInv(u)
  BY DEF InstanceInv
<1>2. /\ pc' \in [Users -> {"idle", "locking", "counting", "writing", "discarding", "thrown"}]
      /\ pc'[t] = p /\ \A u \in Users : u # t => pc'[u] = pc[u]
  BY <1>1 DEF TypeOK
<1>3. \A u \in Users : Working(u)' <=> Working(u)
  BY <1>2 DEF Working
<1>4. Active(t)
  BY BusyIsActive DEF Working
<1>5. PlaceInv' /\ GotInv' /\ NothingThrows' /\ Script(t)' = Script(t)
  BY <1>1, <1>2, <1>4, PlaceStays, GotStays, ScriptStays DEF NothingThrows
<1>6. \A u \in Users : u # t => AtCallInv(u)'
  BY <1>1, <1>2, AtCallKept
<1>7. ASSUME IdsStay, \A u \in Users : u # t /\ Working(u) => SlotKept(call[u].kind, call[u].id)
      PROVE  \A u \in Users : u # t => WorkInv(u)'
  BY <1>1, <1>3, <1>7, WorkInvKept
<1> QED
  BY <1>2, <1>3, <1>5, <1>6, <1>7

\* Where the objects and the ids stay as well.
LEMMA CalmWork ==
    ASSUME InstanceInv, NEW t \in Users, Working(t),
           NEW p \in {"counting", "writing", "discarding"}, pc' = [pc EXCEPT ![t] = p],
           \A u \in Users : u # t => call'[u] = call[u],
           call'[t].kind = call[t].kind, call'[t].id = call[t].id, call'[t].op = call[t].op,
           call'[t].drop = call[t].drop,
           at' = at, own' = own, job' = job, running' = running, mutex' = mutex,
           slots' = slots, shelved' = shelved, TypeOK', AtCallInv(t)', WorkInv(t)'
    PROVE  InstanceInv'
<1>1. TypeOK /\ ShelvedAreFree /\ OwnInv /\ RandomInv /\ PartInv /\ ReferInv
  BY DEF InstanceInv
<1>2. IdsStay /\ \A u \in Users : SlotKept(call[u].kind, call[u].id)
  BY DEF IdsStay, Ids, SlotKept
<1>3. /\ PlaceInv' /\ GotInv' /\ NothingThrows'
      /\ \A u \in Users : Working(u)' <=> Working(u)
      /\ \A u \in Users : u # t => AtCallInv(u)' /\ WorkInv(u)'
  BY <1>2, WithinWork
<1>4. Calm(t) /\ DropsStay
  BY <1>3 DEF Calm, WorkGoesOn, DropsStay, Advances
<1>5. ShelvedAreFree' /\ OwnInv' /\ RandomInv' /\ PartInv' /\ ReferInv'
  BY <1>1, <1>4, CalmShelved, CalmOwn, CalmRandom, CalmParts, CalmReferences DEF Calm
<1> QED
  BY <1>3, <1>5 DEF InstanceInv

\* What is counted next has an id.
LEMMA CountNeeds ==
    ASSUME InstanceInv, NEW t \in Users, Working(t), call[t].todo # <<>>
    PROVE  /\ Next1(t)[1] \in Kinds /\ Next1(t)[2] \in Ids(Next1(t)[1])
           /\ Tail(call[t].todo) \in Seq(Kinds \X Nat)
           /\ \A n \in DOMAIN Tail(call[t].todo) :
                \E m \in DOMAIN call[t].todo : Tail(call[t].todo)[n] = call[t].todo[m]
<1>1. /\ \A n \in DOMAIN call[t].todo : call[t].todo[n][2] \in Ids(call[t].todo[n][1])
      /\ call[t].todo \in Seq(Kinds \X Nat)
  BY CallType DEF InstanceInv, WorkInv
<1> DEFINE s == call[t].todo
<1> HIDE DEF s
<1>2. /\ s \in Seq(Kinds \X Nat) /\ s # <<>>
      /\ \A n \in DOMAIN s : s[n][2] \in Ids(s[n][1])
  BY <1>1 DEF s
<1>3. 1 \in DOMAIN s /\ Head(s) = s[1] /\ s[1] \in Kinds \X Nat
  BY <1>2
<1>4. /\ Tail(s) \in Seq(Kinds \X Nat)
      /\ \A n \in DOMAIN Tail(s) : n + 1 \in DOMAIN s /\ Tail(s)[n] = s[n + 1]
  BY <1>2
<1>5. s[1][1] \in Kinds /\ s[1][2] \in Ids(s[1][1])
  BY <1>2, <1>3
<1> QED
  BY <1>3, <1>4, <1>5 DEF Next1, s

LEMMA CountReadKeeps ==
    ASSUME InstanceInv, NEW t \in Users, CountRead(t)
    PROVE  InstanceInv'
<1>1. /\ Working(t) /\ pc[t] = "counting" /\ call[t].todo # <<>>
      /\ pc' = [pc EXCEPT ![t] = "writing"] /\ call' = call
      /\ at' = at /\ own' = own /\ job' = job /\ running' = running /\ mutex' = mutex
      /\ slots' = slots /\ shelved' = shelved /\ occupied' = occupied /\ lost' = lost
  BY DEF CountRead, HasNext, Working, Goto, manager, task
<1> DEFINE k == Next1(t)[1]
           i == Next1(t)[2]
<1>2. k \in Kinds /\ i \in Ids(k)
  BY <1>1, CountNeeds
<1>3. /\ seen' = [seen EXCEPT ![t] = [size |-> Len(occupied[k]), count |-> occupied[k][i]]]
  BY DEF CountRead
<1>4. TypeOK /\ AtCallInv(t) /\ WorkInv(t)
  BY DEF InstanceInv
<1>5. pc' \in [Users -> {"idle", "locking", "counting", "writing", "discarding", "thrown"}]
      /\ pc'[t] = "writing" /\ Working(t)'
  BY <1>1, <1>4 DEF TypeOK, Working
<1>6. seen' \in [Users -> [size : Nat, count : 0..Modulus - 1]]
  <2>1. Len(occupied[k]) \in Nat /\ occupied[k][i] \in 0..Modulus - 1
    <3> HIDE DEF k, i
    <3>1. PICK o : o = occupied[k]
      OBVIOUS
    <3>2. o \in Seq(0..Modulus - 1) /\ i \in DOMAIN o
      BY <1>2, <1>4, <3>1, SlotFacts
    <3>3. Len(o) \in Nat /\ i \in 1..Len(o)
      BY <3>2
    <3>4. o[i] \in 0..Modulus - 1
      BY <3>2, <3>3, ElementOfSeq
    <3> QED
      BY <3>1, <3>3, <3>4
  <2> HIDE DEF k, i
  <2> QED
    BY <1>3, <1>4, <2>1 DEF TypeOK
<1>7. TypeOK'
  BY <1>1, <1>4, <1>5, <1>6 DEF TypeOK, Ids
<1>8. AtCallInv(t)'
  <2>1. Script(t)' = Script(t)
    BY <1>1, ScriptStays
  <2> QED
    BY <1>1, <1>4, <1>5, <2>1 DEF AtCallInv, Removes
<1>9. WorkInv(t)'
  <2>1. IdsStay /\ SlotKept(call[t].kind, call[t].id)
    BY <1>1 DEF IdsStay, Ids, SlotKept
  <2> QED
    BY <1>1, <1>4, <1>5, <2>1, WorkInvKept
<1> QED
  BY <1>1, <1>7, <1>8, <1>9, CalmWork

LEMMA CountWriteKeeps ==
    ASSUME InstanceInv, NEW t \in Users, CountWrite(t)
    PROVE  InstanceInv'
<1>1. /\ Working(t) /\ pc[t] = "writing" /\ pc' = [pc EXCEPT ![t] = "counting"]
      /\ call' = [call EXCEPT ![t].todo = Tail(@)]
      /\ at' = at /\ own' = own /\ job' = job /\ running' = running /\ mutex' = mutex
      /\ slots' = slots /\ shelved' = shelved
      /\ seen' = [seen EXCEPT ![t] = NotSeen]
  BY DEF CountWrite, Working, Goto, task
<1>2. TypeOK /\ AtCallInv(t) /\ WorkInv(t)
  BY DEF InstanceInv
<1>3. call[t].todo # <<>>
  BY <1>1, <1>2 DEF AtCallInv
<1> DEFINE k == Next1(t)[1]
           i == Next1(t)[2]
           s == Tail(call[t].todo)
<1>4. /\ k \in Kinds /\ i \in Ids(k) /\ s \in Seq(Kinds \X Nat)
      /\ \A n \in DOMAIN s : \E m \in DOMAIN call[t].todo : s[n] = call[t].todo[m]
  BY <1>1, <1>3, CountNeeds
<1>5. call' = [call EXCEPT ![t].todo = s]
  BY <1>1
<1> HIDE DEF s
<1>6. /\ call' \in [Users -> CallStates] /\ \A u \in Users : u # t => call'[u] = call[u]
      /\ call'[t].todo = s /\ call'[t].op = call[t].op /\ call'[t].kind = call[t].kind
      /\ call'[t].id = call[t].id /\ call'[t].drop = call[t].drop
  BY <1>2, <1>4, <1>5, TodoSet DEF TypeOK
<1>7. pc' \in [Users -> {"idle", "locking", "counting", "writing", "discarding", "thrown"}]
      /\ pc'[t] = "counting" /\ Working(t)'
  BY <1>1, <1>2 DEF TypeOK, Working
<1>8. occupied' = occupied \/ \E n \in 0..Modulus - 1 : occupied' = [occupied EXCEPT ![k][i] = n]
  <2> DEFINE count == seen[t].count
             changed == IF call[t].op = "add" THEN IF count = Modulus - 1 THEN 0 ELSE count + 1
                        ELSE IF count = 0 THEN Modulus - 1 ELSE count - 1
  <2>1. count \in 0..Modulus - 1
    BY <1>2 DEF TypeOK
  <2>2. occupied' = occupied \/ occupied' = [occupied EXCEPT ![k][i] = changed]
    BY DEF CountWrite
  <2> HIDE DEF count, k, i
  <2>3. changed \in 0..Modulus - 1
    BY <2>1, NumbersAssumption
  <2> QED
    BY <2>2, <2>3
<1> HIDE DEF k, i
<1>9. /\ occupied' \in [Kinds -> Seq(0..Modulus - 1)]
      /\ \A l \in Kinds : Len(occupied'[l]) = Len(slots[l])
  <2>1. /\ occupied \in [Kinds -> Seq(0..Modulus - 1)]
        /\ \A l \in Kinds : Len(occupied[l]) = Len(slots[l]) /\ DOMAIN occupied[k] = Ids(k)
    BY <1>2, <1>4, SlotFacts DEF TypeOK
  <2>2. CASE occupied' = occupied
    BY <2>1, <2>2
  <2>3. ASSUME NEW n \in 0..Modulus - 1, occupied' = [occupied EXCEPT ![k][i] = n]
        PROVE  /\ occupied' \in [Kinds -> Seq(0..Modulus - 1)]
               /\ \A l \in Kinds : Len(occupied'[l]) = Len(occupied[l])
    <3>1. PICK o : o = occupied[k]
      OBVIOUS
    <3>2. o \in Seq(0..Modulus - 1) /\ i \in DOMAIN o
      BY <1>4, <2>1, <3>1
    <3>3. [o EXCEPT ![i] = n] \in Seq(0..Modulus - 1) /\ Len([o EXCEPT ![i] = n]) = Len(o)
      BY <3>2
    <3>4. occupied' = [occupied EXCEPT ![k] = [o EXCEPT ![i] = n]]
      BY <2>3, <3>1
    <3> QED
      BY <1>4, <2>1, <3>1, <3>3, <3>4
  <2> QED
    BY <1>8, <2>1, <2>2, <2>3
<1>10. seen' \in [Users -> [size : Nat, count : 0..Modulus - 1]] /\ lost' \in BOOLEAN
  <2>1. NotSeen \in [size : Nat, count : 0..Modulus - 1]
    BY NumbersAssumption DEF NotSeen
  <2>2. lost' = TRUE \/ lost' = lost
    BY DEF CountWrite
  <2> QED
    BY <1>1, <1>2, <2>1, <2>2 DEF TypeOK
<1>11. TypeOK'
  <2>1. \A u \in Users : call'[u].id \in Ids(call'[u].kind) \cup {NoId}
    BY <1>2, <1>6 DEF TypeOK
  <2> QED
    BY <1>1, <1>2, <1>6, <1>7, <1>9, <1>10, <2>1 DEF TypeOK, Ids
<1>12. AtCallInv(t)'
  <2>1. Script(t)' = Script(t)
    BY <1>1, ScriptStays
  <2> QED
    BY <1>1, <1>2, <1>6, <1>7, <2>1 DEF AtCallInv, Removes
<1>13. WorkInv(t)'
  <2>1. \A l : Ids(l)' = Ids(l)
    BY <1>1 DEF Ids
  <2>2. \A n \in DOMAIN s : s[n][2] \in Ids(s[n][1])
    BY <1>1, <1>2, <1>4 DEF WorkInv
  <2>3. slots[call[t].kind][call[t].id] # NULL
    BY <1>1, <1>2, <1>3 DEF WorkInv
  <2>4. Removes(t)' <=> Removes(t)
    BY <1>6 DEF Removes
  <2> QED
    BY <1>1, <1>2, <1>3, <1>6, <2>1, <2>2, <2>3, <2>4 DEF WorkInv
<1> QED
  BY <1>1, <1>6, <1>11, <1>12, <1>13, CalmWork

-----------------------------------------------------------------------------
(* Removing.                                                               *)

\* Fewer random generators are held.
LEMMA RandomShrinks ==
    ASSUME RandomInv,
           \A k \in {"pro", "alg"} : \A i \in Ids(k)' : HasRandom(k, i)' =>
             /\ i \in Ids(k) /\ HasRandom(k, i) /\ slots'[k][i].rnd = slots[k][i].rnd
             /\ IsValid("rnd", slots[k][i].rnd)'
    PROVE  RandomInv'
  BY DEF RandomInv

\* A part of a composition that has gone is dropped; what is not dropped stays.
LEMMA OneDrops ==
    ASSUME InstanceInv, NEW t \in Users, NEW u \in Users, Dropped(t) # <<>>, Dropped(u) # <<>>
    PROVE  u = t
<1>1. \A v \in Users : Dropped(v) # <<>> => Working(v) /\ 1 \in DOMAIN Dropped(v)
  <2>1. \A v \in Users : call[v].drop \in Seq(Kinds \X Nat)
    BY CallType DEF InstanceInv
  <2>2. ASSUME NEW v \in Users, Dropped(v) # <<>>
        PROVE  Working(v) /\ 1 \in DOMAIN Dropped(v)
    <3>1. Working(v) /\ Dropped(v) = call[v].drop
      BY <2>2 DEF Dropped
    <3> QED
      BY <2>1, <2>2, <3>1
  <2> QED
    BY <2>2
<1>2. \A v \in Users : Dropped(v) # <<>> => call[v].kind = "pro"
  BY <1>1 DEF InstanceInv, PartInv
<1> QED
  BY <1>1, <1>2, WorkFacts

LEMMA PartsDropped ==
    ASSUME InstanceInv, NEW t \in Users,
           own' = own, job' = job, at' = at,
           slots'["alg"] = slots["alg"], slots'["pro"] = slots["pro"],
           \A u \in Users : u # t => Dropped(u)' = Dropped(u),
           \A u \in Users : Dropped(u) # <<>> => call'[u].kind = call[u].kind,
           Dropped(t) = <<>> => Dropped(t)' = <<>>,
           \/ /\ Dropped(t)' = Dropped(t)
              /\ \A i : IsValid("param", i) => IsValid("param", i)'
           \/ /\ Dropped(t) # <<>> /\ Dropped(t)' = Tail(Dropped(t))
              /\ \A i : IsValid("param", i) => IsValid("param", i)' \/ i = Dropped(t)[1][2]
    PROVE  PartInv'
<1>0. TypeOK /\ PartInv
  BY DEF InstanceInv
<1>1. /\ Ids("alg")' = Ids("alg") /\ Ids("pro")' = Ids("pro")
      /\ \A i : PartsOf(i)' = PartsOf(i)
  BY DEF Ids, PartsOf
<1>2. \A u \in Users : \A j : j \in ToRemove(u, "param")' => j \in ToRemove(u, "param")
  BY <1>0, ToRemoveShrinks DEF Advances, Kinds
<1>3. \A u \in Users : Dropped(u) \in Seq(Kinds \X Nat)
  <2>1. \A u \in Users : call[u].drop \in Seq(Kinds \X Nat) /\ <<>> \in Seq(Kinds \X Nat)
    BY <1>0, CallType
  <2> QED
    BY <2>1 DEF Dropped
<1>4. ASSUME NEW u \in Users
      PROVE  \A n \in DOMAIN Dropped(u)' : \E m \in DOMAIN Dropped(u) :
               Dropped(u)'[n] = Dropped(u)[m]
  <2>1. CASE Dropped(u)' = Dropped(u)
    BY <2>1
  <2>2. CASE u = t /\ Dropped(t) # <<>> /\ Dropped(t)' = Tail(Dropped(t))
    <3>1. PICK s : s = Dropped(t)
      OBVIOUS
    <3>2. \A n \in DOMAIN Tail(s) : n + 1 \in DOMAIN s /\ Tail(s)[n] = s[n + 1]
      BY <1>3, <2>2, <3>1
    <3> QED
      BY <2>2, <3>1, <3>2
  <2> QED
    BY <2>1, <2>2
<1>5. ASSUME NEW u \in Users, NEW n \in DOMAIN Dropped(u)', NEW m \in DOMAIN Dropped(u)',
             Dropped(u)'[n] = Dropped(u)'[m]
      PROVE  m = n
  <2>0. \A x, y \in DOMAIN Dropped(u) : Dropped(u)[x] = Dropped(u)[y] => x = y
    BY <1>0 DEF PartInv
  <2>1. CASE Dropped(u)' = Dropped(u)
    BY <1>5, <2>0, <2>1
  <2>2. CASE u = t /\ Dropped(t) # <<>> /\ Dropped(t)' = Tail(Dropped(t))
    <3>1. PICK s : s = Dropped(t)
      OBVIOUS
    <3>2. /\ \A x \in DOMAIN Tail(s) : x + 1 \in DOMAIN s /\ Tail(s)[x] = s[x + 1] /\ x \in Nat
          /\ \A x, y \in DOMAIN s : s[x] = s[y] => x = y
      BY <1>3, <2>0, <2>2, <3>1
    <3>3. n + 1 = m + 1 /\ n \in Nat /\ m \in Nat
      BY <1>5, <2>2, <3>1, <3>2
    <3> QED
      BY <3>3
  <2> QED
    BY <2>1, <2>2
<1>6. ASSUME NEW i, IsValid("param", i), ~IsValid("param", i)'
      PROVE  /\ \A u \in Users : \A n \in DOMAIN Dropped(u)' : Dropped(u)'[n][2] # i
             /\ \A m \in Ids("pro") : \A p \in DOMAIN PartsOf(m) : PartsOf(m)[p] # i
  <2>1. Dropped(t) # <<>> /\ Dropped(t)' = Tail(Dropped(t)) /\ i = Dropped(t)[1][2]
    BY <1>6
  <2>2. PICK s : s = Dropped(t)
    OBVIOUS
  <2>3. /\ s \in Seq(Kinds \X Nat) /\ s # <<>> /\ s[1][2] = i
        /\ \A x, y \in DOMAIN s : s[x] = s[y] => x = y
        /\ \A x \in DOMAIN s : s[x][1] = "param"
    BY <1>0, <1>3, <2>1, <2>2 DEF PartInv
  <2>4. /\ 1 \in DOMAIN s /\ \A x \in DOMAIN s : s[x] = <<s[x][1], s[x][2]>>
        /\ \A x \in DOMAIN Tail(s) : x + 1 \in DOMAIN s /\ Tail(s)[x] = s[x + 1] /\ x + 1 # 1
    BY <2>3
  <2>5. \A x \in DOMAIN Tail(s) : Tail(s)[x][2] # i
    <3>1. ASSUME NEW x \in DOMAIN Tail(s), Tail(s)[x][2] = i
          PROVE  FALSE
      <4>1. s[x + 1] = <<"param", i>> /\ s[1] = <<"param", i>>
        BY <2>3, <2>4, <3>1
      <4> QED
        BY <2>3, <2>4, <3>1, <4>1
    <3> QED
      BY <3>1
  <2>6. \A m \in Ids("pro") : \A p \in DOMAIN PartsOf(m) : PartsOf(m)[p] # i
    BY <1>0, <2>2, <2>3, <2>4 DEF PartInv
  <2>7. ASSUME NEW u \in Users, u # t, NEW n \in DOMAIN Dropped(u)'
        PROVE  FALSE
    <3>1. n \in DOMAIN Dropped(u)
      BY <2>7
    <3>2. Dropped(u) # <<>>
      BY <3>1
    <3> QED
      BY <2>1, <2>7, <3>2, OneDrops
  <2> QED
    BY <2>1, <2>2, <2>5, <2>6, <2>7
<1>7. /\ \A i \in Ids("alg") : slots["alg"][i] # NULL => slots["alg"][i].parts = <<>>
      /\ \A i \in Ids("pro") : \A p \in DOMAIN PartsOf(i) :
         /\ IsValid("param", PartsOf(i)[p])
         /\ \A m \in Ids("pro") : \A q \in DOMAIN PartsOf(m) :
              PartsOf(m)[q] = PartsOf(i)[p] => m = i /\ q = p
         /\ \A u \in Users : \A j \in ToRemove(u, "param") :
              own[u]["param"][j] # PartsOf(i)[p]
      /\ \A u \in Users : \A n \in DOMAIN Dropped(u) :
         /\ call[u].kind = "pro"
         /\ Dropped(u)[n][1] = "param" /\ IsValid("param", Dropped(u)[n][2])
         /\ \A i \in Ids("pro") : \A p \in DOMAIN PartsOf(i) :
              PartsOf(i)[p] # Dropped(u)[n][2]
         /\ \A v \in Users : \A j \in ToRemove(v, "param") :
              own[v]["param"][j] # Dropped(u)[n][2]
  BY <1>0 DEF PartInv
<1>8. ASSUME NEW i \in Ids("pro"), NEW p \in DOMAIN PartsOf(i)
      PROVE  IsValid("param", PartsOf(i)[p])'
  <2>1. PICK x : x = PartsOf(i)[p]
    OBVIOUS
  <2>2. IsValid("param", x)'
    BY <1>6, <1>7, <2>1
  <2> QED
    BY <1>1, <2>1, <2>2
<1>9. ASSUME NEW u \in Users, NEW n \in DOMAIN Dropped(u)'
      PROVE  /\ call'[u].kind = "pro"
             /\ Dropped(u)'[n][1] = "param" /\ IsValid("param", Dropped(u)[n][2])'
             /\ \A i \in Ids("pro") : \A p \in DOMAIN PartsOf(i) :
                  PartsOf(i)[p] # Dropped(u)'[n][2]
             /\ \A v \in Users : \A j \in ToRemove(v, "param") :
                  own[v]["param"][j] # Dropped(u)'[n][2]
  <2>1. PICK m \in DOMAIN Dropped(u) : Dropped(u)'[n] = Dropped(u)[m]
    BY <1>4, <1>9
  <2>2. PICK x : x = Dropped(u)'[n][2]
    OBVIOUS
  <2>3. IsValid("param", x)'
    BY <1>6, <1>7, <1>9, <2>1, <2>2
  <2>4. Dropped(u) # <<>>
    BY <2>1
  <2> QED
    BY <1>7, <2>1, <2>2, <2>3, <2>4
<1> QED
  BY <1>1, <1>2, <1>5, <1>7, <1>8, <1>9 DEF PartInv

\* What holds of the parts still holds when some compositions have gone, and nothing
\* that is a part has.
LEMMA FewerParts ==
    ASSUME PartInv,
           \A i \in Ids("alg")' : slots'["alg"][i] # NULL => slots'["alg"][i].parts = <<>>,
           \A i \in Ids("pro")' : \/ PartsOf(i)' = <<>>
                                  \/ i \in Ids("pro") /\ PartsOf(i)' = PartsOf(i),
           \A u \in Users : \/ Dropped(u)' = <<>>
                            \/ Dropped(u)' = Dropped(u) /\ call'[u].kind = call[u].kind,
           \A i : IsValid("param", i) /\ IsPart(i) => IsValid("param", i)',
           \A u \in Users : \A j \in ToRemove(u, "param")' : \A x : x = own'[u]["param"][j] =>
             \/ j \in ToRemove(u, "param") /\ x = own[u]["param"][j]
             \/ ~IsPart(x)
    PROVE  PartInv'
<1>1. ASSUME NEW i \in Ids("pro")', NEW p \in DOMAIN PartsOf(i)'
      PROVE  /\ i \in Ids("pro") /\ PartsOf(i)' = PartsOf(i) /\ p \in DOMAIN PartsOf(i)
             /\ IsPart(PartsOf(i)[p])
  <2>1. PartsOf(i)' # <<>>
    BY <1>1
  <2> QED
    BY <1>1, <2>1 DEF IsPart
<1>2. ASSUME NEW u \in Users, NEW n \in DOMAIN Dropped(u)'
      PROVE  /\ Dropped(u)' = Dropped(u) /\ n \in DOMAIN Dropped(u)
             /\ call'[u].kind = call[u].kind /\ IsPart(Dropped(u)[n][2])
  <2>1. Dropped(u)' # <<>>
    BY <1>2
  <2> QED
    BY <1>2, <2>1 DEF IsPart
<1>3. ASSUME NEW i \in Ids("pro")', NEW p \in DOMAIN PartsOf(i)'
      PROVE  /\ IsValid("param", PartsOf(i)[p])'
             /\ \A m \in Ids("pro")' : \A q \in DOMAIN PartsOf(m)' :
                  PartsOf(m)'[q] = PartsOf(i)'[p] => m = i /\ q = p
             /\ \A u \in Users : \A j \in ToRemove(u, "param")' :
                  own'[u]["param"][j] # PartsOf(i)'[p]
  <2>1. PICK x : x = PartsOf(i)[p]
    OBVIOUS
  <2>2. IsPart(x) /\ PartsOf(i)' = PartsOf(i) /\ i \in Ids("pro") /\ p \in DOMAIN PartsOf(i)
    BY <1>1, <1>3, <2>1
  <2>3. IsValid("param", x)
    BY <2>1, <2>2 DEF PartInv
  <2>4. IsValid("param", x)'
    BY <2>2, <2>3
  <2>5. \A u \in Users : \A j \in ToRemove(u, "param")' : own'[u]["param"][j] # x
    BY <2>1, <2>2 DEF PartInv
  <2>6. \A m \in Ids("pro")' : \A q \in DOMAIN PartsOf(m)' :
          PartsOf(m)'[q] = PartsOf(i)'[p] => m = i /\ q = p
    BY <1>1, <2>2 DEF PartInv
  <2> QED
    BY <2>1, <2>2, <2>4, <2>5, <2>6
<1>4. ASSUME NEW u \in Users, NEW n \in DOMAIN Dropped(u)'
      PROVE  /\ call'[u].kind = "pro"
             /\ Dropped(u)'[n][1] = "param" /\ IsValid("param", Dropped(u)[n][2])'
             /\ \A m \in DOMAIN Dropped(u)' : Dropped(u)'[m] = Dropped(u)'[n] => m = n
             /\ \A i \in Ids("pro")' : \A p \in DOMAIN PartsOf(i)' :
                  PartsOf(i)'[p] # Dropped(u)'[n][2]
             /\ \A v \in Users : \A j \in ToRemove(v, "param")' :
                  own'[v]["param"][j] # Dropped(u)'[n][2]
  <2>1. PICK x : x = Dropped(u)[n][2]
    OBVIOUS
  <2>2. /\ IsPart(x) /\ Dropped(u)' = Dropped(u) /\ n \in DOMAIN Dropped(u)
        /\ call'[u].kind = call[u].kind
    BY <1>2, <1>4, <2>1
  <2>3. /\ call[u].kind = "pro" /\ Dropped(u)[n][1] = "param" /\ IsValid("param", x)
        /\ \A m \in DOMAIN Dropped(u) : Dropped(u)[m] = Dropped(u)[n] => m = n
        /\ \A i \in Ids("pro") : \A p \in DOMAIN PartsOf(i) : PartsOf(i)[p] # x
        /\ \A v \in Users : \A j \in ToRemove(v, "param") : own[v]["param"][j] # x
    BY <2>1, <2>2 DEF PartInv
  <2>4. IsValid("param", x)'
    BY <2>2, <2>3
  <2>5. \A v \in Users : \A j \in ToRemove(v, "param")' : own'[v]["param"][j] # x
    BY <2>2, <2>3
  <2>6. \A i \in Ids("pro")' : \A p \in DOMAIN PartsOf(i)' : PartsOf(i)'[p] # x
    BY <1>1, <2>3
  <2> QED
    BY <2>1, <2>2, <2>3, <2>4, <2>5, <2>6
<1> QED
  BY <1>3, <1>4 DEF PartInv

\* The shelf stays, or gets one more id.
Free(k, i) == slots[k][i] = NULL /\ Untouched(k, i)

LEMMA ShelfSame ==
    ASSUME ShelvedAreFree, shelved' = shelved, \A k \in Kinds : Ids(k)' = Ids(k),
           \A k \in Kinds : \A i \in Ids(k) : Free(k, i)' <=> Free(k, i)
    PROVE  ShelvedAreFree'
<1>1. \A k, i : OnShelf(k, i)' <=> OnShelf(k, i)
  BY DEF OnShelf
<1>2. \A k \in Kinds : \A i \in Ids(k) : OnShelf(k, i) <=> Free(k, i)
  BY DEF ShelvedAreFree, Free, Untouched
<1>3. \A k \in Kinds : \A i \in Ids(k)' : OnShelf(k, i)' <=> Free(k, i)'
  BY <1>1, <1>2
<1>4. \A k \in Kinds : \A p, q \in DOMAIN shelved'[k] : shelved'[k][p] = shelved'[k][q] => p = q
  BY DEF ShelvedAreFree
<1> QED
  BY <1>3, <1>4 DEF ShelvedAreFree, Free, Untouched

LEMMA ShelfMore ==
    ASSUME TypeOK, ShelvedAreFree, NEW l \in Kinds, NEW n \in Ids(l), ~Free(l, n), Free(l, n)',
           shelved' = [shelved EXCEPT ![l] = Append(@, n)], \A k \in Kinds : Ids(k)' = Ids(k),
           \A k \in Kinds : \A i \in Ids(k) : k # l \/ i # n => (Free(k, i)' <=> Free(k, i))
    PROVE  /\ ShelvedAreFree' /\ shelved' \in [Kinds -> Seq(Nat)]
           /\ \A k \in Kinds : \A p \in DOMAIN shelved'[k] : shelved'[k][p] \in Ids(k)
<1>1. \A k \in Kinds : \A i \in Ids(k) : OnShelf(k, i) <=> Free(k, i)
  BY DEF ShelvedAreFree, Free, Untouched
<1>2. ~OnShelf(l, n)
  BY <1>1
<1>3. /\ shelved' \in [Kinds -> Seq(Nat)]
      /\ \A p \in DOMAIN shelved'[l] : shelved'[l][p] \in Ids(l)
      /\ \A p, q \in DOMAIN shelved'[l] : shelved'[l][p] = shelved'[l][q] => p = q
      /\ \A m \in Ids(l) : (\E p \in DOMAIN shelved'[l] : shelved'[l][p] = m)
                                  <=> OnShelf(l, m) \/ m = n
      /\ \A k \in Kinds : k # l => shelved'[k] = shelved[k]
  BY <1>2, ShelfAppend
<1>4. ASSUME NEW k \in Kinds, NEW i \in Ids(k)
      PROVE  OnShelf(k, i)' <=> Free(k, i)'
  <2>1. CASE k = l
    <3>1. OnShelf(l, i)' <=> OnShelf(l, i) \/ i = n
      BY <1>3, <1>4, <2>1 DEF OnShelf
    <3> QED
      BY <1>1, <1>4, <2>1, <3>1
  <2>2. CASE k # l
    <3>1. OnShelf(k, i)' <=> OnShelf(k, i)
      BY <1>3, <2>2 DEF OnShelf
    <3> QED
      BY <1>1, <1>4, <2>2, <3>1
  <2> QED
    BY <2>1, <2>2
<1>5. \A k \in Kinds : \A p, q \in DOMAIN shelved'[k] : shelved'[k][p] = shelved'[k][q] => p = q
  BY <1>3 DEF ShelvedAreFree
<1>6. \A k \in Kinds : \A p \in DOMAIN shelved'[k] : shelved'[k][p] \in Ids(k)
  BY <1>3, SlotFacts
<1> QED
  BY <1>3, <1>4, <1>5, <1>6 DEF ShelvedAreFree, Free, Untouched

\* No thread begins to work on an object, and what is to be removed is still there.
LEMMA OwnShrinks ==
    ASSUME TypeOK, OwnInv, own' = own, job' = job, NEW t \in Users, Advances(t),
           \A u \in Users : \A x : WorksOn(u, x)' => WorksOn(u, x) /\ (Removes(u)' <=> Removes(u)),
           \A u \in Users, k \in Kinds : \A j \in ToRemove(u, k)' : \A i : i = own[u][k][j] =>
             slots'[k][i] # NULL \/ WorksOn(u, <<k, i>>)'
    PROVE  OwnInv'
<1>1. \A u \in Users, k \in Kinds : \A j : j \in ToRemove(u, k)' => j \in ToRemove(u, k)
  BY ToRemoveShrinks
<1>2. ASSUME NEW u \in Users, NEW k \in Kinds, NEW j \in ToRemove(u, k)'
      PROVE  /\ slots'[k][own[u][k][j]] # NULL \/ WorksOn(u, <<k, own[u][k][j]>>)'
             /\ \A v \in Users : WorksOn(v, <<k, own[u][k][j]>>)' => v = u /\ Removes(v)'
             /\ \A v \in Users : \A m \in ToRemove(v, k)' :
                  own[v][k][m] = own[u][k][j] => v = u /\ m = j
  <2>1. j \in ToRemove(u, k)
    BY <1>1, <1>2
  <2>2. PICK i : i = own[u][k][j]
    OBVIOUS
  <2>3. /\ \A v \in Users : WorksOn(v, <<k, i>>) => v = u /\ Removes(v)
        /\ \A v \in Users : \A m \in ToRemove(v, k) : own[v][k][m] = i => v = u /\ m = j
    BY <2>1, <2>2 DEF OwnInv
  <2>4. slots'[k][i] # NULL \/ WorksOn(u, <<k, i>>)'
    BY <1>2, <2>2
  <2>5. \A v \in Users : WorksOn(v, <<k, i>>)' => v = u /\ Removes(v)'
    BY <2>3
  <2>6. \A v \in Users : \A m \in ToRemove(v, k)' : own[v][k][m] = i => v = u /\ m = j
    BY <1>1, <2>3
  <2> QED
    BY <2>2, <2>4, <2>5, <2>6
<1> QED
  BY <1>2 DEF OwnInv

\* There are fewer objects, or as many.
LEMMA ReferShrinks ==
    ASSUME TypeOK, ReferInv, own' = own, job' = job, NEW t \in Users, Advances(t), IdsStay,
           \A k \in {"pro", "alg"} : \A i \in Ids(k)' : slots'[k][i] # NULL =>
             i \in Ids(k) /\ slots'[k][i] = slots[k][i],
           \A u \in Users : (Working(u) /\ call[u].op = "add")' =>
             /\ Working(u) /\ call[u].op = "add"
             /\ call'[u].kind = call[u].kind /\ call'[u].id = call[u].id
             /\ slots'[call[u].kind][call[u].id] = slots[call[u].kind][call[u].id]
    PROVE  ReferInv'
<1>1. \A u \in Users, k \in {"pro", "alg"} : \A j : j \in ToRemove(u, k)' =>
        j \in ToRemove(u, k) /\ own[u][k][j] \in Ids(k)
  <2>1. \A u \in Users, k \in {"pro", "alg"} : \A j : j \in ToRemove(u, k)' =>
          j \in ToRemove(u, k) /\ j \in DOMAIN own[u][k]
    BY ToRemoveShrinks DEF Kinds
  <2> QED
    BY <2>1, OwnType DEF Kinds
<1>2. \A u \in Users : OwnId(u, "pro")' = OwnId(u, "pro")
  BY DEF OwnId
<1>3. \A k \in {"pro", "alg"} : \A i \in Ids(k) : slots'[k][i] # NULL => slots'[k][i] = slots[k][i]
  BY DEF IdsStay, Kinds
<1>4. \A k \in {"pro", "alg"} : \A i \in Ids(k)' : slots'[k][i] # NULL =>
         \A l \in {"param", "pro", "rcr", "rnd"} : slots'[k][i][l] \in Ids(l)' \cup {NoId}
  <2>1. \A l \in {"param", "pro", "rcr", "rnd"} : Ids(l) \subseteq Ids(l)'
    BY DEF IdsStay, Kinds
  <2> QED
    BY <2>1 DEF ReferInv
<1>5. \A u \in Users, k \in {"pro", "alg"} : \A j \in ToRemove(u, k)' :
        slots'[k][own[u][k][j]] # NULL =>
          /\ slots'[k][own[u][k][j]].param = own[u]["param"][1]
          /\ k = "alg" => slots'[k][own[u][k][j]].pro = own[u]["pro"][j]
  BY <1>1, <1>3, SMTT(60) DEF ReferInv
<1>6. \A u \in Users : (Working(u) /\ call[u].op = "add")' =>
        /\ slots'[call'[u].kind][call'[u].id].param = own[u]["param"][1]
        /\ call'[u].kind = "alg" => slots'[call'[u].kind][call'[u].id].pro = OwnId(u, "pro")'
  BY <1>2 DEF ReferInv
<1> QED
  BY <1>4, <1>5, <1>6 DEF ReferInv

\* What is dropped next: the random generator of an object that is still there, or a part
\* of one that has gone.
LEMMA DropNeeds ==
    ASSUME InstanceInv, NEW t \in Users, Working(t), Removes(t), call[t].todo = <<>>,
           call[t].drop # <<>>
    PROVE  LET l == Head(call[t].drop)[1]
               n == Head(call[t].drop)[2]
               k == call[t].kind
               i == call[t].id
           IN  /\ l \in {"rnd", "param"} /\ n \in Ids(l) /\ slots[l][n] # NULL
               /\ call[t].drop \in Seq(Kinds \X Nat) /\ call[t].drop[1] = <<l, n>>
               /\ slots[k][i] # NULL =>
                    /\ l = "rnd" /\ n = slots[k][i].rnd /\ HasRandom(k, i)
                    /\ Tail(call[t].drop) = <<>> /\ Dropped(t) = <<>>
               /\ slots[k][i] = NULL => l = "param" /\ Dropped(t) = call[t].drop
<1> DEFINE k == call[t].kind
           i == call[t].id
<1>1. /\ TypeOK /\ RandomInv /\ PartInv /\ WorkInv(t)
      /\ k \in {"pro", "alg"} /\ i \in Ids(k)
      /\ \A u \in Users : \A x : WorksOn(u, x) /\ WorksOn(t, x) => u = t
      /\ WorksOn(t, <<k, i>>)
  BY WorkFacts DEF InstanceInv
<1>2. call[t].drop \in Seq(Kinds \X Nat)
  BY <1>1, CallType
<1>3. PICK s : s = call[t].drop
  OBVIOUS
<1>4. /\ s \in Seq(Kinds \X Nat) /\ s # <<>> /\ Head(s) = s[1] /\ 1 \in DOMAIN s
      /\ s[1] = <<s[1][1], s[1][2]>> /\ s[1][1] \in Kinds /\ s[1][2] \in Nat
  BY <1>2, <1>3, SMTT(60)
<1>5. CASE slots[k][i] # NULL
  <2>1. s = << <<"rnd", slots[k][i].rnd>> >>
    BY <1>1, <1>3, <1>4, <1>5 DEF WorkInv
  <2>2. HasRandom(k, i)
    <3>1. \A u \in Users : WorksOn(u, <<k, i>>) => u = t
      BY <1>1
    <3> QED
      BY <1>5, <3>1 DEF HasRandom
  <2>3. IsValid("rnd", slots[k][i].rnd)
    BY <1>1, <2>2 DEF RandomInv
  <2>4. slots[k][i].rnd \in Ids("rnd") /\ slots["rnd"][slots[k][i].rnd] # NULL
    BY <1>1, <2>3, SlotFacts DEF IsValid, Kinds
  <2>5. Dropped(t) = <<>> /\ Tail(s) = <<>>
    BY <1>5, <2>1 DEF Dropped
  <2> QED
    BY <1>3, <1>4, <1>5, <2>1, <2>2, <2>4, <2>5
<1>6. CASE slots[k][i] = NULL
  <2>1. Dropped(t) = s
    BY <1>3, <1>6 DEF Dropped
  <2>2. s[1][1] = "param" /\ IsValid("param", s[1][2])
    BY <1>1, <1>4, <2>1 DEF PartInv
  <2>3. s[1][2] \in Ids("param") /\ slots["param"][s[1][2]] # NULL
    BY <1>1, <2>2, SlotFacts DEF IsValid, Kinds
  <2> QED
    BY <1>3, <1>4, <1>6, <2>1, <2>2, <2>3
<1> QED
  BY <1>5, <1>6

\* A table with an empty slot.
Empties(l, n) == slots' = [slots EXCEPT ![l][n] = NULL]

LEMMA SlotEmptied ==
    ASSUME TypeOK, NEW l \in Kinds, NEW n \in Ids(l), Empties(l, n)
    PROVE  /\ slots' \in [Kinds -> Seq(Objects \cup {NULL})]
           /\ \A k \in Kinds : Len(slots'[k]) = Len(slots[k]) /\ Ids(k)' = Ids(k)
           /\ slots'[l][n] = NULL
           /\ \A k \in Kinds : k # l => slots'[k] = slots[k]
           /\ \A k \in Kinds : \A i \in Ids(k) : k # l \/ i # n => slots'[k][i] = slots[k][i]
<1>1. PICK s : s = slots[l]
  OBVIOUS
<1>2. s \in Seq(Objects \cup {NULL}) /\ n \in DOMAIN s /\ DOMAIN s = Ids(l)
  BY <1>1, SlotFacts
<1>3. /\ [s EXCEPT ![n] = NULL] \in Seq(Objects \cup {NULL})
      /\ Len([s EXCEPT ![n] = NULL]) = Len(s)
      /\ [s EXCEPT ![n] = NULL][n] = NULL
      /\ \A i \in DOMAIN s : i # n => [s EXCEPT ![n] = NULL][i] = s[i]
  BY <1>2
<1>4. slots \in [Kinds -> Seq(Objects \cup {NULL})]
  BY DEF TypeOK
<1>5. /\ slots' = [slots EXCEPT ![l] = [s EXCEPT ![n] = NULL]]
      /\ slots'[l] = [s EXCEPT ![n] = NULL]
      /\ \A k \in Kinds : k # l => slots'[k] = slots[k]
  BY <1>1, <1>4 DEF Empties
<1>6. slots' \in [Kinds -> Seq(Objects \cup {NULL})]
  BY <1>3, <1>4, <1>5
<1>7. \A k \in Kinds : Len(slots'[k]) = Len(slots[k])
  BY <1>1, <1>3, <1>5
<1>8. \A k \in Kinds : Ids(k)' = Ids(k)
  BY <1>7 DEF Ids
<1> QED
  BY <1>1, <1>2, <1>3, <1>5, <1>6, <1>7, <1>8

\* The step that drops it, or does not.
LEMMA DropOne ==
    ASSUME InstanceInv, NEW t \in Users, Working(t), Removes(t), call[t].todo = <<>>,
           call[t].drop # <<>>, pc' = [pc EXCEPT ![t] = "counting"],
           call' = [call EXCEPT ![t].drop = Tail(@)],
           UNCHANGED <<occupied, mutex, at, seen, own, task, lost>>,
           \/ slots' = slots /\ shelved' = shelved
           \/ Discard(Head(call[t].drop)[1], Head(call[t].drop)[2])
    PROVE  InstanceInv'
<1>1. /\ TypeOK /\ ShelvedAreFree /\ OwnInv /\ RandomInv /\ PartInv /\ ReferInv
      /\ AtCallInv(t) /\ WorkInv(t) /\ GotInv
      /\ at' = at /\ own' = own /\ job' = job /\ running' = running /\ mutex' = mutex
      /\ occupied' = occupied /\ seen' = seen /\ lost' = lost
  BY DEF InstanceInv, task
<1>2. PICK k, i : k = call[t].kind /\ i = call[t].id
  OBVIOUS
<1>3. PICK l, n : l = Head(call[t].drop)[1] /\ n = Head(call[t].drop)[2]
  OBVIOUS
<1>4. PICK d : d = call[t].drop
  OBVIOUS
<1>5. /\ l \in {"rnd", "param"} /\ n \in Ids(l) /\ slots[l][n] # NULL
      /\ d \in Seq(Kinds \X Nat) /\ d # <<>> /\ d[1] = <<l, n>>
      /\ slots[k][i] # NULL => /\ l = "rnd" /\ n = slots[k][i].rnd /\ HasRandom(k, i)
                               /\ Tail(d) = <<>> /\ Dropped(t) = <<>>
      /\ slots[k][i] = NULL => l = "param" /\ Dropped(t) = d
  BY <1>2, <1>3, <1>4, DropNeeds
<1>6. /\ k \in {"pro", "alg"} /\ i \in Ids(k) /\ k \in Kinds /\ l \in Kinds
      /\ \A u \in Users : \A x : WorksOn(u, x) /\ WorksOn(t, x) => u = t
      /\ WorksOn(t, <<k, i>>)
  BY <1>2, <1>5, WorkFacts DEF Kinds
<1>7. Tail(d) \in Seq(Kinds \X Nat)
  BY <1>5
<1>8. /\ call' \in [Users -> CallStates] /\ \A u \in Users : u # t => call'[u] = call[u]
      /\ call'[t].drop = Tail(d) /\ call'[t].op = call[t].op /\ call'[t].kind = k
      /\ call'[t].id = i /\ call'[t].todo = <<>>
  <2>1. call' = [call EXCEPT ![t].drop = Tail(d)]
    BY <1>4
  <2> QED
    BY <1>1, <1>2, <1>7, <2>1, DropSet, ZenonT(60) DEF TypeOK
<1>9. \/ slots' = slots /\ shelved' = shelved
      \/ Empties(l, n) /\ shelved' = [shelved EXCEPT ![l] = Append(@, n)]
  BY <1>3, ZenonT(60) DEF Discard, Empties
<1>10. /\ slots' \in [Kinds -> Seq(Objects \cup {NULL})]
       /\ \A m \in Kinds : Len(slots'[m]) = Len(slots[m]) /\ Ids(m)' = Ids(m)
       /\ \A m \in Kinds : m # l => slots'[m] = slots[m]
       /\ \A m \in Kinds : \A x \in Ids(m) : m # l \/ x # n => slots'[m][x] = slots[m][x]
  <2>1. CASE slots' = slots
    BY <1>1, <2>1 DEF Ids, TypeOK
  <2>2. CASE Empties(l, n)
    <3>1. TypeOK /\ l \in Kinds /\ n \in Ids(l)
      BY <1>1, <1>5, <1>6
    <3> QED
      BY <2>2, <3>1, SlotEmptied
  <2> QED
    BY <1>9, <2>1, <2>2
<1>11. slots'["pro"] = slots["pro"] /\ slots'["alg"] = slots["alg"] /\ slots'[k] = slots[k]
  BY <1>5, <1>6, <1>10 DEF Kinds
<1>12. IdsStay /\ \A u \in Users : Working(u) => SlotKept(call[u].kind, call[u].id)
  <2>1. \A u \in Users : Working(u) => call[u].kind \in {"pro", "alg"}
    BY WorkFacts
  <2> QED
    BY <1>10, <1>11, <2>1 DEF IdsStay, SlotKept
<1>13. /\ PlaceInv' /\ GotInv' /\ NothingThrows'
       /\ pc' \in [Users -> {"idle", "locking", "counting", "writing", "discarding", "thrown"}]
       /\ pc'[t] = "counting"
       /\ \A u \in Users : Working(u)' <=> Working(u)
       /\ Script(t)' = Script(t)
       /\ \A u \in Users : u # t => AtCallInv(u)' /\ WorkInv(u)'
  BY <1>1, <1>8, <1>12, WithinWork
<1>14. \A u \in Users : WorkGoesOn(u)
  BY <1>2, <1>8, <1>13 DEF WorkGoesOn
<1>15. \A u \in Users : \A x : /\ WorksOn(u, x)' <=> WorksOn(u, x)
                               /\ WorksOn(u, x) => (Removes(u)' <=> Removes(u))
  BY <1>14, WorkKept DEF WorksOn
<1>16. \A u \in Users : \A x : WorksOn(u, x) => x[1] \in {"pro", "alg"}
  BY WorkFacts DEF WorksOn
<1>17. /\ ShelvedAreFree' /\ shelved' \in [Kinds -> Seq(Nat)]
       /\ \A m \in Kinds : \A p \in DOMAIN shelved'[m] : shelved'[m][p] \in Ids(m)
  <2>1. CASE slots' = slots /\ shelved' = shelved
    BY <1>1, <1>14, <2>1, CalmShelved DEF TypeOK
  <2>2. CASE /\ Empties(l, n)
             /\ shelved' = [shelved EXCEPT ![l] = Append(@, n)]
    <3>1. slots'[l][n] = NULL
      BY <1>1, <1>5, <1>6, <2>2, SlotEmptied
    <3>2. Free(l, n)' /\ ~Free(l, n)
      <4>1. \A u \in Users : ~WorksOn(u, <<l, n>>)'
        BY <1>5, <1>15, <1>16
      <4> QED
        BY <1>5, <3>1, <4>1 DEF Free, Untouched
    <3>3. \A m \in Kinds : \A x \in Ids(m) : m # l \/ x # n => (Free(m, x)' <=> Free(m, x))
      BY <1>10, <1>15 DEF Free, Untouched
    <3>4. TypeOK /\ ShelvedAreFree /\ l \in Kinds /\ n \in Ids(l)
      BY <1>1, <1>5, <1>6
    <3>5. \A m \in Kinds : Ids(m)' = Ids(m)
      BY <1>10
    <3> QED
      BY <2>2, <3>2, <3>3, <3>4, <3>5, ShelfMore
  <2> QED
    BY <1>9, <2>1, <2>2
<1>18. TypeOK'
  <2>1. \A u \in Users : call'[u].id \in Ids(call'[u].kind) \cup {NoId}
    BY <1>1, <1>2, <1>8 DEF TypeOK
  <2>2. \A m \in Kinds : Len(occupied[m]) = Len(slots'[m])
    BY <1>1, <1>10, SlotFacts
  <2>3. \A u \in Users : call'[u].kind \in Kinds
    BY <1>8 DEF CallStates
  <2>4. ASSUME NEW u \in Users
        PROVE  call'[u].id \in Ids(call[u].kind)' \cup {NoId}
    <3>1. PICK m : m = call'[u].kind
      OBVIOUS
    <3>2. call'[u].id \in Ids(m)' \cup {NoId}
      BY <1>10, <2>1, <2>3, <3>1
    <3> QED
      BY <3>1, <3>2
  <2>6. \A u \in Users : \A m \in Kinds : \A j \in DOMAIN own[u][m] : own[u][m][j] \in Ids(m)'
    BY <1>1, <1>10, OwnType
  <2>5. \A m \in Kinds : \A p \in DOMAIN shelved'[m] : shelved'[m][p] \in Ids(m)'
    BY <1>10, <1>17
  <2>7. /\ slots' \in [Kinds -> Seq(Objects \cup {NULL})] /\ shelved' \in [Kinds -> Seq(Nat)]
        /\ call' \in [Users -> CallStates]
        /\ pc' \in [Users -> {"idle", "locking", "counting", "writing", "discarding", "thrown"}]
    BY <1>8, <1>10, <1>13, <1>17
  <2> QED
    BY <1>1, <2>2, <2>4, <2>5, <2>6, <2>7 DEF TypeOK
<1>19. AtCallInv(t)'
  <2>1. /\ call'[t].op = "remove" /\ call'[t].kind = k /\ call'[t].id = i
        /\ call'[t].todo = <<>> /\ pc'[t] = "counting" /\ k \in {"pro", "alg"}
    BY <1>6, <1>8, <1>13 DEF Removes
  <2>2. PICK j \in DOMAIN own[t][k] :
          Script(t)[at[t]] = <<"remove", k, j>> /\ i = own[t][k][j]
    BY <1>1, <1>2 DEF AtCallInv, Removes
  <2> QED
    BY <1>1, <1>13, <2>1, <2>2 DEF AtCallInv, Removes
<1>20. WorkInv(t)'
  <2>1. Removes(t)' /\ call[t].op # "add" /\ call'[t].op # "add"
    BY <1>8 DEF Removes
  <2>2. slots[k][i] # NULL => Tail(d) \in {<<>>, << <<"rnd", slots[k][i].rnd>> >>}
    BY <1>5
  <2>3. mutex[k] = t
    BY <1>1, <1>2 DEF WorkInv
  <2>4. i \in Ids(k)'
    BY <1>6, <1>10
  <2>5. /\ call'[t].kind = k /\ call'[t].id = i /\ call'[t].todo = <<>>
        /\ call'[t].drop = Tail(d) /\ slots'[k][i] = slots[k][i] /\ mutex' = mutex
    BY <1>1, <1>8, <1>11
  <2>6. call'[t].id \in Ids(call[t].kind)'
    BY <2>4, <2>5
  <2>7. \A n0 \in DOMAIN call'[t].todo : call'[t].todo[n0][2] \in Ids(call[t].todo[n0][1])'
    BY <2>5
  <2>8. /\ mutex'[call'[t].kind] = t
        /\ slots'[call'[t].kind][call'[t].id] # NULL =>
             call'[t].drop \in {<<>>, << <<"rnd", slots'[call'[t].kind][call'[t].id].rnd>> >>}
    BY <2>2, <2>3, <2>5
  <2> QED
    BY <2>1, <2>5, <2>6, <2>7, <2>8 DEF WorkInv
<1>21. Advances(t)
  BY <1>1 DEF Advances
<1>22. OwnInv'
  <2>1. ASSUME NEW u \in Users, NEW m \in Kinds, NEW j \in ToRemove(u, m)',
               NEW x, x = own[u][m][j]
        PROVE  slots'[m][x] # NULL \/ WorksOn(u, <<m, x>>)'
    <3>1. j \in ToRemove(u, m) /\ j \in DOMAIN own[u][m]
      BY <1>1, <1>21, <2>1, ToRemoveShrinks
    <3>2. slots[m][x] # NULL \/ WorksOn(u, <<m, x>>)
      BY <1>1, <2>1, <3>1 DEF OwnInv
    <3>3. x \in Ids(m)
      BY <1>1, <2>1, <3>1, OwnType
    <3>4. ~(m = l /\ x = n)
      <4>1. l = "param" => \A v \in Users : \A q \in ToRemove(v, "param") : own[v]["param"][q] # n
        <5>1. l = "param" => slots[k][i] = NULL
          BY <1>5
        <5>2. l = "param" => Dropped(t) = d /\ 1 \in DOMAIN d /\ d[1][2] = n
          BY <1>5, <5>1
        <5> QED
          BY <1>1, <5>2 DEF PartInv
      <4>2. own[u]["rnd"] = <<>>
        BY <1>1 DEF GotInv, GotBefore
      <4>3. m # "rnd"
        BY <3>1, <4>2
      <4> QED
        BY <1>5, <2>1, <3>1, <4>1, <4>3
    <3> QED
      BY <1>10, <1>15, <3>2, <3>3, <3>4
  <2> QED
    BY <1>1, <1>15, <1>21, <2>1, OwnShrinks
<1>23. RandomInv'
  <2>1. ASSUME NEW m \in {"pro", "alg"}, NEW x \in Ids(m)', HasRandom(m, x)'
        PROVE  /\ x \in Ids(m) /\ HasRandom(m, x) /\ slots'[m][x].rnd = slots[m][x].rnd
               /\ IsValid("rnd", slots[m][x].rnd)'
    <3>1. x \in Ids(m) /\ slots'[m] = slots[m] /\ slots[m][x] # NULL
      BY <1>10, <1>11, <2>1 DEF Kinds, HasRandom
    <3>2. HasRandom(m, x)
      <4>1. ASSUME NEW u \in Users, WorksOn(u, <<m, x>>), Removes(u)
            PROVE  call[u].drop # <<>>
        <5>1. call'[u].drop # <<>>
          BY <1>15, <2>1, <4>1 DEF HasRandom
        <5> QED
          BY <1>8, <5>1
      <4> QED
        BY <3>1, <4>1 DEF HasRandom
    <3>3. PICK r : r = slots[m][x].rnd
      OBVIOUS
    <3>4. IsValid("rnd", r)
      BY <1>1, <3>1, <3>2, <3>3 DEF RandomInv
    <3>5. l = "rnd" => r # n
      <4>1. ASSUME l = "rnd", r = n
            PROVE  FALSE
        <5>1. n = slots[k][i].rnd /\ HasRandom(k, i) /\ Tail(d) = <<>>
          BY <1>5, <4>1
        <5>2. m = k /\ x = i
          <6>1. \A a, b \in {"pro", "alg"} : \A y \in Ids(a), z \in Ids(b) :
                  HasRandom(a, y) /\ HasRandom(b, z) /\ slots[b][z].rnd = slots[a][y].rnd
                    => b = a /\ z = y
            BY <1>1 DEF RandomInv
          <6>2. slots[m][x].rnd = slots[k][i].rnd
            BY <3>3, <4>1, <5>1
          <6> QED
            BY <1>6, <3>1, <3>2, <5>1, <6>1, <6>2
        <5>3. WorksOn(t, <<m, x>>)' /\ Removes(t)'
          BY <1>6, <1>15, <5>2
        <5> QED
          BY <1>8, <2>1, <5>1, <5>3 DEF HasRandom
      <4> QED
        BY <4>1
    <3>6. r \in Ids("rnd") /\ slots["rnd"][r] # NULL
      BY <1>1, <3>4, SlotFacts DEF IsValid, Kinds
    <3>7. slots'["rnd"][r] # NULL /\ r \in DOMAIN slots'["rnd"]
      <4>1. slots'["rnd"][r] = slots["rnd"][r]
        BY <1>10, <3>5, <3>6 DEF Kinds
      <4>2. DOMAIN slots'["rnd"] = Ids("rnd")'
        BY <1>10 DEF Kinds, Ids
      <4> QED
        BY <1>10, <3>6, <4>1, <4>2 DEF Kinds
    <3> QED
      BY <3>1, <3>2, <3>3, <3>7 DEF IsValid
  <2> QED
    BY <1>1, <2>1, RandomShrinks
<1>24. PartInv'
  <2>1. ASSUME NEW x, IsValid("param", x), l # "param" \/ x # n
        PROVE  IsValid("param", x)'
    <3>1. x \in Ids("param") /\ slots["param"][x] # NULL
      BY <1>1, <2>1, SlotFacts DEF IsValid, Kinds
    <3>2. slots'["param"][x] # NULL
      BY <1>10, <2>1, <3>1 DEF Kinds
    <3>3. DOMAIN slots'["param"] = Ids("param")'
      BY <1>10 DEF Kinds, Ids
    <3> QED
      BY <1>10, <3>1, <3>2, <3>3 DEF IsValid, Kinds
  <2>2. \A u \in Users : u # t => Dropped(u)' = Dropped(u)
    <3>1. \A u \in Users : u # t =>
            /\ call'[u] = call[u] /\ (Removes(u)' <=> Removes(u))
            /\ Working(u) => slots'[call[u].kind] = slots[call[u].kind]
      BY <1>8, <1>11, WorkFacts DEF Removes
    <3> QED
      BY <1>13, <3>1 DEF Dropped
  <2>3. \A u \in Users : call'[u].kind = call[u].kind
    BY <1>2, <1>8
  <2>4. Dropped(t)' = IF slots[k][i] = NULL THEN Tail(d) ELSE <<>>
    <3>1. Working(t)' /\ Removes(t)'
      BY <1>8, <1>13 DEF Removes
    <3> QED
      BY <1>8, <1>11, <3>1 DEF Dropped
  <2>5. CASE slots[k][i] = NULL
    <3>1. Dropped(t) = d /\ Dropped(t)' = Tail(d) /\ d # <<>> /\ Dropped(t)[1][2] = n
      BY <1>5, <2>4, <2>5
    <3> QED
      BY <1>1, <1>11, <2>1, <2>2, <2>3, <3>1, PartsDropped
  <2>6. CASE slots[k][i] # NULL
    <3>1. Dropped(t) = <<>> /\ Dropped(t)' = <<>> /\ l # "param"
      BY <1>5, <2>4, <2>6
    <3> QED
      BY <1>1, <1>11, <2>1, <2>2, <2>3, <3>1, PartsDropped
  <2> QED
    BY <2>5, <2>6
<1>25. ReferInv'
  <2>1. \A m \in {"pro", "alg"} : \A x \in Ids(m)' : slots'[m][x] # NULL =>
             x \in Ids(m) /\ slots'[m][x] = slots[m][x]
    BY <1>10, <1>11 DEF Kinds
  <2>2. \A u \in Users : (Working(u) /\ call[u].op = "add")' =>
             /\ Working(u) /\ call[u].op = "add"
             /\ call'[u].kind = call[u].kind /\ call'[u].id = call[u].id
             /\ slots'[call[u].kind][call[u].id] = slots[call[u].kind][call[u].id]
    BY <1>2, <1>8, <1>11, <1>13, WorkFacts, ZenonT(60)
  <2> QED
    BY <1>1, <1>12, <1>21, <2>1, <2>2, ReferShrinks
<1> QED
  BY <1>13, <1>17, <1>18, <1>19, <1>20, <1>22, <1>23, <1>24, <1>25 DEF InstanceInv

LEMMA DropDoneKeeps ==
    ASSUME InstanceInv, NEW t \in Users, DropDone(t)
    PROVE  InstanceInv'
<1>1. pc[t] = "discarding" /\ AtCallInv(t)
  BY DEF DropDone, InstanceInv
<1>2. Working(t) /\ Removes(t) /\ call[t].todo = <<>> /\ call[t].drop # <<>>
  BY <1>1 DEF AtCallInv, Working
<1>3. /\ pc' = [pc EXCEPT ![t] = "counting"] /\ call' = [call EXCEPT ![t].drop = Tail(@)]
      /\ UNCHANGED <<occupied, mutex, at, seen, own, task, lost>>
      /\ Discard(Head(call[t].drop)[1], Head(call[t].drop)[2])
  BY DEF DropDone, Goto
<1> QED
  BY <1>2, <1>3, DropOne

LEMMA DropCheckKeeps ==
    ASSUME InstanceInv, NEW t \in Users, DropCheck(t)
    PROVE  InstanceInv'
<1>1. /\ pc[t] = "counting" /\ Working(t) /\ Removes(t) /\ call[t].todo = <<>>
      /\ call[t].drop # <<>>
      /\ slots' = slots /\ occupied' = occupied /\ shelved' = shelved /\ mutex' = mutex
      /\ at' = at /\ seen' = seen /\ own' = own /\ job' = job /\ running' = running
      /\ lost' = lost
  BY DEF DropCheck, Dropping, Working, Removes, manager, task
<1>2. TypeOK /\ AtCallInv(t) /\ WorkInv(t)
  BY DEF InstanceInv
<1>3. CASE Goto(t, "discarding") /\ UNCHANGED call
  <2>1. /\ pc' = [pc EXCEPT ![t] = "discarding"] /\ call' = call
        /\ pc' \in [Users -> {"idle", "locking", "counting", "writing", "discarding", "thrown"}]
        /\ pc'[t] = "discarding" /\ Working(t)'
    BY <1>2, <1>3 DEF Goto, TypeOK, Working
  <2>2. TypeOK'
    BY <1>1, <1>2, <2>1 DEF TypeOK, Ids
  <2>3. AtCallInv(t)'
    <3>1. Script(t)' = Script(t)
      BY <1>1, ScriptStays
    <3> QED
      BY <1>1, <1>2, <2>1, <3>1 DEF AtCallInv, Removes
  <2>4. WorkInv(t)'
    <3>1. IdsStay /\ SlotKept(call[t].kind, call[t].id)
      BY <1>1 DEF IdsStay, Ids, SlotKept
    <3> QED
      BY <1>1, <1>2, <2>1, <3>1, WorkInvKept
  <2> QED
    BY <1>1, <2>1, <2>2, <2>3, <2>4, CalmWork
<1>4. CASE call' = [call EXCEPT ![t].drop = Tail(@)] /\ UNCHANGED pc
  <2>1. pc' = [pc EXCEPT ![t] = "counting"]
    BY <1>1, <1>2, <1>4 DEF TypeOK
  <2>2. UNCHANGED <<occupied, mutex, at, seen, own, task, lost>>
    BY <1>1 DEF task
  <2> QED
    BY <1>1, <1>4, <2>1, <2>2, DropOne
<1> QED
  BY <1>3, <1>4 DEF DropCheck

-----------------------------------------------------------------------------
(* An object goes.                                                         *)

LEMMA ResetKeeps ==
    ASSUME InstanceInv, NEW t \in Users, Reset(t)
    PROVE  InstanceInv'
<1>1. PICK k, i, o : k = call[t].kind /\ i = call[t].id /\ o = slots[k][i]
  OBVIOUS
<1> DEFINE parts == [p \in DOMAIN o.parts |-> <<"param", o.parts[p]>>]
<1>2. /\ pc[t] = "counting" /\ Working(t) /\ Removes(t) /\ call[t].todo = <<>>
      /\ call[t].drop = <<>> /\ o # NULL
      /\ Empties(k, i) /\ call' = [call EXCEPT ![t].drop = parts]
      /\ occupied' = occupied /\ shelved' = shelved /\ mutex' = mutex /\ pc' = pc
      /\ at' = at /\ seen' = seen /\ own' = own /\ job' = job /\ running' = running
      /\ lost' = lost
  BY <1>1 DEF Reset, Dropping, Working, Removes, task, Empties
<1>3. /\ TypeOK /\ ShelvedAreFree /\ OwnInv /\ RandomInv /\ PartInv /\ ReferInv
      /\ AtCallInv(t) /\ WorkInv(t) /\ GotInv /\ \A u \in Users : WorkInv(u)
  BY DEF InstanceInv
<1>4. /\ k \in {"pro", "alg"} /\ i \in Ids(k) /\ k \in Kinds
      /\ \A u \in Users : Working(u) /\ call[u].kind = k => u = t
      /\ \A u \in Users : \A x : WorksOn(u, x) /\ WorksOn(t, x) => u = t
      /\ WorksOn(t, <<k, i>>)
  BY <1>1, <1>2, WorkFacts DEF Kinds
<1>5. /\ slots' \in [Kinds -> Seq(Objects \cup {NULL})]
      /\ \A m \in Kinds : Len(slots'[m]) = Len(slots[m]) /\ Ids(m)' = Ids(m)
      /\ slots'[k][i] = NULL
      /\ \A m \in Kinds : m # k => slots'[m] = slots[m]
      /\ \A m \in Kinds : \A x \in Ids(m) : m # k \/ x # i => slots'[m][x] = slots[m][x]
  <2>1. TypeOK /\ k \in Kinds /\ i \in Ids(k) /\ Empties(k, i)
    BY <1>2, <1>3, <1>4
  <2> QED
    BY <2>1, SlotEmptied
<1>6. /\ o \in Objects /\ o.parts \in Seq(Nat)
  <2>1. o \in Objects
    BY <1>1, <1>2, <1>3, <1>4, SlotFacts
  <2> QED
    BY <2>1 DEF Objects
<1>7. parts \in Seq(Kinds \X Nat) /\ DOMAIN parts = DOMAIN o.parts
      /\ \A p \in DOMAIN o.parts : parts[p] = <<"param", o.parts[p]>>
  <2>1. Len(o.parts) \in Nat /\ DOMAIN o.parts = 1..Len(o.parts)
    BY <1>6
  <2>2. \A p \in 1..Len(o.parts) : o.parts[p] \in Nat
    BY <1>6
  <2>3. \A p \in 1..Len(o.parts) : parts[p] \in Kinds \X Nat
    BY <2>1, <2>2 DEF Kinds
  <2>4. parts = [p \in 1..Len(o.parts) |-> parts[p]]
    BY <2>1
  <2>5. parts \in Seq(Kinds \X Nat)
    <3> HIDE DEF parts
    <3> QED
      BY <2>1, <2>3, <2>4, SeqMade
  <2> QED
    BY <2>5
<1> HIDE DEF parts
<1>8. /\ call' \in [Users -> CallStates] /\ \A u \in Users : u # t => call'[u] = call[u]
      /\ call'[t].drop = parts /\ call'[t].op = call[t].op /\ call'[t].kind = k
      /\ call'[t].id = i /\ call'[t].todo = <<>>
  BY <1>1, <1>2, <1>3, <1>7, DropSet DEF TypeOK
<1>9. IdsStay /\ \A u \in Users : u # t /\ Working(u) => SlotKept(call[u].kind, call[u].id)
  <2>1. \A u \in Users : u # t /\ Working(u) => call[u].kind # k /\ call[u].kind \in Kinds
    BY <1>4, WorkFacts DEF Kinds
  <2> QED
    BY <1>5, <2>1 DEF IdsStay, SlotKept
<1>10. pc' = [pc EXCEPT ![t] = "counting"]
  BY <1>2, <1>3 DEF TypeOK
<1>11. /\ PlaceInv' /\ GotInv' /\ NothingThrows'
       /\ \A u \in Users : Working(u)' <=> Working(u)
       /\ Script(t)' = Script(t)
       /\ \A u \in Users : u # t => AtCallInv(u)' /\ WorkInv(u)'
  BY <1>2, <1>8, <1>9, <1>10, WithinWork
<1>12. \A u \in Users : WorkGoesOn(u)
  BY <1>1, <1>8, <1>11 DEF WorkGoesOn
<1>13. \A u \in Users : \A x : /\ WorksOn(u, x)' <=> WorksOn(u, x)
                               /\ WorksOn(u, x) => (Removes(u)' <=> Removes(u))
  BY <1>12, WorkKept DEF WorksOn
<1>14. ShelvedAreFree'
  <2>1. \A m \in Kinds : \A x \in Ids(m) : Free(m, x)' <=> Free(m, x)
    <3>1. ~Free(k, i) /\ ~Free(k, i)'
      BY <1>4, <1>13 DEF Free, Untouched
    <3>2. \A m \in Kinds : \A x \in Ids(m) : m # k \/ x # i => (Free(m, x)' <=> Free(m, x))
      BY <1>5, <1>13 DEF Free, Untouched
    <3> QED
      BY <3>1, <3>2
  <2>2. \A m \in Kinds : Ids(m)' = Ids(m)
    BY <1>5
  <2> QED
    BY <1>2, <1>3, <2>1, <2>2, ShelfSame
<1>15. TypeOK'
  <2>1. \A u \in Users : call'[u].id \in Ids(call'[u].kind) \cup {NoId}
    BY <1>1, <1>3, <1>8 DEF TypeOK
  <2>2. \A m \in Kinds : Len(occupied[m]) = Len(slots'[m])
    BY <1>3, <1>5, SlotFacts
  <2>3. \A u \in Users : call'[u].kind \in Kinds
    BY <1>8 DEF CallStates
  <2>4. ASSUME NEW u \in Users
        PROVE  call'[u].id \in Ids(call[u].kind)' \cup {NoId}
    <3>1. PICK m : m = call'[u].kind
      OBVIOUS
    <3>2. call'[u].id \in Ids(m)' \cup {NoId}
      BY <1>5, <2>1, <2>3, <3>1
    <3> QED
      BY <3>1, <3>2
  <2>5. \A m \in Kinds : \A p \in DOMAIN shelved[m] : shelved[m][p] \in Ids(m)'
    BY <1>3, <1>5, SlotFacts
  <2>6. \A u \in Users : \A m \in Kinds : \A j \in DOMAIN own[u][m] : own[u][m][j] \in Ids(m)'
    BY <1>3, <1>5, OwnType
  <2>7. slots' \in [Kinds -> Seq(Objects \cup {NULL})] /\ call' \in [Users -> CallStates]
    BY <1>5, <1>8
  <2> QED
    BY <1>2, <1>3, <2>2, <2>4, <2>5, <2>6, <2>7 DEF TypeOK
<1>16. AtCallInv(t)'
  <2>1. /\ call'[t].op = "remove" /\ call'[t].kind = k /\ call'[t].id = i
        /\ call'[t].todo = <<>> /\ pc'[t] = "counting" /\ k \in {"pro", "alg"}
    BY <1>2, <1>4, <1>8 DEF Removes
  <2>2. PICK j \in DOMAIN own[t][k] :
          Script(t)[at[t]] = <<"remove", k, j>> /\ i = own[t][k][j]
    BY <1>1, <1>2, <1>3 DEF AtCallInv, Removes
  <2> QED
    BY <1>2, <1>11, <2>1, <2>2 DEF AtCallInv, Removes
<1>17. WorkInv(t)'
  <2>1. Removes(t)' /\ call'[t].op # "add" /\ mutex[k] = t
    BY <1>1, <1>2, <1>3, <1>8 DEF Removes, WorkInv
  <2>2. i \in Ids(k)'
    BY <1>4, <1>5
  <2>3. /\ call'[t].kind = k /\ call'[t].id = i /\ call'[t].todo = <<>>
        /\ slots'[k][i] = NULL /\ mutex' = mutex
    BY <1>2, <1>5, <1>8
  <2>4. call'[t].id \in Ids(call[t].kind)'
    BY <2>2, <2>3
  <2>5. \A n \in DOMAIN call'[t].todo : call'[t].todo[n][2] \in Ids(call[t].todo[n][1])'
    BY <2>3
  <2>6. /\ mutex'[call'[t].kind] = t
        /\ slots'[call'[t].kind][call'[t].id] = NULL
    BY <2>1, <2>3
  <2> QED
    BY <2>1, <2>3, <2>4, <2>5, <2>6 DEF WorkInv
<1>18. Advances(t)
  BY <1>2 DEF Advances
<1>19. OwnInv'
  <2>1. ASSUME NEW u \in Users, NEW m \in Kinds, NEW j \in ToRemove(u, m)',
               NEW x, x = own[u][m][j]
        PROVE  slots'[m][x] # NULL \/ WorksOn(u, <<m, x>>)'
    <3>1. j \in ToRemove(u, m) /\ j \in DOMAIN own[u][m]
      BY <1>2, <1>3, <1>18, <2>1, ToRemoveShrinks
    <3>2. /\ slots[m][x] # NULL \/ WorksOn(u, <<m, x>>)
          /\ \A v \in Users : WorksOn(v, <<m, x>>) => v = u
      BY <1>3, <2>1, <3>1 DEF OwnInv
    <3>3. x \in Ids(m)
      BY <1>3, <2>1, <3>1, OwnType
    <3>4. CASE m = k /\ x = i
      BY <1>4, <1>13, <3>2, <3>4
    <3>5. CASE ~(m = k /\ x = i)
      BY <1>5, <1>13, <3>2, <3>3, <3>5
    <3> QED
      BY <3>4, <3>5
  <2> QED
    BY <1>2, <1>3, <1>13, <1>18, <2>1, OwnShrinks
<1>20. RandomInv'
  <2>1. ASSUME NEW m \in {"pro", "alg"}, NEW x \in Ids(m)', HasRandom(m, x)'
        PROVE  /\ x \in Ids(m) /\ HasRandom(m, x) /\ slots'[m][x].rnd = slots[m][x].rnd
               /\ IsValid("rnd", slots[m][x].rnd)'
    <3>1. x \in Ids(m) /\ slots'[m][x] # NULL /\ m \in Kinds
      BY <1>5, <2>1 DEF Kinds, HasRandom
    <3>2. ~(m = k /\ x = i)
      BY <1>5, <3>1
    <3>3. slots'[m][x] = slots[m][x]
      BY <1>5, <3>1, <3>2
    <3>4. ~WorksOn(t, <<m, x>>)
      BY <1>1, <3>2 DEF WorksOn
    <3>5. HasRandom(m, x)
      <4>1. ASSUME NEW u \in Users, WorksOn(u, <<m, x>>), Removes(u)
            PROVE  call[u].drop # <<>>
        <5>1. call'[u].drop # <<>>
          BY <1>13, <2>1, <4>1 DEF HasRandom
        <5>2. u # t
          BY <3>4, <4>1
        <5> QED
          BY <1>8, <5>1, <5>2
      <4> QED
        BY <3>1, <3>3, <4>1 DEF HasRandom
    <3>6. PICK r : r = slots[m][x].rnd
      OBVIOUS
    <3>7. IsValid("rnd", r)
      BY <1>3, <3>1, <3>5, <3>6 DEF RandomInv
    <3>8. slots'["rnd"] = slots["rnd"]
      BY <1>4, <1>5 DEF Kinds
    <3> QED
      BY <3>1, <3>3, <3>5, <3>6, <3>7, <3>8 DEF IsValid
  <2> QED
    BY <1>3, <2>1, RandomShrinks
<1>21. ReferInv'
  <2>1. \A m \in {"pro", "alg"} : \A x \in Ids(m)' : slots'[m][x] # NULL =>
             x \in Ids(m) /\ slots'[m][x] = slots[m][x]
    BY <1>4, <1>5 DEF Kinds
  <2>2. \A u \in Users : (Working(u) /\ call[u].op = "add")' =>
             /\ Working(u) /\ call[u].op = "add"
             /\ call'[u].kind = call[u].kind /\ call'[u].id = call[u].id
             /\ slots'[call[u].kind][call[u].id] = slots[call[u].kind][call[u].id]
    <3>1. call'[t].op # "add"
      BY <1>2, <1>8 DEF Removes
    <3>2. \A u \in Users : u # t /\ Working(u) => call[u].kind # k /\ call[u].kind \in Kinds
      BY <1>4, WorkFacts DEF Kinds
    <3> QED
      BY <1>5, <1>8, <1>11, <3>1, <3>2
  <2> QED
    BY <1>2, <1>3, <1>9, <1>18, <2>1, <2>2, ReferShrinks
<1>22. PartInv'
  <2>1. \A u \in Users : u # t => Dropped(u)' = Dropped(u) /\ call'[u].kind = call[u].kind
    <3>1. \A u \in Users : u # t =>
            /\ call'[u] = call[u] /\ (Removes(u)' <=> Removes(u))
            /\ Working(u) => (slots'[call[u].kind][call[u].id] = NULL
                               <=> slots[call[u].kind][call[u].id] = NULL)
      BY <1>8, <1>9 DEF Removes, SlotKept
    <3> QED
      BY <1>11, <3>1 DEF Dropped
  <2>2. Dropped(t)' = parts /\ Dropped(t) = <<>>
    <3>1. Working(t)' /\ Removes(t)'
      BY <1>2, <1>8, <1>11 DEF Removes
    <3> QED
      BY <1>1, <1>2, <1>5, <1>8, <3>1 DEF Dropped
  <2>3. \A u \in Users : \A j \in ToRemove(u, "param")' : j \in ToRemove(u, "param")
    BY <1>2, <1>3, <1>18, ToRemoveShrinks DEF Kinds
  <2>4. /\ slots'["param"] = slots["param"]
        /\ \A x : IsValid("param", x)' <=> IsValid("param", x)
    BY <1>4, <1>5 DEF Kinds, IsValid
  <2>5. \A x \in Ids("alg")' : slots'["alg"][x] # NULL => slots'["alg"][x].parts = <<>>
    <3>1. \A x \in Ids("alg") : slots["alg"][x] # NULL => slots["alg"][x].parts = <<>>
      BY <1>3 DEF PartInv
    <3>2. \A x \in Ids("alg") : slots'["alg"][x] = NULL \/ slots'["alg"][x] = slots["alg"][x]
      BY <1>5 DEF Kinds
    <3> QED
      BY <1>5, <3>1, <3>2 DEF Kinds
  <2>6. CASE k = "alg"
    <3>1. parts = <<>>
      <4>1. o.parts = <<>>
        BY <1>1, <1>2, <1>3, <1>4, <2>6 DEF PartInv
      <4> QED
        BY <1>7, <4>1
    <3>2. \A x : PartsOf(x)' = PartsOf(x)
      BY <1>5, <2>6 DEF PartsOf, Kinds
    <3>3. Ids("pro")' = Ids("pro")
      BY <1>5 DEF Kinds
    <3> QED
      BY <1>2, <1>3, <2>1, <2>2, <2>3, <2>4, <2>5, <3>1, <3>2, <3>3, FewerParts
  <2>7. CASE k = "pro"
    <3>1. /\ PartsOf(i) = o.parts /\ PartsOf(i)' = <<>> /\ i \in Ids("pro")
          /\ \A x \in Ids("pro") : x # i => PartsOf(x)' = PartsOf(x)
          /\ Ids("pro")' = Ids("pro")
      BY <1>1, <1>2, <1>4, <1>5, <2>7 DEF PartsOf, Kinds
    <3>2. \A u \in Users : u # t => Dropped(u)' = <<>>
      <4>1. \A u \in Users : u # t /\ Working(u) => call[u].kind # "pro"
        BY <1>4, <2>7
      <4>2. \A u \in Users : Dropped(u) # <<>> => Working(u) /\ Dropped(u) \in Seq(Kinds \X Nat)
        BY <1>3, CallType DEF Dropped
      <4>3. \A u \in Users : Dropped(u) # <<>> => 1 \in DOMAIN Dropped(u)
        BY <4>2
      <4>4. \A u \in Users : Dropped(u) # <<>> => call[u].kind = "pro"
        BY <1>3, <4>3 DEF PartInv
      <4> QED
        BY <2>1, <4>1, <4>2, <4>4
    <3>3. ASSUME NEW x \in Ids("pro")', NEW p \in DOMAIN PartsOf(x)'
          PROVE  /\ x # i /\ x \in Ids("pro") /\ PartsOf(x)' = PartsOf(x)
                 /\ p \in DOMAIN PartsOf(x)
      BY <3>1, <3>3
    <3>4. ASSUME NEW u \in Users, NEW n \in DOMAIN Dropped(u)'
          PROVE  u = t /\ n \in DOMAIN PartsOf(i) /\ Dropped(u)'[n] = <<"param", PartsOf(i)[n]>>
      BY <1>7, <2>2, <3>1, <3>2, <3>4
    <3>5. /\ \A x \in Ids("pro") : \A p \in DOMAIN PartsOf(x) :
               /\ IsValid("param", PartsOf(x)[p])
               /\ \A m \in Ids("pro") : \A q \in DOMAIN PartsOf(m) :
                    PartsOf(m)[q] = PartsOf(x)[p] => m = x /\ q = p
               /\ \A u \in Users : \A j \in ToRemove(u, "param") :
                    own[u]["param"][j] # PartsOf(x)[p]
      BY <1>3 DEF PartInv
    <3>6. ASSUME NEW x \in Ids("pro")', NEW p \in DOMAIN PartsOf(x)'
          PROVE  /\ IsValid("param", PartsOf(x)[p])'
                 /\ \A m \in Ids("pro")' : \A q \in DOMAIN PartsOf(m)' :
                      PartsOf(m)'[q] = PartsOf(x)'[p] => m = x /\ q = p
                 /\ \A u \in Users : \A j \in ToRemove(u, "param")' :
                      own'[u]["param"][j] # PartsOf(x)'[p]
      <4>1. PICK y : y = PartsOf(x)[p]
        OBVIOUS
      <4>2. IsValid("param", y)'
        BY <2>4, <3>3, <3>5, <3>6, <4>1
      <4>3. \A m \in Ids("pro")' : \A q \in DOMAIN PartsOf(m)' :
                      PartsOf(m)'[q] = PartsOf(x)'[p] => m = x /\ q = p
        BY <3>3, <3>5, <3>6
      <4>4. \A u \in Users : \A j \in ToRemove(u, "param")' :
                      own'[u]["param"][j] # PartsOf(x)'[p]
        BY <1>2, <2>3, <3>3, <3>5, <3>6
      <4> QED
        BY <3>3, <3>6, <4>1, <4>2, <4>3, <4>4
    <3>7. ASSUME NEW u \in Users, NEW n \in DOMAIN Dropped(u)'
          PROVE  /\ call'[u].kind = "pro"
                 /\ Dropped(u)'[n][1] = "param" /\ IsValid("param", Dropped(u)[n][2])'
                 /\ \A m \in DOMAIN Dropped(u)' : Dropped(u)'[m] = Dropped(u)'[n] => m = n
                 /\ \A x \in Ids("pro")' : \A p \in DOMAIN PartsOf(x)' :
                      PartsOf(x)'[p] # Dropped(u)'[n][2]
                 /\ \A v \in Users : \A j \in ToRemove(v, "param")' :
                      own'[v]["param"][j] # Dropped(u)'[n][2]
      <4>1. /\ u = t /\ n \in DOMAIN PartsOf(i) /\ Dropped(u)'[n] = <<"param", PartsOf(i)[n]>>
            /\ \A m \in DOMAIN Dropped(u)' :
                  m \in DOMAIN PartsOf(i) /\ Dropped(u)'[m] = <<"param", PartsOf(i)[m]>>
        BY <3>4, <3>7
      <4>2. PICK y : y = Dropped(u)'[n][2]
        OBVIOUS
      <4>3. y = PartsOf(i)[n] /\ Dropped(u)'[n][1] = "param"
        BY <4>1, <4>2
      <4>4. IsValid("param", y)'
        BY <2>4, <3>1, <3>5, <4>1, <4>3
      <4>5. \A m \in DOMAIN Dropped(u)' : Dropped(u)'[m] = Dropped(u)'[n] => m = n
        <5>1. \A m \in DOMAIN Dropped(u)' : Dropped(u)'[m] = Dropped(u)'[n] =>
                PartsOf(i)[m] = PartsOf(i)[n]
          BY <4>1
        <5> QED
          BY <3>1, <3>5, <4>1, <5>1
      <4>6. \A x \in Ids("pro")' : \A p \in DOMAIN PartsOf(x)' : PartsOf(x)'[p] # y
        BY <3>1, <3>3, <3>5, <4>1, <4>3
      <4>7. \A v \in Users : \A j \in ToRemove(v, "param")' : own'[v]["param"][j] # y
        BY <1>2, <2>3, <3>1, <3>5, <4>1, <4>3
      <4>8. call'[u].kind = "pro"
        BY <1>8, <2>7, <4>1
      <4> QED
        BY <4>2, <4>3, <4>4, <4>5, <4>6, <4>7, <4>8
    <3> QED
      BY <2>5, <3>6, <3>7 DEF PartInv
  <2> QED
    BY <1>4, <2>6, <2>7
<1> QED
  BY <1>11, <1>14, <1>15, <1>16, <1>17, <1>19, <1>20, <1>21, <1>22 DEF InstanceInv

\* The end of a call that has been at work on the registry.
LEMMA CallReturns ==
    ASSUME InstanceInv, NEW t \in Users, Active(t), Script(t)[at[t]][1] \in {"add", "remove"},
           pc' = [pc EXCEPT ![t] = "idle"], at' = [at EXCEPT ![t] = @ + 1],
           call' = [call EXCEPT ![t] = NoCall], job' = job, running' = running,
           \A u \in Users : u # t => own'[u] = own[u]
    PROVE  /\ PlaceInv' /\ NothingThrows' /\ WorkInv(t)' /\ \A u \in Users : AtCallInv(u)'
           /\ pc' \in [Users -> {"idle", "locking", "counting", "writing", "discarding", "thrown"}]
           /\ at' \in [Users -> Nat \ {0}] /\ call' \in [Users -> CallStates]
           /\ call'[t] = NoCall /\ \A u \in Users : u # t => call'[u] = call[u]
           /\ \A u \in Users : Working(u)' <=> Working(u) /\ u # t
           /\ \A u \in Users : \A x : WorksOn(u, x)' <=> WorksOn(u, x) /\ u # t
           /\ Advances(t)
<1>1. TypeOK /\ PlaceInv /\ NothingThrows /\ \A u \in Users : AtCallInv(u)
  BY DEF InstanceInv
<1>2. /\ pc'[t] = "idle" /\ call'[t] = NoCall
      /\ pc' \in [Users -> {"idle", "locking", "counting", "writing", "discarding", "thrown"}]
      /\ \A u \in Users : u # t => pc'[u] = pc[u] /\ call'[u] = call[u] /\ at'[u] = at[u]
      /\ call' \in [Users -> CallStates]
  BY <1>1, NoCallType DEF TypeOK
<1>3. t = Main => at[Main] # StartAt + 1 /\ at[Main] # StartAt
  BY GotNow, MainNeeds DEF Active
<1>4. PlaceInv'
  BY <1>1, <1>2, <1>3, PlaceGoesOn
<1>5. ASSUME NEW u \in Users
      PROVE  AtCallInv(u)'
  <2>1. CASE u = t
    BY <1>2, <2>1, NoCallType DEF AtCallInv, Removes
  <2>2. CASE u # t
    BY <1>1, <1>2, <2>2, AtCallKept
  <2> QED
    BY <2>1, <2>2
<1>6. \A u \in Users : Working(u)' <=> Working(u) /\ u # t
  BY <1>2 DEF Working
<1>7. \A u \in Users : \A x : WorksOn(u, x)' <=> WorksOn(u, x) /\ u # t
  BY <1>2, <1>6 DEF WorksOn
<1>8. WorkInv(t)' /\ NothingThrows'
  BY <1>1, <1>2, <1>6 DEF WorkInv, NothingThrows
<1>9. at' \in [Users -> Nat \ {0}]
  <2>1. at \in [Users -> Nat \ {0}]
    BY <1>1 DEF TypeOK
  <2> QED
    BY <2>1
<1> QED
  BY <1>2, <1>4, <1>5, <1>6, <1>7, <1>8, <1>9 DEF Advances

LEMMA RemoveLeafKeeps ==
    ASSUME InstanceInv, NEW t \in Users, RemoveLeaf(t)
    PROVE  InstanceInv'
<1>1. PICK k, i : k = call[t].kind /\ i = call[t].id
  OBVIOUS
<1>2. /\ pc[t] = "locking" /\ call[t].op = "remove" /\ k \in {"param", "rcr"} /\ k \in Kinds
      /\ Empties(k, i) /\ shelved' = [shelved EXCEPT ![k] = Append(@, i)]
      /\ call' = [call EXCEPT ![t] = NoCall] /\ pc' = [pc EXCEPT ![t] = "idle"]
      /\ at' = [at EXCEPT ![t] = @ + 1]
      /\ occupied' = occupied /\ mutex' = mutex /\ seen' = seen /\ own' = own
      /\ job' = job /\ running' = running /\ lost' = lost
  BY <1>1 DEF RemoveLeaf, Discard, Empties, Goto, Returns, task, Kinds
<1>3. /\ TypeOK /\ ShelvedAreFree /\ OwnInv /\ RandomInv /\ PartInv /\ ReferInv
      /\ AtCallInv(t) /\ GotInv /\ \A u \in Users : WorkInv(u)
  BY DEF InstanceInv
<1>4. Active(t) /\ ~Working(t) /\ GotBefore(t, at[t], own[t]) /\ at[t] \in DOMAIN Script(t)
  BY <1>2, BusyIsActive, GotNow DEF Working, Active
<1>5. PICK j \in DOMAIN own[t][k] : Script(t)[at[t]] = <<"remove", k, j>> /\ i = own[t][k][j]
  BY <1>1, <1>2, <1>3 DEF AtCallInv
<1>6. j \in ToRemove(t, k) /\ i \in Ids(k) /\ slots[k][i] # NULL
  <2>1. j \in ToRemove(t, k)
    BY <1>3, <1>4, <1>5, RemovedIsOn
  <2>2. IsValid(k, i)
    BY <1>2, <1>4, <1>5, <2>1, HeldIsValid
  <2> QED
    BY <1>2, <1>3, <2>1, <2>2, SlotFacts DEF IsValid
<1>7. /\ PlaceInv' /\ NothingThrows' /\ WorkInv(t)' /\ \A u \in Users : AtCallInv(u)'
      /\ pc' \in [Users -> {"idle", "locking", "counting", "writing", "discarding", "thrown"}]
      /\ at' \in [Users -> Nat \ {0}] /\ call' \in [Users -> CallStates]
      /\ call'[t] = NoCall /\ \A u \in Users : u # t => call'[u] = call[u]
      /\ \A u \in Users : Working(u)' <=> Working(u)
      /\ \A u \in Users : \A x : WorksOn(u, x)' <=> WorksOn(u, x)
      /\ Advances(t)
  <2>1. Script(t)[at[t]][1] \in {"add", "remove"}
    BY <1>5
  <2> QED
    BY <1>2, <1>4, <2>1, CallReturns DEF WorksOn
<1>8. /\ slots' \in [Kinds -> Seq(Objects \cup {NULL})]
      /\ \A m \in Kinds : Len(slots'[m]) = Len(slots[m]) /\ Ids(m)' = Ids(m)
      /\ slots'[k][i] = NULL
      /\ \A m \in Kinds : m # k => slots'[m] = slots[m]
      /\ \A m \in Kinds : \A x \in Ids(m) : m # k \/ x # i => slots'[m][x] = slots[m][x]
  BY <1>2, <1>3, <1>6, SlotEmptied
<1>9. /\ slots'["pro"] = slots["pro"] /\ slots'["alg"] = slots["alg"]
      /\ slots'["rnd"] = slots["rnd"]
      /\ Ids("pro")' = Ids("pro") /\ Ids("alg")' = Ids("alg")
  BY <1>2, <1>8 DEF Kinds
<1>10. \A u \in Users : Working(u) => call[u].kind \in {"pro", "alg"} /\ u # t
  BY <1>4, WorkFacts
<1>11. \A u \in Users : Working(u) => (Removes(u)' <=> Removes(u)) /\ call'[u] = call[u]
  BY <1>7, <1>10 DEF Removes
<1>12. IdsStay /\ \A u \in Users : Working(u) => SlotKept(call[u].kind, call[u].id)
  BY <1>8, <1>9, <1>10 DEF IdsStay, SlotKept
<1>13. \A u \in Users : WorkInv(u)'
  <2>1. ASSUME NEW u \in Users, u # t
        PROVE  WorkInv(u)'
    <3>1. /\ call'[u] = call[u] /\ (Working(u)' <=> Working(u))
          /\ Working(u) => SlotKept(call[u].kind, call[u].id)
      BY <1>7, <1>12, <2>1
    <3> QED
      BY <1>2, <1>3, <1>12, <3>1, WorkInvKept
  <2> QED
    BY <1>7, <2>1
<1>14. GotInv'
  <2>1. Script(t)[at[t]][1] # "add"
    BY <1>5
  <2> QED
    BY <1>2, <1>3, <1>4, <2>1, GotGoesOn
<1>15. /\ ShelvedAreFree' /\ shelved' \in [Kinds -> Seq(Nat)]
       /\ \A m \in Kinds : \A p \in DOMAIN shelved'[m] : shelved'[m][p] \in Ids(m)
  <2>1. ~Free(k, i) /\ Free(k, i)'
    <3>1. \A u \in Users : ~WorksOn(u, <<k, i>>)'
      BY <1>2, <1>7, <1>10 DEF WorksOn
    <3> QED
      BY <1>6, <1>8, <3>1 DEF Free, Untouched
  <2>2. \A m \in Kinds : \A x \in Ids(m) : m # k \/ x # i => (Free(m, x)' <=> Free(m, x))
    BY <1>7, <1>8 DEF Free, Untouched
  <2>3. \A m \in Kinds : Ids(m)' = Ids(m)
    BY <1>8
  <2> QED
    BY <1>2, <1>3, <1>6, <2>1, <2>2, <2>3, ShelfMore
<1>16. TypeOK'
  <2>1. ASSUME NEW u \in Users
        PROVE  call'[u].id \in Ids(call[u].kind)' \cup {NoId}
    <3>1. PICK m : m = call'[u].kind
      OBVIOUS
    <3>2. m \in Kinds /\ call'[u].id \in Ids(m) \cup {NoId}
      <4>1. call'[u] \in CallStates
        BY <1>7
      <4>2. m \in Kinds
        BY <3>1, <4>1 DEF CallStates
      <4>3. call'[u].id \in Ids(m) \cup {NoId}
        <5>1. CASE u = t
          BY <1>7, <5>1, NoCallType
        <5>2. CASE u # t
          BY <1>3, <1>7, <3>1, <5>2 DEF TypeOK
        <5> QED
          BY <5>1, <5>2
      <4> QED
        BY <4>2, <4>3
    <3> QED
      BY <1>8, <3>1, <3>2
  <2>2. \A m \in Kinds : Len(occupied[m]) = Len(slots'[m])
    BY <1>3, <1>8, SlotFacts
  <2>3. \A u \in Users : \A m \in Kinds : \A q \in DOMAIN own[u][m] : own[u][m][q] \in Ids(m)'
    BY <1>3, <1>8, OwnType
  <2>4. \A m \in Kinds : \A p \in DOMAIN shelved'[m] : shelved'[m][p] \in Ids(m)'
    BY <1>8, <1>15
  <2>5. slots' \in [Kinds -> Seq(Objects \cup {NULL})]
    BY <1>8
  <2> QED
    BY <1>2, <1>3, <1>7, <1>15, <2>1, <2>2, <2>3, <2>4, <2>5 DEF TypeOK
<1>17. OwnInv'
  <2>1. ASSUME NEW u \in Users, NEW m \in Kinds, NEW q \in ToRemove(u, m)',
               NEW x, x = own[u][m][q]
        PROVE  slots'[m][x] # NULL \/ WorksOn(u, <<m, x>>)'
    <3>1. q \in ToRemove(u, m) /\ q \in DOMAIN own[u][m]
      BY <1>2, <1>3, <1>7, <2>1, ToRemoveShrinks
    <3>2. slots[m][x] # NULL \/ WorksOn(u, <<m, x>>)
      BY <1>3, <2>1, <3>1 DEF OwnInv
    <3>3. x \in Ids(m)
      BY <1>3, <2>1, <3>1, OwnType
    <3>4. ~(m = k /\ x = i)
      <4>1. ASSUME m = k, x = i
            PROVE  FALSE
        <5>1. u = t /\ q = j
          BY <1>3, <1>5, <1>6, <2>1, <3>1, <4>1 DEF OwnInv
        <5>2. j \notin ToRemove(t, k)'
          BY <1>2, <1>3, <1>4, <1>5, RemovedIsOff
        <5> QED
          BY <2>1, <4>1, <5>1, <5>2
      <4> QED
        BY <4>1
    <3> QED
      BY <1>7, <1>8, <3>2, <3>3, <3>4
  <2>2. \A u \in Users : \A x : WorksOn(u, x)' => WorksOn(u, x) /\ (Removes(u)' <=> Removes(u))
    BY <1>7, <1>11 DEF WorksOn
  <2> QED
    BY <1>2, <1>3, <1>7, <2>1, <2>2, OwnShrinks
<1>18. RandomInv'
  <2>1. ASSUME NEW m \in {"pro", "alg"}, NEW x \in Ids(m)', HasRandom(m, x)'
        PROVE  /\ x \in Ids(m) /\ HasRandom(m, x) /\ slots'[m][x].rnd = slots[m][x].rnd
               /\ IsValid("rnd", slots[m][x].rnd)'
    <3>1. x \in Ids(m) /\ slots'[m][x] = slots[m][x] /\ slots[m][x] # NULL
      BY <1>9, <2>1 DEF HasRandom
    <3>2. HasRandom(m, x)
      <4>1. ASSUME NEW u \in Users, WorksOn(u, <<m, x>>), Removes(u)
            PROVE  call[u].drop # <<>>
        <5>1. WorksOn(u, <<m, x>>)' /\ Removes(u)' /\ call'[u] = call[u]
          BY <1>7, <1>11, <4>1 DEF WorksOn
        <5> QED
          BY <2>1, <5>1 DEF HasRandom
      <4> QED
        BY <3>1, <4>1 DEF HasRandom
    <3>3. PICK r : r = slots[m][x].rnd
      OBVIOUS
    <3>4. IsValid("rnd", r)
      BY <1>3, <3>1, <3>2, <3>3 DEF RandomInv
    <3> QED
      BY <1>9, <3>1, <3>2, <3>3, <3>4 DEF IsValid
  <2> QED
    BY <1>3, <2>1, RandomShrinks
<1>19. PartInv'
  <2>1. \A u \in Users : Dropped(u)' = Dropped(u) /\ (Dropped(u) # <<>> => call'[u].kind = call[u].kind)
    BY <1>7, <1>9, <1>10, <1>11 DEF Dropped
  <2>2. \A x : PartsOf(x)' = PartsOf(x)
    BY <1>9 DEF PartsOf
  <2>3. \A u \in Users : \A q \in ToRemove(u, "param")' : q \in ToRemove(u, "param")
    BY <1>2, <1>3, <1>7, ToRemoveShrinks DEF Kinds
  <2>4. ASSUME NEW x, IsValid("param", x), IsPart(x)
        PROVE  IsValid("param", x)'
    <3>1. k = "param" => x # i
      BY <1>3, <1>5, <1>6, <2>4 DEF PartInv, IsPart
    <3>2. x \in Ids("param") /\ slots["param"][x] # NULL
      BY <1>3, <2>4, SlotFacts DEF IsValid, Kinds
    <3>3. slots'["param"][x] # NULL
      BY <1>8, <3>1, <3>2 DEF Kinds
    <3>4. DOMAIN slots'["param"] = Ids("param")'
      BY <1>8 DEF Kinds, Ids
    <3> QED
      BY <1>8, <3>2, <3>3, <3>4 DEF IsValid, Kinds
  <2>5. \A x \in Ids("alg")' : slots'["alg"][x] # NULL => slots'["alg"][x].parts = <<>>
    BY <1>3, <1>9 DEF PartInv
  <2> QED
    BY <1>2, <1>3, <1>9, <2>1, <2>2, <2>3, <2>4, <2>5, FewerParts
<1>20. ReferInv'
  <2>1. \A m \in {"pro", "alg"} : \A x \in Ids(m)' : slots'[m][x] # NULL =>
             x \in Ids(m) /\ slots'[m][x] = slots[m][x]
    BY <1>9
  <2>2. \A u \in Users : (Working(u) /\ call[u].op = "add")' =>
             /\ Working(u) /\ call[u].op = "add"
             /\ call'[u].kind = call[u].kind /\ call'[u].id = call[u].id
             /\ slots'[call[u].kind][call[u].id] = slots[call[u].kind][call[u].id]
    BY <1>7, <1>9, <1>10, <1>11
  <2> QED
    BY <1>2, <1>3, <1>7, <1>12, <2>1, <2>2, ReferShrinks
<1> QED
  BY <1>7, <1>13, <1>14, <1>15, <1>16, <1>17, <1>18, <1>19, <1>20 DEF InstanceInv

\* The end of removeProblem and removeAlgorithm: the shelf gets the id.
LEMMA RemoveReturnsKeeps ==
    ASSUME InstanceInv, NEW t \in Users, RemoveReturns(t)
    PROVE  InstanceInv'
<1>1. PICK k, i : k = call[t].kind /\ i = call[t].id
  OBVIOUS
<1>2. /\ pc[t] = "counting" /\ call[t].op = "remove" /\ Removes(t) /\ Working(t)
      /\ call[t].todo = <<>> /\ call[t].drop = <<>> /\ slots[k][i] = NULL
      /\ slots' = slots /\ shelved' = [shelved EXCEPT ![k] = Append(@, i)]
      /\ mutex' = [mutex EXCEPT ![k] = NULL]
      /\ call' = [call EXCEPT ![t] = NoCall] /\ pc' = [pc EXCEPT ![t] = "idle"]
      /\ at' = [at EXCEPT ![t] = @ + 1]
      /\ occupied' = occupied /\ seen' = seen /\ own' = own
      /\ job' = job /\ running' = running /\ lost' = lost
  BY <1>1 DEF RemoveReturns, Dropping, Goto, Returns, task, Removes, Working
<1>3. /\ TypeOK /\ ShelvedAreFree /\ OwnInv /\ RandomInv /\ PartInv /\ ReferInv
      /\ AtCallInv(t) /\ GotInv /\ \A u \in Users : WorkInv(u)
  BY DEF InstanceInv
<1>4. /\ k \in {"pro", "alg"} /\ k \in Kinds /\ i \in Ids(k)
      /\ \A u \in Users : Working(u) /\ call[u].kind = k => u = t
      /\ \A u \in Users : \A x : WorksOn(u, x) /\ WorksOn(t, x) => u = t
      /\ WorksOn(t, <<k, i>>)
      /\ \A x : WorksOn(t, x) => x = <<k, i>>
  BY <1>1, <1>2, WorkFacts DEF Kinds, WorksOn
<1>5. Active(t) /\ GotBefore(t, at[t], own[t]) /\ at[t] \in DOMAIN Script(t)
  BY <1>2, BusyIsActive, GotNow DEF Active
<1>6. PICK j \in DOMAIN own[t][k] : Script(t)[at[t]] = <<"remove", k, j>> /\ i = own[t][k][j]
  BY <1>1, <1>2, <1>3 DEF AtCallInv
<1>7. j \in ToRemove(t, k)
  BY <1>3, <1>5, <1>6, RemovedIsOn
<1>8. /\ PlaceInv' /\ NothingThrows' /\ WorkInv(t)' /\ \A u \in Users : AtCallInv(u)'
      /\ pc' \in [Users -> {"idle", "locking", "counting", "writing", "discarding", "thrown"}]
      /\ at' \in [Users -> Nat \ {0}] /\ call' \in [Users -> CallStates]
      /\ call'[t] = NoCall /\ \A u \in Users : u # t => call'[u] = call[u]
      /\ \A u \in Users : Working(u)' <=> Working(u) /\ u # t
      /\ \A u \in Users : \A x : WorksOn(u, x)' <=> WorksOn(u, x) /\ u # t
      /\ Advances(t)
  <2>1. Script(t)[at[t]][1] \in {"add", "remove"}
    BY <1>6
  <2> QED
    BY <1>2, <1>5, <2>1, CallReturns
<1>9. \A m \in Kinds : Ids(m)' = Ids(m)
  BY <1>2 DEF Ids
<1>10. /\ mutex' \in [{"alg", "pro"} -> Users \cup {NULL}]
       /\ \A m \in {"alg", "pro"} : m # k => mutex'[m] = mutex[m]
  BY <1>2, <1>3 DEF TypeOK
<1>11. \A u \in Users : u # t => (Removes(u)' <=> Removes(u)) /\ call'[u] = call[u]
  BY <1>8 DEF Removes
<1>12. \A u \in Users : WorkInv(u)'
  <2>1. ASSUME NEW u \in Users, u # t
        PROVE  WorkInv(u)'
    <3>1. call'[u] = call[u] /\ (Working(u)' <=> Working(u))
      BY <1>8, <2>1
    <3>2. Working(u) => mutex'[call[u].kind] = mutex[call[u].kind]
      BY <1>4, <1>10, <2>1, WorkFacts
    <3>3. IdsStay /\ SlotKept(call[u].kind, call[u].id)
      BY <1>2, <1>9 DEF IdsStay, SlotKept
    <3> QED
      BY <1>3, <3>1, <3>2, <3>3, WorkInvKept
  <2> QED
    BY <1>8, <2>1
<1>13. GotInv'
  <2>1. Script(t)[at[t]][1] # "add"
    BY <1>6
  <2> QED
    BY <1>2, <1>3, <1>5, <2>1, GotGoesOn
<1>14. /\ ShelvedAreFree' /\ shelved' \in [Kinds -> Seq(Nat)]
       /\ \A m \in Kinds : \A p \in DOMAIN shelved'[m] : shelved'[m][p] \in Ids(m)
  <2>1. ~Free(k, i) /\ Free(k, i)'
    <3>1. \A u \in Users : ~WorksOn(u, <<k, i>>)'
      BY <1>4, <1>8
    <3> QED
      BY <1>2, <1>4, <3>1 DEF Free, Untouched
  <2>2. \A m \in Kinds : \A x \in Ids(m) : m # k \/ x # i => (Free(m, x)' <=> Free(m, x))
    <3>1. \A m, x : m # k \/ x # i => ~WorksOn(t, <<m, x>>)
      BY <1>4
    <3>2. \A u \in Users : \A m, x : m # k \/ x # i =>
            (WorksOn(u, <<m, x>>)' <=> WorksOn(u, <<m, x>>))
      BY <1>8, <3>1
    <3> QED
      BY <1>2, <3>2 DEF Free, Untouched
  <2> QED
    BY <1>2, <1>3, <1>4, <1>9, <2>1, <2>2, ShelfMore
<1>15. TypeOK'
  <2>1. ASSUME NEW u \in Users
        PROVE  call'[u].id \in Ids(call[u].kind)' \cup {NoId}
    <3>1. PICK m : m = call'[u].kind
      OBVIOUS
    <3>2. call'[u] \in CallStates
      BY <1>8
    <3>3. m \in Kinds
      BY <3>1, <3>2 DEF CallStates
    <3>4. call'[u].id \in Ids(m) \cup {NoId}
      <4>1. CASE u = t
        BY <1>8, <4>1, NoCallType
      <4>2. CASE u # t
        BY <1>3, <1>8, <3>1, <4>2 DEF TypeOK
      <4> QED
        BY <4>1, <4>2
    <3> QED
      BY <1>9, <3>1, <3>3, <3>4
  <2>2. \A u \in Users : \A m \in Kinds : \A q \in DOMAIN own[u][m] : own[u][m][q] \in Ids(m)'
    BY <1>3, <1>9, OwnType
  <2>3. \A m \in Kinds : \A p \in DOMAIN shelved'[m] : shelved'[m][p] \in Ids(m)'
    BY <1>9, <1>14
  <2> QED
    BY <1>2, <1>3, <1>8, <1>10, <1>14, <2>1, <2>2, <2>3 DEF TypeOK
<1>16. OwnInv'
  <2>1. ASSUME NEW u \in Users, NEW m \in Kinds, NEW q \in ToRemove(u, m)',
               NEW x, x = own[u][m][q]
        PROVE  slots'[m][x] # NULL \/ WorksOn(u, <<m, x>>)'
    <3>1. q \in ToRemove(u, m) /\ q \in DOMAIN own[u][m]
      BY <1>2, <1>3, <1>8, <2>1, ToRemoveShrinks
    <3>2. slots[m][x] # NULL \/ WorksOn(u, <<m, x>>)
      BY <1>3, <2>1, <3>1 DEF OwnInv
    <3>3. ~(m = k /\ x = i)
      <4>1. ASSUME m = k, x = i
            PROVE  FALSE
        <5>1. u = t /\ q = j
          BY <1>3, <1>6, <1>7, <2>1, <3>1, <4>1 DEF OwnInv
        <5>2. j \notin ToRemove(t, k)'
          BY <1>2, <1>3, <1>4, <1>5, <1>6, RemovedIsOff
        <5> QED
          BY <2>1, <4>1, <5>1, <5>2
      <4> QED
        BY <4>1
    <3>4. ~WorksOn(t, <<m, x>>)
      BY <1>4, <3>3
    <3> QED
      BY <1>2, <1>8, <3>2, <3>4
  <2>2. \A u \in Users : \A x : WorksOn(u, x)' => WorksOn(u, x) /\ (Removes(u)' <=> Removes(u))
    BY <1>8, <1>11
  <2> QED
    BY <1>2, <1>3, <1>8, <2>1, <2>2, OwnShrinks
<1>17. RandomInv'
  <2>1. ASSUME NEW m \in {"pro", "alg"}, NEW x \in Ids(m)', HasRandom(m, x)'
        PROVE  /\ x \in Ids(m) /\ HasRandom(m, x) /\ slots'[m][x].rnd = slots[m][x].rnd
               /\ IsValid("rnd", slots[m][x].rnd)'
    <3>1. x \in Ids(m) /\ slots'[m][x] = slots[m][x] /\ slots[m][x] # NULL
      BY <1>2, <1>9, <2>1 DEF HasRandom, Kinds
    <3>2. HasRandom(m, x)
      <4>1. ASSUME NEW u \in Users, WorksOn(u, <<m, x>>), Removes(u)
            PROVE  call[u].drop # <<>>
        <5>1. u # t
          BY <1>2, <1>4, <3>1, <4>1
        <5>2. WorksOn(u, <<m, x>>)' /\ Removes(u)' /\ call'[u] = call[u]
          BY <1>8, <1>11, <4>1, <5>1
        <5> QED
          BY <2>1, <5>2 DEF HasRandom
      <4> QED
        BY <3>1, <4>1 DEF HasRandom
    <3>3. PICK r : r = slots[m][x].rnd
      OBVIOUS
    <3>4. IsValid("rnd", r)
      BY <1>3, <3>1, <3>2, <3>3 DEF RandomInv
    <3> QED
      BY <1>2, <3>1, <3>2, <3>3, <3>4 DEF IsValid
  <2> QED
    BY <1>3, <2>1, RandomShrinks
<1>18. PartInv'
  <2>1. \A u \in Users : Dropped(u)' = Dropped(u) /\ (Dropped(u) # <<>> => call'[u].kind = call[u].kind)
    <3>1. Dropped(t) = <<>> /\ Dropped(t)' = <<>>
      BY <1>2, <1>8 DEF Dropped
    <3>2. \A u \in Users : u # t => Dropped(u)' = Dropped(u)
      BY <1>2, <1>8, <1>11 DEF Dropped
    <3> QED
      BY <1>8, <3>1, <3>2
  <2>2. \A x : PartsOf(x)' = PartsOf(x)
    BY <1>2 DEF PartsOf
  <2>3. \A u \in Users : \A q \in ToRemove(u, "param")' : q \in ToRemove(u, "param")
    BY <1>2, <1>3, <1>8, ToRemoveShrinks DEF Kinds
  <2>4. \A x : IsValid("param", x) => IsValid("param", x)'
    BY <1>2 DEF IsValid
  <2>5. \A x \in Ids("alg")' : slots'["alg"][x] # NULL => slots'["alg"][x].parts = <<>>
    BY <1>2, <1>3, <1>9 DEF PartInv, Kinds
  <2>6. Ids("pro")' = Ids("pro")
    BY <1>9 DEF Kinds
  <2> QED
    BY <1>2, <1>3, <2>1, <2>2, <2>3, <2>4, <2>5, <2>6, FewerParts
<1>19. ReferInv'
  <2>1. \A m \in {"pro", "alg"} : \A x \in Ids(m)' : slots'[m][x] # NULL =>
             x \in Ids(m) /\ slots'[m][x] = slots[m][x]
    BY <1>2, <1>9 DEF Kinds
  <2>2. \A u \in Users : (Working(u) /\ call[u].op = "add")' =>
             /\ Working(u) /\ call[u].op = "add"
             /\ call'[u].kind = call[u].kind /\ call'[u].id = call[u].id
             /\ slots'[call[u].kind][call[u].id] = slots[call[u].kind][call[u].id]
    BY <1>2, <1>8, <1>11
  <2>3. IdsStay
    BY <1>9 DEF IdsStay
  <2> QED
    BY <1>2, <1>3, <1>8, <2>1, <2>2, <2>3, ReferShrinks
<1> QED
  BY <1>8, <1>12, <1>13, <1>14, <1>15, <1>16, <1>17, <1>18, <1>19 DEF InstanceInv

-----------------------------------------------------------------------------
(* The lock of a removal, and the return of an adding.                     *)

\* What an object counts is what it refers to.
GoodCounts(c, ids) ==
    /\ c \in Seq(Kinds \X Nat)
    /\ \A n \in DOMAIN c : c[n][1] \in Kinds /\ c[n][2] \in ids[c[n][1]]

LEMMA CountsAreThere ==
    ASSUME NEW o, NEW k, NEW ids,
           \A l \in {"param", "pro", "rcr", "rnd"} : o[l] \in Nat,
           \A l \in {"param", "pro", "rcr", "rnd"} : o[l] \in ids[l] \cup {NoId}
    PROVE  GoodCounts(Counts(o, k), ids) /\ GoodCounts(CountsBack(o, k), ids)
<1> DEFINE Good(s) == GoodCounts(s, ids)
<1>1. ASSUME NEW l \in {"param", "pro", "rcr", "rnd"}
      PROVE  Good(Count(o, l))
  <2>1. CASE o[l] = NoId
    BY <2>1 DEF Count, GoodCounts
  <2>2. CASE o[l] # NoId
    <3>1. Count(o, l) = << <<l, o[l]>> >> /\ o[l] \in ids[l] /\ <<l, o[l]>> \in Kinds \X Nat
      BY <2>2 DEF Count, Kinds
    <3>2. PICK x : x = <<l, o[l]>>
      OBVIOUS
    <3>3. Count(o, l) = <<x>> /\ x \in Kinds \X Nat /\ x[1] \in Kinds /\ x[2] \in ids[x[1]]
      BY <3>1, <3>2
    <3>4. <<x>> \in Seq(Kinds \X Nat) /\ \A n \in DOMAIN <<x>> : <<x>>[n] = x
      BY <3>3
    <3> QED
      BY <3>3, <3>4 DEF GoodCounts
  <2> QED
    BY <2>1, <2>2
<1>2. ASSUME NEW a, NEW b, Good(a), Good(b)
      PROVE  Good(a \o b)
  <2>1. a \o b \in Seq(Kinds \X Nat) /\ DOMAIN (a \o b) = 1..Len(a) + Len(b)
        /\ Len(a) \in Nat /\ Len(b) \in Nat /\ DOMAIN a = 1..Len(a) /\ DOMAIN b = 1..Len(b)
        /\ a \in Seq(Kinds \X Nat) /\ b \in Seq(Kinds \X Nat)
    BY <1>2 DEF GoodCounts
  <2>2. ASSUME NEW n \in DOMAIN (a \o b)
        PROVE  (\E m \in DOMAIN a : (a \o b)[n] = a[m]) \/ (\E m \in DOMAIN b : (a \o b)[n] = b[m])
    <3>1. CASE n <= Len(a)
      <4>1. n \in DOMAIN a /\ (a \o b)[n] = a[n]
        BY <2>1, <2>2, <3>1
      <4> QED
        BY <4>1
    <3>2. CASE n > Len(a)
      <4>1. n - Len(a) \in DOMAIN b /\ (a \o b)[n] = b[n - Len(a)]
        BY <2>1, <2>2, <3>2, SMTT(60)
      <4> QED
        BY <4>1
    <3> QED
      BY <2>1, <2>2, <3>1, <3>2
  <2> QED
    BY <1>2, <2>1, <2>2 DEF GoodCounts
<1>3. Good(Counts(o, k))
  <2> HIDE DEF Good
  <2>1. CASE k = "pro"
    BY <1>1, <1>2, <2>1 DEF Counts
  <2>2. CASE k # "pro"
    BY <1>1, <1>2, <2>2 DEF Counts
  <2> QED
    BY <2>1, <2>2
<1>4. Good(CountsBack(o, k))
  <2> HIDE DEF Good
  <2>1. CASE k = "pro"
    BY <1>1, <1>2, <2>1 DEF CountsBack
  <2>2. CASE k # "pro"
    BY <1>1, <1>2, <2>2 DEF CountsBack
  <2> QED
    BY <2>1, <2>2
<1> QED
  BY <1>3, <1>4

LEMMA RemoveLockedKeeps ==
    ASSUME InstanceInv, NEW t \in Users, RemoveLocked(t)
    PROVE  InstanceInv'
<1>1. PICK k, i, o, c : /\ k = call[t].kind /\ i = call[t].id /\ o = slots[k][i]
                        /\ c = CountsBack(o, k)
  OBVIOUS
<1>2. /\ pc[t] = "locking" /\ call[t].op = "remove" /\ k \in {"alg", "pro"} /\ k \in Kinds
      /\ mutex[k] = NULL /\ mutex' = [mutex EXCEPT ![k] = t]
      /\ call' = [call EXCEPT ![t].drop = << <<"rnd", o.rnd>> >>, ![t].todo = c]
      /\ pc' = [pc EXCEPT ![t] = "counting"]
      /\ slots' = slots /\ occupied' = occupied /\ shelved' = shelved /\ at' = at
      /\ seen' = seen /\ own' = own /\ job' = job /\ running' = running /\ lost' = lost
  BY <1>1 DEF RemoveLocked, Goto, task, Kinds
<1>3. /\ TypeOK /\ ShelvedAreFree /\ OwnInv /\ RandomInv /\ PartInv /\ ReferInv /\ PlaceInv
      /\ AtCallInv(t) /\ GotInv /\ NothingThrows
      /\ \A u \in Users : WorkInv(u) /\ AtCallInv(u)
  BY DEF InstanceInv
<1>4. Active(t) /\ ~Working(t) /\ GotBefore(t, at[t], own[t]) /\ at[t] \in DOMAIN Script(t)
  BY <1>2, BusyIsActive, GotNow DEF Working, Active
<1>5. PICK j \in DOMAIN own[t][k] : Script(t)[at[t]] = <<"remove", k, j>> /\ i = own[t][k][j]
  BY <1>1, <1>2, <1>3 DEF AtCallInv
<1>6. /\ j \in ToRemove(t, k) /\ i \in Ids(k) /\ slots[k][i] # NULL /\ o \in Objects
      /\ \A u \in Users : ~WorksOn(u, <<k, i>>)
  <2>1. j \in ToRemove(t, k)
    BY <1>3, <1>4, <1>5, RemovedIsOn
  <2>2. IsValid(k, i)
    BY <1>2, <1>4, <1>5, <2>1, HeldIsValid
  <2>3. i \in Ids(k) /\ slots[k][i] # NULL /\ slots[k][i] \in Objects
    BY <1>2, <1>3, <2>1, <2>2, SlotFacts DEF IsValid
  <2>4. \A u \in Users : WorksOn(u, <<k, i>>) => u = t
    BY <1>2, <1>3, <1>5, <2>1 DEF OwnInv
  <2> QED
    BY <1>1, <1>4, <2>1, <2>3, <2>4 DEF WorksOn
<1>7. \A u \in Users : Working(u) => call[u].kind \in {"pro", "alg"} /\ call[u].kind # k /\ u # t
  <2>1. \A u \in Users : Working(u) => mutex[call[u].kind] = u
    BY <1>3 DEF WorkInv
  <2>2. \A u \in Users : Working(u) => call[u].kind \in {"pro", "alg"}
    BY WorkFacts
  <2>3. \A u \in Users : u # NULL
    BY UserTypes
  <2>4. \A u \in Users : Working(u) => call[u].kind # k
    BY <1>2, <2>1, <2>3
  <2> QED
    BY <1>4, <2>2, <2>4
<1>8. /\ o.rnd \in Nat /\ c \in Seq(Kinds \X Nat)
      /\ \A n \in DOMAIN c : c[n][2] \in Ids(c[n][1])
  <2>1. \A l \in {"param", "pro", "rcr", "rnd"} : o[l] \in Ids(l) \cup {NoId} /\ o[l] \in Nat
    <3>1. \A l \in {"param", "pro", "rcr", "rnd"} : o[l] \in Ids(l) \cup {NoId}
      BY <1>1, <1>2, <1>3, <1>6 DEF ReferInv
    <3>2. \A l \in {"param", "pro", "rcr", "rnd"} : o[l] \in Nat
      BY <1>6 DEF Objects
    <3> QED
      BY <3>1, <3>2
  <2>2. PICK ids : ids = [l \in Kinds |-> Ids(l)]
    OBVIOUS
  <2>3. \A l \in Kinds : ids[l] = Ids(l)
    BY <2>2
  <2>4. \A l \in {"param", "pro", "rcr", "rnd"} : o[l] \in ids[l] \cup {NoId}
    BY <2>1, <2>3 DEF Kinds
  <2>5. \A l \in {"param", "pro", "rcr", "rnd"} : o[l] \in Nat
    BY <2>1
  <2>6. GoodCounts(c, ids)
    BY <1>1, <2>4, <2>5, CountsAreThere
  <2> QED
    BY <2>1, <2>3, <2>6, SMTT(60) DEF GoodCounts
<1>9. /\ call' \in [Users -> CallStates] /\ \A u \in Users : u # t => call'[u] = call[u]
      /\ call'[t].drop = << <<"rnd", o.rnd>> >> /\ call'[t].todo = c
      /\ call'[t].op = call[t].op /\ call'[t].kind = k /\ call'[t].id = i
  <2>1. call \in [Users -> CallStates] /\ call[t] \in CallStates
    BY <1>3 DEF TypeOK
  <2>2. << <<"rnd", o.rnd>> >> \in Seq(Kinds \X Nat)
    BY <1>8 DEF Kinds
  <2>3. PICK d : d = << <<"rnd", o.rnd>> >>
    OBVIOUS
  <2>4. call' = [call EXCEPT ![t].drop = d, ![t].todo = c]
    BY <1>2, <2>3
  <2>5. \A u \in Users : u # t => call'[u] = call[u]
    BY <2>1, <2>4
  <2>6. call'[t] = [[call[t] EXCEPT !.drop = d] EXCEPT !.todo = c]
    BY <2>1, <2>4
  <2>7. call'[t] = [op |-> call[t].op, kind |-> call[t].kind, id |-> call[t].id, todo |-> c, drop |-> d]
    BY <2>1, <2>6 DEF CallStates
  <2>8. call'[t] \in CallStates
    BY <1>8, <2>1, <2>2, <2>3, <2>7 DEF CallStates
  <2>9. DOMAIN call' = Users /\ call' = [u \in Users |-> call'[u]]
    BY <2>1, <2>4
  <2> QED
    BY <1>1, <2>1, <2>3, <2>5, <2>7, <2>8, <2>9
<1>10. /\ pc' \in [Users -> {"idle", "locking", "counting", "writing", "discarding", "thrown"}]
       /\ pc'[t] = "counting" /\ \A u \in Users : u # t => pc'[u] = pc[u]
       /\ mutex' \in [{"alg", "pro"} -> Users \cup {NULL}] /\ mutex'[k] = t
       /\ \A m \in {"alg", "pro"} : m # k => mutex'[m] = mutex[m]
  BY <1>2, <1>3 DEF TypeOK
<1>11. /\ Working(t)' /\ Removes(t)'
       /\ \A u \in Users : u # t => /\ Working(u)' <=> Working(u)
                                    /\ Removes(u)' <=> Removes(u)
                                    /\ \A x : WorksOn(u, x)' <=> WorksOn(u, x)
       /\ \A x : WorksOn(t, x)' <=> x = <<k, i>>
       /\ \A x : ~WorksOn(t, x)
  BY <1>2, <1>4, <1>9, <1>10 DEF Working, WorksOn, Removes
<1>12. Script(t)' = Script(t) /\ Advances(t) /\ \A m : Ids(m)' = Ids(m)
  BY <1>2, ScriptStays DEF Advances, Ids
<1>13. PlaceInv' /\ GotInv' /\ NothingThrows'
  <2>1. PlaceInv'
    BY <1>2, <1>3, <1>4, <1>10, PlaceStays
  <2>2. GotInv'
    BY <1>2, <1>3, GotStays
  <2>3. NothingThrows'
    BY <1>3, <1>10 DEF NothingThrows
  <2> QED
    BY <2>1, <2>2, <2>3
<1>14. \A u \in Users : AtCallInv(u)'
  <2>1. ASSUME NEW u \in Users, u # t
        PROVE  AtCallInv(u)'
    BY <1>2, <1>3, <1>9, <1>10, <2>1, AtCallKept
  <2>2. AtCallInv(t)'
    <3>1. /\ call'[t].op = "remove" /\ call'[t].kind = k /\ call'[t].id = i
          /\ pc'[t] = "counting" /\ k \in {"pro", "alg"}
      BY <1>2, <1>9, <1>10
    <3>2. \E q \in DOMAIN own'[t][k] : Script(t)'[at'[t]] = <<"remove", k, q>> /\ i = own'[t][k][q]
      BY <1>2, <1>5, <1>12
    <3> QED
      BY <3>1, <3>2 DEF AtCallInv, Removes
  <2> QED
    BY <2>1, <2>2
<1>15. \A u \in Users : WorkInv(u)'
  <2>1. ASSUME NEW u \in Users, u # t
        PROVE  WorkInv(u)'
    <3>1. IdsStay /\ SlotKept(call[u].kind, call[u].id)
      BY <1>2, <1>12 DEF IdsStay, SlotKept
    <3>2. Working(u) => mutex'[call[u].kind] = mutex[call[u].kind]
      BY <1>7, <1>10
    <3> QED
      BY <1>3, <1>9, <1>11, <2>1, <3>1, <3>2, WorkInvKept
  <2>2. WorkInv(t)'
    <3>1. \A n \in DOMAIN call'[t].todo : call'[t].todo[n][2] \in Ids(call[t].todo[n][1])'
      BY <1>8, <1>9, <1>12
    <3>2. call'[t].id \in Ids(call[t].kind)'
      BY <1>6, <1>9, <1>12
    <3>3. /\ mutex'[call'[t].kind] = t /\ call'[t].op # "add"
          /\ slots'[call'[t].kind][call'[t].id] = o /\ o # NULL
          /\ call'[t].drop = << <<"rnd", o.rnd>> >> /\ call'[t].drop # <<>>
      <4>1. call'[t].drop = << <<"rnd", o.rnd>> >> /\ call'[t].drop # <<>>
        BY <1>9, SMTT(60)
      <4>2. slots'[k][i] = o /\ o # NULL /\ call'[t].op # "add"
        BY <1>1, <1>2, <1>6, <1>9, ZenonT(60)
      <4> QED
        BY <1>9, <1>10, <4>1, <4>2
    <3> QED
      BY <3>1, <3>2, <3>3 DEF WorkInv
  <2> QED
    BY <2>1, <2>2
<1>16. ShelvedAreFree'
  <2>1. \A m \in Kinds : \A x \in Ids(m) : Free(m, x)' <=> Free(m, x)
    <3>1. ~Free(k, i) /\ ~Free(k, i)'
      BY <1>2, <1>6 DEF Free
    <3>2. \A m, x : m # k \/ x # i => <<m, x>> # <<k, i>>
      OBVIOUS
    <3>3. \A m \in Kinds : \A x \in Ids(m) : m # k \/ x # i => (Untouched(m, x)' <=> Untouched(m, x))
      BY <1>11, <3>2 DEF Untouched
    <3> QED
      BY <1>2, <3>1, <3>3 DEF Free
  <2> QED
    BY <1>2, <1>3, <1>12, <2>1, ShelfSame
<1>17. TypeOK'
  <2>1. ASSUME NEW u \in Users
        PROVE  call'[u].id \in Ids(call[u].kind)' \cup {NoId}
    <3>1. CASE u = t
      BY <1>6, <1>9, <1>12, <3>1
    <3>2. CASE u # t
      <4>1. call[u].id \in Ids(call[u].kind) \cup {NoId} /\ call'[u] = call[u]
        BY <1>3, <1>9, <3>2 DEF TypeOK
      <4> QED
        BY <1>12, <4>1
    <3> QED
      BY <3>1, <3>2
  <2> QED
    BY <1>2, <1>3, <1>9, <1>10, <1>12, <2>1 DEF TypeOK
<1>18. OwnInv'
  <2>1. \A u \in Users, m \in Kinds : \A q \in ToRemove(u, m)' :
          q \in ToRemove(u, m) /\ q \in DOMAIN own[u][m]
    BY <1>2, <1>3, <1>12, ToRemoveShrinks
  <2>2. ASSUME NEW u \in Users, NEW m \in Kinds, NEW q \in ToRemove(u, m)',
               NEW x, x = own[u][m][q]
        PROVE  /\ slots[m][x] # NULL \/ WorksOn(u, <<m, x>>)'
               /\ \A v \in Users : WorksOn(v, <<m, x>>)' => v = u /\ Removes(v)'
               /\ \A v \in Users : \A p \in ToRemove(v, m)' :
                    own[v][m][p] = x => v = u /\ p = q
    <3>1. /\ slots[m][x] # NULL \/ WorksOn(u, <<m, x>>)
          /\ \A v \in Users : WorksOn(v, <<m, x>>) => v = u /\ Removes(v)
          /\ \A v \in Users : \A p \in ToRemove(v, m) : own[v][m][p] = x => v = u /\ p = q
      BY <1>3, <2>1, <2>2 DEF OwnInv
    <3>2. WorksOn(t, <<m, x>>)' => t = u
      <4>1. ASSUME WorksOn(t, <<m, x>>)'
            PROVE  t = u
        <5>1. m = k /\ x = i
          BY <1>11, <4>1
        <5> QED
          BY <1>5, <1>6, <3>1, <5>1
      <4> QED
        BY <4>1
    <3> QED
      BY <1>11, <2>1, <3>1, <3>2
  <2> QED
    BY <1>2, <2>2 DEF OwnInv
<1>19. RandomInv'
  <2>1. ASSUME NEW m \in {"pro", "alg"}, NEW x \in Ids(m)', HasRandom(m, x)'
        PROVE  /\ x \in Ids(m) /\ HasRandom(m, x) /\ slots'[m][x].rnd = slots[m][x].rnd
               /\ IsValid("rnd", slots[m][x].rnd)'
    <3>1. x \in Ids(m) /\ slots'[m][x] = slots[m][x] /\ slots[m][x] # NULL
      BY <1>2, <1>12, <2>1 DEF HasRandom
    <3>2. HasRandom(m, x)
      <4>1. ASSUME NEW u \in Users, WorksOn(u, <<m, x>>), Removes(u)
            PROVE  call[u].drop # <<>>
        <5>1. u # t
          BY <1>11, <4>1
        <5>2. WorksOn(u, <<m, x>>)' /\ Removes(u)' /\ call'[u] = call[u]
          BY <1>9, <1>11, <4>1, <5>1
        <5> QED
          BY <2>1, <5>2 DEF HasRandom
      <4> QED
        BY <3>1, <4>1 DEF HasRandom
    <3>3. PICK r : r = slots[m][x].rnd
      OBVIOUS
    <3>4. IsValid("rnd", r)
      BY <1>3, <3>1, <3>2, <3>3 DEF RandomInv
    <3> QED
      BY <1>2, <3>1, <3>2, <3>3, <3>4 DEF IsValid
  <2> QED
    BY <1>3, <2>1, RandomShrinks
<1>20. PartInv'
  <2>1. \A u \in Users : Dropped(u)' = Dropped(u) /\ (Dropped(u) # <<>> => call'[u].kind = call[u].kind)
    <3>1. Dropped(t) = <<>> /\ Dropped(t)' = <<>>
      BY <1>1, <1>2, <1>4, <1>6, <1>9, ZenonT(60) DEF Dropped
    <3>2. \A u \in Users : u # t => Dropped(u)' = Dropped(u)
      BY <1>2, <1>9, <1>11 DEF Dropped
    <3> QED
      BY <1>9, <3>1, <3>2
  <2>2. \A x : PartsOf(x)' = PartsOf(x)
    BY <1>2 DEF PartsOf
  <2>3. \A u \in Users : \A q \in ToRemove(u, "param")' : q \in ToRemove(u, "param")
    BY <1>2, <1>3, <1>12, ToRemoveShrinks DEF Kinds
  <2>4. \A x : IsValid("param", x) => IsValid("param", x)'
    BY <1>2 DEF IsValid
  <2>5. \A x \in Ids("alg")' : slots'["alg"][x] # NULL => slots'["alg"][x].parts = <<>>
    BY <1>2, <1>3, <1>12 DEF PartInv
  <2> QED
    BY <1>2, <1>3, <1>12, <2>1, <2>2, <2>3, <2>4, <2>5, FewerParts
<1>21. ReferInv'
  <2>1. \A m \in {"pro", "alg"} : \A x \in Ids(m)' : slots'[m][x] # NULL =>
             x \in Ids(m) /\ slots'[m][x] = slots[m][x]
    BY <1>2, <1>12
  <2>2. \A u \in Users : (Working(u) /\ call[u].op = "add")' =>
             /\ Working(u) /\ call[u].op = "add"
             /\ call'[u].kind = call[u].kind /\ call'[u].id = call[u].id
             /\ slots'[call[u].kind][call[u].id] = slots[call[u].kind][call[u].id]
    <3>1. call'[t].op # "add"
      BY <1>2, <1>9
    <3> QED
      BY <1>2, <1>9, <1>11, <3>1
  <2>3. IdsStay
    BY <1>12 DEF IdsStay
  <2> QED
    BY <1>2, <1>3, <1>12, <2>1, <2>2, <2>3, ReferShrinks
<1> QED
  BY <1>13, <1>14, <1>15, <1>16, <1>17, <1>18, <1>19, <1>20, <1>21 DEF InstanceInv

\* A thread gets an id.
Gets(t, k, i) == own' = [own EXCEPT ![t][k] = Append(@, i)]

OwnGrows(t, k, i) ==
    /\ own' \in [Users -> IdLists] /\ \A u \in Users : u # t => own'[u] = own[u]
    /\ \A m \in Kinds : m # k => own'[t][m] = own[t][m]
    /\ Len(own'[t][k]) = Len(own[t][k]) + 1
    /\ \A j \in 1..Len(own[t][k]) : own'[t][k][j] = own[t][k][j]
    /\ own'[t][k][Len(own[t][k]) + 1] = i
    /\ \A u \in Users : \A m \in Kinds : \A j \in DOMAIN own'[u][m] :
         \/ j \in DOMAIN own[u][m] /\ own'[u][m][j] = own[u][m][j]
         \/ u = t /\ m = k /\ j = Len(own[t][k]) + 1 /\ own'[u][m][j] = i
    /\ \A u \in Users : \A m \in Kinds : \A j \in ToRemove(u, m)' :
         \/ j \in ToRemove(u, m) /\ j \in DOMAIN own[u][m] /\ own'[u][m][j] = own[u][m][j]
         \/ u = t /\ m = k /\ j = Len(own[t][k]) + 1 /\ own'[u][m][j] = i

LEMMA OwnMore ==
    ASSUME TypeOK, NEW t \in Users, NEW k \in Kinds, NEW i \in Nat, Script(t)[at[t]][1] = "add",
           at' = [at EXCEPT ![t] = @ + 1], Gets(t, k, i), job' = job
    PROVE  OwnGrows(t, k, i)
<1>1. /\ own \in [Users -> IdLists] /\ own[t] \in IdLists
      /\ \A u \in Users : \A m \in Kinds : own[u][m] \in Seq(Nat)
  <2>1. own \in [Users -> IdLists]
    BY DEF TypeOK, IdLists
  <2> QED
    BY <2>1 DEF IdLists
<1>2. PICK ids : ids = own[t]
  OBVIOUS
<1>3. PICK s : s = ids[k]
  OBVIOUS
<1>4. /\ s \in Seq(Nat) /\ Len(s) \in Nat /\ DOMAIN s = 1..Len(s) /\ Append(s, i) \in Seq(Nat)
      /\ Len(Append(s, i)) = Len(s) + 1 /\ DOMAIN Append(s, i) = 1..Len(s) + 1
      /\ \A j \in 1..Len(s) : Append(s, i)[j] = s[j]
      /\ Append(s, i)[Len(s) + 1] = i
  BY <1>1, <1>2, <1>3
<1>5. /\ own' = [own EXCEPT ![t] = [ids EXCEPT ![k] = Append(s, i)]]
      /\ own'[t] = [ids EXCEPT ![k] = Append(s, i)]
      /\ \A u \in Users : u # t => own'[u] = own[u]
  BY <1>1, <1>2, <1>3 DEF Gets
<1>6. /\ own'[t] \in IdLists /\ own'[t][k] = Append(s, i)
      /\ \A m \in Kinds : m # k => own'[t][m] = own[t][m]
  BY <1>1, <1>2, <1>4, <1>5 DEF IdLists
<1>7. own' \in [Users -> IdLists]
  BY <1>1, <1>5, <1>6
<1>8. \A u \in Users : \A m \in Kinds : \A j \in DOMAIN own'[u][m] :
        \/ j \in DOMAIN own[u][m] /\ own'[u][m][j] = own[u][m][j]
        \/ u = t /\ m = k /\ j = Len(own[t][k]) + 1 /\ own'[u][m][j] = i
  <2>1. ASSUME NEW u \in Users, NEW m \in Kinds, NEW j \in DOMAIN own'[u][m]
        PROVE  \/ j \in DOMAIN own[u][m] /\ own'[u][m][j] = own[u][m][j]
               \/ u = t /\ m = k /\ j = Len(own[t][k]) + 1 /\ own'[u][m][j] = i
    <3>1. CASE u = t /\ m = k
      <4>1. j \in 1..Len(s) + 1
        BY <1>4, <1>6, <2>1, <3>1
      <4>2. j \in 1..Len(s) \/ j = Len(s) + 1
        BY <1>4, <4>1
      <4> QED
        BY <1>2, <1>3, <1>4, <1>6, <3>1, <4>2
    <3>2. CASE ~(u = t /\ m = k)
      BY <1>5, <1>6, <2>1, <3>2
    <3> QED
      BY <3>1, <3>2
  <2> QED
    BY <2>1
<1>9. ASSUME NEW u \in Users, NEW m \in Kinds, NEW j \in ToRemove(u, m)'
      PROVE  \/ j \in ToRemove(u, m) /\ j \in DOMAIN own[u][m] /\ own'[u][m][j] = own[u][m][j]
             \/ u = t /\ m = k /\ j = Len(own[t][k]) + 1 /\ own'[u][m][j] = i
  <2>1. Script(u)' = Script(u)
    BY ScriptStays
  <2>2. j \in DOMAIN own'[u][m]
    BY <1>9 DEF ToRemove
  <2>3. PICK n \in DOMAIN Script(u) : n >= at'[u] /\ Script(u)[n] = <<"remove", m, j>>
    BY <1>9, <2>1 DEF ToRemove
  <2>4. n \in Nat
    <3>1. JobOK
      BY DEF TypeOK, JobOK
    <3> QED
      BY <2>3, <3>1, ScriptType
  <2>5. n >= at[u]
    <3>1. at[u] \in Nat /\ at'[u] \in Nat /\ at[u] <= at'[u]
      BY AdvancesOn DEF Advances
    <3> QED
      BY <2>3, <2>4, <3>1
  <2>6. CASE j \in DOMAIN own[u][m] /\ own'[u][m][j] = own[u][m][j]
    BY <2>3, <2>5, <2>6 DEF ToRemove
  <2>7. CASE u = t /\ m = k /\ j = Len(own[t][k]) + 1 /\ own'[u][m][j] = i
    BY <2>7
  <2> QED
    BY <1>8, <2>2, <2>6, <2>7
<1> QED
  BY <1>2, <1>3, <1>4, <1>5, <1>6, <1>7, <1>8, <1>9 DEF OwnGrows

LEMMA AddReturnsKeeps ==
    ASSUME InstanceInv, NEW t \in Users, AddReturns(t)
    PROVE  InstanceInv'
<1>1. PICK k, i : k = call[t].kind /\ i = call[t].id
  OBVIOUS
<1>2. /\ pc[t] = "counting" /\ call[t].op = "add" /\ ~Removes(t) /\ Working(t)
      /\ slots' = slots /\ shelved' = shelved
      /\ mutex' = [mutex EXCEPT ![k] = NULL]
      /\ call' = [call EXCEPT ![t] = NoCall] /\ pc' = [pc EXCEPT ![t] = "idle"]
      /\ at' = [at EXCEPT ![t] = @ + 1] /\ own' = [own EXCEPT ![t][k] = Append(@, i)]
      /\ occupied' = occupied /\ seen' = seen
      /\ job' = job /\ running' = running /\ lost' = lost
  BY <1>1 DEF AddReturns, Goto, Returns, task, Removes, Working
<1>3. /\ TypeOK /\ ShelvedAreFree /\ OwnInv /\ RandomInv /\ PartInv /\ ReferInv
      /\ AtCallInv(t) /\ GotInv /\ \A u \in Users : WorkInv(u)
  BY DEF InstanceInv
<1>4. /\ k \in {"pro", "alg"} /\ k \in Kinds /\ i \in Ids(k)
      /\ \A u \in Users : Working(u) /\ call[u].kind = k => u = t
      /\ \A u \in Users : \A x : WorksOn(u, x) /\ WorksOn(t, x) => u = t
      /\ WorksOn(t, <<k, i>>)
      /\ \A x : WorksOn(t, x) => x = <<k, i>>
  BY <1>1, <1>2, WorkFacts DEF Kinds, WorksOn
<1>5. Active(t) /\ GotBefore(t, at[t], own[t]) /\ at[t] \in DOMAIN Script(t)
  BY <1>2, BusyIsActive, GotNow, SMTT(60) DEF Active
<1>6. /\ Script(t)[at[t]] = <<"add", k, 1>> /\ slots[k][i] # NULL
      /\ slots[k][i].param = own[t]["param"][1]
      /\ k = "alg" => slots[k][i].pro = OwnId(t, "pro")
  BY <1>1, <1>2, <1>3 DEF AtCallInv, WorkInv, ReferInv
<1>7. i \in Nat
  BY <1>3, <1>4, SlotFacts
<1>8. /\ PlaceInv' /\ NothingThrows' /\ WorkInv(t)' /\ \A u \in Users : AtCallInv(u)'
      /\ pc' \in [Users -> {"idle", "locking", "counting", "writing", "discarding", "thrown"}]
      /\ at' \in [Users -> Nat \ {0}] /\ call' \in [Users -> CallStates]
      /\ call'[t] = NoCall /\ \A u \in Users : u # t => call'[u] = call[u]
      /\ \A u \in Users : Working(u)' <=> Working(u) /\ u # t
      /\ \A u \in Users : \A x : WorksOn(u, x)' <=> WorksOn(u, x) /\ u # t
      /\ Advances(t)
  <2>1. Script(t)[at[t]][1] \in {"add", "remove"}
    BY <1>6
  <2>2. \A u \in Users : u # t => own'[u] = own[u]
    BY <1>2, <1>3 DEF TypeOK
  <2> QED
    BY <1>2, <1>5, <2>1, <2>2, CallReturns
<1>9. \A m \in Kinds : Ids(m)' = Ids(m)
  BY <1>2 DEF Ids
<1>10. /\ mutex' \in [{"alg", "pro"} -> Users \cup {NULL}]
       /\ \A m \in {"alg", "pro"} : m # k => mutex'[m] = mutex[m]
  BY <1>2, <1>3 DEF TypeOK
<1>11. \A u \in Users : u # t => (Removes(u)' <=> Removes(u)) /\ call'[u] = call[u]
  BY <1>8 DEF Removes
<1>12. \A u \in Users : WorkInv(u)'
  <2>1. ASSUME NEW u \in Users, u # t
        PROVE  WorkInv(u)'
    <3>1. call'[u] = call[u] /\ (Working(u)' <=> Working(u))
      BY <1>8, <2>1
    <3>2. Working(u) => mutex'[call[u].kind] = mutex[call[u].kind]
      BY <1>4, <1>10, <2>1, WorkFacts
    <3>3. IdsStay /\ SlotKept(call[u].kind, call[u].id)
      BY <1>2, <1>9 DEF IdsStay, SlotKept
    <3> QED
      BY <1>3, <3>1, <3>2, <3>3, WorkInvKept
  <2> QED
    BY <1>8, <2>1
<1>13. GotInv'
  BY <1>2, <1>3, <1>4, <1>5, <1>6, <1>7, GotMore
<1>14. /\ own' \in [Users -> IdLists] /\ \A u \in Users : u # t => own'[u] = own[u]
       /\ \A m \in Kinds : m # k => own'[t][m] = own[t][m]
       /\ \A j \in 1..Len(own[t][k]) : own'[t][k][j] = own[t][k][j]
       /\ Len(own'[t][k]) = Len(own[t][k]) + 1
       /\ own'[t][k][Len(own[t][k]) + 1] = i
       /\ \A u \in Users : \A m \in Kinds : \A j \in DOMAIN own'[u][m] :
                \/ j \in DOMAIN own[u][m] /\ own'[u][m][j] = own[u][m][j]
                \/ u = t /\ m = k /\ j = Len(own[t][k]) + 1 /\ own'[u][m][j] = i
       /\ \A u \in Users : \A m \in Kinds : \A j \in ToRemove(u, m)' :
                \/ j \in ToRemove(u, m) /\ j \in DOMAIN own[u][m] /\ own'[u][m][j] = own[u][m][j]
                \/ u = t /\ m = k /\ j = Len(own[t][k]) + 1 /\ own'[u][m][j] = i
  <2>1. Script(t)[at[t]][1] = "add"
    BY <1>6
  <2>2. /\ TypeOK /\ k \in Kinds /\ i \in Nat /\ job' = job
        /\ at' = [at EXCEPT ![t] = @ + 1] /\ Gets(t, k, i)
    BY <1>2, <1>3, <1>4, <1>7 DEF Gets
  <2>3. OwnGrows(t, k, i)
    BY <2>1, <2>2, OwnMore
  <2> QED
    BY <2>3 DEF OwnGrows
<1>15. ShelvedAreFree'
  <2>1. \A m \in Kinds : \A x \in Ids(m) : Free(m, x)' <=> Free(m, x)
    <3>1. ~Free(k, i) /\ ~Free(k, i)'
      BY <1>2, <1>6 DEF Free
    <3>2. \A m, x : m # k \/ x # i => ~WorksOn(t, <<m, x>>)
      BY <1>4
    <3>3. \A m \in Kinds : \A x \in Ids(m) : m # k \/ x # i => (Untouched(m, x)' <=> Untouched(m, x))
      BY <1>8, <3>2 DEF Untouched
    <3> QED
      BY <1>2, <3>1, <3>3 DEF Free
  <2> QED
    BY <1>2, <1>3, <1>9, <2>1, ShelfSame
<1>16. TypeOK'
  <2>1. ASSUME NEW u \in Users
        PROVE  call'[u].id \in Ids(call[u].kind)' \cup {NoId}
    <3>1. CASE u = t
      BY <1>8, <3>1, NoCallType
    <3>2. CASE u # t
      <4>1. call[u].id \in Ids(call[u].kind) \cup {NoId} /\ call'[u] = call[u]
            /\ call[u].kind \in Kinds
        BY <1>3, <1>8, <3>2, CallType DEF TypeOK
      <4> QED
        BY <1>9, <4>1
    <3> QED
      BY <3>1, <3>2
  <2>2. \A u \in Users : \A m \in Kinds : \A q \in DOMAIN own'[u][m] : own'[u][m][q] \in Ids(m)'
    <3>1. ASSUME NEW u \in Users, NEW m \in Kinds, NEW q \in DOMAIN own'[u][m]
          PROVE  own'[u][m][q] \in Ids(m)
      <4>1. CASE q \in DOMAIN own[u][m] /\ own'[u][m][q] = own[u][m][q]
        BY <1>3, <4>1, OwnType
      <4>2. CASE m = k /\ own'[u][m][q] = i
        BY <1>4, <4>2
      <4> QED
        BY <1>14, <3>1, <4>1, <4>2
    <3> QED
      BY <1>9, <3>1
  <2>3. /\ slots' \in [Kinds -> Seq(Objects \cup {NULL})]
        /\ occupied' \in [Kinds -> Seq(0..Modulus - 1)] /\ shelved' \in [Kinds -> Seq(Nat)]
        /\ \A m \in Kinds : Len(occupied'[m]) = Len(slots'[m])
        /\ \A m \in Kinds : \A p \in DOMAIN shelved'[m] : shelved'[m][p] \in Ids(m)'
        /\ seen' \in [Users -> [size : Nat, count : 0..Modulus - 1]]
        /\ job' \in 0..Len(Tasks) /\ running' \subseteq Threads /\ lost' \in BOOLEAN
    BY <1>2, <1>3, <1>9, SMTT(60) DEF TypeOK
  <2>4. own' \in [Users -> [Kinds -> Seq(Nat)]]
    BY <1>14 DEF IdLists
  <2> QED
    BY <1>8, <1>10, <2>1, <2>2, <2>3, <2>4 DEF TypeOK
<1>17. OwnInv'
  <2>1. \A u \in Users : \A q \in ToRemove(u, k) : own[u][k][q] # i
    <3>1. \A u \in Users : \A q \in ToRemove(u, k) : \A v \in Users :
            WorksOn(v, <<k, own[u][k][q]>>) => Removes(v)
      BY <1>3, <1>4 DEF OwnInv
    <3> QED
      BY <1>2, <1>4, <3>1
  <2>2. ASSUME NEW u \in Users, NEW m \in Kinds, NEW q \in ToRemove(u, m)',
               NEW x, x = own'[u][m][q]
        PROVE  /\ slots[m][x] # NULL \/ WorksOn(u, <<m, x>>)'
               /\ \A v \in Users : WorksOn(v, <<m, x>>)' => v = u /\ Removes(v)'
               /\ \A v \in Users : \A p \in ToRemove(v, m)' :
                    own'[v][m][p] = x => v = u /\ p = q
    <3>1. CASE q \in ToRemove(u, m) /\ x = own[u][m][q]
      <4>1. /\ slots[m][x] # NULL \/ WorksOn(u, <<m, x>>)
            /\ \A v \in Users : WorksOn(v, <<m, x>>) => v = u /\ Removes(v)
            /\ \A v \in Users : \A p \in ToRemove(v, m) : own[v][m][p] = x => v = u /\ p = q
        BY <1>3, <3>1 DEF OwnInv
      <4>2. m = k => x # i
        BY <2>1, <3>1
      <4>3. ~WorksOn(t, <<m, x>>)
        BY <1>4, <4>2
      <4>4. ASSUME NEW v \in Users, NEW p \in ToRemove(v, m)', own'[v][m][p] = x
            PROVE  v = u /\ p = q
        <5>1. p \in ToRemove(v, m) /\ own[v][m][p] = x
          BY <1>14, <4>2, <4>4
        <5> QED
          BY <4>1, <5>1
      <4> QED
        BY <1>8, <1>11, <4>1, <4>3, <4>4
    <3>2. CASE u = t /\ m = k /\ q = Len(own[t][k]) + 1 /\ x = i
      <4>1. \A v \in Users : ~WorksOn(v, <<m, x>>)'
        BY <1>4, <1>8, <3>2
      <4>2. ASSUME NEW v \in Users, NEW p \in ToRemove(v, m)', own'[v][m][p] = x
            PROVE  v = u /\ p = q
        BY <1>14, <2>1, <3>2, <4>2
      <4> QED
        BY <1>6, <3>2, <4>1, <4>2
    <3> QED
      BY <1>14, <2>2, <3>1, <3>2
  <2>3. \A u \in Users, m \in Kinds : \A q \in ToRemove(u, m)' :
          /\ slots'[m][own'[u][m][q]] # NULL \/ WorksOn(u, <<m, own[u][m][q]>>)'
          /\ \A v \in Users : WorksOn(v, <<m, own[u][m][q]>>)' => v = u /\ Removes(u)'
          /\ \A v \in Users : \A p \in ToRemove(v, m)' :
               own'[v][m][p] = own'[u][m][q] => v = u /\ p = q
    <3>1. ASSUME NEW u \in Users, NEW m \in Kinds, NEW q \in ToRemove(u, m)'
          PROVE  /\ slots'[m][own'[u][m][q]] # NULL \/ WorksOn(u, <<m, own[u][m][q]>>)'
                 /\ \A v \in Users : WorksOn(v, <<m, own[u][m][q]>>)' => v = u /\ Removes(u)'
                 /\ \A v \in Users : \A p \in ToRemove(v, m)' :
                      own'[v][m][p] = own'[u][m][q] => v = u /\ p = q
      <4>1. PICK x : x = own'[u][m][q]
        OBVIOUS
      <4>2. /\ slots'[m][x] # NULL \/ WorksOn(u, <<m, x>>)'
            /\ \A v \in Users : WorksOn(v, <<m, x>>)' => v = u /\ Removes(v)'
            /\ \A v \in Users : \A p \in ToRemove(v, m)' : own'[v][m][p] = x => v = u /\ p = q
        <5>1. slots' = slots
          BY <1>2
        <5> QED
          BY <2>2, <3>1, <4>1, <5>1
      <4> QED
        BY <4>1, <4>2 DEF WorksOn
    <3> QED
      BY <3>1
  <2> QED
    BY <2>3 DEF OwnInv
<1>18. RandomInv'
  <2>1. ASSUME NEW m \in {"pro", "alg"}, NEW x \in Ids(m)', HasRandom(m, x)'
        PROVE  /\ x \in Ids(m) /\ HasRandom(m, x) /\ slots'[m][x].rnd = slots[m][x].rnd
               /\ IsValid("rnd", slots[m][x].rnd)'
    <3>1. x \in Ids(m) /\ slots'[m][x] = slots[m][x] /\ slots[m][x] # NULL
      BY <1>2, <1>9, <2>1 DEF HasRandom, Kinds
    <3>2. HasRandom(m, x)
      <4>1. ASSUME NEW u \in Users, WorksOn(u, <<m, x>>), Removes(u)
            PROVE  call[u].drop # <<>>
        <5>1. u # t
          BY <1>2, <4>1
        <5>2. WorksOn(u, <<m, x>>)' /\ Removes(u)' /\ call'[u] = call[u]
          BY <1>8, <1>11, <4>1, <5>1
        <5> QED
          BY <2>1, <5>2 DEF HasRandom
      <4> QED
        BY <3>1, <4>1 DEF HasRandom
    <3>3. PICK r : r = slots[m][x].rnd
      OBVIOUS
    <3>4. IsValid("rnd", r)
      BY <1>3, <3>1, <3>2, <3>3 DEF RandomInv
    <3> QED
      BY <1>2, <3>1, <3>2, <3>3, <3>4 DEF IsValid
  <2> QED
    BY <1>3, <2>1, RandomShrinks
<1>19. PartInv'
  <2>1. \A u \in Users : Dropped(u)' = Dropped(u) /\ (Dropped(u) # <<>> => call'[u].kind = call[u].kind)
    <3>1. Dropped(t) = <<>> /\ Dropped(t)' = <<>>
      BY <1>2, <1>8 DEF Dropped
    <3>2. \A u \in Users : u # t => Dropped(u)' = Dropped(u)
      BY <1>2, <1>8, <1>11 DEF Dropped
    <3> QED
      BY <1>8, <3>1, <3>2
  <2>2. \A x : PartsOf(x)' = PartsOf(x)
    BY <1>2 DEF PartsOf
  <2>3. \A u \in Users : \A q \in ToRemove(u, "param")' :
          q \in ToRemove(u, "param") /\ own'[u]["param"][q] = own[u]["param"][q]
    BY <1>4, <1>14 DEF Kinds
  <2>4. \A x : IsValid("param", x) => IsValid("param", x)'
    BY <1>2 DEF IsValid
  <2>5. \A x \in Ids("alg")' : slots'["alg"][x] # NULL => slots'["alg"][x].parts = <<>>
    BY <1>2, <1>3, <1>9 DEF PartInv, Kinds
  <2>6. Ids("pro")' = Ids("pro")
    BY <1>9 DEF Kinds
  <2> QED
    BY <1>2, <1>3, <2>1, <2>2, <2>3, <2>4, <2>5, <2>6, FewerParts
<1>20. ReferInv'
  <2>1. \A m \in {"pro", "alg"} : \A x \in Ids(m)' : slots'[m][x] # NULL =>
             \A l \in {"param", "pro", "rcr", "rnd"} : slots'[m][x][l] \in Ids(l)' \cup {NoId}
    BY <1>2, <1>3, <1>9 DEF ReferInv, Kinds
  <2>2. /\ \A u \in Users : own'[u]["param"] = own[u]["param"]
        /\ \A u \in Users : u # t => own'[u] = own[u]
    BY <1>4, <1>14 DEF Kinds
  <2>3. ASSUME NEW u \in Users, NEW m \in {"pro", "alg"}, NEW q \in ToRemove(u, m)',
               NEW x, x = own'[u][m][q], slots[m][x] # NULL
        PROVE  /\ slots[m][x].param = own'[u]["param"][1]
               /\ m = "alg" => slots[m][x].pro = own'[u]["pro"][q]
    <3>1. CASE q \in ToRemove(u, m) /\ q \in DOMAIN own[u][m] /\ x = own[u][m][q]
      <4>1. /\ slots[m][x].param = own[u]["param"][1]
            /\ m = "alg" => slots[m][x].pro = own[u]["pro"][q]
        BY <1>3, <2>3, <3>1 DEF ReferInv
      <4>2. m = "alg" => own'[u]["pro"][q] = own[u]["pro"][q]
        <5>1. CASE u = t /\ k = "pro" /\ m = "alg"
          <6>1. Len(own[t]["alg"]) <= Len(own[t]["pro"])
            BY <1>5, <1>4, <1>6, AddNeeds
          <6>2. /\ Len(own[t]["alg"]) \in Nat /\ Len(own[t]["pro"]) \in Nat
                /\ DOMAIN own[t]["alg"] = 1..Len(own[t]["alg"])
            BY <1>3, OwnType DEF Kinds
          <6>3. q \in 1..Len(own[t]["pro"])
            BY <3>1, <5>1, <6>1, <6>2
          <6> QED
            BY <1>14, <5>1, <6>3
        <5>2. CASE u # t \/ k # "pro"
          BY <1>14, <5>2 DEF Kinds
        <5> QED
          BY <5>1, <5>2
      <4> QED
        BY <2>2, <4>1, <4>2
    <3>2. CASE u = t /\ m = k /\ q = Len(own[t][k]) + 1 /\ x = i
      <4>1. k = "alg" => own'[t]["pro"] = own[t]["pro"]
        BY <1>14 DEF Kinds
      <4>2. k = "alg" => /\ Len(own[t]["pro"]) = q
                         /\ OwnId(t, "pro") = own[t]["pro"][Len(own[t]["pro"])]
        BY <1>4, <1>5, <1>6, <3>2, AddNeeds
      <4> QED
        BY <1>6, <2>2, <3>2, <4>1, <4>2
    <3> QED
      BY <1>4, <1>14, <2>3, <3>1, <3>2 DEF Kinds
  <2>4. ASSUME NEW u \in Users, Working(u)', call'[u].op = "add"
        PROVE  /\ slots'[call'[u].kind][call'[u].id].param = own'[u]["param"][1]
               /\ call'[u].kind = "alg" =>
                    slots'[call'[u].kind][call'[u].id].pro = OwnId(u, "pro")'
    <3>1. u # t /\ Working(u) /\ call'[u] = call[u] /\ own'[u] = own[u]
      BY <1>8, <1>14, <2>4
    <3>2. OwnId(u, "pro")' = OwnId(u, "pro")
      BY <3>1 DEF OwnId
    <3> QED
      BY <1>2, <1>3, <2>4, <3>1, <3>2 DEF ReferInv
  <2>5. \A u \in Users, m \in {"pro", "alg"} : \A q \in ToRemove(u, m)' :
          slots'[m][own'[u][m][q]] # NULL =>
            /\ slots'[m][own'[u][m][q]].param = own'[u]["param"][1]
            /\ m = "alg" => slots'[m][own'[u][m][q]].pro = own'[u]["pro"][q]
    <3>1. ASSUME NEW u \in Users, NEW m \in {"pro", "alg"}, NEW q \in ToRemove(u, m)',
                 slots'[m][own'[u][m][q]] # NULL
          PROVE  /\ slots'[m][own'[u][m][q]].param = own'[u]["param"][1]
                 /\ m = "alg" => slots'[m][own'[u][m][q]].pro = own'[u]["pro"][q]
      <4>1. PICK x : x = own'[u][m][q]
        OBVIOUS
      <4>2. slots' = slots
        BY <1>2
      <4>3. slots[m][x] # NULL
        BY <3>1, <4>1, <4>2
      <4>4. /\ slots[m][x].param = own'[u]["param"][1]
            /\ m = "alg" => slots[m][x].pro = own'[u]["pro"][q]
        BY <2>3, <4>1, <4>3
      <4> QED
        BY <4>1, <4>2, <4>4
    <3> QED
      BY <3>1
  <2> QED
    BY <2>1, <2>4, <2>5 DEF ReferInv
<1> QED
  BY <1>8, <1>12, <1>13, <1>15, <1>16, <1>17, <1>18, <1>19, <1>20 DEF InstanceInv

-----------------------------------------------------------------------------
(* New objects.                                                            *)

\* A new id is nobody's.
LEMMA NewIdIsNew ==
    ASSUME InstanceInv, NEW k \in Kinds
    PROVE  /\ NewId(k) \in Nat \ {0} /\ Untouched(k, NewId(k))
           /\ NewId(k) \in Ids(k) => slots[k][NewId(k)] = NULL
           /\ \A u \in Users : \A j \in ToRemove(u, k) : own[u][k][j] # NewId(k)
           /\ k = "param" => \A x : IsPart(x) => x # NewId(k)
           /\ k = "rnd" => \A m \in {"pro", "alg"} : \A x \in Ids(m) :
                             HasRandom(m, x) => slots[m][x].rnd # NewId("rnd")
<1>1. /\ TypeOK /\ ShelvedAreFree /\ OwnInv /\ RandomInv /\ PartInv
  BY DEF InstanceInv
<1>2. /\ NewId(k) \in Nat \ {0} /\ DOMAIN slots[k] = Ids(k)
      /\ NewId(k) \in Ids(k) => slots[k][NewId(k)] = NULL /\ Untouched(k, NewId(k))
  BY <1>1, NewIdIsFree, SlotFacts
<1>3. Untouched(k, NewId(k))
  <2>1. \A u \in Users : WorksOn(u, <<k, NewId(k)>>) => NewId(k) \in Ids(k)
    BY WorkFacts DEF WorksOn
  <2> QED
    BY <1>2, <2>1 DEF Untouched
<1>4. ~IsValid(k, NewId(k))
  BY <1>2 DEF IsValid
<1>5. ASSUME NEW u \in Users, NEW j \in ToRemove(u, k), own[u][k][j] = NewId(k)
      PROVE  FALSE
  <2>1. j \in DOMAIN own[u][k]
    BY DEF ToRemove
  <2>2. NewId(k) \in Ids(k)
    BY <1>1, <1>5, <2>1, OwnType
  <2>3. slots[k][NewId(k)] # NULL \/ WorksOn(u, <<k, NewId(k)>>)
    BY <1>1, <1>5 DEF OwnInv
  <2> QED
    BY <1>2, <1>3, <2>2, <2>3 DEF Untouched
<1>6. \A x : IsPart(x) => IsValid("param", x)
  BY <1>1 DEF PartInv, IsPart
<1>7. \A m \in {"pro", "alg"} : \A x \in Ids(m) : HasRandom(m, x) => IsValid("rnd", slots[m][x].rnd)
  BY <1>1 DEF RandomInv
<1> QED
  BY <1>2, <1>3, <1>4, <1>5, <1>6, <1>7

\* What Place does to a table like that of the objects.
Like(table) ==
    /\ table \in [Kinds -> Seq(Objects \cup {NULL})]
    /\ \A m \in Kinds : Len(table[m]) = Len(slots[m])
    /\ \A m \in Kinds : \A x \in Ids(m) :
         /\ table[m][x] = NULL <=> slots[m][x] = NULL
         /\ slots[m][x] # NULL =>
              \A f \in {"param", "pro", "rcr", "rnd"} : table[m][x][f] = slots[m][x][f]
Places(table, new) ==
    /\ Like(table) /\ slots' = Placed(table, new) /\ Take(DOMAIN new)
    /\ DOMAIN new \subseteq Kinds /\ \A m \in DOMAIN new : new[m] \in Objects
Grown(table, new) ==
    /\ slots' \in [Kinds -> Seq(Objects \cup {NULL})]
    /\ occupied' \in [Kinds -> Seq(0..Modulus - 1)] /\ shelved' \in [Kinds -> Seq(Nat)]
    /\ \A m \in Kinds : Len(occupied'[m]) = Len(slots'[m]) /\ DOMAIN slots'[m] = Ids(m)'
    /\ \A m \in Kinds : \A p \in DOMAIN shelved'[m] : shelved'[m][p] \in Ids(m)'
    /\ \A m \in DOMAIN new : /\ m \in Kinds /\ new[m] \in Objects /\ new[m] # NULL
                             /\ Ids(m)' = Ids(m) \cup {NewId(m)}
                             /\ slots'[m][NewId(m)] = new[m]
    /\ \A m \in Kinds : m \notin DOMAIN new => Ids(m)' = Ids(m) /\ slots'[m] = table[m]
    /\ \A m \in Kinds : \A x \in Ids(m) :
         m \notin DOMAIN new \/ x # NewId(m) => slots'[m][x] = table[m][x]

LEMMA PlaceEffect ==
    ASSUME InstanceInv, NEW table, NEW new, Places(table, new)
    PROVE  Grown(table, new)
<1>1. /\ TypeOK /\ ShelvedAreFree /\ table \in [Kinds -> Seq(Objects \cup {NULL})]
      /\ \A k \in Kinds : Len(table[k]) = Len(slots[k])
      /\ \A k \in DOMAIN new : new[k] \in Objects
      /\ DOMAIN new \subseteq Kinds /\ Take(DOMAIN new) /\ slots' = Placed(table, new)
  BY DEF InstanceInv, Places, Like
<1>2. /\ slots' \in [Kinds -> Seq(Objects \cup {NULL})]
      /\ \A k \in DOMAIN new :
            /\ DOMAIN slots'[k] = Ids(k) \cup {NewId(k)}
            /\ Len(slots'[k]) = Len(slots[k]) + (IF shelved[k] = <<>> THEN 1 ELSE 0)
            /\ slots'[k][NewId(k)] = new[k]
            /\ \A i \in Ids(k) : i # NewId(k) => slots'[k][i] = table[k][i]
      /\ \A k \in Kinds : k \notin DOMAIN new => slots'[k] = table[k]
  <2>1. PlacedRight(table, new)
    BY <1>1, PlacedAt
  <2> QED
    BY <1>1, <2>1 DEF PlacedRight
<1>3. /\ occupied' \in [Kinds -> Seq(0..Modulus - 1)] /\ shelved' \in [Kinds -> Seq(Nat)]
      /\ \A k \in DOMAIN new :
           /\ Len(occupied'[k]) = Len(slots[k]) + (IF shelved[k] = <<>> THEN 1 ELSE 0)
           /\ \A p \in DOMAIN shelved'[k] : shelved'[k][p] \in Ids(k)
      /\ \A k \in Kinds : k \notin DOMAIN new => occupied'[k] = occupied[k] /\ shelved'[k] = shelved[k]
  BY <1>1, TakeEffect
<1>4. \A k \in Kinds : DOMAIN slots'[k] = Ids(k)'
  BY <1>2 DEF Ids
<1>5. \A k \in DOMAIN new : Ids(k)' = Ids(k) \cup {NewId(k)} /\ k \in Kinds /\ new[k] # NULL
  BY <1>1, <1>2, <1>4, NullAssumption
<1>6. \A k \in Kinds : k \notin DOMAIN new => Ids(k)' = Ids(k) /\ Len(slots'[k]) = Len(slots[k])
  BY <1>1, <1>2 DEF Ids
<1>7. \A k \in Kinds : Len(occupied'[k]) = Len(slots'[k])
  BY <1>1, <1>2, <1>3, <1>6, SlotFacts
<1>8. \A k \in Kinds : \A p \in DOMAIN shelved'[k] : shelved'[k][p] \in Ids(k)'
  BY <1>1, <1>3, <1>5, <1>6, SlotFacts, ZenonT(60)
<1>9. \A k \in Kinds : \A x \in Ids(k) :
        k \notin DOMAIN new \/ x # NewId(k) => slots'[k][x] = table[k][x]
  BY <1>2
<1> QED
  BY <1>1, <1>2, <1>3, <1>4, <1>5, <1>6, <1>7, <1>8, <1>9 DEF Grown

\* What has been there is there, and so are the new objects.
Grows(new) ==
    /\ IdsStay
    /\ \A m \in Kinds : \A x \in Ids(m) : slots[m][x] # NULL =>
         /\ slots'[m][x] # NULL
         /\ \A f \in {"param", "pro", "rcr", "rnd"} : slots'[m][x][f] = slots[m][x][f]
    /\ \A m \in Kinds : \A x \in Ids(m)' : slots'[m][x] # NULL =>
         \/ x \in Ids(m) /\ slots[m][x] # NULL
         \/ m \in DOMAIN new /\ x = NewId(m) /\ slots'[m][x] = new[m]
    /\ \A m \in Kinds : \A x : IsValid(m, x) => IsValid(m, x)'
    /\ \A m \in DOMAIN new : \A x : x = NewId(m) => IsValid(m, x)'
    /\ \A u \in Users : Working(u) => SlotKept(call[u].kind, call[u].id)

LEMMA PlaceGrows ==
    ASSUME InstanceInv, NEW table, NEW new, Places(table, new), Grown(table, new)
    PROVE  Grows(new)
<1>1. /\ Like(table) /\ TypeOK
  BY DEF Places, InstanceInv
<1>2. IdsStay
  BY DEF Grown, IdsStay
<1>3. ASSUME NEW m \in Kinds, NEW x \in Ids(m), slots[m][x] # NULL
      PROVE  /\ slots'[m][x] # NULL
             /\ \A f \in {"param", "pro", "rcr", "rnd"} : slots'[m][x][f] = slots[m][x][f]
  <2>1. x # NewId(m)
    BY <1>3, NewIdIsNew
  <2>2. slots'[m][x] = table[m][x]
    BY <2>1 DEF Grown
  <2> QED
    BY <1>1, <1>3, <2>2 DEF Like
<1>4. ASSUME NEW m \in Kinds, NEW x \in Ids(m)', slots'[m][x] # NULL
      PROVE  \/ x \in Ids(m) /\ slots[m][x] # NULL
             \/ m \in DOMAIN new /\ x = NewId(m) /\ slots'[m][x] = new[m]
  <2>1. CASE m \in DOMAIN new /\ x = NewId(m)
    BY <2>1 DEF Grown
  <2>2. CASE ~(m \in DOMAIN new /\ x = NewId(m))
    <3>1. x \in Ids(m) /\ slots'[m][x] = table[m][x]
      BY <2>2 DEF Grown
    <3> QED
      BY <1>1, <1>4, <3>1 DEF Like
  <2> QED
    BY <2>1, <2>2
<1>5. ASSUME NEW m \in Kinds, NEW x, IsValid(m, x)
      PROVE  IsValid(m, x)'
  <2>1. x \in Ids(m) /\ slots[m][x] # NULL
    BY <1>1, <1>5, SlotFacts DEF IsValid
  <2>2. x \in Ids(m)' /\ DOMAIN slots'[m] = Ids(m)'
    BY <1>2, <2>1 DEF IdsStay, Grown
  <2> QED
    BY <1>3, <2>1, <2>2 DEF IsValid
<1>6. ASSUME NEW m \in DOMAIN new, NEW x, x = NewId(m)
      PROVE  IsValid(m, x)'
  <2>1. x \in DOMAIN slots'[m] /\ slots'[m][x] # NULL
    BY <1>6 DEF Grown
  <2> QED
    BY <2>1 DEF IsValid
<1>7. ASSUME NEW u \in Users, Working(u)
      PROVE  SlotKept(call[u].kind, call[u].id)
  <2>1. PICK m, x : m = call[u].kind /\ x = call[u].id
    OBVIOUS
  <2>2. m \in Kinds /\ x \in Ids(m) /\ WorksOn(u, <<m, x>>)
    BY <1>7, <2>1, WorkFacts DEF Kinds
  <2>3. x # NewId(m)
    BY <2>2, NewIdIsNew DEF Untouched
  <2>4. slots'[m][x] = table[m][x]
    BY <2>2, <2>3 DEF Grown
  <2>5. slots'[m][x] = NULL <=> slots[m][x] = NULL
    BY <1>1, <2>2, <2>4 DEF Like
  <2>6. slots[m][x] # NULL => slots'[m][x].rnd = slots[m][x].rnd
    BY <1>3, <2>2
  <2> QED
    BY <2>1, <2>5, <2>6 DEF SlotKept
<1> QED
  BY <1>2, <1>3, <1>4, <1>5, <1>6, <1>7 DEF Grows

\* The shelf loses the ids that are used.
LEMMA ShelfLess ==
    ASSUME InstanceInv, NEW table, NEW new, Places(table, new), Grown(table, new),
           \A m \in Kinds : \A x \in Ids(m) : m \notin DOMAIN new \/ x # NewId(m) =>
             (Untouched(m, x)' <=> Untouched(m, x))
    PROVE  ShelvedAreFree'
<1>1. /\ TypeOK /\ ShelvedAreFree /\ Like(table) /\ Take(DOMAIN new)
      /\ DOMAIN new \subseteq Kinds
  BY DEF InstanceInv, Places
<1>2. ASSUME NEW m \in Kinds, m \in DOMAIN new
      PROVE  /\ \A p, q \in DOMAIN shelved'[m] : shelved'[m][p] = shelved'[m][q] => p = q
             /\ \A x \in Ids(m)' : OnShelf(m, x)' <=> x \in Ids(m) /\ x # NewId(m) /\ OnShelf(m, x)
  <2>1. /\ \A p, q \in DOMAIN shelved'[m] : shelved'[m][p] = shelved'[m][q] => p = q
        /\ \A p \in DOMAIN shelved'[m] : shelved'[m][p] # NewId(m)
        /\ \A x \in Ids(m) : x # NewId(m) =>
                     ((\E p \in DOMAIN shelved'[m] : shelved'[m][p] = x) <=> OnShelf(m, x))
    BY <1>1, <1>2, TakeEffect
  <2>2. Ids(m)' = Ids(m) \cup {NewId(m)}
    BY <1>2 DEF Grown
  <2> QED
    BY <2>1, <2>2 DEF OnShelf
<1>3. ASSUME NEW m \in Kinds, m \notin DOMAIN new
      PROVE  shelved'[m] = shelved[m] /\ Ids(m)' = Ids(m)
  BY <1>1, <1>3, TakeEffect DEF Grown
<1>4. \A m \in Kinds : \A x \in Ids(m) : OnShelf(m, x) <=> slots[m][x] = NULL /\ Untouched(m, x)
  BY <1>1 DEF ShelvedAreFree, Untouched
<1>5. \A m \in Kinds : \A x \in Ids(m) : m \notin DOMAIN new \/ x # NewId(m) =>
        (slots'[m][x] = NULL <=> slots[m][x] = NULL)
  BY <1>1 DEF Like, Grown
<1>6. ASSUME NEW m \in Kinds
      PROVE  /\ \A p, q \in DOMAIN shelved'[m] : shelved'[m][p] = shelved'[m][q] => p = q
             /\ \A x \in Ids(m)' : OnShelf(m, x)' <=> slots'[m][x] = NULL /\ Untouched(m, x)'
  <2>1. CASE m \in DOMAIN new
    <3>1. ASSUME NEW x \in Ids(m)'
          PROVE  OnShelf(m, x)' <=> slots'[m][x] = NULL /\ Untouched(m, x)'
      <4>1. CASE x = NewId(m)
        <5>1. slots'[m][x] # NULL
          BY <2>1, <4>1 DEF Grown
        <5> QED
          BY <1>2, <2>1, <3>1, <4>1, <5>1
      <4>2. CASE x # NewId(m)
        <5>1. x \in Ids(m)
          BY <2>1, <3>1, <4>2 DEF Grown
        <5> QED
          BY <1>2, <1>4, <1>5, <2>1, <3>1, <4>2, <5>1
      <4> QED
        BY <4>1, <4>2
    <3> QED
      BY <1>2, <2>1, <3>1
  <2>2. CASE m \notin DOMAIN new
    <3>1. \A x \in Ids(m) : OnShelf(m, x)' <=> OnShelf(m, x)
      BY <1>3, <2>2 DEF OnShelf
    <3>2. \A p, q \in DOMAIN shelved[m] : shelved[m][p] = shelved[m][q] => p = q
      BY <1>1 DEF ShelvedAreFree
    <3> QED
      BY <1>3, <1>4, <1>5, <2>2, <3>1, <3>2
  <2> QED
    BY <2>1, <2>2
<1> QED
  BY <1>6 DEF ShelvedAreFree, Untouched

LEMMA PlainType == Plain \in Objects /\ Plain.parts = <<>>
  BY DEF Plain, Objects, NoId

\* The parts of the compositions that were there; new objects have none.
LEMMA PartsGrown ==
    ASSUME InstanceInv, NEW table, NEW new, Places(table, new), Grown(table, new), Grows(new),
           \A m \in DOMAIN new : new[m].parts = <<>>,
           \A m \in {"pro", "alg"} : table[m] = slots[m]
    PROVE  /\ \A i \in Ids("alg")' : slots'["alg"][i] # NULL => slots'["alg"][i].parts = <<>>
           /\ \A i \in Ids("pro")' : \/ PartsOf(i)' = <<>>
                                     \/ i \in Ids("pro") /\ PartsOf(i)' = PartsOf(i)
<1>1. PartInv
  BY DEF InstanceInv
<1>2. ASSUME NEW m \in {"pro", "alg"}, NEW x \in Ids(m)', slots'[m][x] # NULL
      PROVE  \/ x \in Ids(m) /\ slots[m][x] # NULL /\ slots'[m][x] = slots[m][x]
             \/ slots'[m][x].parts = <<>>
  <2>1. CASE m \in DOMAIN new /\ x = NewId(m)
    BY <2>1 DEF Grown
  <2>2. CASE ~(m \in DOMAIN new /\ x = NewId(m))
    <3>1. m \in Kinds
      BY DEF Kinds
    <3>2. x \in Ids(m) /\ slots'[m][x] = table[m][x]
      BY <1>2, <2>2, <3>1 DEF Grown
    <3> QED
      BY <1>2, <3>2
  <2> QED
    BY <2>1, <2>2
<1>3. ASSUME NEW x \in Ids("alg")', slots'["alg"][x] # NULL
      PROVE  slots'["alg"][x].parts = <<>>
  BY <1>1, <1>2, <1>3 DEF PartInv
<1>4. ASSUME NEW x \in Ids("pro")'
      PROVE  PartsOf(x)' = <<>> \/ (x \in Ids("pro") /\ PartsOf(x)' = PartsOf(x))
  BY <1>2, <1>4 DEF PartsOf
<1> QED
  BY <1>3, <1>4

LEMMA AddLeafKeeps ==
    ASSUME InstanceInv, NEW t \in Users, NEW k \in {"param", "rcr"}, AddLeaf(t, k)
    PROVE  InstanceInv'
<1>1. /\ Active(t) /\ pc[t] = "idle" /\ Script(t)[at[t]] = <<"add", k, 1>> /\ call[t] = NoCall
      /\ k \in Kinds
  BY CallIsActive DEF AddLeaf, Kinds
<1>2. /\ k # "param" => Len(own[t]["param"]) = 1 /\ OwnId(t, "param") = own[t]["param"][1]
      /\ k = "param" => Len(own[t]["pro"]) = 0 /\ Len(own[t]["alg"]) = 0
  BY <1>1, AddNeeds
<1>3. ~Working(t) /\ Script(t)[at[t]][1] = "add" /\ at[t] \in DOMAIN Script(t)
  BY <1>1 DEF Working, Active
<1>4. k = "rcr" => IsValid("param", OwnId(t, "param"))
  <2>1. /\ \A x \in Kinds : DOMAIN own[t][x] = 1..Len(own[t][x]) /\ Len(own[t][x]) \in Nat
        /\ "param" \in Kinds
    BY GotNow DEF Kinds
  <2>2. k = "rcr" => 1 \in DOMAIN own[t]["param"]
    BY <1>2, <2>1
  <2> QED
    BY <1>1, <1>2, <1>3, <2>1, <2>2, GotIsValid
<1>5. PICK i, new, table : i = NewId(k) /\ new = [kind \in {k} |-> Plain] /\ table = slots
  OBVIOUS
<1>6. /\ TypeOK /\ ShelvedAreFree /\ OwnInv /\ RandomInv /\ PartInv /\ ReferInv /\ GotInv
      /\ \A u \in Users : WorkInv(u)
  BY DEF InstanceInv
<1>7. /\ slots' = Placed(table, new) /\ Take(DOMAIN new) /\ Gets(t, k, i)
      /\ at' = [at EXCEPT ![t] = @ + 1] /\ pc' = pc /\ call' = call /\ mutex' = mutex
      /\ seen' = seen /\ job' = job /\ running' = running /\ lost' = lost
  BY <1>4, <1>5 DEF AddLeaf, Place, Gets, Returns, task
<1>8. DOMAIN new = {k} /\ new[k] = Plain
  BY <1>5
<1>9. Places(table, new)
  BY <1>1, <1>5, <1>6, <1>7, <1>8, PlainType DEF Places, Like, TypeOK
<1>10. Grown(table, new)
  BY <1>9, PlaceEffect
<1>11. Grows(new)
  BY <1>9, <1>10, PlaceGrows
<1>12. /\ i \in Nat /\ Untouched(k, i) /\ i \in Ids(k)'
       /\ i \in Ids(k) => slots[k][i] = NULL
       /\ \A u \in Users : \A j \in ToRemove(u, k) : own[u][k][j] # i
       /\ k = "param" => \A x : IsPart(x) => x # i
       /\ slots'[k][i] # NULL
  BY <1>1, <1>5, <1>8, <1>10, NewIdIsNew DEF Grown
<1>13. /\ PlaceInv' /\ NothingThrows' /\ \A u \in Users : AtCallInv(u)'
       /\ at' \in [Users -> Nat \ {0}]
  <2>1. pc' = [pc EXCEPT ![t] = "idle"] /\ call' = [call EXCEPT ![t] = NoCall]
    BY <1>1, <1>6, <1>7 DEF TypeOK
  <2>2. \A u \in Users : u # t => own'[u] = own[u]
    BY <1>6, <1>7 DEF TypeOK, Gets
  <2>3. Script(t)[at[t]][1] \in {"add", "remove"}
    BY <1>3
  <2> QED
    BY <1>1, <1>7, <2>1, <2>2, <2>3, CallReturns
<1>14. \A u \in Users : /\ Working(u)' <=> Working(u)
                        /\ Removes(u)' <=> Removes(u)
                        /\ \A x : WorksOn(u, x)' <=> WorksOn(u, x)
  BY <1>7 DEF Working, Removes, WorksOn
<1>15. \A u \in Users : WorkInv(u)'
  <2>1. IdsStay /\ \A u \in Users : Working(u) => SlotKept(call[u].kind, call[u].id)
    BY <1>11 DEF Grows
  <2> QED
    BY <1>6, <1>7, <1>14, <2>1, WorkInvKept
<1>16. GotInv'
  BY <1>1, <1>3, <1>6, <1>7, <1>12, GotMore DEF Gets
<1>17. OwnGrows(t, k, i)
  BY <1>1, <1>3, <1>6, <1>7, <1>12, OwnMore
<1>18. ShelvedAreFree'
  <2>1. \A m \in Kinds : \A x \in Ids(m) : Untouched(m, x)' <=> Untouched(m, x)
    BY <1>14 DEF Untouched
  <2> QED
    BY <1>9, <1>10, <2>1, ShelfLess
<1>19. TypeOK'
  <2>1. \A m \in Kinds : Ids(m) \subseteq Ids(m)'
    BY <1>11 DEF Grows, IdsStay
  <2>2. ASSUME NEW u \in Users
        PROVE  call'[u].id \in Ids(call[u].kind)' \cup {NoId}
    <3>1. PICK m : m = call[u].kind
      OBVIOUS
    <3>2. m \in Kinds /\ call[u].id \in Ids(m) \cup {NoId}
      BY <1>6, <3>1, CallType DEF TypeOK
    <3>3. call'[u].id \in Ids(m)' \cup {NoId}
      BY <1>7, <2>1, <3>2
    <3> QED
      BY <1>7, <3>1, <3>3
  <2>3. \A u \in Users : \A m \in Kinds : \A q \in DOMAIN own'[u][m] : own'[u][m][q] \in Ids(m)'
    <3>1. ASSUME NEW u \in Users, NEW m \in Kinds, NEW q \in DOMAIN own'[u][m]
          PROVE  own'[u][m][q] \in Ids(m)'
      <4>1. CASE q \in DOMAIN own[u][m] /\ own'[u][m][q] = own[u][m][q]
        BY <1>6, <2>1, <4>1, OwnType
      <4>2. CASE m = k /\ own'[u][m][q] = i
        BY <1>12, <4>2
      <4> QED
        BY <1>17, <3>1, <4>1, <4>2 DEF OwnGrows
    <3> QED
      BY <3>1
  <2>4. own' \in [Users -> [Kinds -> Seq(Nat)]]
    BY <1>17 DEF OwnGrows, IdLists
  <2>5. /\ slots' \in [Kinds -> Seq(Objects \cup {NULL})]
        /\ occupied' \in [Kinds -> Seq(0..Modulus - 1)] /\ shelved' \in [Kinds -> Seq(Nat)]
        /\ \A m \in Kinds : Len(occupied'[m]) = Len(slots'[m])
        /\ \A m \in Kinds : \A p \in DOMAIN shelved'[m] : shelved'[m][p] \in Ids(m)'
    BY <1>10 DEF Grown
  <2>6. /\ pc' \in [Users -> {"idle", "locking", "counting", "writing", "discarding", "thrown"}]
        /\ mutex' \in [{"alg", "pro"} -> Users \cup {NULL}] /\ call' \in [Users -> CallStates]
        /\ seen' \in [Users -> [size : Nat, count : 0..Modulus - 1]]
        /\ job' \in 0..Len(Tasks) /\ running' \subseteq Threads /\ lost' \in BOOLEAN
    BY <1>6, <1>7 DEF TypeOK
  <2> QED
    BY <1>13, <2>2, <2>3, <2>4, <2>5, <2>6 DEF TypeOK
<1>20. OwnInv'
  <2>1. ASSUME NEW u \in Users, NEW m \in Kinds, NEW q \in ToRemove(u, m)',
               NEW x, x = own'[u][m][q]
        PROVE  /\ slots'[m][x] # NULL \/ WorksOn(u, <<m, x>>)'
               /\ \A v \in Users : WorksOn(v, <<m, x>>)' => v = u /\ Removes(u)'
               /\ \A v \in Users : \A p \in ToRemove(v, m)' :
                    own'[v][m][p] = x => v = u /\ p = q
    <3>1. CASE q \in ToRemove(u, m) /\ q \in DOMAIN own[u][m] /\ x = own[u][m][q]
      <4>1. /\ slots[m][x] # NULL \/ WorksOn(u, <<m, x>>)
            /\ \A v \in Users : WorksOn(v, <<m, x>>) => v = u /\ Removes(u)
            /\ \A v \in Users : \A p \in ToRemove(v, m) : own[v][m][p] = x => v = u /\ p = q
        BY <1>6, <3>1 DEF OwnInv
      <4>2. x \in Ids(m)
        BY <1>6, <3>1, OwnType
      <4>3. slots[m][x] # NULL => slots'[m][x] # NULL
        BY <1>11, <4>2 DEF Grows
      <4>4. m = k => x # i
        BY <1>12, <3>1
      <4>5. ASSUME NEW v \in Users, NEW p \in ToRemove(v, m)', own'[v][m][p] = x
            PROVE  v = u /\ p = q
        <5>1. p \in ToRemove(v, m) /\ own[v][m][p] = x
          BY <1>17, <4>4, <4>5 DEF OwnGrows
        <5> QED
          BY <4>1, <5>1
      <4> QED
        BY <1>14, <4>1, <4>3, <4>5
    <3>2. CASE u = t /\ m = k /\ q = Len(own[t][k]) + 1 /\ x = i
      <4>1. \A v \in Users : ~WorksOn(v, <<m, x>>)'
        BY <1>12, <1>14, <3>2 DEF Untouched
      <4>2. ASSUME NEW v \in Users, NEW p \in ToRemove(v, m)', own'[v][m][p] = x
            PROVE  v = u /\ p = q
        BY <1>12, <1>17, <3>2, <4>2 DEF OwnGrows
      <4> QED
        BY <1>12, <3>2, <4>1, <4>2
    <3> QED
      BY <1>17, <2>1, <3>1, <3>2 DEF OwnGrows
  <2>2. \A u \in Users, m \in Kinds : \A q \in ToRemove(u, m)' :
          /\ slots'[m][own'[u][m][q]] # NULL \/ WorksOn(u, <<m, own[u][m][q]>>)'
          /\ \A v \in Users : WorksOn(v, <<m, own[u][m][q]>>)' => v = u /\ Removes(u)'
          /\ \A v \in Users : \A p \in ToRemove(v, m)' :
               own'[v][m][p] = own'[u][m][q] => v = u /\ p = q
    <3>1. ASSUME NEW u \in Users, NEW m \in Kinds, NEW q \in ToRemove(u, m)'
          PROVE  /\ slots'[m][own'[u][m][q]] # NULL \/ WorksOn(u, <<m, own[u][m][q]>>)'
                 /\ \A v \in Users : WorksOn(v, <<m, own[u][m][q]>>)' => v = u /\ Removes(u)'
                 /\ \A v \in Users : \A p \in ToRemove(v, m)' :
                      own'[v][m][p] = own'[u][m][q] => v = u /\ p = q
      <4>1. PICK x : x = own'[u][m][q]
        OBVIOUS
      <4>2. /\ slots'[m][x] # NULL \/ WorksOn(u, <<m, x>>)'
            /\ \A v \in Users : WorksOn(v, <<m, x>>)' => v = u /\ Removes(u)'
            /\ \A v \in Users : \A p \in ToRemove(v, m)' : own'[v][m][p] = x => v = u /\ p = q
        BY <2>1, <3>1, <4>1
      <4> QED
        BY <4>1, <4>2 DEF WorksOn
    <3> QED
      BY <3>1
  <2> QED
    BY <2>2 DEF OwnInv
<1>21. RandomInv'
  <2>1. ASSUME NEW m \in {"pro", "alg"}, NEW x \in Ids(m)', HasRandom(m, x)'
        PROVE  /\ x \in Ids(m) /\ HasRandom(m, x) /\ slots'[m][x].rnd = slots[m][x].rnd
               /\ IsValid("rnd", slots[m][x].rnd)'
    <3>1. m \in Kinds /\ m \notin DOMAIN new /\ slots'[m][x] # NULL
      BY <1>8, <2>1 DEF Kinds, HasRandom
    <3>2. x \in Ids(m) /\ slots[m][x] # NULL
      BY <1>11, <3>1 DEF Grows
    <3>3. slots'[m][x].rnd = slots[m][x].rnd
      BY <1>11, <3>1, <3>2 DEF Grows
    <3>4. HasRandom(m, x)
      BY <1>7, <1>14, <2>1, <3>2 DEF HasRandom
    <3>5. PICK r : r = slots[m][x].rnd
      OBVIOUS
    <3>6. IsValid("rnd", r)
      BY <1>6, <3>2, <3>4, <3>5 DEF RandomInv
    <3>7. IsValid("rnd", r)'
      BY <1>11, <3>6 DEF Grows, Kinds
    <3> QED
      BY <1>10, <3>2, <3>3, <3>4, <3>5, <3>7 DEF IsValid
  <2> QED
    BY <1>6, <2>1, RandomShrinks
<1>22. PartInv'
  <2>1. /\ \A x \in Ids("alg")' : slots'["alg"][x] # NULL => slots'["alg"][x].parts = <<>>
        /\ \A x \in Ids("pro")' : \/ PartsOf(x)' = <<>>
                                  \/ x \in Ids("pro") /\ PartsOf(x)' = PartsOf(x)
    BY <1>5, <1>8, <1>9, <1>10, <1>11, PartsGrown, PlainType
  <2>2. \A u \in Users : Dropped(u)' = Dropped(u) /\ call'[u].kind = call[u].kind
    BY <1>7, <1>11, <1>14 DEF Dropped, Grows, SlotKept
  <2>3. \A x : IsValid("param", x) => IsValid("param", x)'
    BY <1>11 DEF Grows, Kinds
  <2>4. \A u \in Users : \A q \in ToRemove(u, "param")' : \A x : x = own'[u]["param"][q] =>
             \/ q \in ToRemove(u, "param") /\ x = own[u]["param"][q]
             \/ ~IsPart(x)
    BY <1>12, <1>17 DEF OwnGrows, Kinds
  <2> QED
    BY <1>6, <2>1, <2>2, <2>3, <2>4, FewerParts
<1>23. ReferInv'
  <2>1. ASSUME NEW m \in {"pro", "alg"}, NEW x \in Ids(m)', slots'[m][x] # NULL
        PROVE  /\ x \in Ids(m) /\ slots[m][x] # NULL
               /\ \A l \in {"param", "pro", "rcr", "rnd"} : slots'[m][x][l] = slots[m][x][l]
    <3>1. m \in Kinds /\ m \notin DOMAIN new
      BY <1>8 DEF Kinds
    <3> QED
      BY <1>11, <2>1, <3>1 DEF Grows
  <2>2. ASSUME NEW m \in {"pro", "alg"}, NEW x \in Ids(m)', slots'[m][x] # NULL
        PROVE  \A l \in {"param", "pro", "rcr", "rnd"} : slots'[m][x][l] \in Ids(l)' \cup {NoId}
    <3>1. \A l \in {"param", "pro", "rcr", "rnd"} : slots[m][x][l] \in Ids(l) \cup {NoId}
      BY <1>6, <2>1, <2>2 DEF ReferInv
    <3>2. \A l \in {"param", "pro", "rcr", "rnd"} : Ids(l) \subseteq Ids(l)'
      BY <1>11 DEF Grows, IdsStay, Kinds
    <3> QED
      BY <2>1, <2>2, <3>1, <3>2
  <2>3. ASSUME NEW u \in Users, NEW m \in {"pro", "alg"}, NEW q \in ToRemove(u, m)',
               NEW x, x = own'[u][m][q], slots'[m][x] # NULL
        PROVE  /\ slots'[m][x].param = own'[u]["param"][1]
               /\ m = "alg" => slots'[m][x].pro = own'[u]["pro"][q]
    <3>1. m \in Kinds /\ m # k
      BY DEF Kinds
    <3>2. q \in ToRemove(u, m) /\ q \in DOMAIN own[u][m] /\ x = own[u][m][q]
      BY <1>17, <2>3, <3>1 DEF OwnGrows
    <3>3. x \in Ids(m) /\ slots[m][x] # NULL
          /\ slots'[m][x].param = slots[m][x].param /\ slots'[m][x].pro = slots[m][x].pro
      <4>1. x \in Ids(m) /\ x \in Ids(m)'
        BY <1>6, <1>11, <3>1, <3>2, OwnType DEF Grows, IdsStay
      <4> QED
        BY <2>1, <2>3, <4>1
    <3>4. /\ slots[m][x].param = own[u]["param"][1]
          /\ m = "alg" => slots[m][x].pro = own[u]["pro"][q]
      BY <1>6, <2>3, <3>2, <3>3 DEF ReferInv
    <3>5. own'[u]["pro"] = own[u]["pro"]
      BY <1>17 DEF OwnGrows, Kinds
    <3>6. own'[u]["param"][1] = own[u]["param"][1]
      <4>1. CASE u = t /\ k = "param"
        <5>1. Len(own[t][m]) = 0 /\ DOMAIN own[t][m] = 1..Len(own[t][m])
          BY <1>2, <1>6, <3>1, <4>1, OwnType
        <5> QED
          BY <3>2, <4>1, <5>1
      <4>2. CASE u # t \/ k # "param"
        BY <1>17, <4>2 DEF OwnGrows, Kinds
      <4> QED
        BY <4>1, <4>2
    <3> QED
      BY <3>3, <3>4, <3>5, <3>6
  <2>4. \A u \in Users, m \in {"pro", "alg"} : \A q \in ToRemove(u, m)' :
          slots'[m][own'[u][m][q]] # NULL =>
            /\ slots'[m][own'[u][m][q]].param = own'[u]["param"][1]
            /\ m = "alg" => slots'[m][own'[u][m][q]].pro = own'[u]["pro"][q]
    BY <2>3
  <2>5. ASSUME NEW u \in Users, Working(u)', call'[u].op = "add"
        PROVE  /\ slots'[call'[u].kind][call'[u].id].param = own'[u]["param"][1]
               /\ call'[u].kind = "alg" =>
                    slots'[call'[u].kind][call'[u].id].pro = OwnId(u, "pro")'
    <3>1. u # t /\ Working(u) /\ call'[u] = call[u] /\ own'[u] = own[u]
      BY <1>3, <1>7, <1>14, <1>17, <2>5 DEF OwnGrows
    <3>2. OwnId(u, "pro")' = OwnId(u, "pro")
      BY <3>1 DEF OwnId
    <3>3. PICK m, x : m = call[u].kind /\ x = call[u].id
      OBVIOUS
    <3>4. m \in {"pro", "alg"} /\ m \in Kinds /\ x \in Ids(m)
      BY <3>1, <3>3, WorkFacts DEF Kinds
    <3>5. slots[m][x] # NULL /\ slots[m][x].param = own[u]["param"][1]
          /\ (m = "alg" => slots[m][x].pro = OwnId(u, "pro"))
      BY <1>6, <2>5, <3>1, <3>3 DEF ReferInv, WorkInv
    <3>6. slots'[m][x].param = slots[m][x].param /\ slots'[m][x].pro = slots[m][x].pro
      BY <1>11, <3>4, <3>5 DEF Grows
    <3> QED
      BY <3>1, <3>2, <3>3, <3>5, <3>6
  <2> QED
    BY <2>2, <2>4, <2>5 DEF ReferInv
<1> QED
  BY <1>13, <1>15, <1>16, <1>18, <1>19, <1>20, <1>21, <1>22, <1>23 DEF InstanceInv

\* What a thread has got is an id.
LEMMA OwnIdType ==
    ASSUME InstanceInv, NEW t \in Users, NEW l \in Kinds
    PROVE  OwnId(t, l) \in Ids(l) \cup {NoId} /\ OwnId(t, l) \in Nat
<1>1. TypeOK
  BY DEF InstanceInv
<1>2. OwnId(t, l) \in Ids(l) \cup {NoId}
  <2>1. Len(own[t][l]) # 0 => Len(own[t][l]) \in DOMAIN own[t][l]
    BY GotNow
  <2> QED
    BY <1>1, <2>1, GotNow, OwnType
<1> QED
  BY <1>1, <1>2, SlotFacts DEF NoId

LEMMA AddLockedKeeps ==
    ASSUME InstanceInv, NEW t \in Users, AddLocked(t)
    PROVE  InstanceInv'
<1>1. PICK k, o, i, r, c, new, table :
        /\ k = call[t].kind /\ o = References(t, k) /\ i = NewId(k) /\ r = NewId("rnd")
        /\ c = Counts(o, k) /\ table = slots
        /\ new = [kind \in {k, "rnd"} |-> IF kind = k THEN o ELSE Plain]
  OBVIOUS
<1>2. /\ pc[t] = "locking" /\ call[t].op = "add" /\ mutex[k] = NULL
      /\ mutex' = [mutex EXCEPT ![k] = t]
      /\ slots' = Placed(table, new) /\ Take(DOMAIN new)
      /\ call' = [call EXCEPT ![t].id = i, ![t].todo = c]
      /\ pc' = [pc EXCEPT ![t] = "counting"]
      /\ at' = at /\ seen' = seen /\ own' = own /\ job' = job /\ running' = running
      /\ lost' = lost
  BY <1>1 DEF AddLocked, Place, Goto, task
<1>3. /\ TypeOK /\ ShelvedAreFree /\ OwnInv /\ RandomInv /\ PartInv /\ ReferInv /\ PlaceInv
      /\ AtCallInv(t) /\ GotInv /\ NothingThrows
      /\ \A u \in Users : WorkInv(u) /\ AtCallInv(u)
  BY DEF InstanceInv
<1>4. Active(t) /\ ~Working(t) /\ GotBefore(t, at[t], own[t]) /\ at[t] \in DOMAIN Script(t)
  BY <1>2, BusyIsActive, GotNow DEF Working, Active
<1>5. /\ Script(t)[at[t]] = <<"add", k, 1>> /\ k \in {"pro", "alg"} /\ k \in Kinds
      /\ call[t].drop = <<>> /\ ~Removes(t)
  BY <1>1, <1>2, <1>3 DEF AtCallInv, Kinds, Removes
<1>6. \A u \in Users : Working(u) => call[u].kind \in {"pro", "alg"} /\ call[u].kind # k /\ u # t
  <2>1. \A u \in Users : Working(u) => mutex[call[u].kind] = u
    BY <1>3 DEF WorkInv
  <2>2. \A u \in Users : Working(u) => call[u].kind \in {"pro", "alg"}
    BY WorkFacts
  <2>3. \A u \in Users : u # NULL
    BY UserTypes
  <2>4. \A u \in Users : Working(u) => call[u].kind # k
    BY <1>2, <2>1, <2>3
  <2> QED
    BY <1>4, <2>2, <2>4
<1>7. /\ o.param = OwnId(t, "param") /\ o.rnd = r /\ o.parts = <<>>
      /\ o.pro = (IF k = "alg" THEN OwnId(t, "pro") ELSE NoId)
      /\ o.rcr = (IF k = "alg" THEN OwnId(t, "rcr") ELSE NoId)
      /\ o = [param |-> o.param, pro |-> o.pro, rcr |-> o.rcr, rnd |-> o.rnd, parts |-> <<>>]
  BY <1>1 DEF References
<1>8. /\ o.param \in Ids("param") \cup {NoId} /\ o.pro \in Ids("pro") \cup {NoId}
      /\ o.rcr \in Ids("rcr") \cup {NoId}
      /\ o.param \in Nat /\ o.pro \in Nat /\ o.rcr \in Nat /\ o.rnd \in Nat /\ o \in Objects
  <2>1. /\ OwnId(t, "param") \in Ids("param") \cup {NoId} /\ OwnId(t, "param") \in Nat
        /\ OwnId(t, "pro") \in Ids("pro") \cup {NoId} /\ OwnId(t, "pro") \in Nat
        /\ OwnId(t, "rcr") \in Ids("rcr") \cup {NoId} /\ OwnId(t, "rcr") \in Nat
    BY OwnIdType DEF Kinds
  <2>2. r \in Nat /\ <<>> \in Seq(Nat)
    BY <1>1, NewIdIsNew DEF Kinds
  <2>3. o.param \in Nat /\ o.pro \in Nat /\ o.rcr \in Nat /\ o.rnd \in Nat
    BY <1>7, <2>1, <2>2 DEF NoId
  <2>4. o \in Objects
    BY <1>7, <2>2, <2>3 DEF Objects
  <2> QED
    BY <1>7, <2>1, <2>3, <2>4
<1>9. /\ o.param = own[t]["param"][1]
      /\ k = "alg" => o.pro = OwnId(t, "pro")
  BY <1>4, <1>5, <1>7, AddNeeds
<1>10. DOMAIN new = {k, "rnd"} /\ new[k] = o /\ new["rnd"] = Plain /\ k # "rnd" /\ "rnd" \in Kinds
  BY <1>1, <1>5 DEF Kinds
<1>11. Places(table, new)
  <2>1. \A m \in DOMAIN new : new[m] \in Objects
    BY <1>8, <1>10, PlainType
  <2>2. Like(table)
    BY <1>1, <1>3 DEF Like, TypeOK
  <2> QED
    BY <1>2, <1>5, <1>10, <2>1, <2>2 DEF Places
<1>12. Grown(table, new)
  BY <1>11, PlaceEffect
<1>13. Grows(new)
  BY <1>11, <1>12, PlaceGrows
<1>14. /\ i \in Nat /\ i \in Ids(k)' /\ slots'[k][i] = o /\ slots'[k][i] # NULL
       /\ i \in Ids(k) => slots[k][i] = NULL
       /\ \A u \in Users : ~WorksOn(u, <<k, i>>)
       /\ \A u \in Users : \A j \in ToRemove(u, k) : own[u][k][j] # i
  <2>1. /\ i \in Nat /\ Untouched(k, i)
        /\ i \in Ids(k) => slots[k][i] = NULL
        /\ \A u \in Users : \A j \in ToRemove(u, k) : own[u][k][j] # i
    BY <1>1, <1>5, NewIdIsNew
  <2>2. i \in Ids(k)' /\ slots'[k][i] = o /\ slots'[k][i] # NULL
    BY <1>1, <1>10, <1>12 DEF Grown
  <2> QED
    BY <2>1, <2>2 DEF Untouched
<1>15. /\ r \in Ids("rnd")' /\ IsValid("rnd", r)'
       /\ \A m \in {"pro", "alg"} : \A x \in Ids(m) : HasRandom(m, x) => slots[m][x].rnd # r
  <2>1. r \in Ids("rnd")'
    BY <1>1, <1>10, <1>12 DEF Grown
  <2>2. IsValid("rnd", r)'
    BY <1>1, <1>10, <1>13 DEF Grows
  <2> QED
    BY <1>1, <1>10, <2>1, <2>2, NewIdIsNew
<1>16. \A l \in {"param", "pro", "rcr", "rnd"} : o[l] \in Nat /\ o[l] \in Ids(l)' \cup {NoId}
  <2>1. /\ Ids("param") \subseteq Ids("param")' /\ Ids("pro") \subseteq Ids("pro")'
        /\ Ids("rcr") \subseteq Ids("rcr")'
    BY <1>13 DEF Grows, IdsStay, Kinds
  <2> QED
    BY <1>7, <1>8, <1>15, <2>1
<1>17. c \in Seq(Kinds \X Nat) /\ \A n \in DOMAIN c : c[n][2] \in Ids(c[n][1])'
  <2>1. PICK ids : ids = [l \in Kinds |-> Ids(l)']
    OBVIOUS
  <2>2. \A l \in Kinds : ids[l] = Ids(l)'
    BY <2>1
  <2>3. /\ \A l \in {"param", "pro", "rcr", "rnd"} : o[l] \in ids[l] \cup {NoId}
        /\ \A l \in {"param", "pro", "rcr", "rnd"} : o[l] \in Nat
    BY <1>16, <2>2 DEF Kinds
  <2>4. GoodCounts(c, ids)
    BY <1>1, <2>3, CountsAreThere
  <2> QED
    BY <2>2, <2>4 DEF GoodCounts
<1>18. /\ call' \in [Users -> CallStates] /\ \A u \in Users : u # t => call'[u] = call[u]
       /\ call'[t].drop = <<>> /\ call'[t].todo = c
       /\ call'[t].op = "add" /\ call'[t].kind = k /\ call'[t].id = i
  <2>1. call \in [Users -> CallStates] /\ call[t] \in CallStates
    BY <1>3 DEF TypeOK
  <2>2. \A u \in Users : u # t => call'[u] = call[u]
    BY <1>2, <2>1
  <2>3. call'[t] = [[call[t] EXCEPT !.id = i] EXCEPT !.todo = c]
    BY <1>2, <2>1
  <2>4. call'[t] = [op |-> call[t].op, kind |-> call[t].kind, id |-> i, todo |-> c, drop |-> call[t].drop]
    BY <2>1, <2>3 DEF CallStates
  <2>5. call'[t] \in CallStates
    BY <1>14, <1>17, <2>1, <2>4 DEF CallStates
  <2>6. DOMAIN call' = Users /\ call' = [u \in Users |-> call'[u]]
    BY <1>2, <2>1
  <2> QED
    BY <1>1, <1>2, <1>5, <2>1, <2>2, <2>4, <2>5, <2>6
<1>19. /\ pc' \in [Users -> {"idle", "locking", "counting", "writing", "discarding", "thrown"}]
       /\ pc'[t] = "counting" /\ \A u \in Users : u # t => pc'[u] = pc[u]
       /\ mutex' \in [{"alg", "pro"} -> Users \cup {NULL}] /\ mutex'[k] = t
       /\ \A m \in {"alg", "pro"} : m # k => mutex'[m] = mutex[m]
  BY <1>2, <1>3, <1>5 DEF TypeOK
<1>20. /\ Working(t)' /\ ~Removes(t)'
       /\ \A u \in Users : u # t => /\ Working(u)' <=> Working(u)
                                    /\ Removes(u)' <=> Removes(u)
                                    /\ \A x : WorksOn(u, x)' <=> WorksOn(u, x)
       /\ \A x : WorksOn(t, x)' <=> x = <<k, i>>
       /\ \A x : ~WorksOn(t, x)
  BY <1>2, <1>4, <1>18, <1>19 DEF Working, WorksOn, Removes
<1>21. /\ Script(t)' = Script(t) /\ Advances(t)
       /\ \A u \in Users, m \in Kinds : \A q \in ToRemove(u, m)' :
            q \in ToRemove(u, m) /\ q \in DOMAIN own[u][m]
  <2>1. Script(t)' = Script(t) /\ Advances(t)
    BY <1>2, ScriptStays DEF Advances
  <2> QED
    BY <1>2, <1>3, <2>1, ToRemoveShrinks
<1>22. PlaceInv' /\ GotInv' /\ NothingThrows'
  <2>1. PlaceInv'
    BY <1>2, <1>3, <1>4, <1>19, PlaceStays
  <2>2. GotInv'
    BY <1>2, <1>3, GotStays
  <2>3. NothingThrows'
    BY <1>3, <1>19 DEF NothingThrows
  <2> QED
    BY <2>1, <2>2, <2>3
<1>23. \A u \in Users : AtCallInv(u)'
  <2>1. ASSUME NEW u \in Users, u # t
        PROVE  AtCallInv(u)'
    BY <1>2, <1>3, <1>18, <1>19, <2>1, AtCallKept
  <2>2. AtCallInv(t)'
    <3>1. Script(t)'[at'[t]] = <<"add", k, 1>>
      BY <1>2, <1>5, <1>21
    <3> QED
      BY <1>5, <1>18, <1>19, <3>1 DEF AtCallInv, Removes
  <2> QED
    BY <2>1, <2>2
<1>24. \A u \in Users : WorkInv(u)'
  <2>1. ASSUME NEW u \in Users, u # t
        PROVE  WorkInv(u)'
    <3>1. IdsStay /\ (Working(u) => SlotKept(call[u].kind, call[u].id))
      BY <1>13 DEF Grows
    <3>2. Working(u) => mutex'[call[u].kind] = mutex[call[u].kind]
      BY <1>6, <1>19
    <3> QED
      BY <1>3, <1>18, <1>20, <2>1, <3>1, <3>2, WorkInvKept
  <2>2. WorkInv(t)'
    <3>1. \A n \in DOMAIN call'[t].todo : call'[t].todo[n][2] \in Ids(call[t].todo[n][1])'
      BY <1>17, <1>18
    <3>2. call'[t].id \in Ids(call[t].kind)'
      BY <1>14, <1>18
    <3>3. mutex'[call'[t].kind] = t /\ slots'[call'[t].kind][call'[t].id] # NULL
      BY <1>14, <1>18, <1>19
    <3> QED
      BY <1>20, <3>1, <3>2, <3>3 DEF WorkInv
  <2> QED
    BY <2>1, <2>2
<1>25. ShelvedAreFree'
  <2>1. \A m \in Kinds : \A x \in Ids(m) : m \notin DOMAIN new \/ x # NewId(m) =>
          (Untouched(m, x)' <=> Untouched(m, x))
    <3>1. ASSUME NEW m \in Kinds, NEW x \in Ids(m), m \notin DOMAIN new \/ x # NewId(m)
          PROVE  Untouched(m, x)' <=> Untouched(m, x)
      <4>1. m # k \/ x # i
        BY <1>1, <1>10, <3>1
      <4>2. <<m, x>> # <<k, i>>
        BY <4>1
      <4> QED
        BY <1>20, <4>2 DEF Untouched
    <3> QED
      BY <3>1
  <2> QED
    BY <1>11, <1>12, <2>1, ShelfLess
<1>26. TypeOK'
  <2>1. \A m \in Kinds : Ids(m) \subseteq Ids(m)'
    BY <1>13 DEF Grows, IdsStay
  <2>2. ASSUME NEW u \in Users
        PROVE  call'[u].id \in Ids(call[u].kind)' \cup {NoId}
    <3>1. CASE u = t
      BY <1>14, <1>18, <3>1
    <3>2. CASE u # t
      <4>1. PICK m : m = call[u].kind
        OBVIOUS
      <4>2. m \in Kinds /\ call[u].id \in Ids(m) \cup {NoId} /\ call'[u] = call[u]
        BY <1>3, <1>18, <3>2, <4>1, CallType DEF TypeOK
      <4>3. call'[u].id \in Ids(m)' \cup {NoId}
        BY <2>1, <4>2
      <4> QED
        BY <4>1, <4>2, <4>3
    <3> QED
      BY <3>1, <3>2
  <2>3. \A u \in Users : \A m \in Kinds : \A q \in DOMAIN own'[u][m] : own'[u][m][q] \in Ids(m)'
    BY <1>2, <1>3, <2>1, OwnType
  <2>4. /\ slots' \in [Kinds -> Seq(Objects \cup {NULL})]
        /\ occupied' \in [Kinds -> Seq(0..Modulus - 1)] /\ shelved' \in [Kinds -> Seq(Nat)]
        /\ \A m \in Kinds : Len(occupied'[m]) = Len(slots'[m])
        /\ \A m \in Kinds : \A p \in DOMAIN shelved'[m] : shelved'[m][p] \in Ids(m)'
    BY <1>12 DEF Grown
  <2>5. /\ at' \in [Users -> Nat \ {0}] /\ own' \in [Users -> [Kinds -> Seq(Nat)]]
        /\ seen' \in [Users -> [size : Nat, count : 0..Modulus - 1]]
        /\ job' \in 0..Len(Tasks) /\ running' \subseteq Threads /\ lost' \in BOOLEAN
    BY <1>2, <1>3 DEF TypeOK
  <2> QED
    BY <1>18, <1>19, <2>2, <2>3, <2>4, <2>5 DEF TypeOK
<1>27. OwnInv'
  <2>1. ASSUME NEW u \in Users, NEW m \in Kinds, NEW q \in ToRemove(u, m)',
               NEW x, x = own[u][m][q]
        PROVE  /\ slots'[m][x] # NULL \/ WorksOn(u, <<m, x>>)'
               /\ \A v \in Users : WorksOn(v, <<m, x>>)' => v = u /\ Removes(u)'
               /\ \A v \in Users : \A p \in ToRemove(v, m)' :
                    own[v][m][p] = x => v = u /\ p = q
    <3>1. q \in ToRemove(u, m) /\ q \in DOMAIN own[u][m]
      BY <1>21, <2>1
    <3>2. /\ slots[m][x] # NULL \/ WorksOn(u, <<m, x>>)
          /\ \A v \in Users : WorksOn(v, <<m, x>>) => v = u /\ Removes(u)
          /\ \A v \in Users : \A p \in ToRemove(v, m) : own[v][m][p] = x => v = u /\ p = q
      BY <1>3, <2>1, <3>1 DEF OwnInv
    <3>3. x \in Ids(m)
      BY <1>3, <2>1, <3>1, OwnType
    <3>4. slots[m][x] # NULL => slots'[m][x] # NULL
      BY <1>13, <3>3 DEF Grows
    <3>5. ~WorksOn(t, <<m, x>>)'
      <4>1. m # k \/ x # i
        BY <1>14, <2>1, <3>1
      <4> QED
        BY <1>20, <4>1
    <3>6. \A v \in Users : WorksOn(v, <<m, x>>)' <=> WorksOn(v, <<m, x>>)
      BY <1>20, <3>5
    <3>7. \A v \in Users : WorksOn(v, <<m, x>>) => (Removes(v)' <=> Removes(v))
      BY <1>20
    <3> QED
      BY <1>21, <3>2, <3>4, <3>6, <3>7
  <2> QED
    BY <1>2, <2>1 DEF OwnInv
<1>28. RandomInv'
  <2>1. ASSUME NEW m \in {"pro", "alg"}, NEW x \in Ids(m)', HasRandom(m, x)',
               m # k \/ x # i
        PROVE  /\ x \in Ids(m) /\ HasRandom(m, x) /\ slots'[m][x].rnd = slots[m][x].rnd
               /\ slots[m][x].rnd # r /\ IsValid("rnd", slots[m][x].rnd)'
    <3>1. m \in Kinds /\ slots'[m][x] # NULL /\ ~(m \in DOMAIN new /\ x = NewId(m))
      BY <1>1, <1>10, <2>1 DEF Kinds, HasRandom
    <3>2. x \in Ids(m) /\ slots[m][x] # NULL
      BY <1>13, <3>1 DEF Grows
    <3>3. slots'[m][x].rnd = slots[m][x].rnd
      BY <1>13, <3>1, <3>2 DEF Grows
    <3>4. HasRandom(m, x)
      BY <1>18, <1>20, <2>1, <3>2 DEF HasRandom
    <3>5. PICK y : y = slots[m][x].rnd
      OBVIOUS
    <3>6. IsValid("rnd", y) /\ y # r
      BY <1>3, <1>15, <3>2, <3>4, <3>5 DEF RandomInv
    <3>7. IsValid("rnd", y)'
      BY <1>13, <3>6 DEF Grows, Kinds
    <3> QED
      BY <1>12, <3>2, <3>3, <3>4, <3>5, <3>6, <3>7 DEF IsValid
  <2>2. slots'[k][i].rnd = r
    BY <1>7, <1>14
  <2>3. ASSUME NEW m \in {"pro", "alg"}, NEW x \in Ids(m)', HasRandom(m, x)',
               NEW y, y = slots'[m][x].rnd
        PROVE  /\ IsValid("rnd", y)'
               /\ \A l \in {"pro", "alg"} : \A z \in Ids(l)' :
                    HasRandom(l, z)' /\ slots'[l][z].rnd = y => l = m /\ z = x
    <3>1. CASE m = k /\ x = i
      BY <1>15, <2>1, <2>2, <2>3, <3>1
    <3>2. CASE ~(m = k /\ x = i)
      <4>1. /\ x \in Ids(m) /\ HasRandom(m, x) /\ y = slots[m][x].rnd /\ y # r
        BY <2>1, <2>3, <3>2
      <4>2. IsValid("rnd", y)'
        BY <2>1, <2>3, <3>2
      <4>3. \A l \in {"pro", "alg"} : \A z \in Ids(l) :
              HasRandom(l, z) /\ slots[l][z].rnd = y => l = m /\ z = x
        BY <1>3, <4>1 DEF RandomInv
      <4> QED
        BY <2>1, <2>2, <4>1, <4>2, <4>3
    <3> QED
      BY <3>1, <3>2
  <2>4. \A m \in {"pro", "alg"} : \A x \in Ids(m)' : HasRandom(m, x)' =>
          /\ IsValid("rnd", slots[m][x].rnd)'
          /\ \A l \in {"pro", "alg"} : \A z \in Ids(l)' :
               HasRandom(l, z)' /\ slots'[l][z].rnd = slots'[m][x].rnd => l = m /\ z = x
    <3>1. ASSUME NEW m \in {"pro", "alg"}, NEW x \in Ids(m)', HasRandom(m, x)'
          PROVE  /\ IsValid("rnd", slots[m][x].rnd)'
                 /\ \A l \in {"pro", "alg"} : \A z \in Ids(l)' :
                      HasRandom(l, z)' /\ slots'[l][z].rnd = slots'[m][x].rnd => l = m /\ z = x
      <4>1. PICK y : y = slots'[m][x].rnd
        OBVIOUS
      <4>2. /\ IsValid("rnd", y)'
            /\ \A l \in {"pro", "alg"} : \A z \in Ids(l)' :
                 HasRandom(l, z)' /\ slots'[l][z].rnd = y => l = m /\ z = x
        BY <2>3, <3>1, <4>1
      <4> QED
        BY <4>1, <4>2 DEF IsValid
    <3> QED
      BY <3>1
  <2> QED
    BY <2>4 DEF RandomInv
<1>29. PartInv'
  <2>1. \A m \in DOMAIN new : new[m].parts = <<>>
    BY <1>7, <1>10, PlainType
  <2>2. /\ \A x \in Ids("alg")' : slots'["alg"][x] # NULL => slots'["alg"][x].parts = <<>>
        /\ \A x \in Ids("pro")' : \/ PartsOf(x)' = <<>>
                                  \/ x \in Ids("pro") /\ PartsOf(x)' = PartsOf(x)
    BY <1>1, <1>11, <1>12, <1>13, <2>1, PartsGrown
  <2>3. \A u \in Users : \/ Dropped(u)' = <<>>
                         \/ Dropped(u)' = Dropped(u) /\ call'[u].kind = call[u].kind
    <3>1. Dropped(t)' = <<>>
      BY <1>20 DEF Dropped
    <3>2. \A u \in Users : u # t => Dropped(u)' = Dropped(u)
      BY <1>13, <1>18, <1>20 DEF Dropped, Grows, SlotKept
    <3> QED
      BY <1>18, <3>1, <3>2
  <2>4. \A x : IsValid("param", x) => IsValid("param", x)'
    BY <1>13 DEF Grows, Kinds
  <2>5. \A u \in Users : \A q \in ToRemove(u, "param")' : \A x : x = own'[u]["param"][q] =>
             \/ q \in ToRemove(u, "param") /\ x = own[u]["param"][q]
             \/ ~IsPart(x)
    BY <1>2, <1>21 DEF Kinds
  <2> QED
    BY <1>3, <2>2, <2>3, <2>4, <2>5, FewerParts
<1>30. ReferInv'
  <2>1. ASSUME NEW m \in {"pro", "alg"}, NEW x \in Ids(m)', slots'[m][x] # NULL
        PROVE  \A l \in {"param", "pro", "rcr", "rnd"} : slots'[m][x][l] \in Ids(l)' \cup {NoId}
    <3>1. CASE m = k /\ x = i
      BY <1>14, <1>16, <3>1
    <3>2. CASE ~(m = k /\ x = i)
      <4>1. m \in Kinds /\ ~(m \in DOMAIN new /\ x = NewId(m))
        BY <1>1, <1>10, <3>2 DEF Kinds
      <4>2. x \in Ids(m) /\ slots[m][x] # NULL
        BY <1>13, <2>1, <4>1 DEF Grows
      <4>3. \A l \in {"param", "pro", "rcr", "rnd"} : slots'[m][x][l] = slots[m][x][l]
        BY <1>13, <4>1, <4>2 DEF Grows
      <4>4. \A l \in {"param", "pro", "rcr", "rnd"} : slots[m][x][l] \in Ids(l) \cup {NoId}
        BY <1>3, <4>2 DEF ReferInv
      <4>5. \A l \in {"param", "pro", "rcr", "rnd"} : Ids(l) \subseteq Ids(l)'
        BY <1>13, SMTT(60) DEF Grows, IdsStay, Kinds
      <4> QED
        BY <4>3, <4>4, <4>5
    <3> QED
      BY <3>1, <3>2
  <2>2. ASSUME NEW u \in Users, NEW m \in {"pro", "alg"}, NEW q \in ToRemove(u, m)',
               NEW x, x = own[u][m][q], slots'[m][x] # NULL
        PROVE  /\ slots'[m][x].param = own[u]["param"][1]
               /\ m = "alg" => slots'[m][x].pro = own[u]["pro"][q]
    <3>1. m \in Kinds /\ q \in ToRemove(u, m) /\ q \in DOMAIN own[u][m]
      BY <1>21, <2>2 DEF Kinds
    <3>2. x \in Ids(m) /\ x \in Ids(m)' /\ ~(m \in DOMAIN new /\ x = NewId(m))
      <4>1. x \in Ids(m) /\ x \in Ids(m)'
        BY <1>3, <1>13, <2>2, <3>1, OwnType DEF Grows, IdsStay
      <4>2. m = k => x # i
        BY <1>14, <2>2, <3>1
      <4> QED
        BY <1>1, <1>10, <4>1, <4>2
    <3>3. slots[m][x] # NULL
      BY <1>13, <2>2, <3>1, <3>2 DEF Grows
    <3>4. slots'[m][x].param = slots[m][x].param /\ slots'[m][x].pro = slots[m][x].pro
      BY <1>13, <3>1, <3>2, <3>3 DEF Grows
    <3> QED
      BY <1>3, <2>2, <3>1, <3>3, <3>4, ZenonT(60) DEF ReferInv
  <2>3. ASSUME NEW u \in Users, Working(u)', call'[u].op = "add"
        PROVE  /\ slots'[call'[u].kind][call'[u].id].param = own[u]["param"][1]
               /\ call'[u].kind = "alg" =>
                    slots'[call'[u].kind][call'[u].id].pro = OwnId(u, "pro")
    <3>1. CASE u = t
      BY <1>9, <1>14, <1>18, <3>1
    <3>2. CASE u # t
      <4>1. Working(u) /\ call'[u] = call[u]
        BY <1>18, <1>20, <2>3, <3>2
      <4>2. PICK m, x : m = call[u].kind /\ x = call[u].id
        OBVIOUS
      <4>3. m \in {"pro", "alg"} /\ m \in Kinds /\ x \in Ids(m)
        BY <4>1, <4>2, WorkFacts DEF Kinds
      <4>4. slots[m][x] # NULL /\ slots[m][x].param = own[u]["param"][1]
            /\ (m = "alg" => slots[m][x].pro = OwnId(u, "pro"))
        BY <1>3, <2>3, <4>1, <4>2 DEF ReferInv, WorkInv
      <4>5. slots'[m][x].param = slots[m][x].param /\ slots'[m][x].pro = slots[m][x].pro
        BY <1>13, <4>3, <4>4 DEF Grows
      <4> QED
        BY <4>1, <4>2, <4>4, <4>5
    <3> QED
      BY <3>1, <3>2
  <2>4. \A u \in Users : OwnId(u, "pro")' = OwnId(u, "pro")
    BY <1>2 DEF OwnId
  <2>5. \A u \in Users, m \in {"pro", "alg"} : \A q \in ToRemove(u, m)' :
          slots'[m][own'[u][m][q]] # NULL =>
            /\ slots'[m][own'[u][m][q]].param = own'[u]["param"][1]
            /\ m = "alg" => slots'[m][own'[u][m][q]].pro = own'[u]["pro"][q]
    BY <1>2, <2>2
  <2>6. \A u \in Users : Working(u)' /\ call'[u].op = "add" =>
          /\ slots'[call'[u].kind][call'[u].id].param = own'[u]["param"][1]
          /\ call'[u].kind = "alg" =>
               slots'[call'[u].kind][call'[u].id].pro = OwnId(u, "pro")'
    BY <1>2, <2>3, <2>4
  <2> QED
    BY <2>1, <2>5, <2>6 DEF ReferInv
<1> QED
  BY <1>22, <1>23, <1>24, <1>25, <1>26, <1>27, <1>28, <1>29, <1>30 DEF InstanceInv

-----------------------------------------------------------------------------
(* A composition gets its functions, and the tasks follow each other.      *)

\* A problem with one more part is like the problem.
PartAdded(table, i, p) == table = [slots EXCEPT !["pro"][i].parts = Append(@, p)]
OnePartMore(table, i, p) ==
    /\ Like(table)
    /\ table["pro"][i].parts = Append(slots["pro"][i].parts, p)
    /\ slots["pro"][i].parts \in Seq(Nat)
    /\ \A m \in Kinds : \A x \in Ids(m) : m # "pro" \/ x # i => table[m][x] = slots[m][x]
    /\ \A m \in Kinds : m # "pro" => table[m] = slots[m]

LEMMA OneMorePart ==
    ASSUME TypeOK, NEW i \in Ids("pro"), slots["pro"][i] # NULL, NEW p \in Nat, NEW table,
           PartAdded(table, i, p)
    PROVE  OnePartMore(table, i, p)
<1>1. /\ slots \in [Kinds -> Seq(Objects \cup {NULL})] /\ "pro" \in Kinds
      /\ \A m \in Kinds : DOMAIN slots[m] = Ids(m) /\ slots[m] \in Seq(Objects \cup {NULL})
  BY SlotFacts DEF TypeOK, Kinds
<1>2. PICK s, o : s = slots["pro"] /\ o = s[i]
  OBVIOUS
<1>3. s \in Seq(Objects \cup {NULL}) /\ i \in DOMAIN s /\ o \in Objects /\ o # NULL
  BY <1>1, <1>2, SlotFacts
<1>4. PICK ps : ps = Append(o.parts, p)
  OBVIOUS
<1>5. o.parts \in Seq(Nat) /\ ps \in Seq(Nat)
  BY <1>3, <1>4 DEF Objects
<1>6. PICK q : q = [o EXCEPT !.parts = ps]
  OBVIOUS
<1>7. /\ q \in Objects /\ q # NULL /\ q.parts = ps
      /\ q.param = o.param /\ q.pro = o.pro /\ q.rcr = o.rcr /\ q.rnd = o.rnd
  BY <1>3, <1>5, <1>6, NullAssumption DEF Objects
<1>8. \A f \in {"param", "pro", "rcr", "rnd"} : q[f] = o[f]
  BY <1>7
<1>9. PICK z : z = [s EXCEPT ![i] = q]
  OBVIOUS
<1>10. /\ z \in Seq(Objects \cup {NULL}) /\ Len(z) = Len(s) /\ z[i] = q
       /\ \A x \in DOMAIN s : x # i => z[x] = s[x]
  BY <1>3, <1>7, <1>9
<1>11. table = [slots EXCEPT !["pro"] = z]
  BY <1>1, <1>2, <1>4, <1>6, <1>9 DEF PartAdded
<1>12. /\ table \in [Kinds -> Seq(Objects \cup {NULL})] /\ table["pro"] = z
       /\ \A m \in Kinds : m # "pro" => table[m] = slots[m]
  BY <1>1, <1>10, <1>11
<1>13. \A m \in Kinds : Len(table[m]) = Len(slots[m])
  BY <1>2, <1>10, <1>12
<1>14. \A m \in Kinds : \A x \in Ids(m) : m # "pro" \/ x # i => table[m][x] = slots[m][x]
  BY <1>1, <1>2, <1>10, <1>12
<1>15. ASSUME NEW m \in Kinds, NEW x \in Ids(m)
       PROVE  /\ table[m][x] = NULL <=> slots[m][x] = NULL
              /\ slots[m][x] # NULL =>
                   \A f \in {"param", "pro", "rcr", "rnd"} : table[m][x][f] = slots[m][x][f]
  <2>1. CASE m = "pro" /\ x = i
    BY <1>2, <1>3, <1>7, <1>8, <1>10, <1>12, <2>1
  <2>2. CASE m # "pro" \/ x # i
    BY <1>14, <2>2
  <2> QED
    BY <2>1, <2>2
<1> QED
  BY <1>2, <1>4, <1>5, <1>7, <1>10, <1>12, <1>13, <1>14, <1>15 DEF Like, OnePartMore

LEMMA AddFunctionKeeps ==
    ASSUME InstanceInv, NEW j, AddFunction(j)
    PROVE  InstanceInv'
<1>1. PICK i, p, new, table :
        /\ i = own[Main]["pro"][j] /\ p = NewId("param")
        /\ new = [kind \in {"param"} |-> Plain]
        /\ PartAdded(table, i, p)
  BY ZenonT(60) DEF PartAdded
<1>2. /\ slots' = Placed(table, new) /\ Take(DOMAIN new)
      /\ Calls(Main, <<"initialize", "pro", j>>)
      /\ mutex' = mutex /\ pc' = pc /\ at' = at /\ call' = call /\ seen' = seen /\ own' = own
      /\ job' = job /\ running' = running /\ lost' = lost
  BY <1>1, ZenonT(60) DEF AddFunction, PartAdded, threads, task
<1>3. /\ TypeOK /\ ShelvedAreFree /\ OwnInv /\ RandomInv /\ PartInv /\ ReferInv /\ PlaceInv
      /\ GotInv /\ NothingThrows
      /\ \A u \in Users : WorkInv(u) /\ AtCallInv(u)
  BY DEF InstanceInv
<1>4. /\ Main \in Users /\ Active(Main) /\ i \in Ids("pro") /\ slots["pro"][i] # NULL
  BY <1>1, <1>2, InitializeNeeds DEF IsValid
<1>5. /\ DOMAIN new = {"param"} /\ new["param"] = Plain /\ "param" \in Kinds /\ "pro" \in Kinds
      /\ "alg" \in Kinds
  BY <1>1 DEF Kinds
<1>6. /\ p \in Nat /\ Untouched("param", p)
      /\ \A u \in Users : \A q \in ToRemove(u, "param") : own[u]["param"][q] # p
      /\ \A x : IsPart(x) => x # p
  BY <1>1, <1>5, NewIdIsNew
<1>7. /\ Like(table) /\ table["pro"][i].parts = Append(slots["pro"][i].parts, p)
      /\ slots["pro"][i].parts \in Seq(Nat)
      /\ \A m \in Kinds : \A x \in Ids(m) : m # "pro" \/ x # i => table[m][x] = slots[m][x]
      /\ \A m \in Kinds : m # "pro" => table[m] = slots[m]
  <2>1. PartAdded(table, i, p)
    BY <1>1
  <2>2. OnePartMore(table, i, p)
    BY <1>3, <1>4, <1>6, <2>1, OneMorePart
  <2> QED
    BY <2>2 DEF OnePartMore
<1>8. Places(table, new)
  BY <1>2, <1>5, <1>7, PlainType DEF Places
<1>9. Grown(table, new)
  BY <1>8, PlaceEffect
<1>10. Grows(new)
  BY <1>8, <1>9, PlaceGrows
<1>11. \A u \in Users : /\ Working(u)' <=> Working(u)
                        /\ Removes(u)' <=> Removes(u)
                        /\ \A x : WorksOn(u, x)' <=> WorksOn(u, x)
  BY <1>2 DEF Working, Removes, WorksOn
<1>12. \A u \in Users, m \in Kinds : \A q \in ToRemove(u, m)' :
         q \in ToRemove(u, m) /\ q \in DOMAIN own[u][m]
  <2>1. Advances(Main)
    BY <1>2 DEF Advances
  <2> QED
    BY <1>2, <1>3, <1>4, <2>1, ToRemoveShrinks
<1>13. PlaceInv' /\ GotInv' /\ NothingThrows'
  <2>1. PlaceInv'
    BY <1>2, <1>3, <1>4, PlaceStays
  <2>2. GotInv'
    BY <1>2, <1>3, GotStays
  <2>3. NothingThrows'
    BY <1>2, <1>3 DEF NothingThrows
  <2> QED
    BY <2>1, <2>2, <2>3
<1>14. \A u \in Users : AtCallInv(u)'
  BY <1>2, <1>3, AtCallKept
<1>15. \A u \in Users : WorkInv(u)'
  <2>1. IdsStay /\ \A u \in Users : Working(u) => SlotKept(call[u].kind, call[u].id)
    BY <1>10 DEF Grows
  <2> QED
    BY <1>2, <1>3, <1>11, <2>1, WorkInvKept
<1>16. ShelvedAreFree'
  <2>1. \A m \in Kinds : \A x \in Ids(m) : Untouched(m, x)' <=> Untouched(m, x)
    BY <1>11 DEF Untouched
  <2> QED
    BY <1>8, <1>9, <2>1, ShelfLess
<1>17. TypeOK'
  <2>1. \A m \in Kinds : Ids(m) \subseteq Ids(m)'
    BY <1>10 DEF Grows, IdsStay
  <2>2. ASSUME NEW u \in Users
        PROVE  call'[u].id \in Ids(call[u].kind)' \cup {NoId}
    <3>1. PICK m : m = call[u].kind
      OBVIOUS
    <3>2. m \in Kinds /\ call[u].id \in Ids(m) \cup {NoId}
      BY <1>3, <3>1, CallType DEF TypeOK
    <3>3. call'[u].id \in Ids(m)' \cup {NoId}
      BY <1>2, <2>1, <3>2
    <3> QED
      BY <1>2, <3>1, <3>3
  <2>3. \A u \in Users : \A m \in Kinds : \A q \in DOMAIN own'[u][m] : own'[u][m][q] \in Ids(m)'
    BY <1>2, <1>3, <2>1, OwnType
  <2>4. /\ slots' \in [Kinds -> Seq(Objects \cup {NULL})]
        /\ occupied' \in [Kinds -> Seq(0..Modulus - 1)] /\ shelved' \in [Kinds -> Seq(Nat)]
        /\ \A m \in Kinds : Len(occupied'[m]) = Len(slots'[m])
        /\ \A m \in Kinds : \A q \in DOMAIN shelved'[m] : shelved'[m][q] \in Ids(m)'
    BY <1>9 DEF Grown
  <2>5. /\ pc' \in [Users -> {"idle", "locking", "counting", "writing", "discarding", "thrown"}]
        /\ mutex' \in [{"alg", "pro"} -> Users \cup {NULL}] /\ call' \in [Users -> CallStates]
        /\ at' \in [Users -> Nat \ {0}] /\ own' \in [Users -> [Kinds -> Seq(Nat)]]
        /\ seen' \in [Users -> [size : Nat, count : 0..Modulus - 1]]
        /\ job' \in 0..Len(Tasks) /\ running' \subseteq Threads /\ lost' \in BOOLEAN
    BY <1>2, <1>3 DEF TypeOK
  <2> QED
    BY <2>2, <2>3, <2>4, <2>5 DEF TypeOK
<1>18. OwnInv'
  <2>1. ASSUME NEW u \in Users, NEW m \in Kinds, NEW q \in ToRemove(u, m)',
               NEW x, x = own[u][m][q]
        PROVE  /\ slots'[m][x] # NULL \/ WorksOn(u, <<m, x>>)'
               /\ \A v \in Users : WorksOn(v, <<m, x>>)' => v = u /\ Removes(u)'
               /\ \A v \in Users : \A n \in ToRemove(v, m)' :
                    own[v][m][n] = x => v = u /\ n = q
    <3>1. q \in ToRemove(u, m) /\ q \in DOMAIN own[u][m]
      BY <1>12, <2>1
    <3>2. /\ slots[m][x] # NULL \/ WorksOn(u, <<m, x>>)
          /\ \A v \in Users : WorksOn(v, <<m, x>>) => v = u /\ Removes(u)
          /\ \A v \in Users : \A n \in ToRemove(v, m) : own[v][m][n] = x => v = u /\ n = q
      BY <1>3, <2>1, <3>1 DEF OwnInv
    <3>3. slots[m][x] # NULL => slots'[m][x] # NULL
      BY <1>3, <1>10, <2>1, <3>1, OwnType DEF Grows
    <3> QED
      BY <1>11, <1>12, <3>2, <3>3
  <2> QED
    BY <1>2, <2>1 DEF OwnInv
<1>19. \A m \in {"pro", "alg"} : \A x \in Ids(m)' : slots'[m][x] # NULL =>
         /\ m \in Kinds /\ x \in Ids(m) /\ slots[m][x] # NULL
         /\ \A l \in {"param", "pro", "rcr", "rnd"} : slots'[m][x][l] = slots[m][x][l]
  <2>1. ASSUME NEW m \in {"pro", "alg"}, NEW x \in Ids(m)', slots'[m][x] # NULL
        PROVE  /\ m \in Kinds /\ x \in Ids(m) /\ slots[m][x] # NULL
               /\ \A l \in {"param", "pro", "rcr", "rnd"} : slots'[m][x][l] = slots[m][x][l]
    <3>1. m \in Kinds /\ m \notin DOMAIN new
      BY <1>5
    <3>2. x \in Ids(m) /\ slots[m][x] # NULL
      BY <1>10, <2>1, <3>1 DEF Grows
    <3> QED
      BY <1>10, <3>1, <3>2 DEF Grows
  <2> QED
    BY <2>1
<1>20. RandomInv'
  <2>1. ASSUME NEW m \in {"pro", "alg"}, NEW x \in Ids(m)', HasRandom(m, x)'
        PROVE  /\ x \in Ids(m) /\ HasRandom(m, x) /\ slots'[m][x].rnd = slots[m][x].rnd
               /\ IsValid("rnd", slots[m][x].rnd)'
    <3>1. /\ x \in Ids(m) /\ slots[m][x] # NULL /\ slots'[m][x].rnd = slots[m][x].rnd
      BY <1>19, <2>1 DEF HasRandom
    <3>2. HasRandom(m, x)
      BY <1>2, <1>11, <2>1, <3>1 DEF HasRandom
    <3>3. PICK r : r = slots[m][x].rnd
      OBVIOUS
    <3>4. IsValid("rnd", r)
      BY <1>3, <3>1, <3>2, <3>3 DEF RandomInv
    <3>5. IsValid("rnd", r)'
      BY <1>10, <3>4 DEF Grows, Kinds
    <3>6. slots'[m][x].rnd = r
      BY <3>1, <3>3
    <3> QED
      BY <1>9, <3>1, <3>2, <3>3, <3>5, <3>6 DEF IsValid
  <2> QED
    BY <1>3, <2>1, RandomShrinks
<1>21. PartInv'
  <2>1. Ids("pro")' = Ids("pro") /\ slots'["pro"] = table["pro"] /\ slots'["alg"] = slots["alg"]
        /\ Ids("alg")' = Ids("alg")
    BY <1>5, <1>7, <1>9 DEF Grown
  <2>2. slots'["pro"][i] # NULL /\ slots'["pro"][i].parts = Append(slots["pro"][i].parts, p)
    BY <1>4, <1>5, <1>7, <2>1 DEF Like
  <2>3. ASSUME NEW x \in Ids("pro")', NEW n \in DOMAIN PartsOf(x)'
        PROVE  \/ x \in Ids("pro") /\ n \in DOMAIN PartsOf(x) /\ PartsOf(x)'[n] = PartsOf(x)[n]
               \/ x = i /\ n = Len(PartsOf(i)) + 1 /\ PartsOf(x)'[n] = p
    <3>1. CASE x = i
      <4>1. PICK s : s = PartsOf(i)
        OBVIOUS
      <4>2. s \in Seq(Nat) /\ PartsOf(i)' = Append(s, p)
        BY <1>4, <1>7, <2>2, <4>1 DEF PartsOf
      <4>3. /\ DOMAIN Append(s, p) = 1..Len(s) + 1 /\ DOMAIN s = 1..Len(s) /\ Len(s) \in Nat
            /\ \A y \in DOMAIN s : Append(s, p)[y] = s[y]
            /\ Append(s, p)[Len(s) + 1] = p
        BY <1>6, <4>2
      <4>4. n \in DOMAIN s \/ n = Len(s) + 1
        BY <2>3, <3>1, <4>2, <4>3
      <4> QED
        BY <1>4, <3>1, <4>1, <4>2, <4>3, <4>4
    <3>2. CASE x # i
      <4>1. x \in Ids("pro") /\ slots'["pro"][x] = slots["pro"][x]
        BY <1>5, <1>7, <2>1, <2>3, <3>2
      <4>2. PartsOf(x)' = PartsOf(x)
        BY <4>1 DEF PartsOf
      <4> QED
        BY <2>3, <4>1, <4>2
    <3> QED
      BY <3>1, <3>2
  <2>4. \A x : x = p => IsValid("param", x)'
    BY <1>1, <1>5, <1>10 DEF Grows
  <2>5. \A x : IsValid("param", x) => IsValid("param", x)'
    BY <1>5, <1>10 DEF Grows
  <2>6. ASSUME NEW x \in Ids("pro")', NEW n \in DOMAIN PartsOf(x)', NEW y, y = PartsOf(x)'[n]
        PROVE  /\ IsValid("param", y)'
               /\ \A m \in Ids("pro")' : \A q \in DOMAIN PartsOf(m)' :
                    PartsOf(m)'[q] = y => m = x /\ q = n
               /\ \A u \in Users : \A q \in ToRemove(u, "param")' : own'[u]["param"][q] # y
    <3>1. CASE x \in Ids("pro") /\ n \in DOMAIN PartsOf(x) /\ y = PartsOf(x)[n]
      <4>1. /\ IsValid("param", y)
            /\ \A m \in Ids("pro") : \A q \in DOMAIN PartsOf(m) :
                 PartsOf(m)[q] = y => m = x /\ q = n
            /\ \A u \in Users : \A q \in ToRemove(u, "param") : own[u]["param"][q] # y
        BY <1>3, <3>1 DEF PartInv
      <4>2. y # p
        BY <1>6, <3>1 DEF IsPart
      <4>3. \A m \in Ids("pro")' : \A q \in DOMAIN PartsOf(m)' :
              PartsOf(m)'[q] = y => m = x /\ q = n
        BY <2>3, <4>1, <4>2
      <4>4. \A u \in Users : \A q \in ToRemove(u, "param")' : own'[u]["param"][q] # y
        BY <1>2, <1>5, <1>12, <4>1
      <4> QED
        BY <2>5, <4>1, <4>3, <4>4
    <3>2. CASE x = i /\ n = Len(PartsOf(i)) + 1 /\ y = p
      <4>1. \A m \in Ids("pro") : \A q \in DOMAIN PartsOf(m) : PartsOf(m)[q] # p
        BY <1>6 DEF IsPart
      <4>2. \A m \in Ids("pro")' : \A q \in DOMAIN PartsOf(m)' :
              PartsOf(m)'[q] = y => m = x /\ q = n
        BY <2>3, <3>2, <4>1
      <4>3. \A u \in Users : \A q \in ToRemove(u, "param")' : own'[u]["param"][q] # y
        BY <1>2, <1>5, <1>6, <1>12, <3>2
      <4> QED
        BY <2>4, <3>2, <4>2, <4>3
    <3> QED
      BY <2>3, <2>6, <3>1, <3>2
  <2>7. \A u \in Users : Dropped(u)' = Dropped(u) /\ call'[u].kind = call[u].kind
    BY <1>2, <1>10, <1>11 DEF Dropped, Grows, SlotKept
  <2>8. ASSUME NEW u \in Users, NEW n \in DOMAIN Dropped(u)', NEW y, y = Dropped(u)[n][2]
        PROVE  /\ call'[u].kind = "pro"
               /\ Dropped(u)'[n][1] = "param" /\ IsValid("param", y)'
               /\ \A m \in DOMAIN Dropped(u)' : Dropped(u)'[m] = Dropped(u)'[n] => m = n
               /\ \A x \in Ids("pro")' : \A q \in DOMAIN PartsOf(x)' : PartsOf(x)'[q] # y
               /\ \A v \in Users : \A q \in ToRemove(v, "param")' : own'[v]["param"][q] # y
    <3>1. /\ n \in DOMAIN Dropped(u) /\ call[u].kind = "pro"
          /\ Dropped(u)[n][1] = "param" /\ IsValid("param", y)
          /\ \A m \in DOMAIN Dropped(u) : Dropped(u)[m] = Dropped(u)[n] => m = n
          /\ \A x \in Ids("pro") : \A q \in DOMAIN PartsOf(x) : PartsOf(x)[q] # y
          /\ \A v \in Users : \A q \in ToRemove(v, "param") : own[v]["param"][q] # y
      BY <1>3, <2>7, <2>8 DEF PartInv
    <3>2. y # p
      BY <1>6, <2>8, <3>1 DEF IsPart
    <3>3. \A x \in Ids("pro")' : \A q \in DOMAIN PartsOf(x)' : PartsOf(x)'[q] # y
      BY <2>3, <3>1, <3>2
    <3>4. \A v \in Users : \A q \in ToRemove(v, "param")' : own'[v]["param"][q] # y
      BY <1>2, <1>5, <1>12, <3>1
    <3> QED
      BY <2>5, <2>7, <3>1, <3>3, <3>4
  <2>9. \A x \in Ids("alg")' : slots'["alg"][x] # NULL => slots'["alg"][x].parts = <<>>
    BY <1>3, <2>1 DEF PartInv
  <2>10. \A x \in Ids("pro")' : \A n \in DOMAIN PartsOf(x)' :
         /\ IsValid("param", PartsOf(x)[n])'
         /\ \A m \in Ids("pro")' : \A q \in DOMAIN PartsOf(m)' :
              PartsOf(m)'[q] = PartsOf(x)'[n] => m = x /\ q = n
         /\ \A u \in Users : \A q \in ToRemove(u, "param")' :
              own'[u]["param"][q] # PartsOf(x)'[n]
    <3>1. ASSUME NEW x \in Ids("pro")', NEW n \in DOMAIN PartsOf(x)'
          PROVE  /\ IsValid("param", PartsOf(x)[n])'
                 /\ \A m \in Ids("pro")' : \A q \in DOMAIN PartsOf(m)' :
                      PartsOf(m)'[q] = PartsOf(x)'[n] => m = x /\ q = n
                 /\ \A u \in Users : \A q \in ToRemove(u, "param")' :
                      own'[u]["param"][q] # PartsOf(x)'[n]
      <4>1. PICK y : y = PartsOf(x)'[n]
        OBVIOUS
      <4>2. /\ IsValid("param", y)'
            /\ \A m \in Ids("pro")' : \A q \in DOMAIN PartsOf(m)' :
                 PartsOf(m)'[q] = y => m = x /\ q = n
            /\ \A u \in Users : \A q \in ToRemove(u, "param")' : own'[u]["param"][q] # y
        BY <2>6, <3>1, <4>1
      <4> QED
        BY <4>1, <4>2 DEF IsValid
    <3> QED
      BY <3>1
  <2>11. \A u \in Users : \A n \in DOMAIN Dropped(u)' :
         /\ call'[u].kind = "pro"
         /\ Dropped(u)'[n][1] = "param" /\ IsValid("param", Dropped(u)[n][2])'
         /\ \A m \in DOMAIN Dropped(u)' : Dropped(u)'[m] = Dropped(u)'[n] => m = n
         /\ \A x \in Ids("pro")' : \A q \in DOMAIN PartsOf(x)' :
              PartsOf(x)'[q] # Dropped(u)'[n][2]
         /\ \A v \in Users : \A q \in ToRemove(v, "param")' :
              own'[v]["param"][q] # Dropped(u)'[n][2]
    <3>1. ASSUME NEW u \in Users, NEW n \in DOMAIN Dropped(u)'
          PROVE  /\ call'[u].kind = "pro"
                 /\ Dropped(u)'[n][1] = "param" /\ IsValid("param", Dropped(u)[n][2])'
                 /\ \A m \in DOMAIN Dropped(u)' : Dropped(u)'[m] = Dropped(u)'[n] => m = n
                 /\ \A x \in Ids("pro")' : \A q \in DOMAIN PartsOf(x)' :
                      PartsOf(x)'[q] # Dropped(u)'[n][2]
                 /\ \A v \in Users : \A q \in ToRemove(v, "param")' :
                      own'[v]["param"][q] # Dropped(u)'[n][2]
      <4>1. PICK y : y = Dropped(u)[n][2]
        OBVIOUS
      <4>2. y = Dropped(u)'[n][2]
        BY <2>7, <4>1
      <4>3. /\ call'[u].kind = "pro"
            /\ Dropped(u)'[n][1] = "param" /\ IsValid("param", y)'
            /\ \A m \in DOMAIN Dropped(u)' : Dropped(u)'[m] = Dropped(u)'[n] => m = n
            /\ \A x \in Ids("pro")' : \A q \in DOMAIN PartsOf(x)' : PartsOf(x)'[q] # y
            /\ \A v \in Users : \A q \in ToRemove(v, "param")' : own'[v]["param"][q] # y
        BY <2>8, <3>1, <4>1
      <4> QED
        BY <4>2, <4>3 DEF IsValid
    <3> QED
      BY <3>1
  <2> QED
    BY <2>9, <2>10, <2>11 DEF PartInv
<1>22. ReferInv'
  <2>1. ASSUME NEW m \in {"pro", "alg"}, NEW x \in Ids(m)', slots'[m][x] # NULL
        PROVE  \A l \in {"param", "pro", "rcr", "rnd"} : slots'[m][x][l] \in Ids(l)' \cup {NoId}
    <3>1. \A l \in {"param", "pro", "rcr", "rnd"} :
            slots[m][x][l] \in Ids(l) \cup {NoId} /\ slots'[m][x][l] = slots[m][x][l]
      BY <1>3, <1>19, <2>1 DEF ReferInv
    <3>2. \A l \in {"param", "pro", "rcr", "rnd"} : Ids(l) \subseteq Ids(l)'
      BY <1>10, SMTT(60) DEF Grows, IdsStay, Kinds
    <3> QED
      BY <3>1, <3>2
  <2>2. ASSUME NEW u \in Users, NEW m \in {"pro", "alg"}, NEW q \in ToRemove(u, m)',
               NEW x, x = own[u][m][q], slots'[m][x] # NULL
        PROVE  /\ slots'[m][x].param = own[u]["param"][1]
               /\ m = "alg" => slots'[m][x].pro = own[u]["pro"][q]
    <3>1. m \in Kinds /\ q \in ToRemove(u, m) /\ q \in DOMAIN own[u][m]
      BY <1>5, <1>12, <2>2
    <3>2. x \in Ids(m) /\ x \in Ids(m)'
      BY <1>3, <1>10, <2>2, <3>1, OwnType DEF Grows, IdsStay
    <3>3. /\ slots[m][x] # NULL /\ slots'[m][x].param = slots[m][x].param
          /\ slots'[m][x].pro = slots[m][x].pro
      BY <1>19, <2>2, <3>2
    <3> QED
      BY <1>3, <2>2, <3>1, <3>3, ZenonT(60) DEF ReferInv
  <2>3. ASSUME NEW u \in Users, Working(u), call[u].op = "add"
        PROVE  /\ slots'[call[u].kind][call[u].id].param = own[u]["param"][1]
               /\ call[u].kind = "alg" =>
                    slots'[call[u].kind][call[u].id].pro = OwnId(u, "pro")
    <3>1. PICK m, x : m = call[u].kind /\ x = call[u].id
      OBVIOUS
    <3>2. m \in {"pro", "alg"} /\ m \in Kinds /\ x \in Ids(m)
      BY <1>5, <2>3, <3>1, WorkFacts
    <3>3. slots[m][x] # NULL /\ slots[m][x].param = own[u]["param"][1]
          /\ (m = "alg" => slots[m][x].pro = OwnId(u, "pro"))
      BY <1>3, <2>3, <3>1 DEF ReferInv, WorkInv
    <3>4. slots'[m][x].param = slots[m][x].param /\ slots'[m][x].pro = slots[m][x].pro
      BY <1>10, <3>2, <3>3 DEF Grows
    <3> QED
      BY <3>1, <3>3, <3>4
  <2>4. \A u \in Users, m \in {"pro", "alg"} : \A q \in ToRemove(u, m)' :
          slots'[m][own'[u][m][q]] # NULL =>
            /\ slots'[m][own'[u][m][q]].param = own'[u]["param"][1]
            /\ m = "alg" => slots'[m][own'[u][m][q]].pro = own'[u]["pro"][q]
    BY <1>2, <2>2
  <2>5. \A u \in Users : Working(u)' /\ call'[u].op = "add" =>
          /\ slots'[call'[u].kind][call'[u].id].param = own'[u]["param"][1]
          /\ call'[u].kind = "alg" =>
               slots'[call'[u].kind][call'[u].id].pro = OwnId(u, "pro")'
    BY <1>2, <1>11, <2>3 DEF OwnId
  <2> QED
    BY <2>1, <2>4, <2>5 DEF ReferInv
<1> QED
  BY <1>13, <1>14, <1>15, <1>16, <1>17, <1>18, <1>20, <1>21, <1>22 DEF InstanceInv

\* The scripts of any task.
ScriptsOK == \A u \in Users : Len(Script(u)) \in Nat
MiddleOK == job # 0 => StartAt \in Nat /\ StartAt >= 3

LEMMA NextScripts == JobOK' => ScriptsOK' /\ MiddleOK'
<1>1. JobOK => ScriptsOK
  BY ScriptType DEF ScriptsOK
<1>2. JobOK => MiddleOK
  <2> SUFFICES ASSUME JobOK, job # 0
               PROVE  StartAt \in Nat /\ StartAt >= 3
    BY DEF MiddleOK
  <2>1. PICK n, f : n = Job.runs /\ f = FirstRemoval(Job.runs, Job.paramFirst)
    OBVIOUS
  <2>2. n \in Nat /\ StartAt = 3 * n + 3
    BY <2>1, ScriptOfMain
  <2> QED
    BY <2>2
<1> QED
  BY <1>1, <1>2, PTL

\* Between two tasks nobody does anything.
LEMMA AllRest ==
    ASSUME InstanceInv, pc[Main] = "idle", Finished(Main)
    PROVE  \A u \in Users : pc[u] = "idle"
<1>1. /\ TypeOK /\ JobOK /\ Main \in Users
      /\ \A u \in Threads \ running : pc[u] = "idle"
      /\ \A u \in Users : Finished(u) => pc[u] = "idle"
  BY ThreadTypes, UserTypes DEF InstanceInv, PlaceInv
<1>2. \A u \in running : Finished(u)
  <2>1. CASE job = 0
    BY <2>1 DEF InstanceInv, PlaceInv
  <2>2. CASE job # 0
    <3>1. PICK n, f : n = Job.runs /\ f = FirstRemoval(Job.runs, Job.paramFirst)
      OBVIOUS
    <3>2. n \in Nat /\ StartAt = 3 * n + 3 /\ DOMAIN Script(Main) = 1..5 * n + 6
      BY <1>1, <2>2, <3>1, ScriptOfMain
    <3>3. at[Main] \in Nat \ {0} /\ at[Main] \notin DOMAIN Script(Main)
      BY <1>1 DEF TypeOK, Finished
    <3>4. at[Main] > StartAt + 1
      BY <3>2, <3>3
    <3> QED
      BY <2>2, <3>4 DEF InstanceInv, PlaceInv
  <2> QED
    BY <2>1, <2>2
<1> QED
  BY <1>1, <1>2, UserTypes DEF TypeOK, Users

LEMMA NothingIsGot ==
    /\ Nothing \in IdLists /\ \A k \in Kinds : Nothing[k] = <<>>
    /\ Nothing["rnd"] = <<>> /\ Nothing["pro"] = <<>> /\ Nothing["alg"] = <<>>
    /\ Nothing["param"] = <<>> /\ Nothing["rcr"] = <<>>
  BY DEF Nothing, IdLists, Kinds

LEMMA NextTaskKeeps ==
    ASSUME InstanceInv, NextTask
    PROVE  InstanceInv'
<1>1. /\ TypeOK /\ ShelvedAreFree /\ RandomInv /\ PartInv /\ ReferInv /\ NothingThrows
      /\ \A u \in Users : AtCallInv(u)
  BY DEF InstanceInv
<1>2. /\ slots' = slots /\ occupied' = occupied /\ shelved' = shelved /\ mutex' = mutex
      /\ pc' = pc /\ call' = call /\ seen' = seen /\ lost' = lost
      /\ job' = job + 1 /\ job < Len(Tasks) /\ running' = {}
      /\ at' = [u \in Users |-> 1] /\ own' = [u \in Users |-> Nothing]
  BY DEF NextTask, manager
<1>3. \A u \in Users : pc[u] = "idle" /\ call[u] = NoCall /\ ~Working(u) /\ ~Working(u)'
  <2>1. \A u \in Users : pc[u] = "idle"
    BY AllRest DEF NextTask
  <2> QED
    BY <1>1, <1>2, <2>1 DEF AtCallInv, Working
<1>4. job' \in 0..Len(Tasks) /\ job' # 0 /\ JobOK'
  <2>1. job \in Nat /\ Len(Tasks) \in Nat
    BY <1>1, TasksAssumption DEF TypeOK
  <2>2. job' \in 0..Len(Tasks) /\ job' # 0
    BY <1>2, <2>1
  <2> QED
    BY <2>2 DEF JobOK
<1>5. /\ \A u \in Users : Len(Script(u)') \in Nat
      /\ StartAt' \in Nat /\ StartAt' >= 3
  BY <1>4, NextScripts DEF ScriptsOK, MiddleOK
<1>6. \A u \in Users : at'[u] = 1 /\ own'[u] = Nothing
  BY <1>2
<1>7. \A u \in Users, k \in Kinds : ToRemove(u, k)' = {}
  <2>1. \A u \in Users, k \in Kinds : DOMAIN own'[u][k] = {}
    BY <1>6, NothingIsGot
  <2> QED
    BY <2>1 DEF ToRemove
<1>8. \A m : Ids(m)' = Ids(m)
  BY <1>2 DEF Ids
<1>9. TypeOK'
  <2>1. own' \in [Users -> [Kinds -> Seq(Nat)]] /\ at' \in [Users -> Nat \ {0}]
    BY <1>2, NothingIsGot DEF IdLists
  <2>2. ASSUME NEW u \in Users
        PROVE  /\ call'[u].id \in Ids(call[u].kind)' \cup {NoId}
               /\ \A k \in Kinds : \A q \in DOMAIN own'[u][k] : own'[u][k][q] \in Ids(k)'
    <3>1. call'[u].id = NoId
      BY <1>2, <1>3, NoCallType
    <3>2. \A k \in Kinds : own'[u][k] = <<>>
      BY <1>6, NothingIsGot
    <3> QED
      BY <3>1, <3>2
  <2> QED
    BY <1>1, <1>2, <1>4, <1>8, <2>1, <2>2 DEF TypeOK
<1>10. PlaceInv'
  <2>1. \A u \in Users : at'[u] <= Len(Script(u)') + 1
    BY <1>5, <1>6
  <2>2. \A u \in Threads \ running' : pc'[u] = "idle" /\ at'[u] = 1
    BY <1>2, <1>3, <1>6 DEF Users
  <2>3. \A u \in Users : pc'[u] = "idle"
    BY <1>2, <1>3
  <2>4. ~(at'[Main] > StartAt' + 1)
    BY <1>5, <1>6, UserTypes
  <2> QED
    BY <1>2, <1>4, <2>1, <2>2, <2>3, <2>4 DEF PlaceInv
<1>11. GotInv'
  <2>1. ASSUME NEW u \in Users
        PROVE  GotBefore(u, at[u], own[u])'
    <3>1. PICK n, ids : n = 1 /\ ids = Nothing
      OBVIOUS
    <3>2. /\ ids["rnd"] = <<>> /\ ids["rcr"] = <<>>
          /\ Len(ids["param"]) = 0 /\ Len(ids["rcr"]) = 0
          /\ Len(ids["pro"]) = 0 /\ Len(ids["alg"]) = 0
      BY <3>1, NothingIsGot
    <3>3. n \notin 3..StartAt' /\ ~(n > StartAt')
      BY <1>5, <3>1
    <3>4. GotBefore(u, n, ids)'
      BY <3>1, <3>2, <3>3 DEF GotBefore
    <3> QED
      BY <1>6, <3>1, <3>4
  <2> QED
    BY <2>1 DEF GotInv
<1>12. \A u \in Users : AtCallInv(u)' /\ WorkInv(u)'
  <2>1. \A u \in Users : AtCallInv(u)'
    BY <1>2, <1>3, NoCallType DEF AtCallInv
  <2> QED
    BY <1>3, <2>1 DEF WorkInv
<1>13. OwnInv'
  BY <1>7 DEF OwnInv
<1>14. RandomInv'
  <2>1. \A m, x : HasRandom(m, x)' <=> HasRandom(m, x)
    BY <1>2, <1>3 DEF HasRandom, WorksOn
  <2>2. \A m, x : IsValid(m, x)' <=> IsValid(m, x)
    BY <1>2 DEF IsValid
  <2> QED
    BY <1>1, <1>2, <1>8, <2>1, <2>2 DEF RandomInv
<1>15. PartInv'
  <2>1. \A u \in Users : Dropped(u)' = <<>>
    BY <1>3 DEF Dropped
  <2>2. \A x : PartsOf(x)' = PartsOf(x)
    BY <1>2 DEF PartsOf
  <2>3. \A x : IsValid("param", x) => IsValid("param", x)'
    BY <1>2 DEF IsValid
  <2>4. \A x \in Ids("alg")' : slots'["alg"][x] # NULL => slots'["alg"][x].parts = <<>>
    BY <1>1, <1>2, <1>8 DEF PartInv
  <2>5. \A u \in Users : ToRemove(u, "param")' = {}
    BY <1>7 DEF Kinds
  <2> QED
    BY <1>1, <1>8, <2>1, <2>2, <2>3, <2>4, <2>5, FewerParts
<1>16. ReferInv'
  <2>1. \A u \in Users, k \in {"pro", "alg"} : ToRemove(u, k)' = {}
    BY <1>7 DEF Kinds
  <2>2. \A k \in {"pro", "alg"} : \A i \in Ids(k)' : slots'[k][i] # NULL =>
          \A l \in {"param", "pro", "rcr", "rnd"} : slots'[k][i][l] \in Ids(l)' \cup {NoId}
    BY <1>1, <1>2, <1>8 DEF ReferInv
  <2> QED
    BY <1>3, <2>1, <2>2 DEF ReferInv
<1>17. ShelvedAreFree'
  <2>1. \A m \in Kinds : \A x \in Ids(m) : Free(m, x)' <=> Free(m, x)
    BY <1>2, <1>3 DEF Free, Untouched, WorksOn
  <2> QED
    BY <1>1, <1>2, <1>8, <2>1, ShelfSame
<1>18. NothingThrows'
  BY <1>1, <1>2 DEF NothingThrows
<1> QED
  BY <1>9, <1>10, <1>11, <1>12, <1>13, <1>14, <1>15, <1>16, <1>17, <1>18 DEF InstanceInv

LEMMA StutterKeeps ==
    ASSUME InstanceInv, UNCHANGED vars
    PROVE  InstanceInv'
<1>1. /\ slots' = slots /\ occupied' = occupied /\ shelved' = shelved /\ mutex' = mutex
      /\ pc' = pc /\ at' = at /\ call' = call /\ seen' = seen /\ own' = own
      /\ job' = job /\ running' = running /\ lost' = lost
  BY DEF vars, manager, threads, task
<1>2. /\ TypeOK /\ ShelvedAreFree /\ OwnInv /\ RandomInv /\ PartInv /\ ReferInv /\ PlaceInv
      /\ GotInv /\ NothingThrows /\ Main \in Users
      /\ \A u \in Users : WorkInv(u) /\ AtCallInv(u)
  BY UserTypes DEF InstanceInv
<1>3. /\ Calm(Main) /\ DropsStay
      /\ \A u \in Users : WorkGoesOn(u)
  BY <1>1 DEF Calm, DropsStay, WorkGoesOn, Working, Advances
<1>4. /\ \A u : Script(u)' = Script(u)
      /\ StartAt' = StartAt
  BY <1>1, ScriptStays
<1>5. TypeOK'
  <2>1. \A m : Ids(m)' = Ids(m)
    BY <1>1 DEF Ids
  <2> QED
    BY <1>1, <1>2, <2>1 DEF TypeOK
<1>6. PlaceInv'
  <2>1. \A u : Finished(u)' <=> Finished(u)
    BY <1>1, <1>4 DEF Finished
  <2> QED
    BY <1>1, <1>2, <1>4, <2>1 DEF PlaceInv
<1>7. GotInv'
  BY <1>1, <1>2, GotStays
<1>8. \A u \in Users : AtCallInv(u)'
  BY <1>1, <1>2, AtCallKept
<1>9. \A u \in Users : WorkInv(u)'
  <2>1. IdsStay /\ \A k, i : SlotKept(k, i)
    BY <1>1 DEF IdsStay, Ids, SlotKept
  <2>2. \A u \in Users : Working(u)' <=> Working(u)
    BY <1>1 DEF Working
  <2> QED
    BY <1>1, <1>2, <2>1, <2>2, WorkInvKept
<1>10. ShelvedAreFree' /\ OwnInv' /\ RandomInv' /\ PartInv' /\ ReferInv'
  BY <1>1, <1>2, <1>3, CalmShelved, CalmOwn, CalmRandom, CalmParts, CalmReferences
<1>11. NothingThrows'
  BY <1>1, <1>2 DEF NothingThrows
<1> QED
  BY <1>5, <1>6, <1>7, <1>8, <1>9, <1>10, <1>11 DEF InstanceInv

-----------------------------------------------------------------------------
(* The theorems.                                                           *)

\* At the beginning.
LEMMA InitKeeps == Init => InstanceInv
<1> SUFFICES ASSUME Init
             PROVE  InstanceInv
  OBVIOUS
<1>1. /\ slots = Nothing /\ occupied = Nothing /\ shelved = Nothing
      /\ mutex = [k \in {"alg", "pro"} |-> NULL]
      /\ \A u \in Users : /\ pc[u] = "idle" /\ at[u] = 1 /\ call[u] = NoCall
                          /\ own[u] = Nothing
      /\ job = 0 /\ running = {} /\ lost = FALSE
  BY DEF Init
<1>2. /\ \A k \in Kinds : Ids(k) = {} /\ slots[k] = <<>>
      /\ \A k \in {"pro", "alg"} : Ids(k) = {}
  BY <1>1, NothingIsGot DEF Ids, Kinds
<1>3. \A u \in Users : ~Working(u) /\ \A k \in Kinds : ToRemove(u, k) = {}
  <2>1. \A u \in Users, k \in Kinds : DOMAIN own[u][k] = {}
    BY <1>1, NothingIsGot
  <2> QED
    BY <1>1, <2>1 DEF ToRemove, Working
<1>4. TypeOK
  <2>1. /\ slots \in [Kinds -> Seq(Objects \cup {NULL})]
        /\ occupied \in [Kinds -> Seq(0..Modulus - 1)]
        /\ shelved \in [Kinds -> Seq(Nat)]
    BY <1>1 DEF Nothing
  <2>2. \A k \in Kinds : Len(occupied[k]) = Len(slots[k]) /\ DOMAIN shelved[k] = {}
    BY <1>1, NothingIsGot
  <2>3. /\ call \in [Users -> CallStates] /\ at \in [Users -> Nat \ {0}]
        /\ own \in [Users -> [Kinds -> Seq(Nat)]]
        /\ seen \in [Users -> [size : Nat, count : 0..Modulus - 1]]
    <3>1. 0 \in 0..Modulus - 1
      BY NumbersAssumption
    <3>2. NotSeen \in [size : Nat, count : 0..Modulus - 1]
      BY <3>1 DEF NotSeen
    <3>3. /\ seen = [u \in Users |-> NotSeen] /\ call = [u \in Users |-> NoCall]
          /\ at = [u \in Users |-> 1] /\ own = [u \in Users |-> Nothing]
      BY DEF Init
    <3>4. at \in [Users -> Nat \ {0}]
      BY <3>3
    <3>5. call \in [Users -> CallStates]
      BY <3>3, NoCallType
    <3>6. own \in [Users -> [Kinds -> Seq(Nat)]]
      BY <3>3, NothingIsGot DEF IdLists
    <3>7. seen \in [Users -> [size : Nat, count : 0..Modulus - 1]]
      <4>1. PICK S : S = [size : Nat, count : 0..Modulus - 1]
        OBVIOUS
      <4>2. seen \in [Users -> S]
        BY <3>2, <3>3, <4>1
      <4> QED
        BY <4>1, <4>2
    <3> QED
      BY <3>4, <3>5, <3>6, <3>7
  <2>4. ASSUME NEW u \in Users
        PROVE  /\ call[u].id \in Ids(call[u].kind) \cup {NoId}
               /\ \A k \in Kinds : \A q \in DOMAIN own[u][k] : own[u][k][q] \in Ids(k)
    BY <1>1, NoCallType, NothingIsGot
  <2>5. /\ mutex \in [{"alg", "pro"} -> Users \cup {NULL}]
        /\ pc \in [Users -> {"idle", "locking", "counting", "writing", "discarding", "thrown"}]
        /\ job \in 0..Len(Tasks) /\ running \subseteq Threads /\ lost \in BOOLEAN
    <3>1. Len(Tasks) \in Nat
      BY TasksAssumption
    <3>2. pc = [u \in Users |-> "idle"]
      BY DEF Init
    <3>3. pc \in [Users -> {"idle", "locking", "counting", "writing", "discarding", "thrown"}]
      BY <3>2
    <3>4. mutex \in [{"alg", "pro"} -> Users \cup {NULL}]
      BY <1>1
    <3>5. job \in 0..Len(Tasks)
      BY <1>1, <3>1
    <3>6. running \subseteq Threads /\ lost \in BOOLEAN
      BY <1>1
    <3> QED
      BY <3>3, <3>4, <3>5, <3>6
  <2> QED
    BY <2>1, <2>2, <2>3, <2>4, <2>5 DEF TypeOK
<1>5. JobOK /\ Main \in Users
  BY <1>4, UserTypes DEF TypeOK, JobOK
<1>6. PlaceInv
  <2>1. \A u \in Users : at[u] <= Len(Script(u)) + 1
    <3>1. \A u \in Users : Len(Script(u)) \in Nat
      BY <1>5, ScriptType
    <3> QED
      BY <1>1, <3>1
  <2>2. \A u \in Threads \ running : pc[u] = "idle" /\ at[u] = 1
    BY <1>1, UserTypes
  <2> QED
    BY <1>1, <1>5, <2>1, <2>2 DEF PlaceInv
<1>7. GotInv
  BY <1>1, NothingIsGot DEF GotInv, GotBefore
<1>8. \A u \in Users : AtCallInv(u) /\ WorkInv(u)
  BY <1>1, <1>3, NoCallType DEF AtCallInv, WorkInv
<1>9. OwnInv
  BY <1>3 DEF OwnInv
<1>10. RandomInv
  BY <1>2 DEF RandomInv
<1>11. PartInv
  <2>1. \A u \in Users : Dropped(u) = <<>>
    BY <1>3 DEF Dropped
  <2> QED
    BY <1>2, <2>1 DEF PartInv
<1>12. ReferInv
  BY <1>2, <1>3 DEF ReferInv, Kinds
<1>13. ShelvedAreFree
  BY <1>1, <1>2, NothingIsGot DEF ShelvedAreFree
<1>14. NothingThrows
  BY <1>1 DEF NothingThrows
<1> QED
  BY <1>4, <1>6, <1>7, <1>8, <1>9, <1>10, <1>11, <1>12, <1>13, <1>14 DEF InstanceInv

\* Every step.
LEMMA StepKeeps == InstanceInv /\ [Next]_vars => InstanceInv'
<1> SUFFICES ASSUME InstanceInv, [Next]_vars
             PROVE  InstanceInv'
  OBVIOUS
<1>1. ASSUME NEW t \in Users, Adding(t)
      PROVE  InstanceInv'
  BY <1>1, AddLeafKeeps, AddCheckKeeps, AddLockedKeeps, AddReturnsKeeps DEF Adding
<1>2. ASSUME NEW t \in Users, Counting(t)
      PROVE  InstanceInv'
  BY <1>2, CountReadKeeps, CountWriteKeeps DEF Counting
<1>3. ASSUME NEW t \in Users, Removing(t)
      PROVE  InstanceInv'
  BY <1>3, RemoveCheckKeeps, RemoveLeafKeeps, RemoveLockedKeeps, DropCheckKeeps, DropDoneKeeps,
     ResetKeeps, RemoveReturnsKeeps DEF Removing
<1>4. ASSUME NEW t \in Threads, RunAlgorithm(t)
      PROVE  InstanceInv'
  BY <1>4, RunAlgorithmKeeps, UserTypes
<1>5. CASE RunStep
  BY <1>5, AddFunctionKeeps, InitializedKeeps, StartThreadsKeeps, JoinKeeps DEF RunStep
<1>6. CASE NextTask
  BY <1>6, NextTaskKeeps
<1>7. CASE Ended \/ UNCHANGED vars
  BY <1>7, StutterKeeps DEF Ended
<1> QED
  BY <1>1, <1>2, <1>3, <1>4, <1>5, <1>6, <1>7 DEF Next, Step

\* Whatever the threads and the tasks, InstanceInv holds: the ids in use, on the shelf
\* and in the hands of the threads fit together at every moment of every run.
THEOREM InstanceInvariant == Spec => []InstanceInv
  BY InitKeeps, StepKeeps, PTL DEF Spec

\* The variables have their types, and every id that is held, shelved or counted is one
\* of the registry.
THEOREM InstanceTypes == Spec => []TypeOK
<1>1. InstanceInv => TypeOK
  BY DEF InstanceInv
<1> QED
  BY <1>1, InstanceInvariant, PTL

\* No id is given to two objects, and none is forgotten.
THEOREM ShelfIsRight == Spec => []ShelvedAreFree
<1>1. InstanceInv => ShelvedAreFree
  BY DEF InstanceInv
<1> QED
  BY <1>1, InstanceInvariant, PTL

\* No call of run(), of its threads or of the constructors of the problems and
\* algorithms asks for an object that is not there.
THEOREM NoCallThrows == Spec => []NothingThrows
<1>1. InstanceInv => NothingThrows
  BY DEF InstanceInv
<1> QED
  BY <1>1, InstanceInvariant, PTL

=============================================================================
