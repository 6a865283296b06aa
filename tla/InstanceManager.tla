-------------------------- MODULE InstanceManager --------------------------
(***************************************************************************)
(* ofec::InstanceManager, the registry of the parameter maps, problems,    *)
(* algorithms, records and random generators of OFEC, with the threads     *)
(* that use it: run() adds the instances of a task, starts a thread per    *)
(* algorithm, waits for them and releases what it has added; an algorithm  *)
(* of the SPAE family adds and removes a problem and an algorithm of its   *)
(* own while it runs (HLC::regressCovLine).                                *)
(*                                                                         *)
(* A step is a critical section of one of the five mutexes, or a part of   *)
(* one between two points where another thread can see a difference.  The  *)
(* mutexes of parameter maps, records and random generators are taken last *)
(* and cover a single step each; those of problems and algorithms are held *)
(* over the changes of the occupation counts.  These counts belong to      *)
(* other kinds, whose vectors may grow in the meantime: a change is a read *)
(* and a write, and a write to a vector that has moved is lost.            *)
(*                                                                         *)
(* Ids are counted from 1 here, from 0 in the code; NoId stands for -1.    *)
(***************************************************************************)
EXTENDS Integers, Sequences, FiniteSets

CONSTANTS
    Threads,    \* the threads of runAlg
    Main,       \* the thread of run()
    NULL,       \* an empty pointer, a free mutex
    Tasks,      \* the lines of tasks.txt
    NumParts,   \* m_num_function of a composition problem
    Modulus,    \* 2^w for the w bits of size_t
    Growth      \* the sizes at which emplace_back moves a vector

ASSUME ThreadsAssumption == Main \notin Threads /\ NULL \notin Threads \cup {Main}
ASSUME NumbersAssumption ==
    /\ NumParts \in Nat
    /\ Modulus \in Nat /\ Modulus > 1
    /\ Growth \subseteq Nat
ASSUME TasksAssumption ==
    Tasks \in Seq([runs : Nat, composition : BOOLEAN, paramFirst : BOOLEAN])

Kinds == {"rnd", "pro", "alg", "param", "rcr"}
NoId == 0
Objects == [param : Nat, pro : Nat, rcr : Nat, rnd : Nat, parts : Seq(Nat)]

ASSUME NullAssumption == NULL \notin Objects

\* size_t has room for the problems and algorithms of a task.
ASSUME CountsAssumption ==
    Modulus > 2 /\ \A n \in DOMAIN Tasks : 2 * Tasks[n].runs < Modulus

Users == Threads \cup {Main}

VARIABLES
    \* the fields of InstanceManager
    slots,      \* slots[k][i]: the object of kind k with id i, or NULL
    occupied,   \* m_num_occupied_k
    shelved,    \* m_shelved_ids_k
    mutex,      \* who holds m_alg_mtx and m_pro_mtx for writing
    \* the threads
    pc,         \* where a thread is in its call
    at,         \* the number of its call
    call,       \* the object it adds or removes and what is left to do
    seen,       \* the count it has read, and the size of the vector then
    own,        \* the ids it has got, by kind
    job,        \* the number of the task
    running,    \* the threads that have been started
    \* history
    lost        \* a count has been written to a vector that had moved

manager == <<slots, occupied, shelved, mutex>>
threads == <<pc, at, call, seen, own>>
task == <<job, running>>
vars == <<manager, threads, task, lost>>

\* What the algorithms and problems keep of other objects (m_id_param, ...); a
\* composition also the parameter maps of its functions.
Plain == [param |-> NoId, pro |-> NoId, rcr |-> NoId, rnd |-> NoId, parts |-> <<>>]
CallFor(op, k, i) == [op |-> op, kind |-> k, id |-> i, todo |-> <<>>, drop |-> <<>>]
NoCall == CallFor("none", "rnd", NoId)
NotSeen == [size |-> 0, count |-> 0]
Nothing == [k \in Kinds |-> <<>>]

Init ==
    /\ slots = Nothing /\ occupied = Nothing /\ shelved = Nothing
    /\ mutex = [k \in {"alg", "pro"} |-> NULL]
    /\ pc = [t \in Users |-> "idle"] /\ at = [t \in Users |-> 1]
    /\ call = [t \in Users |-> NoCall] /\ seen = [t \in Users |-> NotSeen]
    /\ own = [t \in Users |-> Nothing]
    /\ job = 0 /\ running = {} /\ lost = FALSE

-----------------------------------------------------------------------------
(* The registry.                                                           *)

\* isRandomIdValid and the others.
IsValid(k, i) == i \in DOMAIN slots[k] /\ slots[k][i] # NULL

\* A shared lock can be had, for a test or a get.
Readable(k) == k \in {"alg", "pro"} => mutex[k] = NULL

\* Faulty variant: the size of a vector that has not grown yet.
NewIdBeforeGrowth(k) == IF shelved[k] = <<>> THEN Len(slots[k]) ELSE Head(shelved[k])

\* The id the next object of kind k gets.
NewId(k) == IF shelved[k] = <<>> THEN Len(slots[k]) + 1 ELSE Head(shelved[k])

\* Faulty variant: pop_front is forgotten.
UnshelvedKept(k) == shelved[k]

\* The shelf after that, if it has been used.
Unshelved(k) == Tail(shelved[k])

\* Table with new objects (a function of their kinds): at the end, or where one was
\* removed.
Placed(table, new) ==
    [k \in Kinds |->
        IF k \notin DOMAIN new THEN table[k]
        ELSE IF shelved[k] = <<>> THEN Append(table[k], new[k])
        ELSE [table[k] EXCEPT ![NewId(k)] = new[k]]]

\* Their ids, with a new count or the one that was left there.
Take(kinds) ==
    /\ occupied' = [k \in Kinds |->
          IF k \in kinds /\ shelved[k] = <<>> THEN Append(occupied[k], 0) ELSE occupied[k]]
    /\ shelved' = [k \in Kinds |->
          IF k \in kinds /\ shelved[k] # <<>> THEN Unshelved(k) ELSE shelved[k]]

Place(new) == slots' = Placed(slots, new) /\ Take(DOMAIN new)

\* An object of kind k goes and its id is shelved.
Discard(k, i) ==
    /\ slots' = [slots EXCEPT ![k][i] = NULL]
    /\ shelved' = [shelved EXCEPT ![k] = Append(@, i)]

\* Faulty variant: nobody asks for users.
RemovableUsed(k, i) == IsValid(k, i)

\* Faulty variant: the test of removeRecord in all of them.
RemovableInverted(k, i) ==
    /\ IsValid(k, i)
    /\ k # "alg" => occupied[k][i] # 0

\* The test at the head of removeProblem, removeRandom, removeParamMap, of
\* removeRecord, which is the other way round, and of removeAlgorithm.
Removable(k, i) ==
    /\ IsValid(k, i)
    /\ k \in {"pro", "rnd", "param"} => occupied[k][i] = 0
    /\ k = "rcr" => occupied[k][i] # 0

\* The vector of counts of kind k has moved since it had n elements.
Moved(k, n) == \E size \in Growth : n <= size /\ size < Len(occupied[k])

-----------------------------------------------------------------------------
(* The calls of the threads.                                               *)

\* HLC::regressCovLine.  A call is an operation, a kind of object, and for an object
\* the thread has its number among those of that kind.
RegressCovLine ==
    << <<"add", "param", 1>>, <<"add", "pro", 1>>, <<"add", "alg", 1>>, <<"run", "alg", 1>>,
       <<"remove", "alg", 1>>, <<"remove", "pro", 1>>, <<"remove", "param", 1>> >>

\* The task at hand: its number of runs, whether its problem is a composition, and
\* whether it is released in the order of run() or in the order of the test of the
\* moving peaks benchmark, which begins with the parameters.
Job == Tasks[job]

\* run(): three calls for each run, the threads, the release.
RunOf(m) ==
    LET n == Tasks[m].runs
        all(k) == [j \in 1..n |-> <<"remove", k, j>>]
        param == << <<"remove", "param", 1>> >>
    IN  << <<"add", "param", 1>>, <<"add", "rcr", 1>> >>
          \o [j \in 1..3 * n |-> IF j % 3 = 1 THEN <<"add", "pro", 1>>
                                ELSE IF j % 3 = 2 THEN <<"add", "alg", 1>>
                                ELSE <<"initialize", "pro", j \div 3>>]
          \o << <<"start", "alg", 1>>, <<"join", "alg", 1>> >>
          \o (IF Tasks[m].paramFirst THEN param ELSE <<>>)
          \o all("alg") \o all("pro") \o << <<"remove", "rcr", 1>> >>
          \o (IF Tasks[m].paramFirst THEN <<>> ELSE param)
RunTasks == [n \in DOMAIN Tasks |-> RunOf(n)]
RunTask == RunTasks[job]

Script(t) == IF t # Main THEN RegressCovLine ELSE IF job = 0 THEN <<>> ELSE RunTask
Finished(t) == at[t] \notin DOMAIN Script(t)

\* Thread t is about to make the call c.
Calls(t, c) ==
    pc[t] = "idle" /\ t \in running \cup {Main} /\ ~Finished(t) /\ c = Script(t)[at[t]]

Goto(t, p) == pc' = [pc EXCEPT ![t] = p]
Returns(t) == at' = [at EXCEPT ![t] = @ + 1]
\* The last id of kind k that thread t has got, -1 if none.
OwnId(t, k) == IF own[t][k] = <<>> THEN NoId ELSE own[t][k][Len(own[t][k])]

-----------------------------------------------------------------------------
(* Adding.                                                                 *)

\* addParamaps; addRecord, which gets the parameters under the mutex of the records.
AddLeaf(t, k) ==
    /\ Calls(t, <<"add", k, 1>>)
    /\ IF k = "rcr" /\ ~IsValid("param", OwnId(t, "param"))
         THEN Goto(t, "thrown") /\ UNCHANGED <<manager, at, own>>
         ELSE /\ Place([kind \in {k} |-> Plain])
              /\ own' = [own EXCEPT ![t][k] = Append(@, NewId(k))]
              /\ Returns(t)
              /\ UNCHANGED <<mutex, pc>>
    /\ UNCHANGED <<call, seen, task, lost>>

\* addProblem and addAlgorithm up to the lock: the other objects must be there.
AddCheck(t, k) ==
    /\ Calls(t, <<"add", k, 1>>)
    /\ k = "alg" => Readable("pro")
    /\ IF IsValid("param", OwnId(t, "param")) /\ (k = "alg" => IsValid("pro", OwnId(t, "pro")))
         THEN /\ Goto(t, "locking")
              /\ call' = [call EXCEPT ![t] = CallFor("add", k, NoId)]
         ELSE Goto(t, "thrown") /\ UNCHANGED call
    /\ UNCHANGED <<manager, at, seen, own, task, lost>>

\* What a new problem or algorithm of thread t refers to.
References(t, k) ==
    [param |-> OwnId(t, "param"), rnd |-> NewId("rnd"), parts |-> <<>>,
     pro |-> IF k = "alg" THEN OwnId(t, "pro") ELSE NoId,
     rcr |-> IF k = "alg" THEN OwnId(t, "rcr") ELSE NoId]

\* The count of what object o refers to, if it does.  The id -1 is never valid.
Count(o, k) == IF o[k] = NoId THEN <<>> ELSE << <<k, o[k]>> >>

\* Faulty variant: the problem is not told of its algorithms.
CountsWithoutProblem(o, k) ==
    Count(o, "param") \o Count(o, "rnd") \o (IF k = "pro" THEN <<>> ELSE Count(o, "rcr"))

\* What a new object o of kind k changes, in this order.
Counts(o, k) ==
    IF k = "pro" THEN Count(o, "rnd") \o Count(o, "param")
    ELSE Count(o, "param") \o Count(o, "rnd") \o Count(o, "pro") \o Count(o, "rcr")

\* What is changed when it goes.
CountsBack(o, k) ==
    IF k = "pro" THEN Count(o, "rnd") \o Count(o, "param")
    ELSE Count(o, "pro") \o Count(o, "rcr") \o Count(o, "rnd") \o Count(o, "param")

\* Their lock, the new object and its random generator (addRandom); the counts of
\* what it refers to are changed next.
AddLocked(t) ==
    /\ pc[t] = "locking" /\ call[t].op = "add"
    /\ LET k == call[t].kind
           o == References(t, k)
       IN  /\ mutex[k] = NULL
           /\ mutex' = [mutex EXCEPT ![k] = t]
           /\ Place([kind \in {k, "rnd"} |-> IF kind = k THEN o ELSE Plain])
           /\ call' = [call EXCEPT ![t].id = NewId(k), ![t].todo = Counts(o, k)]
    /\ Goto(t, "counting")
    /\ UNCHANGED <<at, seen, own, task, lost>>

-----------------------------------------------------------------------------
(* Counting.                                                               *)

Next1(t) == Head(call[t].todo)
HasNext(t) == pc[t] = "counting" /\ call[t].todo # <<>>

\* addProblem and addAlgorithm ask only for the record whether it is there, the
\* removing functions always do.
Asks(t) == call[t].op = "remove" \/ Next1(t)[1] = "rcr"

\* The first half of ++ or --: the vector is where it is now.  Were the object gone
\* the code would pass over its count, and the model would stop.
CountRead(t) ==
    /\ HasNext(t)
    /\ LET k == Next1(t)[1]
           i == Next1(t)[2]
       IN  /\ Asks(t) => Readable(k) /\ IsValid(k, i)
           /\ seen' = [seen EXCEPT ![t] = [size |-> Len(occupied[k]), count |-> occupied[k][i]]]
    /\ Goto(t, "writing")
    /\ UNCHANGED <<manager, at, call, own, task, lost>>

\* The second half, lost if the vector has moved.  size_t wraps around.
CountWrite(t) ==
    /\ pc[t] = "writing"
    /\ LET k == Next1(t)[1]
           i == Next1(t)[2]
           count == seen[t].count
           changed == IF call[t].op = "add" THEN IF count = Modulus - 1 THEN 0 ELSE count + 1
                      ELSE IF count = 0 THEN Modulus - 1 ELSE count - 1
       IN  IF Moved(k, seen[t].size)
             THEN lost' = TRUE /\ UNCHANGED occupied
             ELSE /\ occupied' = [occupied EXCEPT ![k][i] = changed]
                  /\ UNCHANGED lost
    /\ call' = [call EXCEPT ![t].todo = Tail(@)]
    /\ seen' = [seen EXCEPT ![t] = NotSeen]
    /\ Goto(t, "counting")
    /\ UNCHANGED <<slots, shelved, mutex, at, own, task>>

\* The end of addProblem and addAlgorithm.
AddReturns(t) ==
    /\ pc[t] = "counting" /\ call[t].op = "add" /\ call[t].todo = <<>>
    /\ mutex' = [mutex EXCEPT ![call[t].kind] = NULL]
    /\ own' = [own EXCEPT ![t][call[t].kind] = Append(@, call[t].id)]
    /\ call' = [call EXCEPT ![t] = NoCall]
    /\ Goto(t, "idle") /\ Returns(t)
    /\ UNCHANGED <<slots, occupied, shelved, seen, task, lost>>

-----------------------------------------------------------------------------
(* Removing.                                                               *)

\* The tests of the remove functions, the occupation without a lock.  What is refused
\* stays.
RemoveCheck(t, k, j) ==
    /\ Calls(t, <<"remove", k, j>>)
    /\ Readable(k)
    /\ IF Removable(k, own[t][k][j])
         THEN /\ Goto(t, "locking")
              /\ call' = [call EXCEPT ![t] = CallFor("remove", k, own[t][k][j])]
              /\ UNCHANGED at
         ELSE Returns(t) /\ UNCHANGED <<pc, call>>
    /\ UNCHANGED <<manager, seen, own, task, lost>>

\* removeParamMap and removeRecord.
RemoveLeaf(t) ==
    /\ pc[t] = "locking" /\ call[t].op = "remove" /\ call[t].kind \in {"param", "rcr"}
    /\ Discard(call[t].kind, call[t].id)
    /\ call' = [call EXCEPT ![t] = NoCall]
    /\ Goto(t, "idle") /\ Returns(t)
    /\ UNCHANGED <<occupied, mutex, seen, own, task, lost>>

\* removeProblem and removeAlgorithm: the lock, then the counts of what it refers to.
RemoveLocked(t) ==
    /\ pc[t] = "locking" /\ call[t].op = "remove" /\ call[t].kind \in {"alg", "pro"}
    /\ LET k == call[t].kind
           o == slots[k][call[t].id]
       IN  /\ mutex[k] = NULL
           /\ mutex' = [mutex EXCEPT ![k] = t]
           /\ call' = [call EXCEPT ![t].drop = << <<"rnd", o.rnd>> >>,
                                         ![t].todo = CountsBack(o, k)]
    /\ Goto(t, "counting")
    /\ UNCHANGED <<slots, occupied, shelved, at, seen, own, task, lost>>

\* When all is counted, removeRandom follows.
Dropping(t) == pc[t] = "counting" /\ call[t].op = "remove" /\ call[t].todo = <<>>

\* The tests of removeRandom and removeParamMap, called with a mutex held ...
DropCheck(t) ==
    /\ Dropping(t) /\ call[t].drop # <<>>
    /\ IF Removable(Head(call[t].drop)[1], Head(call[t].drop)[2])
         THEN Goto(t, "discarding") /\ UNCHANGED call
         ELSE call' = [call EXCEPT ![t].drop = Tail(@)] /\ UNCHANGED pc
    /\ UNCHANGED <<manager, at, seen, own, task, lost>>

\* ... and their end.
DropDone(t) ==
    /\ pc[t] = "discarding"
    /\ Discard(Head(call[t].drop)[1], Head(call[t].drop)[2])
    /\ call' = [call EXCEPT ![t].drop = Tail(@)]
    /\ Goto(t, "counting")
    /\ UNCHANGED <<occupied, mutex, at, seen, own, task, lost>>

\* The problem or algorithm itself: its destructor, which removes the parameters of a
\* composition, runs under the mutex when the pointer is null already.
Reset(t) ==
    /\ Dropping(t) /\ call[t].drop = <<>>
    /\ LET o == slots[call[t].kind][call[t].id] IN
         /\ o # NULL
         /\ slots' = [slots EXCEPT ![call[t].kind][call[t].id] = NULL]
         /\ call' = [call EXCEPT ![t].drop = [p \in DOMAIN o.parts |-> <<"param", o.parts[p]>>]]
    /\ UNCHANGED <<occupied, shelved, mutex, pc, at, seen, own, task, lost>>

\* Faulty variant: the mutex is not released.
RemoveReturnsLocked(t) ==
    /\ Dropping(t) /\ call[t].drop = <<>>
    /\ slots[call[t].kind][call[t].id] = NULL
    /\ shelved' = [shelved EXCEPT ![call[t].kind] = Append(@, call[t].id)]
    /\ call' = [call EXCEPT ![t] = NoCall]
    /\ Goto(t, "idle") /\ Returns(t)
    /\ UNCHANGED <<slots, occupied, mutex, seen, own, task, lost>>

\* The end of removeProblem and removeAlgorithm.
RemoveReturns(t) ==
    /\ Dropping(t) /\ call[t].drop = <<>>
    /\ slots[call[t].kind][call[t].id] = NULL
    /\ shelved' = [shelved EXCEPT ![call[t].kind] = Append(@, call[t].id)]
    /\ mutex' = [mutex EXCEPT ![call[t].kind] = NULL]
    /\ call' = [call EXCEPT ![t] = NoCall]
    /\ Goto(t, "idle") /\ Returns(t)
    /\ UNCHANGED <<slots, occupied, seen, own, task, lost>>

-----------------------------------------------------------------------------
(* run() and its threads.                                                  *)

\* GET_ALG(id_alg).run() and initialize() before it get at everything the algorithm
\* refers to; a get of an invalid id throws.
RunAlgorithm(t) ==
    /\ Calls(t, <<"run", "alg", 1>>)
    /\ Readable("alg") /\ Readable("pro")
    /\ LET a == OwnId(t, "alg")
           found(k) == IsValid(k, slots["alg"][a][k])
       IN  IF IsValid("alg", a) /\ found("param") /\ found("pro") /\ found("rnd")
             THEN Returns(t) /\ UNCHANGED pc
             ELSE Goto(t, "thrown") /\ UNCHANGED at
    /\ UNCHANGED <<manager, call, seen, own, task, lost>>

\* GET_PRO(id_pro).initialize(): a composition adds the parameters of its functions,
\* in setFunction ...
AddFunction(j) ==
    /\ Calls(Main, <<"initialize", "pro", j>>)
    /\ LET i == own[Main]["pro"][j] IN
         /\ IsValid("pro", i)
         /\ Job.composition /\ Len(slots["pro"][i].parts) < NumParts
         /\ slots' = Placed([slots EXCEPT !["pro"][i].parts = Append(@, NewId("param"))],
                            [kind \in {"param"} |-> Plain])
         /\ Take({"param"})
    /\ UNCHANGED <<mutex, threads, task, lost>>

\* ... and any other problem needs nothing of the registry but its own parameters.
Initialized(j) ==
    /\ Calls(Main, <<"initialize", "pro", j>>)
    /\ LET i == own[Main]["pro"][j] IN
         IF ~IsValid("pro", i) \/ ~IsValid("param", slots["pro"][i].param)
           THEN Goto(Main, "thrown") /\ UNCHANGED at
           ELSE /\ Job.composition => Len(slots["pro"][i].parts) = NumParts
                /\ Returns(Main) /\ UNCHANGED pc
    /\ UNCHANGED <<manager, call, seen, own, task, lost>>

\* The next line of tasks.txt.
NextTask ==
    /\ pc[Main] = "idle" /\ Finished(Main)
    /\ job < Len(Tasks)
    /\ job' = job + 1
    /\ running' = {}
    /\ at' = [t \in Users |-> 1]
    /\ own' = [t \in Users |-> Nothing]
    /\ UNCHANGED <<manager, pc, call, seen, lost>>

\* A thread per algorithm.  Those that matter are the ones that use the registry.
StartThreads ==
    /\ Calls(Main, <<"start", "alg", 1>>)
    /\ \E started \in SUBSET Threads :
         Cardinality(started) <= Job.runs /\ running' = started
    /\ Returns(Main)
    /\ UNCHANGED <<manager, pc, call, seen, own, job, lost>>

\* t.join() for all of them.
Join ==
    /\ Calls(Main, <<"join", "alg", 1>>)
    /\ \A t \in running : Finished(t)
    /\ Returns(Main)
    /\ UNCHANGED <<manager, pc, call, seen, own, task, lost>>

Runs == 1..(IF job = 0 THEN 0 ELSE Job.runs) \cup {1}

Adding(t) ==
    \/ \E k \in {"param", "rcr"} : AddLeaf(t, k)
    \/ \E k \in {"pro", "alg"} : AddCheck(t, k)
    \/ AddLocked(t)
    \/ AddReturns(t)

Counting(t) == CountRead(t) \/ CountWrite(t)

Removing(t) ==
    \/ \E k \in Kinds, j \in Runs : RemoveCheck(t, k, j)
    \/ RemoveLeaf(t) \/ RemoveLocked(t)
    \/ DropCheck(t) \/ DropDone(t)
    \/ Reset(t) \/ RemoveReturns(t)

Step(t) == Adding(t) \/ Counting(t) \/ Removing(t)

RunStep ==
    \/ \E j \in Runs : AddFunction(j) \/ Initialized(j)
    \/ StartThreads
    \/ Join

\* The program has ended.
AllDone == pc[Main] = "idle" /\ Finished(Main) /\ job = Len(Tasks)
Ended == AllDone /\ UNCHANGED vars

Next ==
    \/ \E t \in Users : Step(t)
    \/ \E t \in Threads : RunAlgorithm(t)
    \/ RunStep
    \/ NextTask
    \/ Ended

Spec == Init /\ [][Next]_vars

\* The operating system runs every thread.  A thread that waits for a mutex needs no
\* more, since every other one comes to its end.
FairSpec ==
    /\ Spec
    /\ \A t \in Threads : WF_vars(Step(t) \/ RunAlgorithm(t))
    /\ WF_vars(Step(Main) \/ RunStep \/ NextTask)

-----------------------------------------------------------------------------
(* What an object refers to.                                               *)

Refers(o) == {<<k, o[k]>> : k \in {k \in {"param", "pro", "rcr", "rnd"} : o[k] # NoId}}
               \cup {<<"param", o.parts[p]>> : p \in DOMAIN o.parts}

\* Thread t holds the mutex of problems or algorithms, for the object x.
Working(t) == pc[t] \in {"counting", "writing", "discarding"}
WorksOn(t, x) == Working(t) /\ x = <<call[t].kind, call[t].id>>

\* The objects that have been added and are not being removed.
Settled ==
    LET held == {<<call[t].kind, call[t].id>> : t \in {t \in Users : Working(t)}}
    IN  {x \in UNION {{k} \X DOMAIN slots[k] : k \in Kinds} : IsValid(x[1], x[2])} \ held

-----------------------------------------------------------------------------
(* Properties.                                                             *)

Ids(k) == 1..Len(slots[k])
CallStates == [op : {"none", "add", "remove"}, kind : Kinds, id : Nat,
           todo : Seq(Kinds \X Nat), drop : Seq(Kinds \X Nat)]

\* The variables have their types: slots and counts grow together, a count fits
\* size_t, and what is held, shelved or being counted is an id in the registry.
TypeOK ==
    /\ slots \in [Kinds -> Seq(Objects \cup {NULL})]
    /\ occupied \in [Kinds -> Seq(0..Modulus - 1)]
    /\ shelved \in [Kinds -> Seq(Nat)]
    /\ \A k \in Kinds : /\ Len(occupied[k]) = Len(slots[k])
                        /\ \A p \in DOMAIN shelved[k] : shelved[k][p] \in Ids(k)
    /\ mutex \in [{"alg", "pro"} -> Users \cup {NULL}]
    /\ pc \in [Users -> {"idle", "locking", "counting", "writing", "discarding",
                         "thrown"}]
    /\ at \in [Users -> Nat \ {0}]
    /\ call \in [Users -> CallStates]
    /\ own \in [Users -> [Kinds -> Seq(Nat)]]
    /\ \A t \in Users : /\ call[t].id \in Ids(call[t].kind) \cup {NoId}
                        /\ \A k \in Kinds : \A j \in DOMAIN own[t][k] : own[t][k][j] \in Ids(k)
    /\ seen \in [Users -> [size : Nat, count : 0..Modulus - 1]]
    /\ job \in 0..Len(Tasks) /\ running \subseteq Threads /\ lost \in BOOLEAN

OnShelf(k, i) == \E p \in DOMAIN shelved[k] : shelved[k][p] = i

\* An id is on the shelf once, and exactly when its slot is empty and its removal is
\* over: no id is given to two objects, and none is forgotten.
ShelvedAreFree ==
    \A k \in Kinds :
        /\ \A p, q \in DOMAIN shelved[k] : shelved[k][p] = shelved[k][q] => p = q
        /\ \A i \in Ids(k) :
             OnShelf(k, i) <=> slots[k][i] = NULL /\ ~\E t \in Users : WorksOn(t, <<k, i>>)

\* Whatever a problem or an algorithm refers to is there as long as it is itself, unless
\* a count has been lost: then what it refers to may seem unused.
ReferencesAreLive ==
    ~lost => \A x \in Settled : \A y \in Refers(slots[x[1]][x[2]]) : y \in Settled

\* No thread ever asks for an object that is not there: nothing throws.
NothingThrows == \A t \in Users : pc[t] # "thrown"

\* The references that are counted: those of x to y, unless its adding has not come
\* to it or its removing is past it.
CountedBy(x, y) ==
    LET o == slots[x[1]][x[2]] IN
      /\ y[1] # "alg" /\ o[y[1]] = y[2]
      /\ \A t \in Users : WorksOn(t, x) =>
           (call[t].op = "add") <=> (\A p \in DOMAIN call[t].todo : call[t].todo[p] # y)

CountsFor(x, y) == IsValid(x[1], x[2]) /\ CountedBy(x, y)
CountedUsers(y) ==
    {x \in {"alg"} \X Ids("alg") \cup {"pro"} \X Ids("pro") : CountsFor(x, y)}
CountsAreExact ==
    \A k \in Kinds \ {"alg"} : \A i \in Ids(k) :
      occupied[k][i] = Cardinality(CountedUsers(<<k, i>>))

\* The occupation of an object is the number of its users at every moment, through
\* adding, removing and the reuse of ids, unless a count has been lost in a vector
\* that was moved by another thread.
CountsAreUsers == ~lost => CountsAreExact

\* A task that is to be released parameters first does not release them, which are in
\* use.
LeavesParam(n) == Tasks[n].paramFirst /\ Tasks[n].runs > 0

\* When run() has released a task only records are left of it, and the parameters of
\* the tasks that were to be released parameters first, unless a count has been lost.
TaskIsReleased ==
    pc[Main] = "idle" /\ Finished(Main) /\ ~lost =>
      /\ \A x \in Settled : x[1] \in {"rcr", "param"}
      /\ Cardinality({x \in Settled : x[1] = "param"})
           = Cardinality({n \in 1..job : LeavesParam(n)})

\* "release memory" says run() where it does so: when a task is over nothing of it is
\* left.
MemoryIsReleased ==
    (/\ pc[Main] = "idle" /\ Finished(Main) /\ ~lost
     /\ \A n \in 1..job : ~Tasks[n].paramFirst)
      => Settled = {}

\* Every task ends: the nested mutexes block nobody for ever.
TasksEnd == <>AllDone

\* What the threads see is a set of objects that come and go, each under its own id,
\* and none goes while another uses it, up to the loss of a count.
Visible == {x \in Settled : x[1] # "rnd"}
VisibleUses ==
    UNION {{x} \X {y \in Refers(slots[x[1]][x[2]]) : y[1] # "rnd"} : x \in Visible}

Implemented == INSTANCE Registry WITH objects <- Visible, uses <- VisibleUses
ImplementsRegistry ==
    Implemented!RegistryInit /\ [][lost \/ Implemented!RegistryNext]_<<Visible, VisibleUses>>

-----------------------------------------------------------------------------
(* The inductive invariant.                                                *)

\* Where the threads are.  Those that have not been started have done nothing, and
\* Main waits for the others before it releases anything.
StartAt == 3 * Job.runs + 3
PlaceInv ==
    /\ \A t \in Users : at[t] <= Len(Script(t)) + 1
    /\ job = 0 => at[Main] = 1 /\ pc[Main] = "idle" /\ running = {}
    /\ \A t \in Threads \ running : pc[t] = "idle" /\ at[t] = 1
    /\ \A t \in Users : Finished(t) => pc[t] = "idle"
    /\ job # 0 /\ at[Main] <= StartAt => running = {}
    /\ job # 0 /\ at[Main] > StartAt + 1 => \A t \in running : Finished(t)

\* The ids a thread has got before its call number n.  Main has made a number of
\* problems and algorithms in turn.
GotBefore(t, n, ids) ==
    LET got(k) == Len(ids[k]) IN
      /\ ids["rnd"] = <<>>
      /\ got("param") = (IF n > 1 THEN 1 ELSE 0)
      /\ t # Main =>
           /\ ids["rcr"] = <<>>
           /\ got("pro") = (IF n > 2 THEN 1 ELSE 0)
           /\ got("alg") = (IF n > 3 THEN 1 ELSE 0)
      /\ t = Main /\ n <= 2 => got("pro") = 0 /\ got("alg") = 0
      /\ t = Main => got("rcr") = (IF n > 2 THEN 1 ELSE 0)
      /\ t = Main /\ job # 0 /\ n \in 3..StartAt =>
           \/ got("pro") = got("alg") /\ n = 3 * got("alg") + 3
           \/ got("pro") = got("alg") + 1 /\ n = 3 * got("alg") + 4
           \/ got("pro") = got("alg") /\ n = 3 * got("alg") + 2
      /\ t = Main /\ job # 0 /\ n > StartAt => got("pro") = Job.runs /\ got("alg") = Job.runs
GotInv == \A t \in Users : GotBefore(t, at[t], own[t])

\* What thread t adds or removes is what its script says.
Removes(t) == call[t].op = "remove"
AtCallInv(t) ==
    /\ pc[t] \in {"idle", "thrown"} => call[t] = NoCall
    /\ pc[t] \notin {"idle", "thrown"} => call[t].op # "none"
    /\ call[t].op = "add" =>
         /\ Script(t)[at[t]] = <<"add", call[t].kind, 1>>
         /\ call[t].kind \in {"pro", "alg"} /\ call[t].drop = <<>>
         /\ pc[t] # "discarding"
    /\ call[t].op = "remove" =>
         /\ call[t].kind \in {"pro", "alg"} \/ pc[t] = "locking"
         /\ \E j \in DOMAIN own[t][call[t].kind] :
              /\ Script(t)[at[t]] = <<"remove", call[t].kind, j>>
              /\ call[t].id = own[t][call[t].kind][j]
    /\ pc[t] = "writing" => call[t].todo # <<>>
    /\ pc[t] = "discarding" => Removes(t) /\ call[t].todo = <<>> /\ call[t].drop # <<>>

\* Its mutex, and the object it adds or removes: when the object has gone what is
\* left to do is to drop its parts.
WorkInv(t) ==
    LET k == call[t].kind
        i == call[t].id
    IN  Working(t) =>
          /\ mutex[k] = t
          /\ i \in Ids(k)
          /\ \A n \in DOMAIN call[t].todo : call[t].todo[n][2] \in Ids(call[t].todo[n][1])
          /\ call[t].op = "add" => slots[k][i] # NULL
          /\ Removes(t) /\ slots[k][i] # NULL =>
               /\ call[t].drop \in {<<>>, << <<"rnd", slots[k][i].rnd>> >>}
               /\ call[t].todo # <<>> => call[t].drop # <<>>
          /\ slots[k][i] = NULL => call[t].todo = <<>>

\* The calls to come in which thread t removes an object.
ToRemove(t, k) ==
    {j \in DOMAIN own[t][k] :
       \E n \in DOMAIN Script(t) : n >= at[t] /\ Script(t)[n] = <<"remove", k, j>>}

\* What a thread has to remove is there until it removes it, and nobody else's.
OwnInv ==
    \A t \in Users, k \in Kinds : \A j \in ToRemove(t, k) :
      LET i == own[t][k][j] IN
        /\ slots[k][i] # NULL \/ WorksOn(t, <<k, i>>)
        /\ \A u \in Users : WorksOn(u, <<k, i>>) => u = t /\ Removes(t)
        /\ \A u \in Users : \A m \in ToRemove(u, k) : own[u][k][m] = i => u = t /\ m = j

\* The random generator of an object is there until the object drops it, and is no
\* other's.
HasRandom(k, i) ==
    /\ slots[k][i] # NULL
    /\ \A t \in Users : WorksOn(t, <<k, i>>) /\ Removes(t) => call[t].drop # <<>>
RandomInv ==
    \A k \in {"pro", "alg"} : \A i \in Ids(k) : HasRandom(k, i) =>
      /\ IsValid("rnd", slots[k][i].rnd)
      /\ \A l \in {"pro", "alg"} : \A m \in Ids(l) :
           HasRandom(l, m) /\ slots[l][m].rnd = slots[k][i].rnd => l = k /\ m = i

\* The parameters of the functions of a composition, also when it has gone.
Dropped(t) ==
    IF Working(t) /\ Removes(t) /\ slots[call[t].kind][call[t].id] = NULL
      THEN call[t].drop ELSE <<>>
PartsOf(i) == IF slots["pro"][i] = NULL THEN <<>> ELSE slots["pro"][i].parts
PartInv ==
    /\ \A i \in Ids("alg") : slots["alg"][i] # NULL => slots["alg"][i].parts = <<>>
    /\ \A i \in Ids("pro") : \A p \in DOMAIN PartsOf(i) :
         /\ IsValid("param", PartsOf(i)[p])
         /\ \A m \in Ids("pro") : \A q \in DOMAIN PartsOf(m) :
              PartsOf(m)[q] = PartsOf(i)[p] => m = i /\ q = p
         /\ \A t \in Users : \A j \in ToRemove(t, "param") :
              own[t]["param"][j] # PartsOf(i)[p]
    /\ \A t \in Users : \A n \in DOMAIN Dropped(t) :
         /\ call[t].kind = "pro"
         /\ Dropped(t)[n][1] = "param" /\ IsValid("param", Dropped(t)[n][2])
         /\ \A m \in DOMAIN Dropped(t) : Dropped(t)[m] = Dropped(t)[n] => m = n
         /\ \A i \in Ids("pro") : \A p \in DOMAIN PartsOf(i) :
              PartsOf(i)[p] # Dropped(t)[n][2]
         /\ \A u \in Users : \A j \in ToRemove(u, "param") :
              own[u]["param"][j] # Dropped(t)[n][2]

\* What the objects refer to has an id, and those of a thread to its own.
ReferInv ==
    /\ \A k \in {"pro", "alg"} : \A i \in Ids(k) : slots[k][i] # NULL =>
         \A l \in {"param", "pro", "rcr", "rnd"} : slots[k][i][l] \in Ids(l) \cup {NoId}
    /\ \A t \in Users, k \in {"pro", "alg"} : \A j \in ToRemove(t, k) :
         LET o == slots[k][own[t][k][j]] IN
           o # NULL => /\ o.param = own[t]["param"][1]
                       /\ k = "alg" => o.pro = own[t]["pro"][j]
    /\ \A t \in Users : Working(t) /\ call[t].op = "add" =>
         LET o == slots[call[t].kind][call[t].id] IN
           /\ o.param = own[t]["param"][1]
           /\ call[t].kind = "alg" => o.pro = OwnId(t, "pro")

\* No id is used twice, and no object is asked for that is not there.
InstanceInv ==
    /\ TypeOK
    /\ ShelvedAreFree
    /\ PlaceInv /\ GotInv
    /\ \A t \in Users : AtCallInv(t) /\ WorkInv(t)
    /\ OwnInv /\ RandomInv /\ PartInv /\ ReferInv
    /\ NothingThrows

-----------------------------------------------------------------------------
(* What holds until a count is lost.                                       *)

\* Thread t is adding object i of kind k, or has added it and not removed it yet.
Holds(t, k, i) ==
    \/ \E j \in ToRemove(t, k) : own[t][k][j] = i
    \/ WorksOn(t, <<k, i>>) /\ call[t].op = "add"

\* Every problem and algorithm is somebody's.  Algorithms write to the record of their
\* thread, problems know of neither record nor problem.
HeldInv ==
    \A k \in {"pro", "alg"} : \A i \in Ids(k) : slots[k][i] # NULL =>
      \E t \in Users :
        /\ Holds(t, k, i)
        /\ slots[k][i].rcr = IF k = "alg" THEN OwnId(t, "rcr") ELSE NoId
        /\ k = "pro" => slots[k][i].pro = NoId

\* What thread t has still to count are references of its object, each once.
TodoInv(t) ==
    LET todo == call[t].todo
        o == slots[call[t].kind][call[t].id]
    IN  Working(t) /\ o # NULL =>
          /\ \A n \in DOMAIN todo :
               todo[n][1] \in {"param", "pro", "rcr", "rnd"} /\ todo[n][2] = o[todo[n][1]]
          /\ \A n, m \in DOMAIN todo : todo[n] = todo[m] => n = m

\* The count that thread t has read is still the one in the vector.
SeenInv(t) ==
    pc[t] = "writing" => seen[t].count = occupied[Next1(t)[1]][Next1(t)[2]]

\* Every random generator belongs to an object that has not dropped it.
GeneratorInv ==
    \A r \in Ids("rnd") : slots["rnd"][r] # NULL =>
      \E k \in {"pro", "alg"} : \E i \in Ids(k) : HasRandom(k, i) /\ slots[k][i].rnd = r

\* Parameters that a composition has added.
IsPart(x) ==
    \/ \E i \in Ids("pro") : \E p \in DOMAIN PartsOf(i) : PartsOf(i)[p] = x
    \/ \E u \in Users : \E n \in DOMAIN Dropped(u) : Dropped(u)[n][2] = x

\* Parameters that nobody will remove: Main has tried to, too early.
ToBeRemoved(p) == \E t \in Users : \E j \in ToRemove(t, "param") : own[t]["param"][j] = p
Left == {p \in Ids("param") : IsValid("param", p) /\ ~ToBeRemoved(p) /\ ~IsPart(p)}
HasLeft(n) == LeavesParam(n) /\ (n = job => at[Main] > StartAt + 2)
LeftInv ==
    /\ job # 0 /\ LeavesParam(job) /\ at[Main] = StartAt + 2 => pc[Main] = "idle"
    /\ job # 0 /\ HasLeft(job) => own[Main]["param"][1] \in Left
    /\ IsFiniteSet(Left) /\ Cardinality(Left) = Cardinality({n \in 1..job : HasLeft(n)})

\* Until a count is lost the counts are right, so nothing goes too early or stays.
ExactInv ==
    /\ HeldInv
    /\ \A t \in Users : TodoInv(t) /\ SeenInv(t)
    /\ GeneratorInv
    /\ LeftInv
    /\ CountsAreExact
CountInv == InstanceInv /\ (~lost => ExactInv)
=============================================================================
