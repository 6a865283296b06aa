----------------------------- MODULE InstanceCounts -----------------------------
(***************************************************************************)
(* The invariance of CountInv: up to the first loss the counts of          *)
(* InstanceManager are the numbers of users, so that nothing goes too      *)
(* early, and nothing stays that is not in use.  InstanceInv is known to   *)
(* hold; what is new is that every object is somebody's, and so the counts *)
(* of an object are changed by one thread at a time.  From it follow the   *)
(* properties of the counts, of the references and of the release, and     *)
(* that InstanceManager implements Registry.                               *)
(***************************************************************************)
EXTENDS InstanceInvariance, FiniteSetTheorems

-----------------------------------------------------------------------------
(* Who holds what.                                                         *)

\* In a script the algorithms are removed first, then the problems, then the record.  The
\* parameters are last, if they are not first.
LEMMA RemovalOrder ==
    ASSUME JobOK, NEW t \in Users, NEW m \in DOMAIN Script(t), NEW l \in DOMAIN Script(t),
           NEW k, NEW j, NEW c, NEW i, c # k,
           Script(t)[m] = <<"remove", k, j>>, Script(t)[l] = <<"remove", c, i>>,
           \/ k = "alg" /\ c \in {"pro", "rcr"}
           \/ k = "pro" /\ c = "rcr"
           \/ k \in {"alg", "pro"} /\ c = "param" /\ ~(t = Main /\ Job.paramFirst)
    PROVE  m < l
<1>1. CASE t = Main
  <2>1. job # 0
    BY <1>1, ScriptOfNobody
  <2>2. PICK n, f : n = Job.runs /\ f = FirstRemoval(Job.runs, Job.paramFirst)
    OBVIOUS
  <2>3. /\ n \in Nat /\ f \in Firsts(n) /\ m \in 1..5 * n + 6 /\ l \in 1..5 * n + 6
        /\ TaskCall(n, f, m) = <<"remove", k, j>> /\ TaskCall(n, f, l) = <<"remove", c, i>>
    BY <1>1, <2>1, <2>2, ScriptOfMain
  <2>4. /\ m = RemovedAt(n, f, k, j) /\ HasRemoval(n, k, j)
        /\ l = RemovedAt(n, f, c, i) /\ HasRemoval(n, c, i)
    BY <2>3, TaskRemoves
  <2>5. ~Job.paramFirst => f = 3 * n + 5
    BY <2>2 DEF FirstRemoval
  <2>6. CASE c = "param"
    <3>1. f = 3 * n + 5
      BY <1>1, <2>5, <2>6
    <3> QED
      BY <2>3, <2>4, <2>6, <3>1 DEF RemovedAt, HasRemoval
  <2>7. CASE c # "param"
    BY <2>3, <2>4, <2>7 DEF RemovedAt, HasRemoval, Firsts
  <2> QED
    BY <2>6, <2>7
<1>2. CASE t # Main
  <2>1. t \in Threads
    BY <1>2, UserTypes
  <2> QED
    BY <2>1, ScriptOfThread
<1> QED
  BY <1>1, <1>2

\* Where the parameters are the first.
LEMMA ParamRemoval ==
    ASSUME JobOK, job # 0
    PROVE  /\ Job.paramFirst => Script(Main)[StartAt + 2] = <<"remove", "param", 1>>
           /\ StartAt + 2 \in DOMAIN Script(Main) /\ StartAt \in Nat
           /\ Job.paramFirst => \A l \in DOMAIN Script(Main) : \A j :
                Script(Main)[l] = <<"remove", "param", j>> => l = StartAt + 2 /\ j = 1
<1>1. PICK n, f : n = Job.runs /\ f = FirstRemoval(Job.runs, Job.paramFirst)
  OBVIOUS
<1>2. /\ n \in Nat /\ f \in Firsts(n) /\ StartAt = 3 * n + 3
      /\ DOMAIN Script(Main) = 1..5 * n + 6
      /\ \A m \in 1..5 * n + 6 : Script(Main)[m] = TaskCall(n, f, m)
  BY <1>1, ScriptOfMain
<1>3. Job.paramFirst => f = 3 * n + 6
  BY <1>1 DEF FirstRemoval
<1>4. StartAt + 2 \in DOMAIN Script(Main) /\ StartAt \in Nat /\ StartAt + 2 = 3 * n + 5
  BY <1>2
<1>5. ASSUME Job.paramFirst
      PROVE  Script(Main)[StartAt + 2] = <<"remove", "param", 1>>
  <2>1. Script(Main)[StartAt + 2] = TaskCall(n, f, 3 * n + 5)
    BY <1>2, <1>4
  <2> QED
    BY <1>2, <1>3, <1>5, <2>1 DEF TaskCall
<1>6. ASSUME Job.paramFirst, NEW l \in DOMAIN Script(Main), NEW j,
             Script(Main)[l] = <<"remove", "param", j>>
      PROVE  l = StartAt + 2 /\ j = 1
  <2>1. l \in 1..5 * n + 6
    BY <1>2, <1>6
  <2>3. TaskCall(n, f, l) = <<"remove", "param", j>>
    BY <1>2, <1>6, <2>1
  <2>2. l = RemovedAt(n, f, "param", j) /\ HasRemoval(n, "param", j)
    BY <1>2, <2>1, <2>3, TaskRemoves
  <2> QED
    BY <1>2, <1>3, <1>4, <1>6, <2>2 DEF RemovedAt, HasRemoval
<1> QED
  BY <1>4, <1>5, <1>6

\* What is known of the thread that holds object i of kind k.
HolderKnows(t, k, i) ==
    /\ at[t] \in DOMAIN Script(t) /\ job # 0
    /\ Len(own[t]["param"]) = 1 /\ own[t]["param"][1] \in Ids("param")
    /\ slots[k][i].param = own[t]["param"][1]
    /\ 1 \in ToRemove(t, "param") \/ (t = Main /\ HasLeft(job))
    /\ k = "alg" => \E j \in ToRemove(t, "pro") : slots[k][i].pro = own[t]["pro"][j]
    /\ k = "alg" /\ t = Main =>
         1 \in ToRemove(t, "rcr") /\ OwnId(t, "rcr") = own[t]["rcr"][1]
    /\ t # Main => OwnId(t, "rcr") = NoId
    /\ \A j : Script(t)[at[t]] = <<"remove", "pro", j>> => k = "pro"
    /\ \A j : Script(t)[at[t]] = <<"remove", "param", j>> =>
         t = Main /\ LeavesParam(job) /\ at[Main] = StartAt + 2

LEMMA GotFacts ==
    ASSUME JobOK, NEW t \in Users, NEW m \in DOMAIN Script(t), NEW ids \in IdLists,
           GotBefore(t, m, ids), NEW k \in {"pro", "alg"}, NEW j \in DOMAIN ids[k]
    PROVE  /\ Len(ids["param"]) = 1 /\ m > 1 /\ j \in DOMAIN ids["pro"]
           /\ t = Main => Len(ids["rcr"]) = 1 /\ job # 0 /\ j <= Job.runs
           /\ t # Main => ids["rcr"] = <<>>
<1>1. /\ \A c \in Kinds : Len(ids[c]) \in Nat /\ DOMAIN ids[c] = 1..Len(ids[c])
      /\ m \in Nat /\ m >= 1
  BY ScriptType DEF IdLists
<1>2. Len(ids[k]) > 0 /\ j \in 1..Len(ids[k])
  BY <1>1 DEF Kinds
<1>3. CASE t = Main
  <2>1. job # 0
    BY <1>3, ScriptOfNobody
  <2>2. PICK n, f : n = Job.runs /\ f = FirstRemoval(Job.runs, Job.paramFirst)
    OBVIOUS
  <2>3. n \in Nat /\ f \in Firsts(n) /\ StartAt = 3 * n + 3 /\ m \in 1..5 * n + 6
    BY <1>3, <2>1, <2>2, ScriptOfMain
  <2>4. m > 2
    BY <1>1, <1>2, <1>3, <2>3 DEF GotBefore
  <2>5. Len(ids["param"]) = 1 /\ Len(ids["rcr"]) = 1
    BY <1>1, <1>3, <2>4 DEF GotBefore
  <2>6. Len(ids["alg"]) <= Len(ids["pro"]) /\ Len(ids["pro"]) <= n
    <3>1. CASE m > StartAt
      BY <1>1, <1>3, <2>1, <2>2, <2>3, <3>1 DEF GotBefore, Kinds
    <3>2. CASE m <= StartAt
      BY <1>1, <1>3, <2>1, <2>3, <2>4, <3>2 DEF GotBefore, Kinds
    <3> QED
      BY <2>3, <3>1, <3>2
  <2>7. /\ Len(ids["pro"]) \in Nat /\ DOMAIN ids["pro"] = 1..Len(ids["pro"])
        /\ Len(ids["alg"]) \in Nat
    BY <1>1 DEF Kinds
  <2>8. j \in 1..Len(ids["pro"]) /\ j <= n
    BY <1>2, <2>3, <2>6, <2>7
  <2> QED
    BY <1>1, <1>3, <2>1, <2>2, <2>4, <2>5, <2>7, <2>8
<1>4. CASE t # Main
  <2>1. m > 2
    BY <1>1, <1>2, <1>4 DEF GotBefore
  <2>2. /\ Len(ids["param"]) = 1 /\ ids["rcr"] = <<>>
        /\ Len(ids["pro"]) = 1 /\ Len(ids["alg"]) <= 1
    BY <1>1, <1>4, <2>1 DEF GotBefore
  <2> QED
    BY <1>1, <1>2, <1>4, <2>1, <2>2 DEF Kinds
<1> QED
  BY <1>3, <1>4

\* A removal that is to come after one that is to come is to come.
LEMMA LaterRemoval ==
    ASSUME InstanceInv, NEW t \in Users, NEW k \in {"pro", "alg"}, NEW j \in ToRemove(t, k),
           NEW c \in Kinds, NEW i \in DOMAIN own[t][c],
           \/ k = "alg" /\ c \in {"pro", "rcr"}
           \/ k = "pro" /\ c = "rcr"
           \/ c = "param" /\ ~(t = Main /\ Job.paramFirst)
    PROVE  i \in ToRemove(t, c)
<1>1. /\ JobOK /\ own[t] \in IdLists /\ GotBefore(t, at[t], own[t]) /\ at[t] \in Nat \ {0}
      /\ Script(t) \in Seq(CallNames) /\ Len(Script(t)) \in Nat
      /\ DOMAIN Script(t) = 1..Len(Script(t))
  BY GotNow, ScriptType
<1>2. PICK m \in DOMAIN Script(t) : m >= at[t] /\ Script(t)[m] = <<"remove", k, j>>
  BY DEF ToRemove
<1>3. at[t] \in DOMAIN Script(t)
  BY <1>1, <1>2
<1>4. PICK l \in DOMAIN Script(t) : Script(t)[l] = <<"remove", c, i>>
  BY <1>1, <1>3, GotIsRemoved
<1>5. CASE c # k
  <2>1. m < l
    BY <1>1, <1>2, <1>4, <1>5, RemovalOrder
  <2>2. l >= at[t]
    BY <1>1, <1>2, <1>4, <2>1
  <2> QED
    BY <1>4, <2>2 DEF ToRemove
<1>6. CASE c = k
  BY <1>6
<1> QED
  BY <1>5, <1>6

\* The thread that will remove a problem or an algorithm.
LEMMA ListHolder ==
    ASSUME InstanceInv, NEW t \in Users, NEW k \in {"pro", "alg"}, NEW j \in ToRemove(t, k),
           slots[k][own[t][k][j]] # NULL
    PROVE  HolderKnows(t, k, own[t][k][j])
<1>1. /\ JobOK /\ own[t] \in IdLists /\ GotBefore(t, at[t], own[t]) /\ at[t] \in Nat \ {0}
      /\ Script(t) \in Seq(CallNames) /\ Len(Script(t)) \in Nat
      /\ DOMAIN Script(t) = 1..Len(Script(t)) /\ TypeOK
  BY GotNow, ScriptType
<1>2. PICK m \in DOMAIN Script(t) : m >= at[t] /\ Script(t)[m] = <<"remove", k, j>>
  BY DEF ToRemove
<1>3. at[t] \in DOMAIN Script(t) /\ j \in DOMAIN own[t][k]
  BY <1>1, <1>2 DEF ToRemove
<1>4. /\ Len(own[t]["param"]) = 1 /\ j \in DOMAIN own[t]["pro"] /\ at[t] > 1
      /\ t = Main => Len(own[t]["rcr"]) = 1 /\ job # 0 /\ j <= Job.runs
      /\ t # Main => own[t]["rcr"] = <<>>
  BY <1>1, <1>3, GotFacts
<1>5. own[t]["param"][1] \in Ids("param") /\ 1 \in DOMAIN own[t]["param"]
  <2>1. /\ DOMAIN own[t]["param"] = 1..Len(own[t]["param"])
        /\ \A p \in DOMAIN own[t]["param"] : own[t]["param"][p] \in Ids("param")
    BY <1>1, OwnType DEF Kinds
  <2> QED
    BY <1>4, <2>1
<1>6. /\ slots[k][own[t][k][j]].param = own[t]["param"][1]
      /\ k = "alg" => slots[k][own[t][k][j]].pro = own[t]["pro"][j]
  BY DEF InstanceInv, ReferInv
<1>7. 1 \in ToRemove(t, "param") \/ (t = Main /\ HasLeft(job))
  <2>1. CASE ~(t = Main /\ Job.paramFirst)
    BY <1>5, <2>1, LaterRemoval DEF Kinds
  <2>2. CASE t = Main /\ Job.paramFirst
    <3>1. /\ Script(t)[StartAt + 2] = <<"remove", "param", 1>>
          /\ StartAt + 2 \in DOMAIN Script(t) /\ StartAt \in Nat
      BY <1>1, <1>4, <2>2, ParamRemoval
    <3>2. Job.runs > 0
      <4>1. job \in 1..Len(Tasks)
        BY <1>1, <1>4, <2>2, TasksAssumption DEF JobOK
      <4>2. Job.runs \in Nat
        BY <4>1, JobType
      <4>3. j \in Nat \ {0}
        BY <1>1, <1>3, OwnType DEF Kinds
      <4> QED
        BY <1>4, <2>2, <4>2, <4>3
    <3>3. CASE at[t] <= StartAt + 2
      BY <1>1, <1>5, <3>1, <3>3 DEF ToRemove
    <3>4. CASE at[t] > StartAt + 2
      BY <2>2, <3>2, <3>4 DEF HasLeft, LeavesParam, Job
    <3> QED
      BY <1>1, <3>1, <3>3, <3>4
  <2> QED
    BY <2>1, <2>2
<1>8. ASSUME k = "alg"
      PROVE  /\ j \in ToRemove(t, "pro")
             /\ t = Main => 1 \in ToRemove(t, "rcr")
  <2>1. j \in ToRemove(t, "pro")
    BY <1>4, <1>8, LaterRemoval DEF Kinds
  <2>2. ASSUME t = Main
        PROVE  1 \in ToRemove(t, "rcr")
    <3>1. 1 \in DOMAIN own[t]["rcr"]
      BY <1>1, <1>4, <2>2, OwnType DEF Kinds
    <3> QED
      BY <1>8, <3>1, LaterRemoval DEF Kinds
  <2> QED
    BY <2>1, <2>2
<1>9. /\ t = Main => OwnId(t, "rcr") = own[t]["rcr"][1]
      /\ t # Main => OwnId(t, "rcr") = NoId
  <2>1. OwnId(t, "rcr") = IF Len(own[t]["rcr"]) = 0 THEN NoId
                          ELSE own[t]["rcr"][Len(own[t]["rcr"])]
    BY GotNow DEF Kinds
  <2>2. t # Main => Len(own[t]["rcr"]) = 0
    BY <1>4
  <2> QED
    BY <1>4, <2>1, <2>2
<1>10. ASSUME NEW i, Script(t)[at[t]] = <<"remove", "pro", i>>
       PROVE  k = "pro"
  <2>1. CASE k = "alg"
    <3>1. m < at[t]
      BY <1>1, <1>2, <1>3, <1>10, <2>1, RemovalOrder
    <3> QED
      BY <1>1, <1>2, <3>1
  <2> QED
    BY <2>1
<1>11. ASSUME NEW i, Script(t)[at[t]] = <<"remove", "param", i>>
       PROVE  t = Main /\ LeavesParam(job) /\ at[Main] = StartAt + 2
  <2>1. CASE ~(t = Main /\ Job.paramFirst)
    <3>1. m < at[t]
      BY <1>1, <1>2, <1>3, <1>11, <2>1, RemovalOrder
    <3> QED
      BY <1>1, <1>2, <3>1
  <2>2. CASE t = Main /\ Job.paramFirst
    <3>1. at[t] = StartAt + 2
      BY <1>1, <1>3, <1>4, <1>11, <2>2, ParamRemoval
    <3>2. Job.runs > 0
      <4>1. job \in 1..Len(Tasks)
        BY <1>1, <1>4, <2>2, TasksAssumption DEF JobOK
      <4>2. Job.runs \in Nat
        BY <4>1, JobType
      <4>3. j \in Nat \ {0}
        BY <1>1, <1>3, OwnType DEF Kinds
      <4> QED
        BY <1>4, <2>2, <4>2, <4>3
    <3> QED
      BY <2>2, <3>1, <3>2 DEF LeavesParam, Job
  <2> QED
    BY <2>1, <2>2
<1>12. job # 0
  <2>1. CASE t = Main
    BY <1>4, <2>1
  <2>2. CASE t # Main
    <3>1. t \in Threads /\ PlaceInv /\ at[t] # 1
      BY <1>1, <1>4, <2>2, UserTypes DEF InstanceInv
    <3> QED
      BY <3>1 DEF PlaceInv
  <2> QED
    BY <2>1, <2>2
<1> QED
  BY <1>3, <1>4, <1>5, <1>6, <1>7, <1>8, <1>9, <1>10, <1>11, <1>12 DEF HolderKnows

\* The thread that is adding it.
LEMMA AddingHolder ==
    ASSUME InstanceInv, NEW t \in Users, Working(t), call[t].op = "add"
    PROVE  HolderKnows(t, call[t].kind, call[t].id)
<1> DEFINE k == call[t].kind
           i == call[t].id
<1>1. /\ Active(t) /\ Script(t)[at[t]] = <<"add", k, 1>> /\ k \in {"pro", "alg"}
      /\ slots[k][i] # NULL
  <2>1. Active(t)
    BY BusyIsActive DEF Working
  <2>2. AtCallInv(t) /\ WorkInv(t)
    BY DEF InstanceInv
  <2> QED
    BY <2>1, <2>2 DEF AtCallInv, WorkInv
<1>2. /\ JobOK /\ own[t] \in IdLists /\ GotBefore(t, at[t], own[t]) /\ at[t] \in DOMAIN Script(t)
      /\ TypeOK
  BY <1>1, GotNow DEF Active
<1>3. /\ Len(own[t]["param"]) = 1 /\ OwnId(t, "param") = own[t]["param"][1]
      /\ k = "alg" => /\ Len(own[t]["pro"]) = Len(own[t]["alg"]) + 1
                      /\ OwnId(t, "pro") = own[t]["pro"][Len(own[t]["pro"])]
  BY <1>1, AddNeeds
<1>4. \A c \in Kinds : ToRemove(t, c) = DOMAIN own[t][c]
  BY <1>1, <1>2, AllToRemove
<1>5. \A c \in Kinds : DOMAIN own[t][c] = 1..Len(own[t][c]) /\ Len(own[t][c]) \in Nat
                       /\ \A j \in DOMAIN own[t][c] : own[t][c][j] \in Ids(c)
  BY <1>2, OwnType
<1>6. 1 \in ToRemove(t, "param") /\ own[t]["param"][1] \in Ids("param")
  <2>1. 1 \in DOMAIN own[t]["param"]
    BY <1>3, <1>5 DEF Kinds
  <2> QED
    BY <1>4, <1>5, <2>1 DEF Kinds
<1>7. /\ slots[k][i].param = own[t]["param"][1]
      /\ k = "alg" => slots[k][i].pro = OwnId(t, "pro")
  BY DEF InstanceInv, ReferInv
<1>8. ASSUME k = "alg"
      PROVE  \E j \in ToRemove(t, "pro") : slots[k][i].pro = own[t]["pro"][j]
  <2>1. Len(own[t]["pro"]) \in DOMAIN own[t]["pro"]
    BY <1>3, <1>5, <1>8 DEF Kinds
  <2>2. Len(own[t]["pro"]) \in ToRemove(t, "pro")
    BY <1>4, <2>1 DEF Kinds
  <2> QED
    BY <1>3, <1>7, <1>8, <2>2
<1>9. OwnId(t, "rcr") = IF Len(own[t]["rcr"]) = 0 THEN NoId
                        ELSE own[t]["rcr"][Len(own[t]["rcr"])]
  BY GotNow DEF Kinds
<1>10. t # Main => OwnId(t, "rcr") = NoId
  BY <1>2, <1>9 DEF GotBefore
<1>11. ASSUME k = "alg", t = Main
       PROVE  1 \in ToRemove(t, "rcr") /\ OwnId(t, "rcr") = own[t]["rcr"][1]
  <2>1. at[t] > 2
    <3>1. Len(own[t]["pro"]) # 0
      BY <1>3, <1>5, <1>11 DEF Kinds
    <3>2. at[t] \in Nat
      BY GotNow
    <3> QED
      BY <1>2, <1>11, <3>1, <3>2 DEF GotBefore
  <2>2. Len(own[t]["rcr"]) = 1
    BY <1>2, <1>11, <2>1 DEF GotBefore
  <2>3. 1 \in DOMAIN own[t]["rcr"]
    BY <1>5, <2>2 DEF Kinds
  <2> QED
    BY <1>4, <1>9, <2>2, <2>3 DEF Kinds
<1>12. /\ \A j : Script(t)[at[t]] # <<"remove", "pro", j>>
       /\ \A j : Script(t)[at[t]] # <<"remove", "param", j>>
  BY <1>1
<1>13. job # 0
  BY <1>1 DEF Active
<1> QED
  BY <1>2, <1>3, <1>6, <1>7, <1>8, <1>10, <1>11, <1>12, <1>13 DEF HolderKnows

\* Both.
LEMMA HolderIs ==
    ASSUME InstanceInv, NEW t \in Users, NEW k \in {"pro", "alg"}, NEW i \in Ids(k),
           slots[k][i] # NULL, Holds(t, k, i)
    PROVE  HolderKnows(t, k, i)
<1>1. CASE \E j \in ToRemove(t, k) : own[t][k][j] = i
  BY <1>1, ListHolder
<1>2. CASE WorksOn(t, <<k, i>>) /\ call[t].op = "add"
  BY <1>2, AddingHolder DEF WorksOn
<1> QED
  BY <1>1, <1>2 DEF Holds

-----------------------------------------------------------------------------
(* What refers to what.                                                    *)

RefKinds == {"param", "pro", "rcr", "rnd"}

LEMMA RefKindFacts ==
    /\ RefKinds \subseteq Kinds /\ "alg" \notin RefKinds /\ RefKinds = Kinds \ {"alg"}
    /\ \A k \in Kinds : k \in RefKinds \/ k = "alg"
  BY DEF RefKinds, Kinds

\* What holds of a problem or algorithm in the registry until a count is lost.
HeldBy(t, k, i) ==
    /\ Holds(t, k, i) /\ HolderKnows(t, k, i)
    /\ slots[k][i].rcr = (IF k = "alg" THEN OwnId(t, "rcr") ELSE NoId)
    /\ k = "pro" => slots[k][i].pro = NoId

LEMMA LiveFacts ==
    ASSUME InstanceInv, HeldInv, NEW k \in {"pro", "alg"}, NEW i, IsValid(k, i)
    PROVE  /\ i \in Ids(k) /\ slots[k][i] # NULL /\ slots[k][i] \in Objects
           /\ \E t \in Users : HeldBy(t, k, i)
           /\ \A l \in RefKinds : slots[k][i][l] \in Ids(l) \cup {NoId}
<1>1. TypeOK /\ k \in Kinds
  BY DEF InstanceInv, Kinds
<1>2. i \in Ids(k) /\ slots[k][i] # NULL /\ slots[k][i] \in Objects
  BY <1>1, SlotFacts DEF IsValid
<1>3. PICK t \in Users : /\ Holds(t, k, i)
                         /\ slots[k][i].rcr = IF k = "alg" THEN OwnId(t, "rcr") ELSE NoId
                         /\ k = "pro" => slots[k][i].pro = NoId
  BY <1>2 DEF HeldInv
<1>4. HolderKnows(t, k, i)
  BY <1>2, <1>3, HolderIs
<1>5. \A l \in RefKinds : slots[k][i][l] \in Ids(l) \cup {NoId}
  BY <1>2 DEF InstanceInv, ReferInv, RefKinds
<1> QED
  BY <1>2, <1>3, <1>4, <1>5 DEF HeldBy

LEMMA KindNames ==
    "param" \in Kinds /\ "pro" \in Kinds /\ "alg" \in Kinds /\ "rcr" \in Kinds /\ "rnd" \in Kinds
  BY DEF Kinds

LEMMA OwnAreThere ==
    ASSUME InstanceInv, NEW t \in Users, NEW k \in Kinds, NEW j \in ToRemove(t, k)
    PROVE  /\ own[t][k][j] \in Ids(k)
           /\ Untouched(k, own[t][k][j]) => IsValid(k, own[t][k][j])
<1>1. TypeOK /\ OwnInv /\ j \in DOMAIN own[t][k]
  BY DEF InstanceInv, ToRemove
<1>2. own[t][k][j] \in Ids(k)
  BY <1>1, OwnType
<1>3. own[t][k][j] \in DOMAIN slots[k]
  BY <1>1, <1>2, SlotFacts
<1> QED
  BY <1>1, <1>2, <1>3 DEF OwnInv, Untouched, IsValid

LEMMA OwnOnce ==
    ASSUME InstanceInv, NEW t \in Users, NEW u \in Users, NEW k \in Kinds,
           NEW j \in ToRemove(t, k), NEW m \in ToRemove(u, k), own[t][k][j] = own[u][k][m]
    PROVE  u = t /\ m = j
<1>1. OwnInv
  BY DEF InstanceInv
<1>2. \A p \in Users, c \in Kinds : \A n \in ToRemove(p, c) :
        \A q \in Users : \A l \in ToRemove(q, c) : own[q][c][l] = own[p][c][n] => q = p /\ l = n
  BY <1>1, ZenonT(30) DEF OwnInv
<1> QED
  BY <1>2, ZenonT(30)

LEMMA OwnWork ==
    ASSUME InstanceInv, NEW t \in Users, NEW u \in Users, NEW k \in Kinds,
           NEW j \in ToRemove(t, k), WorksOn(u, <<k, own[t][k][j]>>)
    PROVE  u = t /\ Removes(t)
<1>1. OwnInv
  BY DEF InstanceInv
<1>2. PICK i : i = own[t][k][j]
  OBVIOUS
<1>3. \A v \in Users : WorksOn(v, <<k, i>>) => v = t /\ Removes(t)
  BY <1>1, <1>2, SMTT(30) DEF OwnInv
<1> QED
  BY <1>2, <1>3

\* The parameters, the problem and the record it refers to are there, and nobody is
\* removing them.
LEMMA RefsAreThere ==
    ASSUME InstanceInv, HeldInv, LeftInv, NEW k \in {"pro", "alg"}, NEW i, IsValid(k, i),
           NEW l \in {"param", "pro", "rcr"}, slots[k][i][l] # NoId
    PROVE  IsValid(l, slots[k][i][l]) /\ Untouched(l, slots[k][i][l])
<1>1. PICK t \in Users : HeldBy(t, k, i)
  BY LiveFacts
<1>2. /\ TypeOK /\ OwnInv /\ HolderKnows(t, k, i) /\ l \in RefKinds /\ l \in Kinds
      /\ (k = "pro" => slots[k][i].pro = NoId /\ slots[k][i].rcr = NoId)
  BY <1>1 DEF InstanceInv, HeldBy, RefKinds, Kinds
<1>3. slots[k][i][l] \in Ids(l)
  BY <1>2, LiveFacts
<1>4. l # "pro" => Untouched(l, slots[k][i][l])
  BY WorkFacts DEF Untouched, WorksOn
<1>5. CASE l = "param"
  <2>1. slots[k][i].param = own[t]["param"][1]
    BY <1>2 DEF HolderKnows
  <2>2. CASE 1 \in ToRemove(t, "param")
    <3>1. Untouched("param", own[t]["param"][1]) => IsValid("param", own[t]["param"][1])
      BY <2>2, OwnAreThere, KindNames
    <3> QED
      BY <1>4, <1>5, <2>1, <3>1
  <2>3. CASE t = Main /\ HasLeft(job)
    <3>1. slots[k][i].param \in Left
      BY <1>2, <2>1, <2>3 DEF HolderKnows, LeftInv
    <3> QED
      BY <1>4, <1>5, <3>1 DEF Left
  <2> QED
    BY <1>2, <2>2, <2>3 DEF HolderKnows
<1>6. CASE l = "rcr"
  <2>1. k = "alg" /\ slots[k][i].rcr = OwnId(t, "rcr") /\ OwnId(t, "rcr") # NoId
    BY <1>1, <1>2, <1>6 DEF HeldBy
  <2>2. 1 \in ToRemove(Main, "rcr") /\ slots[k][i].rcr = own[Main]["rcr"][1] /\ t = Main
    BY <1>2, <2>1 DEF HolderKnows
  <2> QED
    <3>1. Untouched("rcr", own[Main]["rcr"][1]) => IsValid("rcr", own[Main]["rcr"][1])
      BY <2>2, OwnAreThere, KindNames
    <3> QED
      BY <1>4, <1>6, <2>2, <3>1
<1>7. CASE l = "pro"
  <2>1. k = "alg"
    BY <1>2, <1>7
  <2>2. PICK j \in ToRemove(t, "pro") : slots[k][i].pro = own[t]["pro"][j]
    BY <1>2, <2>1 DEF HolderKnows
  <2>3. ASSUME NEW u \in Users, WorksOn(u, <<"pro", slots[k][i].pro>>)
        PROVE  FALSE
    <3>1. u = t /\ Removes(t)
      <4>1. WorksOn(u, <<"pro", own[t]["pro"][j]>>)
        BY <2>2, <2>3
      <4> QED
        BY <4>1, OwnWork, KindNames
    <3>2. AtCallInv(t) /\ call[t].kind = "pro"
      BY <2>3, <3>1 DEF InstanceInv, WorksOn
    <3>3. \E n : Script(t)[at[t]] = <<"remove", "pro", n>>
      BY <3>1, <3>2 DEF AtCallInv, Removes
    <3> QED
      BY <1>2, <2>1, <3>3 DEF HolderKnows
  <2>4. Untouched("pro", slots[k][i].pro)
    BY <2>3 DEF Untouched
  <2> QED
    <3>1. Untouched("pro", slots[k][i].pro) => IsValid("pro", slots[k][i].pro)
      BY <2>2, OwnAreThere, KindNames
    <3> QED
      BY <1>7, <2>4, <3>1
<1> QED
  BY <1>5, <1>6, <1>7

\* What its holder knows of an object is enough to tell it from others.
LEMMA SoleHolder ==
    ASSUME InstanceInv, LeftInv, NEW t \in Users, NEW u \in Users,
           NEW k \in {"pro", "alg"}, NEW i, HeldBy(t, k, i),
           NEW c \in {"pro", "alg"}, NEW m, HeldBy(u, c, m),
           NEW l \in {"param", "pro", "rcr"}, slots[k][i][l] = slots[c][m][l],
           slots[k][i][l] # NoId
    PROVE  t = u
<1>1. OwnInv /\ HolderKnows(t, k, i) /\ HolderKnows(u, c, m)
  BY DEF InstanceInv, HeldBy
<1>2. CASE l = "param"
  <2>1. own[t]["param"][1] = own[u]["param"][1]
    BY <1>1, <1>2 DEF HolderKnows
  <2>2. ASSUME NEW v \in Users, 1 \in ToRemove(v, "param"), HasLeft(job), job # 0,
               own[v]["param"][1] = own[Main]["param"][1]
        PROVE  FALSE
    <3>1. own[Main]["param"][1] \in Left
      BY <2>2 DEF LeftInv
    <3> QED
      BY <2>2, <3>1 DEF Left, ToBeRemoved
  <2>3. CASE 1 \in ToRemove(t, "param") /\ 1 \in ToRemove(u, "param")
    BY <2>1, <2>3, OwnOnce, KindNames
  <2>4. CASE 1 \in ToRemove(t, "param") /\ ~ (1 \in ToRemove(u, "param"))
    BY <1>1, <2>1, <2>2, <2>4 DEF HolderKnows
  <2>5. CASE ~ (1 \in ToRemove(t, "param")) /\ 1 \in ToRemove(u, "param")
    BY <1>1, <2>1, <2>2, <2>5 DEF HolderKnows
  <2> QED
    BY <1>1, <2>3, <2>4, <2>5 DEF HolderKnows
<1>3. CASE l = "pro"
  <2>1. k = "alg" /\ c = "alg"
    BY <1>3 DEF HeldBy
  <2>2. PICK j \in ToRemove(t, "pro") : slots[k][i].pro = own[t]["pro"][j]
    BY <1>1, <2>1 DEF HolderKnows
  <2>3. PICK n \in ToRemove(u, "pro") : slots[c][m].pro = own[u]["pro"][n]
    BY <1>1, <2>1 DEF HolderKnows
  <2> QED
    <3>1. own[u]["pro"][n] = own[t]["pro"][j]
      BY <1>3, <2>2, <2>3
    <3> QED
      BY <3>1, OwnOnce, KindNames
<1>4. CASE l = "rcr"
  <2>1. OwnId(t, "rcr") # NoId /\ OwnId(u, "rcr") # NoId
    BY <1>4 DEF HeldBy
  <2> QED
    BY <1>1, <2>1 DEF HolderKnows
<1> QED
  BY <1>2, <1>3, <1>4

\* A counted reference has been made, and its object still has its random generator.
LEMMA CountedIsThere ==
    ASSUME InstanceInv, HeldInv, NEW k \in {"pro", "alg"}, NEW i, NEW l \in RefKinds, NEW r,
           CountsFor(<<k, i>>, <<l, r>>), r # NoId
    PROVE  /\ IsValid(k, i) /\ i \in Ids(k) /\ slots[k][i][l] = r
           /\ r \in Ids(l) /\ HasRandom(k, i)
<1>1. IsValid(k, i) /\ slots[k][i][l] = r
  BY DEF CountsFor, CountedBy
<1>2. i \in Ids(k) /\ slots[k][i] # NULL /\ r \in Ids(l)
  BY <1>1, LiveFacts
<1>3. ASSUME NEW t \in Users, WorksOn(t, <<k, i>>), Removes(t)
      PROVE  call[t].drop # <<>>
  <2>1. WorkInv(t) /\ Working(t) /\ call[t].kind = k /\ call[t].id = i
    BY <1>3 DEF InstanceInv, WorksOn
  <2>2. call[t].todo # <<>>
    <3>1. CountedBy(<<k, i>>, <<l, r>>)
      BY DEF CountsFor
    <3> QED
      BY <1>3, <3>1 DEF CountedBy, Removes
  <2> QED
    BY <1>2, <1>3, <2>1, <2>2 DEF WorkInv
<1> QED
  BY <1>1, <1>2, <1>3 DEF HasRandom

-----------------------------------------------------------------------------
(* A count fits size_t: the users of an object are those of one thread.    *)

\* A set that is covered by a function of n elements has at most n.
LEMMA ImageBound ==
    ASSUME NEW S, IsFiniteSet(S), NEW f, DOMAIN f = S, NEW T, \A x \in T : \E p \in S : f[p] = x
    PROVE  IsFiniteSet(T) /\ Cardinality(T) <= Cardinality(S) /\ Cardinality(T) \in Nat
           /\ Cardinality(S) \in Nat
<1> DEFINE R == {f[p] : p \in S}
<1>1. T \subseteq R
  OBVIOUS
<1>2. PICK g : g = [p \in S |-> f[p]]
  OBVIOUS
<1>3. g \in [S -> R] /\ \A x \in R : \E p \in S : g[p] = x
  BY <1>2
<1>4. g \in Surjection(S, R)
  BY <1>3 DEF Surjection
<1>5. IsFiniteSet(R) /\ Cardinality(R) <= Cardinality(S)
  BY <1>4, FS_Surjection
<1>6. IsFiniteSet(T) /\ Cardinality(T) <= Cardinality(R)
  BY <1>1, <1>5, FS_Subset
<1>7. Cardinality(S) \in Nat /\ Cardinality(T) \in Nat /\ Cardinality(R) \in Nat
  BY <1>5, <1>6, FS_CardinalityType
<1> QED
  BY <1>5, <1>6, <1>7

\* The number of problems and that of algorithms that a thread adds.
RunsOf(t) == IF t = Main THEN Job.runs ELSE 1

LEMMA RunsBound ==
    ASSUME JobOK, job # 0, NEW t \in Users
    PROVE  RunsOf(t) \in Nat /\ 2 * RunsOf(t) < Modulus
<1>1. job \in 1..Len(Tasks)
  BY TasksAssumption DEF JobOK
<1>2. Job.runs \in Nat
  BY <1>1, JobType
<1>3. job \in DOMAIN Tasks
  BY <1>1, TasksAssumption
<1>4. 2 * Job.runs < Modulus /\ 2 < Modulus
  BY <1>3, CountsAssumption DEF Job
<1> QED
  BY <1>2, <1>4, NumbersAssumption DEF RunsOf

LEMMA GotBound ==
    ASSUME JobOK, NEW t \in Users, NEW m \in DOMAIN Script(t), NEW ids \in IdLists,
           GotBefore(t, m, ids), NEW k \in {"pro", "alg"}, NEW j \in DOMAIN ids[k]
    PROVE  j \in 1..RunsOf(t)
<1>1. j \in Nat /\ j >= 1 /\ Len(ids[k]) \in Nat /\ j <= Len(ids[k])
  <2>1. ids[k] \in Seq(Nat)
    BY KindNames DEF IdLists
  <2>2. Len(ids[k]) \in Nat /\ DOMAIN ids[k] = 1..Len(ids[k])
    BY <2>1
  <2> QED
    BY <2>2
<1>2. CASE t = Main
  <2>1. j <= Job.runs /\ job # 0
    BY <1>2, GotFacts
  <2>2. RunsOf(t) = Job.runs /\ RunsOf(t) \in Nat
    BY <1>2, <2>1, RunsBound DEF RunsOf
  <2> QED
    BY <1>1, <2>1, <2>2
<1>3. CASE t # Main
  <2>1. Len(ids["pro"]) <= 1 /\ Len(ids["alg"]) <= 1
    BY <1>3 DEF GotBefore
  <2> QED
    BY <1>1, <1>3, <2>1 DEF RunsOf
<1> QED
  BY <1>2, <1>3

\* Also the one that it is adding.
LEMMA AddBound ==
    ASSUME InstanceInv, NEW t \in Users, Active(t), NEW k \in {"pro", "alg"},
           Script(t)[at[t]] = <<"add", k, 1>>
    PROVE  Len(own[t][k]) + 1 \in 1..RunsOf(t)
<1>1. /\ JobOK /\ own[t] \in IdLists /\ GotBefore(t, at[t], own[t]) /\ at[t] \in DOMAIN Script(t)
      /\ Len(own[t][k]) \in Nat /\ DOMAIN own[t]["param"] = 1..Len(own[t]["param"])
      /\ Len(own[t]["param"]) = 1 /\ at[t] \in Nat
  BY GotNow, AddNeeds, KindNames DEF Active
<1>2. PICK ids : ids = [own[t] EXCEPT ![k] = Append(@, 0)]
  OBVIOUS
<1>3. GotBefore(t, at[t] + 1, ids)
  BY <1>1, <1>2, GotAdded, KindNames
<1>4. /\ ids \in IdLists /\ Len(own[t][k]) + 1 \in DOMAIN ids[k]
  <2>1. own[t][k] \in Seq(Nat) /\ k \in Kinds
    BY <1>1, KindNames DEF IdLists
  <2>2. ids[k] = Append(own[t][k], 0)
    BY <1>1, <1>2, <2>1 DEF IdLists
  <2> QED
    BY <1>1, <1>2, <2>1, <2>2 DEF IdLists
<1>5. at[t] + 1 \in DOMAIN Script(t)
  <2>1. PICK l \in DOMAIN Script(t) : Script(t)[l] = <<"remove", "param", 1>>
    BY <1>1, GotIsRemoved, KindNames
  <2>2. at[t] < l
    BY <1>1, <2>1, RemovesLast
  <2>3. DOMAIN Script(t) = 1..Len(Script(t)) /\ Len(Script(t)) \in Nat
    BY <1>1, ScriptType
  <2> QED
    BY <1>1, <2>1, <2>2, <2>3
<1> QED
  BY <1>1, <1>3, <1>4, <1>5, GotBound

\* The objects that thread t holds are these.
Held(t) ==
    [p \in {"pro", "alg"} \X (1..RunsOf(t)) |->
       <<p[1], IF p[2] \in DOMAIN own[t][p[1]] THEN own[t][p[1]][p[2]] ELSE call[t].id>>]

LEMMA HeldIsCovered ==
    ASSUME InstanceInv, NEW t \in Users, NEW k \in {"pro", "alg"}, NEW i, Holds(t, k, i),
           at[t] \in DOMAIN Script(t)
    PROVE  \E p \in {"pro", "alg"} \X (1..RunsOf(t)) : Held(t)[p] = <<k, i>>
<1>1. JobOK /\ own[t] \in IdLists /\ GotBefore(t, at[t], own[t]) /\ k \in Kinds
  BY GotNow, KindNames
<1>2. CASE \E j \in ToRemove(t, k) : own[t][k][j] = i
  <2>1. PICK j \in DOMAIN own[t][k] : own[t][k][j] = i
    BY <1>2 DEF ToRemove
  <2>2. j \in 1..RunsOf(t)
    BY <1>1, GotBound
  <2>3. Held(t)[<<k, j>>] = <<k, i>>
    BY <2>1, <2>2 DEF Held
  <2> QED
    BY <2>2, <2>3
<1>3. CASE WorksOn(t, <<k, i>>) /\ call[t].op = "add"
  <2>1. Active(t) /\ call[t].kind = k /\ call[t].id = i
    BY <1>3, BusyIsActive DEF WorksOn, Working
  <2>2. Script(t)[at[t]] = <<"add", k, 1>>
    BY <1>3, <2>1 DEF InstanceInv, AtCallInv
  <2>3. PICK j : j = Len(own[t][k]) + 1
    OBVIOUS
  <2>4. j \in 1..RunsOf(t)
    BY <2>1, <2>2, <2>3, AddBound
  <2>5. j \notin DOMAIN own[t][k]
    BY <1>1, <2>3, GotNow
  <2>6. Held(t)[<<k, j>>] = <<k, i>>
    BY <2>1, <2>4, <2>5 DEF Held
  <2> QED
    BY <2>4, <2>6
<1> QED
  BY <1>2, <1>3 DEF Holds

LEMMA UsersBound ==
    ASSUME InstanceInv, HeldInv, LeftInv, NEW l \in RefKinds, NEW r \in Nat \ {0}
    PROVE  /\ IsFiniteSet(CountedUsers(<<l, r>>)) /\ Cardinality(CountedUsers(<<l, r>>)) \in Nat
           /\ Cardinality(CountedUsers(<<l, r>>)) < Modulus
<1> DEFINE U == CountedUsers(<<l, r>>)
<1>1. \A x \in U : \E k \in {"pro", "alg"} : \E i : x = <<k, i>> /\ CountsFor(<<k, i>>, <<l, r>>)
  BY DEF CountedUsers
<1>2. CASE U = {}
  BY <1>2, FS_EmptySet, NumbersAssumption
<1>3. ASSUME NEW k \in {"pro", "alg"}, NEW i, CountsFor(<<k, i>>, <<l, r>>)
      PROVE  /\ IsValid(k, i) /\ i \in Ids(k) /\ slots[k][i][l] = r /\ HasRandom(k, i)
             /\ slots[k][i][l] # NoId
  BY <1>3, CountedIsThere DEF NoId
<1>4. CASE l = "rnd" /\ U # {}
  <2>0. PICK x \in U : TRUE
    BY <1>4
  <2>1. PICK k \in {"pro", "alg"} : \E i : x = <<k, i>> /\ CountsFor(<<k, i>>, <<l, r>>)
    BY <1>1
  <2>4. PICK i : x = <<k, i>> /\ CountsFor(<<k, i>>, <<l, r>>)
    BY <2>1
  <2>2. ASSUME NEW c \in {"pro", "alg"}, NEW m, CountsFor(<<c, m>>, <<l, r>>)
        PROVE  c = k /\ m = i
    <3>1. /\ i \in Ids(k) /\ slots[k][i].rnd = r /\ HasRandom(k, i)
          /\ m \in Ids(c) /\ slots[c][m].rnd = r /\ HasRandom(c, m)
      BY <1>3, <1>4, <2>4, <2>2
    <3>2. RandomInv
      BY DEF InstanceInv
    <3> QED
      BY <3>1, <3>2 DEF RandomInv
  <2>3. \A z \in U : z = x
    BY <1>1, <2>2, <2>4
  <2>5. IsFiniteSet({x}) /\ Cardinality({x}) = 1
    BY FS_Singleton
  <2>6. U = {x}
    BY <2>0, <2>3
  <2> HIDE DEF U
  <2> QED
    <3>1. IsFiniteSet(U) /\ Cardinality(U) = 1
      BY <2>5, <2>6
    <3>2. 1 < Modulus /\ 1 \in Nat
      BY NumbersAssumption
    <3> QED
      BY <3>1, <3>2 DEF U
<1>5. CASE l # "rnd" /\ U # {}
  <2>1. l \in {"param", "pro", "rcr"}
    BY <1>5 DEF RefKinds
  <2>0. PICK k \in {"pro", "alg"} : \E i : CountsFor(<<k, i>>, <<l, r>>)
    BY <1>1, <1>5
  <2>2. PICK i : CountsFor(<<k, i>>, <<l, r>>)
    BY <2>0
  <2>3. IsValid(k, i) /\ slots[k][i][l] = r /\ slots[k][i][l] # NoId
    BY <1>3, <2>2
  <2>4. PICK t \in Users : HeldBy(t, k, i)
    BY <2>3, LiveFacts
  <2>5. ASSUME NEW c \in {"pro", "alg"}, NEW m, CountsFor(<<c, m>>, <<l, r>>)
        PROVE  Holds(t, c, m)
    <3>1. IsValid(c, m) /\ slots[c][m][l] = r
      BY <1>3, <2>5
    <3>2. PICK u \in Users : HeldBy(u, c, m)
      BY <3>1, LiveFacts
    <3>3. t = u
      BY <2>1, <2>3, <2>4, <3>1, <3>2, SoleHolder
    <3> QED
      BY <3>2, <3>3 DEF HeldBy
  <2>6. at[t] \in DOMAIN Script(t) /\ JobOK /\ job # 0
    BY <2>4, GotNow DEF HeldBy, HolderKnows
  <2>7. \A x \in U : \E p \in {"pro", "alg"} \X (1..RunsOf(t)) : Held(t)[p] = x
    <3>1. ASSUME NEW x \in U
          PROVE  \E p \in {"pro", "alg"} \X (1..RunsOf(t)) : Held(t)[p] = x
      <4>3. PICK c \in {"pro", "alg"} : \E m : x = <<c, m>> /\ CountsFor(<<c, m>>, <<l, r>>)
        BY <1>1
      <4>1. PICK m : x = <<c, m>> /\ CountsFor(<<c, m>>, <<l, r>>)
        BY <4>3
      <4>2. Holds(t, c, m)
        BY <2>5, <4>1
      <4> QED
        BY <2>6, <4>1, <4>2, HeldIsCovered
    <3> QED
      BY <3>1
  <2>8. RunsOf(t) \in Nat /\ 2 * RunsOf(t) < Modulus
    BY <2>6, RunsBound
  <2>9. /\ IsFiniteSet({"pro", "alg"} \X (1..RunsOf(t)))
        /\ Cardinality({"pro", "alg"} \X (1..RunsOf(t))) = 2 * RunsOf(t)
    <3>1. IsFiniteSet({"pro", "alg"}) /\ Cardinality({"pro", "alg"}) = 2
      <4>1. IsFiniteSet({"pro"}) /\ Cardinality({"pro"}) = 1
        BY FS_Singleton
      <4>2. {"pro", "alg"} = {"pro"} \cup {"alg"} /\ "alg" \notin {"pro"}
        OBVIOUS
      <4> QED
        BY <4>1, <4>2, FS_AddElement
    <3>2. IsFiniteSet(1..RunsOf(t)) /\ Cardinality(1..RunsOf(t)) = RunsOf(t)
      BY <2>8, FS_Interval
    <3>3. PICK S, T : S = {"pro", "alg"} /\ T = 1..RunsOf(t)
      OBVIOUS
    <3>4. IsFiniteSet(S \X T) /\ Cardinality(S \X T) = Cardinality(S) * Cardinality(T)
      BY <3>1, <3>2, <3>3, FS_Product
    <3>5. Cardinality(S) = 2 /\ Cardinality(T) = RunsOf(t)
      BY <3>1, <3>2, <3>3
    <3> QED
      BY <3>3, <3>4, <3>5
  <2>10. DOMAIN Held(t) = {"pro", "alg"} \X (1..RunsOf(t))
    BY DEF Held
  <2>11. /\ IsFiniteSet(U) /\ Cardinality(U) \in Nat
         /\ Cardinality(U) <= Cardinality({"pro", "alg"} \X (1..RunsOf(t)))
    <3>1. PICK S, f : S = {"pro", "alg"} \X (1..RunsOf(t)) /\ f = Held(t)
      OBVIOUS
    <3>2. IsFiniteSet(S) /\ DOMAIN f = S /\ \A x \in U : \E p \in S : f[p] = x
      BY <2>7, <2>9, <2>10, <3>1
    <3> HIDE DEF U
    <3> QED
      BY <3>1, <3>2, ImageBound
  <2> QED
    BY <2>8, <2>9, <2>11, NumbersAssumption
<1> QED
  BY <1>2, <1>4, <1>5

UsersAreBounded ==
    \A l \in RefKinds : \A r \in Nat \ {0} :
      /\ IsFiniteSet(CountedUsers(<<l, r>>)) /\ Cardinality(CountedUsers(<<l, r>>)) \in Nat
      /\ Cardinality(CountedUsers(<<l, r>>)) < Modulus

LEMMA AllBounded == InstanceInv /\ HeldInv /\ LeftInv => UsersAreBounded
  BY UsersBound DEF UsersAreBounded

LEMMA BoundedNext == InstanceInv' /\ HeldInv' /\ LeftInv' => UsersAreBounded'
  BY AllBounded, PTL

-----------------------------------------------------------------------------
(* What a step leaves as it is.                                            *)

\* The counted users are the objects that count.
UsersAreThose ==
    \A y : /\ \A k \in {"pro", "alg"} : \A i : <<k, i>> \in CountedUsers(y) <=> CountsFor(<<k, i>>, y)
           /\ \A x \in CountedUsers(y) : \E k \in {"pro", "alg"} : \E i : x = <<k, i>>

LEMMA Those == TypeOK => UsersAreThose
<1> SUFFICES ASSUME TypeOK, NEW y
             PROVE  /\ \A k \in {"pro", "alg"} : \A i :
                         <<k, i>> \in CountedUsers(y) <=> CountsFor(<<k, i>>, y)
                    /\ \A x \in CountedUsers(y) : \E k \in {"pro", "alg"} : \E i : x = <<k, i>>
  BY DEF UsersAreThose
<1>1. ASSUME NEW k \in {"pro", "alg"}, NEW i, CountsFor(<<k, i>>, y)
      PROVE  i \in Ids(k)
  BY <1>1, SlotFacts, KindNames DEF CountsFor, IsValid
<1>2. \A k \in {"pro", "alg"} : \A i :
        <<k, i>> \in CountedUsers(y) <=> i \in Ids(k) /\ CountsFor(<<k, i>>, y)
  BY DEF CountedUsers
<1>3. \A x \in CountedUsers(y) : \E k \in {"pro", "alg"} : \E i : x = <<k, i>>
  BY DEF CountedUsers
<1> QED
  BY <1>1, <1>2, <1>3

LEMMA ThoseNext == TypeOK' => UsersAreThose'
  BY Those, PTL

\* The counts, when those that count do and no count changes.
CountingSame(k, i) ==
    \A l \in RefKinds : \A r \in Nat \ {0} :
      CountsFor(<<k, i>>, <<l, r>>)' <=> CountsFor(<<k, i>>, <<l, r>>)
CountingKept == \A k \in {"pro", "alg"} : \A i : CountingSame(k, i)
OldCounts == \A l \in Kinds : \A r \in Ids(l) : occupied'[l][r] = occupied[l][r]
NewCounts == \A l \in Kinds : \A r \in Ids(l)' \ Ids(l) : occupied'[l][r] = 0

LEMMA CountsKept ==
    ASSUME InstanceInv, InstanceInv', HeldInv, CountsAreExact, CountingKept, OldCounts, NewCounts
    PROVE  CountsAreExact'
<1>1. TypeOK /\ TypeOK' /\ UsersAreThose /\ UsersAreThose'
  BY Those, ThoseNext DEF InstanceInv
<1>2. ASSUME NEW l \in Kinds \ {"alg"}, NEW r \in Ids(l)'
      PROVE  occupied'[l][r] = Cardinality(CountedUsers(<<l, r>>)')
  <2>1. l \in RefKinds /\ r \in Nat \ {0} /\ l \in Kinds
    <3>1. r \in 1..Len(slots'[l])
      BY <1>2 DEF Ids
    <3> QED
      BY <1>2, <3>1, RefKindFacts
  <2>2. \A k \in {"pro", "alg"} : \A i :
          <<k, i>> \in CountedUsers(<<l, r>>)' <=> <<k, i>> \in CountedUsers(<<l, r>>)
    BY <1>1, <2>1 DEF CountingKept, CountingSame, UsersAreThose
  <2>3. \A x \in CountedUsers(<<l, r>>) \cup CountedUsers(<<l, r>>)' :
          \E k \in {"pro", "alg"} : \E i : x = <<k, i>>
    BY <1>1 DEF UsersAreThose
  <2>4. CountedUsers(<<l, r>>)' = CountedUsers(<<l, r>>)
    BY <2>2, <2>3
  <2>5. CASE r \in Ids(l)
    <3>1. occupied'[l][r] = occupied[l][r]
      BY <2>1, <2>5 DEF OldCounts
    <3>2. occupied[l][r] = Cardinality(CountedUsers(<<l, r>>))
      BY <1>2, <2>5 DEF CountsAreExact
    <3> QED
      BY <2>4, <3>1, <3>2
  <2>6. CASE r \notin Ids(l)
    <3>1. ASSUME NEW k \in {"pro", "alg"}, NEW i, <<k, i>> \in CountedUsers(<<l, r>>)
          PROVE  FALSE
      <4>1. CountsFor(<<k, i>>, <<l, r>>)
        BY <1>1, <3>1 DEF UsersAreThose
      <4> QED
        BY <2>1, <2>6, <4>1, CountedIsThere DEF NoId
    <3>2. CountedUsers(<<l, r>>) = {}
      BY <2>3, <3>1
    <3>3. occupied'[l][r] = 0
      BY <1>2, <2>1, <2>6 DEF NewCounts
    <3> QED
      BY <2>4, <3>2, <3>3, FS_EmptySet
  <2> QED
    BY <2>5, <2>6
<1> QED
  BY <1>2 DEF CountsAreExact

\* An object counts what it did, when it and the work on it are the same.
ReferSame(k, i) ==
    /\ IsValid(k, i)' <=> IsValid(k, i)
    /\ IsValid(k, i) => \A l \in RefKinds : slots'[k][i][l] = slots[k][i][l]
LEMMA CountingKeeps ==
    ASSUME NEW k, NEW i, ReferSame(k, i),
           \A u \in Users : WorksOn(u, <<k, i>>)' <=> WorksOn(u, <<k, i>>),
           \A u \in Users : WorksOn(u, <<k, i>>) =>
             call'[u].op = call[u].op /\ call'[u].todo = call[u].todo
    PROVE  CountingSame(k, i)
<1>1. SUFFICES ASSUME NEW l \in RefKinds, NEW r \in Nat \ {0}, IsValid(k, i)
               PROVE  CountedBy(<<k, i>>, <<l, r>>)' <=> CountedBy(<<k, i>>, <<l, r>>)
  BY DEF CountingSame, CountsFor, ReferSame
<1>2. slots'[k][i][l] = slots[k][i][l]
  BY <1>1 DEF ReferSame
<1> QED
  BY <1>2 DEF CountedBy

\* What is still to be counted.
LEMMA TodoKept ==
    ASSUME NEW u \in Users, TodoInv(u), Working(u)' => Working(u),
           Working(u) => call'[u].kind = call[u].kind /\ call'[u].id = call[u].id
                         /\ call'[u].todo = call[u].todo
                         /\ ReferSame(call[u].kind, call[u].id),
           Working(u) => call[u].id \in DOMAIN slots[call[u].kind]
                         /\ call[u].id \in DOMAIN slots'[call[u].kind]
    PROVE  TodoInv(u)'
<1>1. PICK k, i, todo : k = call[u].kind /\ i = call[u].id /\ todo = call[u].todo
  OBVIOUS
<1>2. CASE ~Working(u)'
  BY <1>2 DEF TodoInv
<1>3. CASE Working(u)' /\ slots'[k][i] = NULL
  BY <1>1, <1>3 DEF TodoInv
<1>4. CASE Working(u)' /\ slots'[k][i] # NULL
  <2>1. Working(u) /\ call'[u].kind = k /\ call'[u].id = i /\ call'[u].todo = todo
    BY <1>1, <1>4
  <2>2. slots[k][i] # NULL /\ \A l \in RefKinds : slots'[k][i][l] = slots[k][i][l]
    BY <1>1, <1>4, <2>1 DEF ReferSame, IsValid
  <2>3. /\ \A n \in DOMAIN todo : todo[n][1] \in RefKinds /\ todo[n][2] = slots[k][i][todo[n][1]]
        /\ \A n, m \in DOMAIN todo : todo[n] = todo[m] => n = m
    BY <1>1, <2>1, <2>2 DEF TodoInv, RefKinds
  <2>4. \A n \in DOMAIN todo : todo[n][1] \in RefKinds /\ todo[n][2] = slots'[k][i][todo[n][1]]
    BY <2>2, <2>3
  <2> QED
    BY <2>1, <2>3, <2>4 DEF TodoInv, RefKinds
<1> QED
  BY <1>2, <1>3, <1>4

\* The count that has been read.
LEMMA SeenKept ==
    ASSUME InstanceInv, NEW u \in Users, SeenInv(u), pc'[u] = pc[u], seen'[u] = seen[u],
           call'[u] = call[u], OldCounts
    PROVE  SeenInv(u)'
<1>1. SUFFICES ASSUME pc[u] = "writing"
               PROVE  seen'[u].count = occupied'[Next1(u)[1]][Next1(u)[2]] /\ Next1(u)' = Next1(u)
  BY DEF SeenInv
<1>2. Working(u) /\ call[u].todo # <<>>
  BY <1>1 DEF InstanceInv, AtCallInv, Working
<1>3. Next1(u)[1] \in Kinds /\ Next1(u)[2] \in Ids(Next1(u)[1])
  BY <1>2, CountNeeds
<1>4. Next1(u)' = Next1(u)
  BY DEF Next1
<1> QED
  BY <1>1, <1>3, <1>4 DEF SeenInv, OldCounts

\* The random generators.
LEMMA GeneratorKept ==
    ASSUME GeneratorInv,
           \A r \in Ids("rnd")' : slots'["rnd"][r] # NULL =>
             /\ r \in Ids("rnd") /\ slots["rnd"][r] # NULL
             /\ \A k \in {"pro", "alg"} : \A i \in Ids(k) : HasRandom(k, i) /\ slots[k][i].rnd = r =>
                  i \in Ids(k)' /\ HasRandom(k, i)' /\ slots'[k][i].rnd = r
    PROVE  GeneratorInv'
  BY DEF GeneratorInv

\* The holders.
LEMMA HeldKept ==
    ASSUME HeldInv,
           \A k \in {"pro", "alg"} : \A i \in Ids(k)' : slots'[k][i] # NULL =>
             /\ i \in Ids(k) /\ slots[k][i] # NULL
             /\ slots'[k][i].rcr = slots[k][i].rcr /\ slots'[k][i].pro = slots[k][i].pro
             /\ \A u \in Users : Holds(u, k, i) =>
                  Holds(u, k, i)' /\ OwnId(u, "rcr")' = OwnId(u, "rcr")
    PROVE  HeldInv'
<1> SUFFICES ASSUME NEW k \in {"pro", "alg"}, NEW i \in Ids(k)', slots'[k][i] # NULL
             PROVE  \E t \in Users :
                      /\ Holds(t, k, i)'
                      /\ slots'[k][i].rcr = IF k = "alg" THEN OwnId(t, "rcr")' ELSE NoId
                      /\ k = "pro" => slots'[k][i].pro = NoId
  BY DEF HeldInv
<1>1. PICK t \in Users :
        /\ Holds(t, k, i)
        /\ slots[k][i].rcr = IF k = "alg" THEN OwnId(t, "rcr") ELSE NoId
        /\ k = "pro" => slots[k][i].pro = NoId
  BY DEF HeldInv
<1> QED
  BY <1>1

\* What is to be removed, as long as a call makes no difference.
NotRemoval(t, k) == \A j : Script(t)[at[t]] # <<"remove", k, j>>
Passes(t, k) == at' = at \/ (at' = [at EXCEPT ![t] = @ + 1] /\ NotRemoval(t, k))

LEMMA ToRemoveSame ==
    ASSUME TypeOK, job' = job, NEW t \in Users, Advances(t), NEW k \in Kinds, Passes(t, k),
           NEW u \in Users, own'[u][k] = own[u][k]
    PROVE  ToRemove(u, k)' = ToRemove(u, k)
<1>1. /\ at[u] \in Nat \ {0} /\ at'[u] \in Nat \ {0} /\ Script(u)' = Script(u)
      /\ at[u] <= at'[u] /\ (u # t => at'[u] = at[u])
  BY AdvancesOn, ScriptStays
<1>2. at'[u] # at[u] => u = t /\ at'[t] = at[t] + 1 /\ NotRemoval(t, k)
  BY <1>1, ThreadTypes DEF Passes
<1>3. JobOK /\ DOMAIN Script(u) \subseteq Nat
  BY ThreadTypes, ScriptType
<1>4. ASSUME NEW j, NEW n \in DOMAIN Script(u), n >= at[u], Script(u)[n] = <<"remove", k, j>>
      PROVE  n >= at'[u]
  <2>1. CASE at'[u] = at[u]
    BY <1>4, <2>1
  <2>2. CASE at'[u] # at[u]
    <3>1. n # at[u]
      BY <1>2, <1>4, <2>2 DEF NotRemoval
    <3> QED
      BY <1>1, <1>2, <1>3, <1>4, <2>2, <3>1
  <2> QED
    BY <2>1, <2>2
<1>5. ASSUME NEW n \in DOMAIN Script(u), n >= at'[u]
      PROVE  n >= at[u]
  BY <1>1, <1>3, <1>5
<1> QED
  BY <1>1, <1>4, <1>5 DEF ToRemove

\* Main is about to remove parameters that are in use, and does not begin to.
LeavesNow(t) == t = Main /\ job # 0 /\ LeavesParam(job) /\ at[Main] = StartAt + 2

\* The parameters that are left.
LEMMA LeftKept ==
    ASSUME InstanceInv, LeftInv, job' = job, NEW t \in Users, Advances(t),
           Passes(t, "param") \/ ~LeavesNow(t),
           job # 0 /\ LeavesParam(job) /\ at'[Main] = StartAt + 2 => pc'[Main] = "idle",
           job # 0 /\ HasLeft(job) => own'[Main]["param"][1] = own[Main]["param"][1],
           Left' = Left
    PROVE  LeftInv'
<1>1. /\ \A n : LeavesParam(n)' <=> LeavesParam(n)
      /\ TypeOK /\ JobOK /\ Script(Main)' = Script(Main) /\ StartAt' = StartAt
  BY ThreadTypes, ScriptStays DEF InstanceInv, LeavesParam
<1>2. ASSUME job # 0, LeavesParam(job)
      PROVE  at'[Main] > StartAt + 2 <=> at[Main] > StartAt + 2
  <2>1. /\ at[Main] \in Nat \ {0} /\ at'[Main] \in Nat \ {0}
        /\ at[Main] <= at'[Main] /\ (Main # t => at'[Main] = at[Main])
    BY <1>1, AdvancesOn, UserTypes
  <2>2. StartAt \in Nat /\ (Job.paramFirst => Script(Main)[StartAt + 2] = <<"remove", "param", 1>>)
    BY <1>1, <1>2, ParamRemoval
  <2>3. Job.paramFirst
    BY <1>2 DEF LeavesParam, Job
  <2>4. CASE at' = at
    BY <2>4
  <2>5. CASE at' # at
    <3>1. at' = [at EXCEPT ![t] = @ + 1] /\ (NotRemoval(t, "param") \/ ~LeavesNow(t))
      BY <2>5 DEF Passes, Advances
    <3>2. t = Main => at'[Main] = at[Main] + 1 /\ at[Main] # StartAt + 2
      BY <1>1, <1>2, <2>2, <2>3, <3>1, ThreadTypes DEF NotRemoval, LeavesNow
    <3> QED
      BY <2>1, <2>2, <3>2
  <2> QED
    BY <2>4, <2>5
<1>3. \A n \in 1..job : job # 0
  BY <1>1, TasksAssumption DEF JobOK
<1>4. \A n \in 1..job : HasLeft(n)' <=> HasLeft(n)
  BY <1>1, <1>2, <1>3 DEF HasLeft
<1>5. {n \in 1..job' : HasLeft(n)'} = {n \in 1..job : HasLeft(n)}
  BY <1>4
<1>6. job # 0 => (HasLeft(job)' <=> HasLeft(job))
  BY <1>1, <1>2 DEF HasLeft
<1>7. job' # 0 /\ LeavesParam(job)' /\ at'[Main] = StartAt' + 2 => pc'[Main] = "idle"
  BY <1>1
<1>8. job' # 0 /\ HasLeft(job)' => own'[Main]["param"][1] \in Left'
  BY <1>6 DEF LeftInv
<1>9. IsFiniteSet(Left') /\ Cardinality(Left') = Cardinality({n \in 1..job' : HasLeft(n)'})
  BY <1>5 DEF LeftInv
<1> QED
  BY <1>7, <1>8, <1>9 DEF LeftInv

ValidIds == \A k \in Kinds : \A i : IsValid(k, i) => i \in Ids(k)
LEMMA ValidNow == TypeOK => ValidIds
  BY SlotFacts DEF ValidIds, IsValid
LEMMA ValidNext == TypeOK' => ValidIds'
  BY ValidNow, PTL

SlotsOf == \A k \in Kinds : DOMAIN slots[k] = Ids(k)
LEMMA SlotsNow == TypeOK => SlotsOf
  BY SlotFacts DEF SlotsOf
LEMMA SlotsNext == TypeOK' => SlotsOf'
  BY SlotsNow, PTL

LEMMA LeftSame ==
    ASSUME InstanceInv, InstanceInv',
           \A p : IsValid("param", p)' /\ ~ToBeRemoved(p)' /\ ~IsPart(p)'
                    <=> IsValid("param", p) /\ ~ToBeRemoved(p) /\ ~IsPart(p)
    PROVE  Left' = Left
<1>1. /\ \A p : IsValid("param", p) => p \in Ids("param")
      /\ \A p : IsValid("param", p)' => p \in Ids("param")'
  <2>1. ValidIds /\ ValidIds'
    BY ValidNow, ValidNext DEF InstanceInv
  <2> QED
    BY <2>1, KindNames DEF ValidIds
<1> QED
  BY <1>1 DEF Left

LEMMA PartsSame ==
    ASSUME slots'["pro"] = slots["pro"], \A u \in Users : Dropped(u)' = Dropped(u)
    PROVE  \A p : IsPart(p)' <=> IsPart(p)
  BY DEF IsPart, PartsOf, Ids

LEMMA ToBeSame ==
    ASSUME \A u \in Users : ToRemove(u, "param")' = ToRemove(u, "param")
                            /\ own'[u]["param"] = own[u]["param"]
    PROVE  \A p : ToBeRemoved(p)' <=> ToBeRemoved(p)
  BY DEF ToBeRemoved

LEMMA MainRests ==
    ASSUME InstanceInv, LeftInv, job' = job, NEW t \in Users, Advances(t),
           \A u \in Users : u # t => pc'[u] = pc[u],
           \/ pc'[t] = "idle"
           \/ at' = at /\ (pc[t] # "idle" \/ ~LeavesNow(t))
    PROVE  job # 0 /\ LeavesParam(job) /\ at'[Main] = StartAt + 2 => pc'[Main] = "idle"
<1>1. SUFFICES ASSUME job # 0, LeavesParam(job), at'[Main] = StartAt + 2, pc'[Main] # "idle"
               PROVE  FALSE
  OBVIOUS
<1>2. TypeOK /\ JobOK
  BY ThreadTypes DEF InstanceInv
<1>3. CASE t # Main
  <2>1. at'[Main] = at[Main] /\ pc'[Main] = pc[Main]
    BY <1>2, <1>3, AdvancesOn, UserTypes
  <2> QED
    BY <1>1, <2>1 DEF LeftInv
<1>4. CASE t = Main
  BY <1>1, <1>4 DEF LeftInv, LeavesNow
<1> QED
  BY <1>3, <1>4

\* Holding does not change as long as no removal is passed.
LEMMA HoldsSame ==
    ASSUME NEW u \in Users, NEW k, NEW i, Holds(u, k, i),
           ToRemove(u, k)' = ToRemove(u, k), own'[u][k] = own[u][k],
           WorksOn(u, <<k, i>>) /\ call[u].op = "add" =>
             WorksOn(u, <<k, i>>)' /\ call'[u].op = "add"
    PROVE  Holds(u, k, i)'
  BY DEF Holds

LEMMA OwnIdSame ==
    ASSUME NEW u \in Users, NEW k, own'[u][k] = own[u][k]
    PROVE  OwnId(u, k)' = OwnId(u, k)
  BY DEF OwnId

LEMMA WorkDomain ==
    ASSUME InstanceInv, NEW u \in Users, Working(u)
    PROVE  /\ call[u].kind \in {"pro", "alg"} /\ call[u].kind \in Kinds
           /\ call[u].id \in Ids(call[u].kind) /\ call[u].id \in DOMAIN slots[call[u].kind]
<1>1. call[u].kind \in {"pro", "alg"} /\ call[u].id \in Ids(call[u].kind) /\ TypeOK
  BY WorkFacts DEF InstanceInv
<1>2. call[u].kind \in Kinds
  BY <1>1, KindNames
<1>3. DOMAIN slots[call[u].kind] = Ids(call[u].kind)
  BY <1>1, <1>2, SlotFacts
<1> QED
  BY <1>1, <1>2, <1>3

\* Steps that leave the objects alone.
LEMMA CalmHeld ==
    ASSUME TypeOK, HeldInv, NEW t \in Users, Calm(t), Passes(t, "pro"), Passes(t, "alg")
    PROVE  HeldInv'
<1>1. /\ slots' = slots /\ own' = own /\ job' = job /\ Advances(t)
      /\ \A u \in Users : WorkGoesOn(u)
      /\ \A k \in Kinds : Ids(k)' = Ids(k)
  BY DEF Calm, Ids
<1>2. /\ \A u \in Users : \A x : WorksOn(u, x)' <=> WorksOn(u, x)
      /\ \A u \in Users : Working(u) => call'[u].op = call[u].op
  BY <1>1, WorkKept DEF WorkGoesOn
<1>3. \A u \in Users, k \in {"pro", "alg"} : ToRemove(u, k)' = ToRemove(u, k)
  BY <1>1, ToRemoveSame, KindNames
<1>4. ASSUME NEW k \in {"pro", "alg"}, NEW i \in Ids(k)', slots'[k][i] # NULL
      PROVE  /\ i \in Ids(k) /\ slots[k][i] # NULL
             /\ slots'[k][i].rcr = slots[k][i].rcr /\ slots'[k][i].pro = slots[k][i].pro
             /\ \A u \in Users : Holds(u, k, i) =>
                  Holds(u, k, i)' /\ OwnId(u, "rcr")' = OwnId(u, "rcr")
  <2>1. i \in Ids(k) /\ slots[k][i] # NULL
    BY <1>1, <1>4, KindNames
  <2>2. ASSUME NEW u \in Users, Holds(u, k, i)
        PROVE  Holds(u, k, i)' /\ OwnId(u, "rcr")' = OwnId(u, "rcr")
    <3>1. WorksOn(u, <<k, i>>) /\ call[u].op = "add" =>
            WorksOn(u, <<k, i>>)' /\ call'[u].op = "add"
      BY <1>2 DEF WorksOn
    <3>2. own'[u][k] = own[u][k] /\ own'[u]["rcr"] = own[u]["rcr"]
      BY <1>1
    <3> QED
      BY <1>3, <2>2, <3>1, <3>2, HoldsSame, OwnIdSame
  <2> QED
    BY <1>1, <2>1, <2>2
<1> QED
  BY <1>4, HeldKept

LEMMA CalmGenerators ==
    ASSUME GeneratorInv, NEW t \in Users, Calm(t), DropsStay
    PROVE  GeneratorInv'
<1>1. /\ slots' = slots /\ \A k \in Kinds : Ids(k)' = Ids(k)
      /\ \A u \in Users : \A x : WorksOn(u, x)' <=> WorksOn(u, x)
      /\ \A u \in Users : Working(u) => (Removes(u)' <=> Removes(u))
  BY WorkKept DEF Calm, Ids
<1>2. \A k \in {"pro", "alg"} : \A i : HasRandom(k, i) => HasRandom(k, i)'
  BY <1>1 DEF HasRandom, DropsStay, WorksOn
<1> QED
  BY <1>1, <1>2, GeneratorKept, KindNames

\* Steps that change nothing in the registry, and pass over no removal but that of a
\* record.
MostExact ==
    /\ HeldInv
    /\ \A t \in Users : TodoInv(t) /\ SeenInv(t)
    /\ GeneratorInv
    /\ CountsAreExact

LEMMA QuietMost ==
    ASSUME InstanceInv, InstanceInv', ExactInv, NEW t \in Users, Calm(t), DropsStay,
           occupied' = occupied, Passes(t, "pro"), Passes(t, "alg"),
           \A u \in Users : u # t => pc'[u] = pc[u] /\ call'[u] = call[u] /\ seen'[u] = seen[u],
           \A u \in Users : Working(u) => call'[u].todo = call[u].todo,
           SeenInv(t)'
    PROVE  MostExact'
<1>1. /\ TypeOK /\ slots' = slots /\ own' = own /\ job' = job /\ Advances(t)
      /\ \A u \in Users : WorkGoesOn(u)
      /\ \A k \in Kinds : Ids(k)' = Ids(k)
  BY DEF Calm, InstanceInv, Ids
<1>2. /\ \A u \in Users : \A x : WorksOn(u, x)' <=> WorksOn(u, x)
      /\ \A u \in Users : Working(u) => (Removes(u)' <=> Removes(u)) /\ call'[u].op = call[u].op
  BY <1>1, WorkKept DEF WorkGoesOn
<1>3. HeldInv'
  BY <1>1, CalmHeld DEF ExactInv
<1>4. \A k \in {"pro", "alg"} : \A i : ReferSame(k, i)
  BY <1>1 DEF ReferSame, IsValid
<1>5. CountsAreExact'
  <2>1. CountingKept
    <3>1. ASSUME NEW k \in {"pro", "alg"}, NEW i
          PROVE  CountingSame(k, i)
      <4>1. \A u \in Users : WorksOn(u, <<k, i>>) =>
              call'[u].op = call[u].op /\ call'[u].todo = call[u].todo
        BY <1>2 DEF WorksOn
      <4> QED
        BY <1>2, <1>4, <4>1, CountingKeeps
    <3> QED
      BY <3>1 DEF CountingKept
  <2>2. OldCounts /\ NewCounts
    BY <1>1 DEF OldCounts, NewCounts
  <2> QED
    BY <2>1, <2>2, CountsKept DEF ExactInv
<1>6. ASSUME NEW u \in Users
      PROVE  TodoInv(u)' /\ SeenInv(u)'
  <2>1. TodoInv(u) /\ SeenInv(u)
    BY DEF ExactInv
  <2>2. Working(u) => /\ call[u].kind \in {"pro", "alg"}
                      /\ call[u].id \in DOMAIN slots[call[u].kind]
    BY WorkDomain
  <2>3. TodoInv(u)'
    BY <1>1, <1>4, <2>1, <2>2, TodoKept DEF WorkGoesOn
  <2>4. OldCounts
    BY <1>1 DEF OldCounts
  <2>5. SeenInv(u)'
    BY <2>1, <2>4, SeenKept
  <2> QED
    BY <2>3, <2>5
<1>7. GeneratorInv'
  BY CalmGenerators DEF ExactInv
<1> QED
  BY <1>3, <1>5, <1>6, <1>7 DEF MostExact

LEMMA CalmIsPart ==
    ASSUME NEW t \in Users, Calm(t), DropsStay
    PROVE  \A p : IsPart(p)' <=> IsPart(p)
<1>1. \A u \in Users : Dropped(u)' = Dropped(u)
  BY WorkKept DEF Calm, Dropped, DropsStay, WorkGoesOn
<1> QED
  BY <1>1, PartsSame DEF Calm

LEMMA CalmLeft ==
    ASSUME InstanceInv, InstanceInv', LeftInv, NEW t \in Users, Calm(t), DropsStay,
           Passes(t, "param"), \A u \in Users : u # t => pc'[u] = pc[u],
           \/ pc'[t] = "idle"
           \/ at' = at /\ (pc[t] # "idle" \/ ~LeavesNow(t))
    PROVE  LeftInv'
<1>1. TypeOK /\ own' = own /\ job' = job /\ Advances(t) /\ slots' = slots
  BY DEF InstanceInv, Calm
<1>2. \A u \in Users : ToRemove(u, "param")' = ToRemove(u, "param")
  BY <1>1, ToRemoveSame, KindNames
<1>3. \A p : ToBeRemoved(p)' <=> ToBeRemoved(p)
  BY <1>1, <1>2, ToBeSame
<1>4. \A p : IsPart(p)' <=> IsPart(p)
  BY CalmIsPart
<1>5. \A p : IsValid("param", p)' <=> IsValid("param", p)
  BY <1>1 DEF IsValid
<1>6. Left' = Left
  BY <1>3, <1>4, <1>5, LeftSame
<1>7. job # 0 /\ LeavesParam(job) /\ at'[Main] = StartAt + 2 => pc'[Main] = "idle"
  BY <1>1, MainRests
<1> QED
  BY <1>1, <1>6, <1>7, LeftKept

LEMMA QuietKeeps ==
    ASSUME InstanceInv, InstanceInv', ExactInv, NEW t \in Users, Calm(t), DropsStay,
           occupied' = occupied, Passes(t, "pro"), Passes(t, "alg"), Passes(t, "param"),
           \A u \in Users : u # t => pc'[u] = pc[u] /\ call'[u] = call[u] /\ seen'[u] = seen[u],
           \A u \in Users : Working(u) => call'[u].todo = call[u].todo,
           \/ pc'[t] = "idle"
           \/ at' = at /\ (pc[t] # "idle" \/ ~LeavesNow(t)),
           SeenInv(t)'
    PROVE  ExactInv'
<1>1. MostExact'
  BY QuietMost
<1>2. LeftInv'
  BY CalmLeft DEF ExactInv
<1> QED
  BY <1>1, <1>2 DEF MostExact, ExactInv

\* Those of a thread that is between its calls.
LEMMA IdleIsCalm ==
    ASSUME NEW t \in Users, pc[t] = "idle", pc'[t] \in {"idle", "locking", "thrown"}, Advances(t),
           slots' = slots, own' = own, job' = job,
           \A u \in Users : u # t => pc'[u] = pc[u] /\ call'[u] = call[u]
    PROVE  /\ Calm(t) /\ DropsStay /\ SeenInv(t)'
           /\ \A u \in Users : Working(u) => call'[u].todo = call[u].todo
<1>1. ~Working(t) /\ ~Working(t)'
  BY DEF Working
<1>2. ASSUME NEW u \in Users
      PROVE  WorkGoesOn(u) /\ (Working(u) => call'[u].drop = call[u].drop /\ call'[u].todo = call[u].todo)
  BY <1>1 DEF WorkGoesOn, Working
<1>3. Calm(t) /\ DropsStay
  BY <1>2 DEF Calm, DropsStay
<1>4. SeenInv(t)'
  BY DEF SeenInv
<1> QED
  BY <1>2, <1>3, <1>4

LEMMA IdleKeeps ==
    ASSUME InstanceInv, InstanceInv', ExactInv, NEW t \in Users, pc[t] = "idle",
           pc'[t] \in {"idle", "locking", "thrown"}, Advances(t),
           slots' = slots, occupied' = occupied, own' = own, job' = job, seen' = seen,
           \A u \in Users : u # t => pc'[u] = pc[u] /\ call'[u] = call[u],
           Passes(t, "pro"), Passes(t, "alg"), Passes(t, "param"),
           pc'[t] = "idle" \/ (at' = at /\ ~LeavesNow(t))
    PROVE  ExactInv'
<1>1. /\ Calm(t) /\ DropsStay /\ SeenInv(t)'
      /\ \A u \in Users : Working(u) => call'[u].todo = call[u].todo
  BY IdleIsCalm
<1> QED
  BY <1>1, QuietKeeps

LEMMA AddCheckExact ==
    ASSUME InstanceInv, ExactInv, NEW t \in Users, NEW k \in {"pro", "alg"}, AddCheck(t, k)
    PROVE  ExactInv'
<1>1. InstanceInv' /\ pc \in [Users -> {"idle", "locking", "counting", "writing", "discarding", "thrown"}]
  BY AddCheckKeeps, ThreadTypes DEF InstanceInv
<1>2. pc[t] = "idle" /\ Script(t)[at[t]] = <<"add", k, 1>>
  BY CallIsActive DEF AddCheck
<1>3. call \in [Users -> CallStates]
  BY DEF InstanceInv, TypeOK
<1>4. /\ pc'[t] \in {"locking", "thrown"} /\ at' = at /\ slots' = slots /\ occupied' = occupied
      /\ own' = own /\ job' = job /\ seen' = seen
      /\ \A u \in Users : u # t => pc'[u] = pc[u] /\ call'[u] = call[u]
  BY <1>1, <1>3 DEF AddCheck, Goto, manager, task
<1>5. \A c : NotRemoval(t, c)
  BY <1>2 DEF NotRemoval
<1>6. ~LeavesNow(t)
  <2>1. LeavesNow(t) => Script(t)[at[t]] = <<"remove", "param", 1>>
    BY ThreadTypes, ParamRemoval DEF LeavesNow, LeavesParam, Job, InstanceInv
  <2> QED
    BY <1>2, <2>1
<1> QED
  BY <1>1, <1>2, <1>4, <1>5, <1>6, IdleKeeps DEF Passes, Advances

\* Calls that only return.
LEMMA ReturnExact ==
    ASSUME InstanceInv, InstanceInv', ExactInv, NEW t \in Users, pc[t] = "idle", Returns(t),
           pc' = pc, UNCHANGED <<manager, call, seen, own, job>>,
           NotRemoval(t, "pro"), NotRemoval(t, "alg"), NotRemoval(t, "param")
    PROVE  ExactInv'
<1>1. at' = [at EXCEPT ![t] = @ + 1] /\ slots' = slots /\ occupied' = occupied
      /\ call' = call /\ seen' = seen /\ own' = own /\ job' = job
  BY DEF Returns, manager
<1> QED
  BY <1>1, IdleKeeps DEF Passes, Advances

LEMMA OtherExact ==
    ASSUME InstanceInv, InstanceInv', ExactInv,
           \/ \E t \in Threads : RunAlgorithm(t)
           \/ \E j : Initialized(j)
           \/ StartThreads
           \/ Join
    PROVE  ExactInv'
<1>1. ASSUME NEW t \in Users, NEW c, Calls(t, c), c[1] # "remove",
             \/ Returns(t) /\ pc' = pc
             \/ pc' = [pc EXCEPT ![t] = "thrown"],
             UNCHANGED <<manager, call, seen, own, job>>
      PROVE  ExactInv'
  <2>1. pc[t] = "idle" /\ Script(t)[at[t]] = c
    BY <1>1, CallIsActive
  <2>2. \A k : NotRemoval(t, k)
    BY <1>1, <2>1 DEF NotRemoval
  <2>3. pc'[t] # "thrown"
    BY DEF InstanceInv, NothingThrows
  <2>4. pc \in [Users -> {"idle", "locking", "counting", "writing", "discarding", "thrown"}]
    BY ThreadTypes DEF InstanceInv
  <2>5. Returns(t) /\ pc' = pc
    BY <1>1, <2>3, <2>4
  <2> QED
    BY <1>1, <2>1, <2>2, <2>5, ReturnExact
<1>2. ASSUME NEW t \in Threads, RunAlgorithm(t)
      PROVE  ExactInv'
  <2>1. t \in Users
    BY UserTypes
  <2> QED
    BY <1>1, <1>2, <2>1 DEF RunAlgorithm, Goto, task
<1>3. ASSUME NEW j, Initialized(j)
      PROVE  ExactInv'
  BY <1>1, <1>3, UserTypes DEF Initialized, Goto, task
<1>4. CASE StartThreads
  BY <1>1, <1>4, UserTypes DEF StartThreads
<1>5. CASE Join
  BY <1>1, <1>5, UserTypes DEF Join, task
<1> QED
  BY <1>2, <1>3, <1>4, <1>5

-----------------------------------------------------------------------------
(* What is to be removed is not in use, or is.                             *)

LEMMA CountZero ==
    ASSUME InstanceInv, ExactInv, NEW l \in RefKinds, NEW r \in Ids(l),
           \A k \in {"pro", "alg"} : \A i : ~CountsFor(<<k, i>>, <<l, r>>)
    PROVE  occupied[l][r] = 0
<1>1. UsersAreThose
  BY Those DEF InstanceInv
<1>2. CountedUsers(<<l, r>>) = {}
  BY <1>1 DEF UsersAreThose
<1>3. l \in Kinds \ {"alg"}
  BY RefKindFacts
<1>4. occupied[l][r] = Cardinality(CountedUsers(<<l, r>>))
  BY <1>3 DEF ExactInv, CountsAreExact
<1> QED
  BY <1>2, <1>4, FS_EmptySet

LEMMA CountNotZero ==
    ASSUME InstanceInv, ExactInv, NEW l \in RefKinds, NEW r \in Ids(l),
           NEW k \in {"pro", "alg"}, NEW i, CountsFor(<<k, i>>, <<l, r>>)
    PROVE  occupied[l][r] # 0
<1>1. UsersAreThose
  BY Those DEF InstanceInv
<1>2. CountedUsers(<<l, r>>) # {}
  BY <1>1 DEF UsersAreThose
<1>3. l \in Kinds \ {"alg"} /\ r \in Nat \ {0}
  BY RefKindFacts, SlotFacts DEF InstanceInv
<1>4. occupied[l][r] = Cardinality(CountedUsers(<<l, r>>))
  BY <1>3 DEF ExactInv, CountsAreExact
<1>5. IsFiniteSet(CountedUsers(<<l, r>>))
  BY <1>3, UsersBound DEF ExactInv
<1> QED
  BY <1>2, <1>4, <1>5, FS_EmptySet

LEMMA ProUnused ==
    ASSUME InstanceInv, ExactInv, NEW t \in Users, NEW j \in ToRemove(t, "pro"),
           Script(t)[at[t]] = <<"remove", "pro", j>>
    PROVE  occupied["pro"][own[t]["pro"][j]] = 0
<1> DEFINE r == own[t]["pro"][j]
<1>1. r \in Ids("pro") /\ r # NoId /\ "pro" \in RefKinds
  BY OwnAreThere, SlotFacts, KindNames DEF InstanceInv, RefKinds, NoId
<1>2. ASSUME NEW k \in {"pro", "alg"}, NEW i, CountsFor(<<k, i>>, <<"pro", r>>)
      PROVE  FALSE
  <2>1. IsValid(k, i) /\ slots[k][i].pro = r
    BY <1>1, <1>2, CountedIsThere DEF ExactInv
  <2>2. PICK u \in Users : HeldBy(u, k, i)
    BY <2>1, LiveFacts DEF ExactInv
  <2>3. k = "alg" /\ HolderKnows(u, k, i)
    BY <1>1, <2>1, <2>2 DEF HeldBy
  <2>4. PICK m \in ToRemove(u, "pro") : slots[k][i].pro = own[u]["pro"][m]
    BY <2>3 DEF HolderKnows
  <2>5. u = t
    BY <2>1, <2>4, OwnOnce, KindNames
  <2> QED
    BY <2>3, <2>5 DEF HolderKnows
<1> QED
  BY <1>1, <1>2, CountZero

LEMMA ParamUnused ==
    ASSUME InstanceInv, ExactInv, NEW t \in Users, NEW j \in ToRemove(t, "param"),
           Script(t)[at[t]] = <<"remove", "param", j>>, ~LeavesNow(t)
    PROVE  occupied["param"][own[t]["param"][j]] = 0
<1> DEFINE r == own[t]["param"][j]
<1>1. r \in Ids("param") /\ r # NoId /\ "param" \in RefKinds
  BY OwnAreThere, SlotFacts, KindNames DEF InstanceInv, RefKinds, NoId
<1>2. ASSUME NEW k \in {"pro", "alg"}, NEW i, CountsFor(<<k, i>>, <<"param", r>>)
      PROVE  FALSE
  <2>1. IsValid(k, i) /\ slots[k][i].param = r
    BY <1>1, <1>2, CountedIsThere DEF ExactInv
  <2>2. PICK u \in Users : HeldBy(u, k, i)
    BY <2>1, LiveFacts DEF ExactInv
  <2>3. HolderKnows(u, k, i) /\ own[u]["param"][1] = r
    BY <2>1, <2>2 DEF HeldBy, HolderKnows
  <2>4. CASE 1 \in ToRemove(u, "param")
    <3>1. u = t
      BY <2>3, <2>4, OwnOnce, KindNames
    <3> QED
      BY <2>3, <3>1 DEF HolderKnows, LeavesNow
  <2>5. CASE u = Main /\ HasLeft(job) /\ job # 0
    <3>1. r \in Left
      BY <2>3, <2>5 DEF ExactInv, LeftInv
    <3> QED
      BY <3>1 DEF Left, ToBeRemoved
  <2> QED
    BY <2>3, <2>4, <2>5 DEF HolderKnows
<1> QED
  BY <1>1, <1>2, CountZero

\* Main has not removed anything when it tries to remove parameters too early.
LEMMA FirstIsThere ==
    ASSUME InstanceInv, LeavesNow(Main)
    PROVE  1 \in ToRemove(Main, "pro") /\ 1 \in ToRemove(Main, "param") /\ Main \in Users
           /\ Script(Main)[at[Main]] = <<"remove", "param", 1>>
<1>1. /\ JobOK /\ job # 0 /\ at[Main] = StartAt + 2 /\ Main \in Users /\ Job.paramFirst
      /\ Job.runs > 0 /\ own[Main] \in IdLists /\ GotBefore(Main, at[Main], own[Main])
  BY GotNow, UserTypes DEF LeavesNow, LeavesParam, Job
<1>2. PICK n, f : n = Job.runs /\ f = FirstRemoval(Job.runs, Job.paramFirst)
  OBVIOUS
<1>3. /\ n \in Nat /\ f \in Firsts(n) /\ StartAt = 3 * n + 3
      /\ DOMAIN Script(Main) = 1..5 * n + 6
      /\ \A m \in 1..5 * n + 6 : Script(Main)[m] = TaskCall(n, f, m)
  BY <1>1, <1>2, ScriptOfMain
<1>4. at[Main] \in DOMAIN Script(Main) /\ Script(Main)[at[Main]] = <<"remove", "param", 1>>
  BY <1>1, ParamRemoval
<1>5. Len(own[Main]["pro"]) = n /\ 1 \in DOMAIN own[Main]["pro"]
  <2>1. Len(own[Main]["pro"]) = n
    BY <1>1, <1>2, <1>3 DEF GotBefore
  <2>2. DOMAIN own[Main]["pro"] = 1..Len(own[Main]["pro"])
    BY <1>1, GotNow, KindNames
  <2> QED
    BY <1>1, <1>2, <1>3, <2>1, <2>2
<1>6. PICK l \in DOMAIN Script(Main) : Script(Main)[l] = <<"remove", "pro", 1>>
  BY <1>1, <1>4, <1>5, GotIsRemoved, KindNames
<1>7. l >= at[Main]
  <2>1. l \in 1..5 * n + 6
    BY <1>3, <1>6
  <2>2. TaskCall(n, f, l) = <<"remove", "pro", 1>>
    BY <1>3, <1>6, <2>1
  <2>3. l = RemovedAt(n, f, "pro", 1) /\ HasRemoval(n, "pro", 1)
    BY <1>3, <2>1, <2>2, TaskRemoves
  <2> QED
    BY <1>1, <1>3, <2>1, <2>3 DEF RemovedAt, HasRemoval, Firsts
<1>8. 1 \in DOMAIN own[Main]["param"]
  <2>1. Len(own[Main]["param"]) = 1
    BY <1>1, <1>3 DEF GotBefore
  <2>2. DOMAIN own[Main]["param"] = 1..Len(own[Main]["param"])
    BY <1>1, GotNow, KindNames
  <2> QED
    BY <2>1, <2>2
<1>9. at[Main] \in Nat
  BY <1>1, <1>3
<1> QED
  BY <1>1, <1>4, <1>5, <1>6, <1>7, <1>8, <1>9 DEF ToRemove

LEMMA ParamUsed ==
    ASSUME InstanceInv, ExactInv, LeavesNow(Main), pc[Main] = "idle"
    PROVE  occupied["param"][own[Main]["param"][1]] # 0
<1>1. 1 \in ToRemove(Main, "pro") /\ 1 \in ToRemove(Main, "param") /\ Main \in Users
  BY FirstIsThere
<1>2. PICK i, r : i = own[Main]["pro"][1] /\ r = own[Main]["param"][1]
  OBVIOUS
<1>3. ~Working(Main)
  BY DEF Working
<1>4. IsValid("pro", i) /\ r \in Ids("param")
  BY <1>1, <1>2, <1>3, HeldIsValid, KindNames
<1>5. slots["pro"][i].param = r
  BY <1>1, <1>2, <1>4 DEF InstanceInv, ReferInv, IsValid
<1>6. ASSUME NEW u \in Users, WorksOn(u, <<"pro", i>>)
      PROVE  FALSE
  BY <1>1, <1>2, <1>3, <1>6, OwnWork, KindNames DEF WorksOn
<1>7. CountsFor(<<"pro", i>>, <<"param", r>>)
  BY <1>4, <1>5, <1>6 DEF CountsFor, CountedBy
<1> QED
  BY <1>2, <1>4, <1>7, CountNotZero DEF RefKinds

\* When Main has been refused, its parameters are left.
LEMMA RefusedIsLeft ==
    ASSUME InstanceInv, InstanceInv', LeftInv, LeavesNow(Main), pc[Main] = "idle",
           slots' = slots, own' = own, job' = job, at' = [at EXCEPT ![Main] = @ + 1],
           pc' = pc, \A p : IsPart(p)' <=> IsPart(p)
    PROVE  LeftInv'
<1> DEFINE r == own[Main]["param"][1]
<1>1. /\ TypeOK /\ JobOK /\ job # 0 /\ Main \in Users /\ at[Main] = StartAt + 2 /\ StartAt \in Nat
      /\ LeavesParam(job) /\ at[Main] \in DOMAIN Script(Main)
      /\ 1 \in ToRemove(Main, "param") /\ Script(Main)[at[Main]] = <<"remove", "param", 1>>
  BY FirstIsThere, ParamRemoval, ThreadTypes DEF LeavesNow, InstanceInv
<1>2. at'[Main] = StartAt + 3 /\ StartAt' = StartAt /\ \A u \in Users : u # Main => at'[u] = at[u]
  BY <1>1, ThreadTypes, ScriptStays
<1>3. \A n : LeavesParam(n)' <=> LeavesParam(n)
  BY DEF LeavesParam
<1>4. Advances(Main)
  BY DEF Advances
<1>5. \A u \in Users : \A j \in ToRemove(u, "param")' : j \in ToRemove(u, "param")
  BY <1>1, <1>4, ToRemoveShrinks, KindNames
<1>6. 1 \notin ToRemove(Main, "param")'
  BY <1>1, RemovedIsOff, KindNames
<1>7. r \in Ids("param") /\ IsValid("param", r)
  BY <1>1, HeldIsValid, KindNames DEF Working
<1>8. \A u \in Users : \A j \in ToRemove(u, "param") : own[u]["param"][j] = r => u = Main /\ j = 1
  BY <1>1, OwnOnce, KindNames
<1>9. r \notin Left
  BY <1>1 DEF Left, ToBeRemoved
<1>10. r \in Left'
  <2>1. ~ToBeRemoved(r)'
    BY <1>5, <1>6, <1>8 DEF ToBeRemoved
  <2>2. ~IsPart(r)
    BY <1>1 DEF InstanceInv, PartInv, IsPart
  <2>3. IsValid("param", r)' /\ r \in Ids("param")'
    BY <1>7 DEF IsValid, Ids
  <2> QED
    BY <2>1, <2>2, <2>3 DEF Left
<1>11. \A q : q # r => (ToBeRemoved(q)' <=> ToBeRemoved(q))
  <2>1. \A u \in Users : u # Main => ToRemove(u, "param")' = ToRemove(u, "param")
    BY <1>2, ScriptStays DEF ToRemove
  <2>2. \A j \in ToRemove(Main, "param") : own[Main]["param"][j] = r
    <3>1. Len(own[Main]["param"]) = 1
      <4>1. at[Main] > 1 /\ GotBefore(Main, at[Main], own[Main])
        BY <1>1, GotNow
      <4> QED
        BY <1>1, <4>1 DEF GotBefore
    <3>2. DOMAIN own[Main]["param"] = 1..Len(own[Main]["param"])
      BY <1>1, OwnType, KindNames
    <3> QED
      BY <3>1, <3>2 DEF ToRemove
  <2> QED
    BY <1>5, <2>1, <2>2 DEF ToBeRemoved
<1>12. Left' = Left \cup {r}
  <2>1. \A q : q # r => (q \in Left' <=> q \in Left)
    BY <1>11 DEF Left, IsValid, Ids
  <2> QED
    BY <1>10, <2>1
<1>13. {n \in 1..job' : HasLeft(n)'} = {n \in 1..job : HasLeft(n)} \cup {job}
  <2>1. job \in 1..job
    BY <1>1, TasksAssumption DEF JobOK
  <2>2. HasLeft(job)'
    BY <1>1, <1>2, <1>3 DEF HasLeft
  <2>3. \A n : n # job => (HasLeft(n)' <=> HasLeft(n))
    BY <1>3 DEF HasLeft
  <2> QED
    BY <2>1, <2>2, <2>3
<1>14. job \notin {n \in 1..job : HasLeft(n)}
  BY <1>1 DEF HasLeft
<1>15. IsFiniteSet({n \in 1..job : HasLeft(n)})
  <2>1. IsFiniteSet(1..job)
    BY <1>1, TasksAssumption, FS_Interval DEF JobOK
  <2> QED
    BY <2>1, FS_Subset
<1>16. IsFiniteSet(Left') /\ Cardinality(Left') = Cardinality({n \in 1..job' : HasLeft(n)'})
  <2>1. PICK A, B : A = Left /\ B = {n \in 1..job : HasLeft(n)}
    OBVIOUS
  <2>2. IsFiniteSet(A) /\ IsFiniteSet(B) /\ Cardinality(A) = Cardinality(B)
    BY <1>15, <2>1 DEF LeftInv
  <2>3. IsFiniteSet(A \cup {r}) /\ Cardinality(A \cup {r}) = Cardinality(A) + 1
    BY <1>9, <2>1, <2>2, FS_AddElement
  <2>4. Cardinality(B \cup {job}) = Cardinality(B) + 1
    BY <1>14, <2>1, <2>2, FS_AddElement
  <2> QED
    BY <1>12, <1>13, <2>1, <2>2, <2>3, <2>4
<1>17. job' # 0 /\ LeavesParam(job)' /\ at'[Main] = StartAt' + 2 => pc'[Main] = "idle"
  OBVIOUS
<1> QED
  BY <1>10, <1>16, <1>17 DEF LeftInv

LEMMA RemoveCheckExact ==
    ASSUME InstanceInv, ExactInv, NEW t \in Users, NEW k \in Kinds, NEW j, RemoveCheck(t, k, j)
    PROVE  ExactInv'
<1>1. /\ InstanceInv' /\ TypeOK /\ pc[t] = "idle" /\ Script(t)[at[t]] = <<"remove", k, j>>
      /\ Active(t) /\ ~Working(t)
  BY RemoveCheckKeeps, CallIsActive DEF RemoveCheck, InstanceInv, Working
<1>2. /\ pc \in [Users -> {"idle", "locking", "counting", "writing", "discarding", "thrown"}]
      /\ call \in [Users -> CallStates]
  BY <1>1 DEF TypeOK
<1>3. /\ slots' = slots /\ occupied' = occupied /\ own' = own /\ job' = job /\ seen' = seen
      /\ Advances(t) /\ \A u \in Users : u # t => pc'[u] = pc[u] /\ call'[u] = call[u]
      /\ pc'[t] \in {"idle", "locking", "thrown"}
  BY <1>1, <1>2 DEF RemoveCheck, Goto, Returns, Advances, manager, task
<1>4. k \in {"alg", "pro", "rcr", "param"} /\ j \in ToRemove(t, k)
  BY <1>1, GotNow, RemovedIsOn DEF Active
<1>5. IsValid(k, own[t][k][j])
  BY <1>1, <1>4, HeldIsValid
<1>6. CASE at' = at /\ ~LeavesNow(t)
  BY <1>1, <1>3, <1>6, IdleKeeps DEF Passes
<1>7. CASE k \in {"alg", "pro"}
  <2>1. Removable(k, own[t][k][j])
    BY <1>1, <1>4, <1>5, <1>7, ProUnused DEF Removable
  <2>2. at' = at
    BY <2>1 DEF RemoveCheck
  <2>3. ~LeavesNow(t)
    BY <1>1, <1>7, FirstIsThere DEF LeavesNow
  <2> QED
    BY <1>6, <2>2, <2>3
<1>8. CASE k = "rcr"
  <2>1. ~LeavesNow(t)
    BY <1>1, <1>8, FirstIsThere DEF LeavesNow
  <2>2. CASE at' # at
    <3>1. Returns(t) /\ pc' = pc /\ call' = call
      BY <2>2 DEF RemoveCheck
    <3>2. NotRemoval(t, "pro") /\ NotRemoval(t, "alg") /\ NotRemoval(t, "param")
      BY <1>1, <1>8 DEF NotRemoval
    <3> QED
      BY <1>1, <1>3, <3>1, <3>2, ReturnExact DEF RemoveCheck
  <2> QED
    BY <1>6, <2>1, <2>2
<1>9. CASE k = "param" /\ ~LeavesNow(t)
  <2>1. Removable(k, own[t][k][j])
    BY <1>1, <1>4, <1>5, <1>9, ParamUnused DEF Removable
  <2>2. at' = at
    BY <2>1 DEF RemoveCheck
  <2> QED
    BY <1>6, <1>9, <2>2
<1>10. CASE k = "param" /\ LeavesNow(t)
  <2>1. t = Main /\ LeavesNow(Main) /\ j = 1
    BY <1>1, <1>10, FirstIsThere DEF LeavesNow
  <2>2. ~Removable("param", own[Main]["param"][1])
    BY <1>1, <2>1, ParamUsed DEF Removable
  <2>3. at' = [at EXCEPT ![t] = @ + 1] /\ pc' = pc /\ call' = call
    BY <1>10, <2>1, <2>2 DEF RemoveCheck, Returns
  <2>4. Calm(t) /\ DropsStay /\ SeenInv(t)'
    BY <1>1, <1>3, IdleIsCalm
  <2>5. Passes(t, "pro") /\ Passes(t, "alg")
    BY <1>1, <1>10, <2>3 DEF Passes, NotRemoval
  <2>6. MostExact'
    BY <1>1, <1>3, <2>3, <2>4, <2>5, QuietMost
  <2>7. LeftInv'
    BY <1>1, <1>3, <2>1, <2>3, <2>4, RefusedIsLeft, CalmIsPart DEF ExactInv
  <2> QED
    BY <2>6, <2>7 DEF MostExact, ExactInv
<1> QED
  BY <1>4, <1>7, <1>8, <1>9, <1>10

-----------------------------------------------------------------------------
(* What an object counts.                                                  *)

\* List c has what o refers to among the kinds K, each once.
Complete(c, o, K) ==
    /\ c \in Seq(Kinds \X Nat)
    /\ \A n \in DOMAIN c : c[n][1] \in K /\ c[n][2] = o[c[n][1]]
    /\ \A n, m \in DOMAIN c : c[n] = c[m] => n = m
    /\ \A l \in K : o[l] # NoId => \E n \in DOMAIN c : c[n] = <<l, o[l]>>

LEMMA CompleteMore ==
    ASSUME NEW o, NEW K, NEW l \in Kinds, l \notin K, o[l] \in Nat,
           NEW c, Complete(c, o, K)
    PROVE  Complete(c \o Count(o, l), o, K \cup {l})
<1>1. c \in Seq(Kinds \X Nat) /\ Len(c) \in Nat /\ DOMAIN c = 1..Len(c)
  BY DEF Complete
<1>2. CASE o[l] = NoId
  <2>1. Count(o, l) = <<>>
    BY <1>2 DEF Count
  <2>2. c \o <<>> = c
    BY <1>1
  <2> QED
    BY <1>2, <2>1, <2>2 DEF Complete
<1>3. CASE o[l] # NoId
  <2>1. PICK d : d = c \o << <<l, o[l]>> >>
    OBVIOUS
  <2>2. c \o Count(o, l) = d
    BY <1>3, <2>1 DEF Count
  <2>3. /\ d \in Seq(Kinds \X Nat) /\ Len(d) = Len(c) + 1 /\ DOMAIN d = 1..Len(c) + 1
        /\ \A n \in 1..Len(c) : d[n] = c[n]
        /\ d[Len(c) + 1] = <<l, o[l]>>
    <3>1. <<l, o[l]>> \in Kinds \X Nat
      OBVIOUS
    <3>2. << <<l, o[l]>> >> \in Seq(Kinds \X Nat)
      BY <3>1
    <3> QED
      BY <1>1, <2>1, <3>2
  <2>4. \A n \in DOMAIN d : (n \in DOMAIN c /\ d[n] = c[n]) \/ (n = Len(c) + 1 /\ d[n] = <<l, o[l]>>)
    BY <1>1, <2>3
  <2>5. \A n \in DOMAIN d : d[n][1] \in K \cup {l} /\ d[n][2] = o[d[n][1]]
    BY <2>4 DEF Complete
  <2>6. \A n, m \in DOMAIN d : d[n] = d[m] => n = m
    <3>1. \A n \in DOMAIN c : c[n] # <<l, o[l]>>
      BY DEF Complete
    <3>2. \A n, m \in DOMAIN c : c[n] = c[m] => n = m
      BY DEF Complete
    <3> QED
      BY <2>4, <3>1, <3>2
  <2>7. ASSUME NEW x \in K \cup {l}, o[x] # NoId
        PROVE  \E n \in DOMAIN d : d[n] = <<x, o[x]>>
    <3>1. CASE x = l
      <4>1. Len(c) + 1 \in DOMAIN d
        BY <1>1, <2>3
      <4> QED
        BY <2>3, <3>1, <4>1
    <3>2. CASE x # l
      <4>1. PICK n \in DOMAIN c : c[n] = <<x, o[x]>>
        BY <2>7, <3>2 DEF Complete
      <4>2. n \in DOMAIN d /\ d[n] = c[n]
        BY <1>1, <2>3
      <4> QED
        BY <4>1, <4>2
    <3> QED
      BY <3>1, <3>2
  <2> QED
    BY <2>2, <2>3, <2>5, <2>6, <2>7 DEF Complete
<1> QED
  BY <1>2, <1>3

\* All that is counted, given that problems refer to no problem and no record.
CountsAll(c, o) ==
    /\ c \in Seq(Kinds \X Nat)
    /\ \A n \in DOMAIN c : c[n][1] \in RefKinds /\ c[n][2] = o[c[n][1]]
    /\ \A n, m \in DOMAIN c : c[n] = c[m] => n = m
    /\ \A l \in RefKinds : o[l] # NoId => \E n \in DOMAIN c : c[n] = <<l, o[l]>>

LEMMA CountsAreAll ==
    ASSUME NEW o \in Objects, NEW k \in {"pro", "alg"},
           k = "pro" => o.pro = NoId /\ o.rcr = NoId
    PROVE  CountsAll(Counts(o, k), o) /\ CountsAll(CountsBack(o, k), o)
<1>1. o["param"] \in Nat /\ o["rnd"] \in Nat /\ o["pro"] \in Nat /\ o["rcr"] \in Nat
  BY DEF Objects
<1>2. Complete(<<>>, o, {})
  BY DEF Complete
<1>3. ASSUME NEW l \in Kinds, o[l] \in Nat
      PROVE  Complete(Count(o, l), o, {l})
  <2>1. Complete(<<>> \o Count(o, l), o, {} \cup {l})
    BY <1>2, <1>3, CompleteMore
  <2>2. <<>> \o Count(o, l) = Count(o, l)
    BY DEF Count
  <2>3. {} \cup {l} = {l}
    OBVIOUS
  <2> QED
    BY <2>1, <2>2, <2>3
<1>4. ASSUME NEW a \in Kinds, NEW b \in Kinds, a # b, o[a] \in Nat, o[b] \in Nat
      PROVE  Complete(Count(o, a) \o Count(o, b), o, {a, b})
  <2>1. Complete(Count(o, a) \o Count(o, b), o, {a} \cup {b})
    BY <1>3, <1>4, CompleteMore
  <2>2. {a} \cup {b} = {a, b}
    OBVIOUS
  <2> QED
    BY <2>1, <2>2
<1>5. ASSUME NEW a \in Kinds, NEW b \in Kinds, NEW c \in Kinds, NEW d \in Kinds,
             a # b, c # a, c # b, d # a, d # b, d # c,
             o[a] \in Nat, o[b] \in Nat, o[c] \in Nat, o[d] \in Nat
      PROVE  Complete(Count(o, a) \o Count(o, b) \o Count(o, c) \o Count(o, d), o, {a, b, c, d})
  <2>1. Complete(Count(o, a) \o Count(o, b), o, {a, b})
    BY <1>4, <1>5
  <2>2. Complete((Count(o, a) \o Count(o, b)) \o Count(o, c), o, {a, b} \cup {c})
    BY <1>5, <2>1, CompleteMore
  <2>3. {a, b} \cup {c} = {a, b, c}
    OBVIOUS
  <2>4. Complete(((Count(o, a) \o Count(o, b)) \o Count(o, c)) \o Count(o, d), o, {a, b, c} \cup {d})
    BY <1>5, <2>2, <2>3, CompleteMore
  <2>5. {a, b, c} \cup {d} = {a, b, c, d}
    OBVIOUS
  <2> QED
    BY <2>4, <2>5
<1>6. CASE k = "pro"
  <2>1. Counts(o, k) = Count(o, "rnd") \o Count(o, "param") /\ CountsBack(o, k) = Counts(o, k)
    BY <1>6 DEF Counts, CountsBack
  <2>2. Complete(Counts(o, k), o, {"rnd", "param"})
    BY <1>1, <1>4, <2>1, KindNames
  <2>3. CountsAll(Counts(o, k), o)
    BY <1>6, <2>2 DEF Complete, CountsAll, RefKinds
  <2> QED
    BY <2>1, <2>3
<1>7. CASE k = "alg"
  <2>1. /\ Counts(o, k) = Count(o, "param") \o Count(o, "rnd") \o Count(o, "pro") \o Count(o, "rcr")
        /\ CountsBack(o, k) = Count(o, "pro") \o Count(o, "rcr") \o Count(o, "rnd") \o Count(o, "param")
    BY <1>7 DEF Counts, CountsBack
  <2>2. Complete(Count(o, "param") \o Count(o, "rnd") \o Count(o, "pro") \o Count(o, "rcr"), o,
                 {"param", "rnd", "pro", "rcr"})
    BY <1>1, <1>5, KindNames, ZenonT(30)
  <2>3. Complete(Count(o, "pro") \o Count(o, "rcr") \o Count(o, "rnd") \o Count(o, "param"), o,
                 {"pro", "rcr", "rnd", "param"})
    BY <1>1, <1>5, KindNames, ZenonT(30)
  <2> QED
    <3>1. /\ {"param", "rnd", "pro", "rcr"} = RefKinds
          /\ {"pro", "rcr", "rnd", "param"} = RefKinds
      BY DEF RefKinds
    <3>2. Complete(Counts(o, k), o, RefKinds) /\ Complete(CountsBack(o, k), o, RefKinds)
      BY <2>1, <2>2, <2>3, <3>1
    <3> QED
      BY <3>2 DEF Complete, CountsAll
<1> QED
  BY <1>6, <1>7

-----------------------------------------------------------------------------
(* The steps within a call.                                                *)

\* A thread that is at work has its call, and its object is its own.
LEMMA WorkHolds ==
    ASSUME InstanceInv, NEW t \in Users, Working(t)
    PROVE  /\ Holds(t, call[t].kind, call[t].id)
           /\ \A u \in Users : WorksOn(u, <<call[t].kind, call[t].id>>) => u = t
<1>1. AtCallInv(t) /\ pc[t] \notin {"idle", "thrown"} /\ call[t].op \in {"add", "remove"}
  BY WorkFacts DEF InstanceInv, Working
<1>2. WorksOn(t, <<call[t].kind, call[t].id>>)
  BY WorkFacts
<1>3. \A u \in Users : WorksOn(u, <<call[t].kind, call[t].id>>) => u = t
  BY <1>2, WorkFacts
<1>4. CASE call[t].op = "add"
  BY <1>2, <1>3, <1>4 DEF Holds
<1>5. CASE call[t].op = "remove"
  <2>1. PICK j \in DOMAIN own[t][call[t].kind] :
          /\ Script(t)[at[t]] = <<"remove", call[t].kind, j>>
          /\ call[t].id = own[t][call[t].kind][j]
    BY <1>1, <1>5 DEF AtCallInv
  <2>2. Active(t) /\ at[t] \in Nat
    BY <1>1, BusyIsActive, GotNow
  <2>3. j \in ToRemove(t, call[t].kind)
    BY <2>1, <2>2 DEF ToRemove, Active
  <2> QED
    BY <1>3, <2>1, <2>3 DEF Holds
<1> QED
  BY <1>1, <1>4, <1>5

\* Steps of a thread at work that leave the registry and its call as they are.
LEMMA WorkingKeeps ==
    ASSUME InstanceInv, InstanceInv', ExactInv, NEW t \in Users, Working(t), Working(t)',
           call' = call, UNCHANGED <<manager, at, own, task>>,
           \A u \in Users : u # t => pc'[u] = pc[u] /\ seen'[u] = seen[u],
           SeenInv(t)'
    PROVE  ExactInv'
<1>1. slots' = slots /\ occupied' = occupied /\ at' = at /\ own' = own /\ job' = job
  BY DEF manager, task
<1>2. \A u \in Users : WorkGoesOn(u)
  BY DEF WorkGoesOn, Working
<1>3. Calm(t) /\ DropsStay
  BY <1>1, <1>2 DEF Calm, Advances, DropsStay
<1>4. pc[t] # "idle"
  BY DEF Working
<1> QED
  BY <1>1, <1>3, <1>4, QuietKeeps DEF Passes

LEMMA CountReadExact ==
    ASSUME InstanceInv, ExactInv, NEW t \in Users, CountRead(t)
    PROVE  ExactInv'
<1>1. InstanceInv' /\ TypeOK
  BY CountReadKeeps DEF InstanceInv
<1>2. pc \in [Users -> {"idle", "locking", "counting", "writing", "discarding", "thrown"}]
      /\ seen \in [Users -> [size : Nat, count : 0..Modulus - 1]]
  BY <1>1 DEF TypeOK
<1>3. /\ pc[t] = "counting" /\ pc'[t] = "writing" /\ call' = call
      /\ \A u \in Users : u # t => pc'[u] = pc[u] /\ seen'[u] = seen[u]
      /\ UNCHANGED <<manager, at, own, task>> /\ occupied' = occupied
  BY <1>2 DEF CountRead, HasNext, Goto, manager
<1>4. seen'[t].count = occupied[Next1(t)[1]][Next1(t)[2]]
  BY <1>2 DEF CountRead
<1>5. SeenInv(t)'
  BY <1>3, <1>4 DEF SeenInv, Next1
<1> QED
  BY <1>1, <1>3, <1>5, WorkingKeeps DEF Working

\* What an object drops is not in use.
LEMMA DropUnused ==
    ASSUME InstanceInv, ExactInv, NEW t \in Users, Working(t), Removes(t), call[t].todo = <<>>,
           call[t].drop # <<>>
    PROVE  Removable(Head(call[t].drop)[1], Head(call[t].drop)[2])
<1> DEFINE l == Head(call[t].drop)[1]
           n == Head(call[t].drop)[2]
           k == call[t].kind
           i == call[t].id
<1>1. /\ l \in {"rnd", "param"} /\ n \in Ids(l) /\ slots[l][n] # NULL
      /\ call[t].drop \in Seq(Kinds \X Nat) /\ call[t].drop[1] = <<l, n>>
      /\ slots[k][i] # NULL => l = "rnd" /\ n = slots[k][i].rnd /\ HasRandom(k, i)
      /\ slots[k][i] = NULL => l = "param" /\ Dropped(t) = call[t].drop
  BY DropNeeds
<1>2. l \in RefKinds /\ l \in Kinds /\ n # NoId /\ n \in DOMAIN slots[l]
  BY <1>1, SlotFacts, KindNames DEF RefKinds, NoId, InstanceInv
<1>3. /\ k \in {"pro", "alg"} /\ i \in Ids(k) /\ WorksOn(t, <<k, i>>)
  BY WorkFacts
<1>4. ASSUME NEW c \in {"pro", "alg"}, NEW m, CountsFor(<<c, m>>, <<l, n>>)
      PROVE  FALSE
  <2>1. IsValid(c, m) /\ m \in Ids(c) /\ slots[c][m][l] = n /\ HasRandom(c, m)
    BY <1>2, <1>4, CountedIsThere DEF ExactInv
  <2>2. CASE slots[k][i] # NULL
    <3>1. l = "rnd" /\ n = slots[k][i].rnd /\ HasRandom(k, i)
      BY <1>1, <2>2
    <3>2. RandomInv
      BY DEF InstanceInv
    <3>3. c = k /\ m = i
      BY <1>3, <2>1, <3>1, <3>2 DEF RandomInv
    <3>4. CountedBy(<<k, i>>, <<l, n>>)
      BY <1>4, <3>3 DEF CountsFor
    <3> QED
      BY <1>3, <3>4 DEF CountedBy, Removes
  <2>3. CASE slots[k][i] = NULL
    <3>1. l = "param" /\ Dropped(t) = call[t].drop
      BY <1>1, <2>3
    <3>2. 1 \in DOMAIN Dropped(t) /\ Dropped(t)[1] = <<l, n>>
      BY <1>1, <3>1
    <3>3. PICK u \in Users : HeldBy(u, c, m)
      BY <2>1, LiveFacts DEF ExactInv
    <3>4. HolderKnows(u, c, m) /\ own[u]["param"][1] = n
      BY <2>1, <3>1, <3>3 DEF HeldBy, HolderKnows
    <3>5. CASE 1 \in ToRemove(u, "param")
      <4>1. PartInv
        BY DEF InstanceInv
      <4>2. own[u]["param"][1] # Dropped(t)[1][2]
        BY <3>2, <3>5, <4>1 DEF PartInv
      <4> QED
        BY <3>2, <3>4, <4>2
    <3>6. CASE u = Main /\ HasLeft(job) /\ job # 0
      <4>1. n \in Left
        BY <3>4, <3>6 DEF ExactInv, LeftInv
      <4>2. IsPart(n)
        BY <3>2 DEF IsPart
      <4> QED
        BY <4>1, <4>2 DEF Left
    <3> QED
      BY <3>4, <3>5, <3>6 DEF HolderKnows
  <2> QED
    BY <2>2, <2>3
<1>5. occupied[l][n] = 0
  BY <1>1, <1>2, <1>4, CountZero
<1> QED
  BY <1>1, <1>2, <1>5 DEF Removable, IsValid

LEMMA DropCheckExact ==
    ASSUME InstanceInv, ExactInv, NEW t \in Users, DropCheck(t)
    PROVE  ExactInv'
<1>1. InstanceInv' /\ TypeOK
  BY DropCheckKeeps DEF InstanceInv
<1>2. pc \in [Users -> {"idle", "locking", "counting", "writing", "discarding", "thrown"}]
  BY <1>1 DEF TypeOK
<1>3. Working(t) /\ Removes(t) /\ call[t].todo = <<>> /\ call[t].drop # <<>>
  BY DEF DropCheck, Dropping, Working, Removes
<1>4. Goto(t, "discarding") /\ call' = call
  BY <1>3, DropUnused DEF DropCheck
<1>5. pc'[t] = "discarding" /\ \A u \in Users : u # t => pc'[u] = pc[u]
  BY <1>2, <1>4 DEF Goto
<1>6. UNCHANGED <<manager, at, own, task>> /\ seen' = seen
  BY DEF DropCheck
<1>7. SeenInv(t)' /\ Working(t)'
  BY <1>5 DEF SeenInv, Working
<1> QED
  BY <1>1, <1>3, <1>4, <1>5, <1>6, <1>7, WorkingKeeps

-----------------------------------------------------------------------------
(* A count is written.                                                     *)

\* An object has one holder.
LEMMA HolderIsOne ==
    ASSUME InstanceInv, NEW t \in Users, NEW u \in Users, NEW k \in Kinds, NEW i,
           Holds(t, k, i), Holds(u, k, i)
    PROVE  t = u
<1>1. CASE (\E j \in ToRemove(t, k) : own[t][k][j] = i) /\ (\E j \in ToRemove(u, k) : own[u][k][j] = i)
  BY <1>1, OwnOnce
<1>2. CASE (\E j \in ToRemove(t, k) : own[t][k][j] = i) /\ WorksOn(u, <<k, i>>) /\ call[u].op = "add"
  BY <1>2, OwnWork DEF Removes
<1>3. CASE WorksOn(t, <<k, i>>) /\ call[t].op = "add" /\ (\E j \in ToRemove(u, k) : own[u][k][j] = i)
  BY <1>3, OwnWork DEF Removes
<1>4. CASE WorksOn(t, <<k, i>>) /\ WorksOn(u, <<k, i>>)
  BY <1>4, WorkFacts DEF WorksOn
<1> QED
  BY <1>1, <1>2, <1>3, <1>4 DEF Holds

\* The head of what is to be counted and the rest.
Splits(s) ==
    /\ Tail(s) \in Seq(Kinds \X Nat) /\ Head(s) = s[1] /\ 1 \in DOMAIN s
    /\ \A n \in DOMAIN Tail(s) : n + 1 \in DOMAIN s /\ n + 1 # 1 /\ Tail(s)[n] = s[n + 1]
    /\ \A n \in DOMAIN s : n # 1 => \E m \in DOMAIN Tail(s) : Tail(s)[m] = s[n]
    /\ \A n, m \in DOMAIN Tail(s) : n + 1 = m + 1 => n = m

LEMMA ListSplits ==
    ASSUME NEW s \in Seq(Kinds \X Nat), s # <<>>
    PROVE  Splits(s)
<1>1. /\ Len(s) \in Nat /\ Len(s) > 0 /\ DOMAIN s = 1..Len(s)
      /\ Tail(s) \in Seq(Kinds \X Nat) /\ Len(Tail(s)) = Len(s) - 1
      /\ DOMAIN Tail(s) = 1..Len(s) - 1
      /\ \A n \in 1..Len(s) - 1 : Tail(s)[n] = s[n + 1]
  OBVIOUS
<1>2. \A n \in DOMAIN Tail(s) : n \in Nat /\ n >= 1 /\ n + 1 \in DOMAIN s
  BY <1>1
<1>3. ASSUME NEW n \in DOMAIN s, n # 1
      PROVE  \E m \in DOMAIN Tail(s) : Tail(s)[m] = s[n]
  <2>1. n - 1 \in DOMAIN Tail(s) /\ (n - 1) + 1 = n
    BY <1>1, <1>3
  <2> QED
    BY <1>1, <2>1
<1>4. Head(s) = s[1] /\ 1 \in DOMAIN s
  BY <1>1
<1> QED
  BY <1>1, <1>2, <1>3, <1>4 DEF Splits

\* A reference that thread t has still to count.
LEMMA TodoFacts ==
    ASSUME InstanceInv, NEW t \in Users, Working(t), TodoInv(t), call[t].todo # <<>>
    PROVE  LET k == call[t].kind
               i == call[t].id
               y == Next1(t)
           IN  /\ k \in {"pro", "alg"} /\ i \in Ids(k) /\ IsValid(k, i) /\ slots[k][i] # NULL
               /\ y[1] \in RefKinds /\ y[2] \in Ids(y[1]) /\ y[2] # NoId
               /\ y = <<y[1], y[2]>> /\ y[2] = slots[k][i][y[1]]
               /\ Splits(call[t].todo) /\ y = call[t].todo[1]
               /\ \A n \in DOMAIN Tail(call[t].todo) : Tail(call[t].todo)[n] # y
               /\ HasRandom(k, i)
<1> DEFINE k == call[t].kind
           i == call[t].id
           y == Next1(t)
<1>1. /\ k \in {"pro", "alg"} /\ i \in Ids(k) /\ i \in DOMAIN slots[k] /\ TypeOK
      /\ call[t].todo \in Seq(Kinds \X Nat) /\ WorkInv(t)
  BY WorkDomain, CallType DEF InstanceInv
<1>2. slots[k][i] # NULL
  BY <1>1 DEF WorkInv
<1>3. Splits(call[t].todo) /\ y = call[t].todo[1]
  BY <1>1, ListSplits DEF Next1, Splits
<1>4. 1 \in DOMAIN call[t].todo
  BY <1>3 DEF Splits
<1>5. y \in Kinds \X Nat
  BY <1>1, <1>3, <1>4
<1>6. y[1] \in RefKinds /\ y[2] = slots[k][i][y[1]]
  BY <1>2, <1>3, <1>4 DEF TodoInv, RefKinds
<1>7. y[2] \in Ids(y[1]) /\ y[2] # NoId
  BY <1>1, <1>6, CountNeeds, RefKindFacts, SlotFacts DEF NoId
<1>8. ASSUME NEW n \in DOMAIN Tail(call[t].todo), Tail(call[t].todo)[n] = y
      PROVE  FALSE
  <2>1. n + 1 \in DOMAIN call[t].todo /\ n + 1 # 1 /\ call[t].todo[n + 1] = call[t].todo[1]
    BY <1>3, <1>8 DEF Splits
  <2> QED
    BY <1>2, <1>4, <2>1 DEF TodoInv
<1>9. HasRandom(k, i)
  <2>1. ASSUME NEW u \in Users, WorksOn(u, <<k, i>>), Removes(u)
        PROVE  call[u].drop # <<>>
    <3>1. u = t
      BY <2>1, WorkHolds
    <3> QED
      BY <1>1, <1>2, <2>1, <3>1 DEF WorkInv
  <2> QED
    BY <1>2, <2>1 DEF HasRandom
<1>10. y = <<y[1], y[2]>>
  BY <1>5
<1> QED
  BY <1>1, <1>2, <1>3, <1>6, <1>7, <1>8, <1>9, <1>10 DEF IsValid

\* No two threads change the same count.
LEMMA SoleWriter ==
    ASSUME InstanceInv, ExactInv, NEW t \in Users, NEW u \in Users, Working(t), Working(u),
           call[t].todo # <<>>, call[u].todo # <<>>, Next1(t) = Next1(u)
    PROVE  t = u
<1> DEFINE k == call[t].kind
           i == call[t].id
           c == call[u].kind
           m == call[u].id
           l == Next1(t)[1]
<1>1. /\ k \in {"pro", "alg"} /\ i \in Ids(k) /\ IsValid(k, i) /\ slots[k][i] # NULL
      /\ l \in RefKinds /\ slots[k][i][l] = Next1(t)[2] /\ Next1(t)[2] # NoId /\ HasRandom(k, i)
  BY TodoFacts DEF ExactInv
<1>2. /\ c \in {"pro", "alg"} /\ m \in Ids(c) /\ IsValid(c, m) /\ slots[c][m] # NULL
      /\ slots[c][m][l] = Next1(t)[2] /\ HasRandom(c, m)
  BY TodoFacts DEF ExactInv
<1>3. c = k => u = t
  BY WorkFacts
<1>4. CASE l = "rnd"
  <2>1. c = k /\ m = i
    BY <1>1, <1>2, <1>4 DEF InstanceInv, RandomInv
  <2> QED
    BY <1>3, <2>1
<1>5. CASE l # "rnd"
  <2>1. l \in {"param", "pro", "rcr"}
    BY <1>1, <1>5 DEF RefKinds
  <2>2. HeldInv /\ LeftInv
    BY DEF ExactInv
  <2>3. PICK v \in Users : HeldBy(v, k, i)
    BY <1>1, <2>2, LiveFacts
  <2>4. PICK w \in Users : HeldBy(w, c, m)
    BY <1>2, <2>2, LiveFacts
  <2>5. v = w
    <3>1. slots[k][i][l] = slots[c][m][l] /\ slots[k][i][l] # NoId
      BY <1>1, <1>2
    <3>2. k \in {"pro", "alg"} /\ c \in {"pro", "alg"}
      BY <1>1, <1>2
    <3> HIDE DEF k, i, c, m, l
    <3> QED
      BY <2>1, <2>2, <2>3, <2>4, <3>1, <3>2, SoleHolder
  <2>6. v = t
    <3>1. Holds(v, k, i) /\ Holds(t, k, i) /\ k \in Kinds
      BY <1>1, <2>3, WorkHolds, KindNames DEF HeldBy
    <3> QED
      BY <3>1, HolderIsOne
  <2>7. w = u
    <3>1. Holds(w, c, m) /\ Holds(u, c, m) /\ c \in Kinds
      BY <1>2, <2>4, WorkHolds, KindNames DEF HeldBy
    <3> QED
      BY <3>1, HolderIsOne
  <2> QED
    BY <2>5, <2>6, <2>7
<1> QED
  BY <1>4, <1>5

\* What the writing of a count does to its thread.
WrittenBy(t) ==
    /\ call'[t].kind = call[t].kind /\ call'[t].id = call[t].id /\ call'[t].op = call[t].op
    /\ call'[t].drop = call[t].drop /\ call'[t].todo = Tail(call[t].todo)
    /\ \A u \in Users : u # t => pc'[u] = pc[u] /\ call'[u] = call[u] /\ seen'[u] = seen[u]
    /\ pc'[t] = "counting"
    /\ slots' = slots /\ own' = own /\ at' = at /\ job' = job

LEMMA WriteFacts ==
    ASSUME InstanceInv, NEW t \in Users, CountWrite(t)
    PROVE  /\ Working(t) /\ call[t].todo # <<>> /\ WrittenBy(t) /\ Calm(t) /\ DropsStay
           /\ \A u \in Users : \A x : WorksOn(u, x)' <=> WorksOn(u, x)
<1>1. /\ TypeOK /\ AtCallInv(t) /\ pc[t] = "writing" /\ Working(t)
  BY DEF InstanceInv, CountWrite, Working
<1>2. call[t].todo # <<>>
  BY <1>1 DEF AtCallInv
<1>3. /\ pc \in [Users -> {"idle", "locking", "counting", "writing", "discarding", "thrown"}]
      /\ call \in [Users -> CallStates]
      /\ seen \in [Users -> [size : Nat, count : 0..Modulus - 1]]
  BY <1>1 DEF TypeOK
<1>4. Tail(call[t].todo) \in Seq(Kinds \X Nat)
  BY <1>1, <1>2, CountNeeds
<1>5. call' = [call EXCEPT ![t].todo = Tail(call[t].todo)]
  BY <1>3 DEF CountWrite
<1>6. /\ \A u \in Users : u # t => call'[u] = call[u]
      /\ call'[t].todo = Tail(call[t].todo) /\ call'[t].op = call[t].op
      /\ call'[t].kind = call[t].kind
      /\ call'[t].id = call[t].id /\ call'[t].drop = call[t].drop
  BY <1>3, <1>4, <1>5, TodoSet
<1>7. pc'[t] = "counting" /\ \A u \in Users : u # t => pc'[u] = pc[u] /\ seen'[u] = seen[u]
  BY <1>3 DEF CountWrite, Goto
<1>8. slots' = slots /\ own' = own /\ at' = at /\ job' = job
  BY DEF CountWrite, task
<1>9. \A u \in Users : WorkGoesOn(u)
  BY <1>1, <1>6, <1>7 DEF WorkGoesOn, Working
<1>10. Calm(t) /\ DropsStay
  BY <1>6, <1>8, <1>9 DEF Calm, Advances, DropsStay
<1>11. \A u \in Users : \A x : WorksOn(u, x)' <=> WorksOn(u, x)
  BY <1>9, WorkKept
<1> QED
  BY <1>1, <1>2, <1>6, <1>7, <1>8, <1>10, <1>11 DEF WrittenBy

\* It makes the object at hand a user of what is counted, or no user any more.
LEMMA WrittenUser ==
    ASSUME InstanceInv, NEW t \in Users, CountWrite(t), TodoInv(t),
           NEW k, k = call[t].kind, NEW i, i = call[t].id, NEW y, y = Next1(t)
    PROVE  /\ CountsFor(<<k, i>>, y) <=> call[t].op = "remove"
           /\ CountsFor(<<k, i>>, y)' <=> call[t].op = "add"
           /\ \A c \in {"pro", "alg"} : \A m : \A l \in RefKinds, r \in Nat \ {0} :
                <<c, m>> # <<k, i>> \/ <<l, r>> # y =>
                  (CountsFor(<<c, m>>, <<l, r>>)' <=> CountsFor(<<c, m>>, <<l, r>>))
<1>1. /\ Working(t) /\ call[t].todo # <<>> /\ WrittenBy(t)
      /\ \A u \in Users : \A x : WorksOn(u, x)' <=> WorksOn(u, x)
  BY WriteFacts
<1>2. PICK s : s = call[t].todo
  OBVIOUS
<1>3. /\ k \in {"pro", "alg"} /\ i \in Ids(k) /\ IsValid(k, i)
      /\ y[1] \in RefKinds /\ y[2] = slots[k][i][y[1]]
      /\ Splits(s) /\ y = s[1]
      /\ \A n \in DOMAIN Tail(s) : Tail(s)[n] # y
  BY <1>1, <1>2, TodoFacts
<1>4. /\ WorksOn(t, <<k, i>>) /\ \A u \in Users : WorksOn(u, <<k, i>>) => u = t
      /\ call[t].op \in {"add", "remove"}
  BY <1>1, WorkFacts, WorkHolds
<1>5. slots' = slots /\ (IsValid(k, i)' <=> IsValid(k, i)) /\ call'[t].todo = Tail(s)
      /\ call'[t].op = call[t].op
  BY <1>1, <1>2 DEF IsValid, WrittenBy
<1>6. ~ \A p \in DOMAIN s : s[p] # y
  BY <1>3 DEF Splits
<1>7. y[1] # "alg"
  BY <1>3, RefKindFacts
<1>8. CountsFor(<<k, i>>, y) <=> call[t].op = "remove"
  <2>1. CountsFor(<<k, i>>, y) <=> (call[t].op = "add" <=> \A p \in DOMAIN s : s[p] # y)
    BY <1>2, <1>3, <1>4, <1>7 DEF CountsFor, CountedBy
  <2> QED
    BY <1>4, <1>6, <2>1
<1>9. CountsFor(<<k, i>>, y)' <=> call[t].op = "add"
  <2>1. CountsFor(<<k, i>>, y)' <=> (call[t].op = "add" <=> \A p \in DOMAIN Tail(s) : Tail(s)[p] # y)
    BY <1>1, <1>3, <1>4, <1>5, <1>7 DEF CountsFor, CountedBy
  <2> QED
    BY <1>3, <1>4, <2>1
<1>10. ASSUME NEW c \in {"pro", "alg"}, NEW m, NEW l \in RefKinds, NEW r \in Nat \ {0},
              <<c, m>> # <<k, i>> \/ <<l, r>> # y
       PROVE  CountsFor(<<c, m>>, <<l, r>>)' <=> CountsFor(<<c, m>>, <<l, r>>)
  <2>1. CASE <<c, m>> # <<k, i>>
    <3>1. ReferSame(c, m)
      BY <1>5 DEF ReferSame, IsValid
    <3>2. ASSUME NEW u \in Users, WorksOn(u, <<c, m>>)
          PROVE  call'[u].op = call[u].op /\ call'[u].todo = call[u].todo
      <4>1. u # t
        BY <1>2, <1>4, <2>1, <3>2 DEF WorksOn
      <4> QED
        BY <1>1, <4>1 DEF WrittenBy
    <3>3. CountingSame(c, m)
      BY <1>1, <3>1, <3>2, CountingKeeps
    <3> QED
      BY <3>3 DEF CountingSame
  <2>2. CASE <<c, m>> = <<k, i>> /\ <<l, r>> # y
    <3>1. (\A p \in DOMAIN Tail(s) : Tail(s)[p] # <<l, r>>) <=> (\A p \in DOMAIN s : s[p] # <<l, r>>)
      <4>1. \A p \in DOMAIN Tail(s) : \E n \in DOMAIN s : Tail(s)[p] = s[n]
        BY <1>3 DEF Splits
      <4>2. \A n \in DOMAIN s : s[n] = y \/ \E p \in DOMAIN Tail(s) : Tail(s)[p] = s[n]
        BY <1>3 DEF Splits
      <4> QED
        BY <2>2, <4>1, <4>2
    <3>2. CountedBy(<<k, i>>, <<l, r>>) <=>
            /\ l # "alg" /\ slots[k][i][l] = r
            /\ (call[t].op = "add" <=> \A p \in DOMAIN s : s[p] # <<l, r>>)
      BY <1>2, <1>4 DEF CountedBy
    <3>3. CountedBy(<<k, i>>, <<l, r>>)' <=>
            /\ l # "alg" /\ slots[k][i][l] = r
            /\ (call[t].op = "add" <=> \A p \in DOMAIN Tail(s) : Tail(s)[p] # <<l, r>>)
      BY <1>1, <1>4, <1>5 DEF CountedBy
    <3>4. CountedBy(<<k, i>>, <<l, r>>)' <=> CountedBy(<<k, i>>, <<l, r>>)
      BY <3>1, <3>2, <3>3
    <3>5. c = k /\ m = i
      BY <2>2
    <3> QED
      BY <1>5, <3>4, <3>5 DEF CountsFor
  <2> QED
    BY <1>10, <2>1, <2>2
<1>11. \A c \in {"pro", "alg"} : \A m : \A l \in RefKinds, r \in Nat \ {0} :
         <<c, m>> # <<k, i>> \/ <<l, r>> # y =>
           (CountsFor(<<c, m>>, <<l, r>>)' <=> CountsFor(<<c, m>>, <<l, r>>))
  BY <1>10, ZenonT(30)
<1> QED
  BY <1>8, <1>9, <1>11

\* The vector has not moved, so the count that has been read is changed by one.
LEMMA WrittenCount ==
    ASSUME InstanceInv, InstanceInv', ExactInv, HeldInv', LeftInv', NEW t \in Users,
           CountWrite(t), ~lost', NEW y, y = Next1(t)
    PROVE  /\ occupied'[y[1]][y[2]] = Cardinality(CountedUsers(y)')
           /\ \A l \in Kinds : \A r \in Ids(l) : <<l, r>> # y => occupied'[l][r] = occupied[l][r]
<1>1. /\ Working(t) /\ call[t].todo # <<>> /\ TodoInv(t) /\ SeenInv(t) /\ TypeOK /\ TypeOK'
      /\ pc[t] = "writing"
  BY WriteFacts DEF ExactInv, InstanceInv, CountWrite
<1>2. PICK k, i : k = call[t].kind /\ i = call[t].id
  OBVIOUS
<1>3. /\ k \in {"pro", "alg"} /\ y[1] \in RefKinds /\ y[1] \in Kinds /\ y[1] \in Kinds \ {"alg"}
      /\ y[2] \in Ids(y[1]) /\ y = <<y[1], y[2]>>
  BY <1>1, <1>2, TodoFacts, RefKindFacts
<1>4. /\ CountsFor(<<k, i>>, y) <=> call[t].op = "remove"
      /\ CountsFor(<<k, i>>, y)' <=> call[t].op = "add"
      /\ \A c \in {"pro", "alg"} : \A m : \A l \in RefKinds, r \in Nat \ {0} :
           <<c, m>> # <<k, i>> \/ <<l, r>> # y =>
             (CountsFor(<<c, m>>, <<l, r>>)' <=> CountsFor(<<c, m>>, <<l, r>>))
  BY <1>1, <1>2, WrittenUser
<1>5. PICK U, V : U = CountedUsers(y) /\ V = CountedUsers(y)'
  OBVIOUS
<1>6. y[2] \in Nat \ {0}
  BY <1>1, <1>3, SlotFacts
<1>7. /\ IsFiniteSet(U) /\ Cardinality(U) \in Nat /\ Cardinality(U) < Modulus
      /\ IsFiniteSet(V) /\ Cardinality(V) \in Nat /\ Cardinality(V) < Modulus
  <2>1. UsersAreBounded /\ UsersAreBounded'
    BY AllBounded, BoundedNext DEF ExactInv
  <2> QED
    BY <1>3, <1>5, <1>6, <2>1 DEF UsersAreBounded
<1>8. /\ \A c \in {"pro", "alg"} : \A m : <<c, m>> \in U <=> CountsFor(<<c, m>>, y)
      /\ \A c \in {"pro", "alg"} : \A m : <<c, m>> \in V <=> CountsFor(<<c, m>>, y)'
      /\ \A x \in U \cup V : \E c \in {"pro", "alg"} : \E m : x = <<c, m>>
  <2>1. UsersAreThose /\ UsersAreThose'
    BY <1>1, Those, ThoseNext
  <2> QED
    BY <1>5, <2>1 DEF UsersAreThose
<1>9. \A x : x # <<k, i>> => (x \in V <=> x \in U)
  <2>1. \A c \in {"pro", "alg"} : \A m : <<c, m>> # <<k, i>> => (<<c, m>> \in V <=> <<c, m>> \in U)
    BY <1>3, <1>4, <1>6, <1>8
  <2> QED
    BY <1>8, <2>1
<1>10. <<k, i>> \in U <=> call[t].op = "remove"
  BY <1>3, <1>4, <1>8
<1>11. <<k, i>> \in V <=> call[t].op = "add"
  BY <1>3, <1>4, <1>8
<1>12. occupied[y[1]][y[2]] = Cardinality(U)
  BY <1>3, <1>5 DEF ExactInv, CountsAreExact
<1>13. seen[t].count = Cardinality(U)
  BY <1>1, <1>12 DEF SeenInv
<1>14. call[t].op \in {"add", "remove"}
  BY <1>1, WorkFacts
<1>15. PICK changed : changed = IF call[t].op = "add"
                                  THEN IF seen[t].count = Modulus - 1 THEN 0 ELSE seen[t].count + 1
                                  ELSE IF seen[t].count = 0 THEN Modulus - 1 ELSE seen[t].count - 1
  OBVIOUS
<1>16. occupied' = [occupied EXCEPT ![y[1]][y[2]] = changed]
  BY <1>15 DEF CountWrite
<1>17. changed = Cardinality(V)
  <2>1. CASE call[t].op = "add"
    <3>1. <<k, i>> \notin U /\ V = U \cup {<<k, i>>}
      BY <1>9, <1>10, <1>11, <2>1
    <3>2. Cardinality(V) = Cardinality(U) + 1
      BY <1>7, <3>1, FS_AddElement
    <3>3. Cardinality(U) # Modulus - 1
      BY <1>7, <3>2, NumbersAssumption
    <3> QED
      BY <1>13, <1>15, <2>1, <3>2, <3>3
  <2>2. CASE call[t].op = "remove"
    <3>1. <<k, i>> \in U /\ V = U \ {<<k, i>>}
      BY <1>9, <1>10, <1>11, <2>2
    <3>2. Cardinality(V) = Cardinality(U) - 1
      BY <1>7, <3>1, FS_RemoveElement
    <3>3. Cardinality(U) # 0
      BY <1>7, <3>2
    <3> QED
      BY <1>13, <1>15, <2>2, <3>2, <3>3
  <2> QED
    BY <1>14, <2>1, <2>2
<1>18. /\ occupied'[y[1]][y[2]] = changed
       /\ \A l \in Kinds : \A r \in Ids(l) : <<l, r>> # y => occupied'[l][r] = occupied[l][r]
  <2>1. /\ occupied \in [Kinds -> Seq(0..Modulus - 1)]
        /\ \A l \in Kinds : DOMAIN occupied[l] = Ids(l)
    BY <1>1, SlotFacts DEF TypeOK
  <2>2. occupied'[y[1]][y[2]] = changed
    BY <1>3, <1>16, <2>1
  <2>3. ASSUME NEW l \in Kinds, NEW r \in Ids(l), <<l, r>> # y
        PROVE  occupied'[l][r] = occupied[l][r]
    <3>1. CASE l = y[1]
      <4>1. r # y[2]
        BY <1>3, <2>3, <3>1
      <4> QED
        BY <1>3, <1>16, <2>1, <3>1, <4>1
    <3>2. CASE l # y[1]
      BY <1>3, <1>16, <2>1, <3>2
    <3> QED
      BY <3>1, <3>2
  <2> QED
    BY <2>2, <2>3
<1> QED
  BY <1>5, <1>17, <1>18

LEMMA CountWriteExact ==
    ASSUME InstanceInv, ExactInv, NEW t \in Users, CountWrite(t), ~lost'
    PROVE  ExactInv'
<1>1. /\ Working(t) /\ call[t].todo # <<>> /\ WrittenBy(t) /\ Calm(t) /\ DropsStay
      /\ \A u \in Users : \A x : WorksOn(u, x)' <=> WorksOn(u, x)
      /\ InstanceInv' /\ TypeOK /\ TypeOK' /\ TodoInv(t)
  BY WriteFacts, CountWriteKeeps DEF InstanceInv, ExactInv
<1>2. PICK k, i, y : k = call[t].kind /\ i = call[t].id /\ y = Next1(t)
  OBVIOUS
<1>3. at' = at /\ slots' = slots /\ \A u \in Users : u # t => pc'[u] = pc[u]
  BY <1>1 DEF WrittenBy
<1>4. \A c : Passes(t, c)
  BY <1>3 DEF Passes
<1>5. HeldInv'
  BY <1>1, <1>4, CalmHeld DEF ExactInv
<1>6. GeneratorInv'
  BY <1>1, CalmGenerators DEF ExactInv
<1>7. LeftInv'
  <2>1. pc[t] # "idle"
    BY <1>1 DEF Working
  <2> QED
    BY <1>1, <1>3, <1>4, <2>1, CalmLeft DEF ExactInv
<1>8. /\ occupied'[y[1]][y[2]] = Cardinality(CountedUsers(y)')
      /\ \A l \in Kinds : \A r \in Ids(l) : <<l, r>> # y => occupied'[l][r] = occupied[l][r]
  BY <1>1, <1>2, <1>5, <1>7, WrittenCount
<1>9. CountsAreExact'
  <2>1. ASSUME NEW l \in Kinds \ {"alg"}, NEW r \in Ids(l)'
        PROVE  occupied'[l][r] = Cardinality(CountedUsers(<<l, r>>)')
    <3>1. l \in RefKinds /\ l \in Kinds /\ r \in Ids(l) /\ r \in Nat \ {0}
      <4>1. r \in Ids(l)
        BY <1>3, <2>1 DEF Ids
      <4> QED
        BY <1>1, <2>1, <4>1, RefKindFacts, SlotFacts
    <3>2. CASE <<l, r>> = y
      BY <1>8, <3>2
    <3>3. CASE <<l, r>> # y
      <4>1. UsersAreThose /\ UsersAreThose'
        BY <1>1, Those, ThoseNext
      <4>2. \A c \in {"pro", "alg"} : \A m :
              CountsFor(<<c, m>>, <<l, r>>)' <=> CountsFor(<<c, m>>, <<l, r>>)
        <5>1. /\ CountsFor(<<k, i>>, y) <=> call[t].op = "remove"
              /\ CountsFor(<<k, i>>, y)' <=> call[t].op = "add"
              /\ \A c \in {"pro", "alg"} : \A m : \A p \in RefKinds, q \in Nat \ {0} :
                   <<c, m>> # <<k, i>> \/ <<p, q>> # y =>
                     (CountsFor(<<c, m>>, <<p, q>>)' <=> CountsFor(<<c, m>>, <<p, q>>))
          BY <1>1, <1>2, WrittenUser
        <5> QED
          BY <3>1, <3>3, <5>1
      <4>3. \A x : x \in CountedUsers(<<l, r>>)' <=> x \in CountedUsers(<<l, r>>)
        BY <4>1, <4>2 DEF UsersAreThose
      <4>4. CountedUsers(<<l, r>>)' = CountedUsers(<<l, r>>)
        BY <4>3
      <4>5. occupied[l][r] = Cardinality(CountedUsers(<<l, r>>))
        BY <2>1, <3>1 DEF ExactInv, CountsAreExact
      <4> QED
        BY <1>8, <3>1, <3>3, <4>4, <4>5
    <3> QED
      BY <3>2, <3>3
  <2> QED
    BY <2>1 DEF CountsAreExact
<1>10. ASSUME NEW u \in Users
       PROVE  TodoInv(u)'
  <2>1. \A c, m : ReferSame(c, m)
    BY <1>3 DEF ReferSame, IsValid
  <2>2. CASE u # t
    <3>1. TodoInv(u) /\ (Working(u)' => Working(u)) /\ call'[u] = call[u]
      BY <1>1, <2>2 DEF ExactInv, WrittenBy, Working
    <3>2. Working(u) => /\ call[u].id \in DOMAIN slots[call[u].kind]
                        /\ call[u].id \in DOMAIN slots'[call[u].kind]
      BY <1>3, WorkDomain
    <3> QED
      BY <2>1, <3>1, <3>2, TodoKept
  <2>3. CASE u = t
    <3>1. PICK s, o : s = call[t].todo /\ o = slots[k][i]
      OBVIOUS
    <3>2. call'[t].todo = Tail(s) /\ call'[t].kind = k /\ call'[t].id = i /\ slots'[k][i] = o
      BY <1>1, <1>2, <1>3, <3>1 DEF WrittenBy
    <3>3. Splits(s) /\ o # NULL
      BY <1>1, <1>2, <3>1, TodoFacts
    <3>4. /\ \A n \in DOMAIN s : s[n][1] \in {"param", "pro", "rcr", "rnd"} /\ s[n][2] = o[s[n][1]]
          /\ \A n, m \in DOMAIN s : s[n] = s[m] => n = m
      BY <1>1, <1>2, <3>1, <3>3 DEF TodoInv
    <3>5. \A n \in DOMAIN Tail(s) : n + 1 \in DOMAIN s /\ Tail(s)[n] = s[n + 1]
      BY <3>3 DEF Splits
    <3>6. \A n, m \in DOMAIN Tail(s) : Tail(s)[n] = Tail(s)[m] => n = m
      BY <3>3, <3>4, <3>5 DEF Splits
    <3>7. \A n \in DOMAIN Tail(s) : /\ Tail(s)[n][1] \in {"param", "pro", "rcr", "rnd"}
                                    /\ Tail(s)[n][2] = o[Tail(s)[n][1]]
      BY <3>4, <3>5
    <3> QED
      BY <2>3, <3>2, <3>6, <3>7 DEF TodoInv
  <2> QED
    BY <2>2, <2>3
<1>11. ASSUME NEW u \in Users
       PROVE  SeenInv(u)'
  <2>1. CASE u = t
    BY <1>1, <2>1 DEF WrittenBy, SeenInv
  <2>2. CASE u # t /\ pc[u] = "writing"
    <3>1. /\ pc'[u] = pc[u] /\ call'[u] = call[u] /\ seen'[u] = seen[u] /\ Working(u)
          /\ call[u].todo # <<>>
      BY <1>1, <2>2 DEF WrittenBy, Working, InstanceInv, AtCallInv
    <3>2. PICK z : z = Next1(u)
      OBVIOUS
    <3>3. z # y
      BY <1>1, <1>2, <2>2, <3>1, <3>2, SoleWriter
    <3>4. TodoInv(u)
      BY DEF ExactInv
    <3>5. z[1] \in Kinds /\ z[2] \in Ids(z[1]) /\ z = <<z[1], z[2]>>
      BY <3>1, <3>2, <3>4, TodoFacts, RefKindFacts
    <3>6. occupied'[z[1]][z[2]] = occupied[z[1]][z[2]]
      BY <1>8, <3>3, <3>5
    <3>7. Next1(u)' = z
      BY <3>1, <3>2 DEF Next1
    <3>8. seen[u].count = occupied[z[1]][z[2]]
      BY <2>2, <3>2 DEF ExactInv, SeenInv
    <3> QED
      BY <3>1, <3>6, <3>7, <3>8 DEF SeenInv
  <2>3. CASE u # t /\ pc[u] # "writing"
    BY <1>3, <2>3 DEF SeenInv
  <2> QED
    BY <2>1, <2>2, <2>3
<1> QED
  BY <1>5, <1>6, <1>7, <1>9, <1>10, <1>11 DEF ExactInv

-----------------------------------------------------------------------------
(* Where something begins or ends.                                         *)

\* The removal of a problem or an algorithm begins.
Begun(t, k, i, o) ==
    /\ k = call[t].kind /\ i = call[t].id /\ o = slots[k][i]
    /\ k \in {"pro", "alg"} /\ k \in Kinds /\ i \in Ids(k) /\ IsValid(k, i)
    /\ o \in Objects /\ o # NULL
    /\ \A u \in Users : ~WorksOn(u, <<k, i>>)
    /\ ~Working(t) /\ pc[t] # "idle"
    /\ pc'[t] = "counting" /\ Working(t)' /\ call'[t].kind = k /\ call'[t].id = i
    /\ call'[t].op = "remove" /\ call'[t].drop = << <<"rnd", o.rnd>> >>
    /\ call'[t].todo = CountsBack(o, k)
    /\ \A u \in Users : u # t => /\ pc'[u] = pc[u] /\ call'[u] = call[u] /\ (Working(u)' <=> Working(u))
    /\ \A u \in Users : seen'[u] = seen[u]
    /\ \A u \in Users : \A x : WorksOn(u, x)' <=> WorksOn(u, x) \/ (u = t /\ x = <<k, i>>)
    /\ slots' = slots /\ occupied' = occupied /\ at' = at /\ own' = own /\ job' = job

LEMMA BegunFacts ==
    ASSUME InstanceInv, NEW t \in Users, RemoveLocked(t)
    PROVE  \E k, i, o : Begun(t, k, i, o)
<1>1. PICK k, i, o : k = call[t].kind /\ i = call[t].id /\ o = slots[k][i]
  OBVIOUS
<1>2. /\ TypeOK /\ AtCallInv(t) /\ pc[t] = "locking" /\ call[t].op = "remove"
      /\ k \in {"pro", "alg"} /\ k \in Kinds
  BY <1>1, KindNames DEF InstanceInv, RemoveLocked
<1>3. ~Working(t) /\ pc[t] # "idle" /\ Active(t)
  BY <1>2, BusyIsActive DEF Working
<1>4. PICK j \in DOMAIN own[t][k] : Script(t)[at[t]] = <<"remove", k, j>> /\ i = own[t][k][j]
  BY <1>1, <1>2 DEF AtCallInv
<1>5. j \in ToRemove(t, k)
  <2>1. at[t] \in Nat
    BY GotNow
  <2> QED
    BY <1>3, <1>4, <2>1 DEF ToRemove, Active
<1>6. IsValid(k, i) /\ i \in Ids(k)
  BY <1>2, <1>3, <1>4, <1>5, HeldIsValid
<1>7. o \in Objects /\ o # NULL
  BY <1>1, <1>2, <1>6, SlotFacts DEF IsValid
<1>8. ASSUME NEW u \in Users, WorksOn(u, <<k, i>>)
      PROVE  FALSE
  BY <1>2, <1>3, <1>4, <1>5, <1>8, OwnWork DEF WorksOn
<1>9. /\ pc \in [Users -> {"idle", "locking", "counting", "writing", "discarding", "thrown"}]
      /\ call \in [Users -> CallStates]
  BY <1>2 DEF TypeOK
<1>10. /\ pc' = [pc EXCEPT ![t] = "counting"]
       /\ call' = [call EXCEPT ![t].drop = << <<"rnd", o.rnd>> >>, ![t].todo = CountsBack(o, k)]
       /\ slots' = slots /\ occupied' = occupied /\ at' = at /\ own' = own /\ job' = job
       /\ seen' = seen
  BY <1>1 DEF RemoveLocked, Goto, task
<1>11. pc'[t] = "counting" /\ \A u \in Users : u # t => pc'[u] = pc[u] /\ call'[u] = call[u]
  BY <1>9, <1>10
<1>12. /\ call'[t].kind = k /\ call'[t].id = i /\ call'[t].op = "remove"
       /\ call'[t].drop = << <<"rnd", o.rnd>> >> /\ call'[t].todo = CountsBack(o, k)
  BY <1>1, <1>2, <1>9, <1>10 DEF CallStates
<1>13. Working(t)' /\ \A u \in Users : u # t => (Working(u)' <=> Working(u))
  BY <1>11 DEF Working
<1>14. \A u \in Users : \A x : WorksOn(u, x)' <=> WorksOn(u, x) \/ (u = t /\ x = <<k, i>>)
  BY <1>3, <1>11, <1>12, <1>13 DEF WorksOn
<1>15. Begun(t, k, i, o)
  BY <1>1, <1>2, <1>3, <1>6, <1>7, <1>8, <1>10, <1>11, <1>12, <1>13, <1>14 DEF Begun
<1> QED
  BY <1>15

LEMMA RemoveLockedExact ==
    ASSUME InstanceInv, ExactInv, NEW t \in Users, RemoveLocked(t)
    PROVE  ExactInv'
<1>1. PICK k, i, o : Begun(t, k, i, o)
  BY BegunFacts
<1>2. /\ k \in {"pro", "alg"} /\ k \in Kinds /\ i \in Ids(k) /\ IsValid(k, i) /\ o = slots[k][i]
      /\ o \in Objects /\ o # NULL
      /\ slots' = slots /\ occupied' = occupied /\ at' = at /\ own' = own /\ job' = job
      /\ \A u \in Users : \A x : WorksOn(u, x)' <=> WorksOn(u, x) \/ (u = t /\ x = <<k, i>>)
      /\ \A u \in Users : u # t => pc'[u] = pc[u] /\ call'[u] = call[u] /\ (Working(u)' <=> Working(u))
      /\ ~Working(t) /\ pc[t] # "idle" /\ pc'[t] = "counting"
      /\ call'[t].op = "remove" /\ call'[t].drop # <<>> /\ call'[t].todo = CountsBack(o, k)
  BY <1>1 DEF Begun
<1>3. InstanceInv' /\ TypeOK /\ \A c \in Kinds : Ids(c)' = Ids(c)
  BY <1>2, RemoveLockedKeeps DEF InstanceInv, Ids
<1>4. /\ HeldInv /\ LeftInv /\ GeneratorInv /\ CountsAreExact
      /\ \A u \in Users : TodoInv(u) /\ SeenInv(u)
  BY DEF ExactInv
<1>5. Advances(t) /\ \A c : Passes(t, c)
  BY <1>2 DEF Advances, Passes
<1>6. \A u \in Users, c \in Kinds : ToRemove(u, c)' = ToRemove(u, c)
  BY <1>2, <1>3, <1>5, ToRemoveSame
<1>7. HeldInv'
  <2>1. ASSUME NEW c \in {"pro", "alg"}, NEW m \in Ids(c)', slots'[c][m] # NULL
        PROVE  /\ m \in Ids(c) /\ slots[c][m] # NULL
               /\ slots'[c][m].rcr = slots[c][m].rcr /\ slots'[c][m].pro = slots[c][m].pro
               /\ \A u \in Users : Holds(u, c, m) =>
                    Holds(u, c, m)' /\ OwnId(u, "rcr")' = OwnId(u, "rcr")
    <3>1. m \in Ids(c) /\ slots[c][m] # NULL /\ c \in Kinds
      BY <1>2, <1>3, <2>1, KindNames
    <3>2. ASSUME NEW u \in Users, Holds(u, c, m)
          PROVE  Holds(u, c, m)' /\ OwnId(u, "rcr")' = OwnId(u, "rcr")
      <4>1. WorksOn(u, <<c, m>>) => u # t
        BY <1>2 DEF WorksOn
      <4>2. WorksOn(u, <<c, m>>) /\ call[u].op = "add" =>
              WorksOn(u, <<c, m>>)' /\ call'[u].op = "add"
        BY <1>2, <4>1
      <4>3. own'[u][c] = own[u][c] /\ own'[u]["rcr"] = own[u]["rcr"]
        BY <1>2
      <4> QED
        BY <1>6, <3>1, <3>2, <4>2, <4>3, HoldsSame, OwnIdSame
    <3> QED
      BY <1>2, <3>1, <3>2
  <2> QED
    BY <1>4, <2>1, HeldKept
<1>8. k = "pro" => o.pro = NoId /\ o.rcr = NoId
  <2>1. PICK u \in Users : HeldBy(u, k, i)
    BY <1>2, <1>4, LiveFacts
  <2> QED
    BY <1>2, <2>1 DEF HeldBy
<1>9. CountsAll(CountsBack(o, k), o)
  BY <1>2, <1>8, CountsAreAll
<1>10. CountsAreExact'
  <2>1. ASSUME NEW c \in {"pro", "alg"}, NEW m
        PROVE  CountingSame(c, m)
    <3>1. ReferSame(c, m)
      BY <1>2 DEF ReferSame, IsValid
    <3>2. CASE <<c, m>> # <<k, i>>
      <4>1. \A u \in Users : WorksOn(u, <<c, m>>)' <=> WorksOn(u, <<c, m>>)
        BY <1>2, <3>2
      <4>2. \A u \in Users : WorksOn(u, <<c, m>>) =>
              call'[u].op = call[u].op /\ call'[u].todo = call[u].todo
        BY <1>2 DEF WorksOn
      <4> QED
        BY <3>1, <4>1, <4>2, CountingKeeps
    <3>3. CASE <<c, m>> = <<k, i>>
      <4>1. ASSUME NEW l \in RefKinds, NEW r \in Nat \ {0}
            PROVE  CountsFor(<<k, i>>, <<l, r>>)' <=> CountsFor(<<k, i>>, <<l, r>>)
        <5>1. CountsFor(<<k, i>>, <<l, r>>) <=> o[l] = r
          BY <1>1, <1>2, RefKindFacts DEF Begun, CountsFor, CountedBy
        <5>2. IsValid(k, i)'
          BY <1>2 DEF IsValid
        <5>3. \A u \in Users : WorksOn(u, <<k, i>>)' <=> u = t
          BY <1>1 DEF Begun
        <5>4. CountsFor(<<k, i>>, <<l, r>>)' <=>
                o[l] = r /\ \E p \in DOMAIN CountsBack(o, k) : CountsBack(o, k)[p] = <<l, r>>
          BY <1>2, <5>2, <5>3, RefKindFacts DEF CountsFor, CountedBy
        <5>5. o[l] = r => \E p \in DOMAIN CountsBack(o, k) : CountsBack(o, k)[p] = <<l, r>>
          BY <1>9 DEF CountsAll, NoId
        <5> QED
          BY <5>1, <5>4, <5>5
      <4>2. c = k /\ m = i
        BY <3>3
      <4> QED
        BY <4>1, <4>2 DEF CountingSame
    <3> QED
      BY <3>2, <3>3
  <2>2. OldCounts /\ NewCounts
    BY <1>2, <1>3 DEF OldCounts, NewCounts
  <2>3. CountingKept
    BY <2>1 DEF CountingKept
  <2> QED
    BY <1>3, <1>4, <2>2, <2>3, CountsKept
<1>11. ASSUME NEW u \in Users
       PROVE  TodoInv(u)' /\ SeenInv(u)'
  <2>1. CASE u = t
    <3>1. SeenInv(t)'
      BY <1>2 DEF SeenInv
    <3>2. call'[t].kind = k /\ call'[t].id = i /\ slots'[k][i] = o
      BY <1>1 DEF Begun
    <3>3. TodoInv(t)'
      BY <1>2, <1>9, <3>2 DEF TodoInv, CountsAll, RefKinds
    <3> QED
      BY <2>1, <3>1, <3>3
  <2>2. CASE u # t
    <3>1. \A c, m : ReferSame(c, m)
      BY <1>2 DEF ReferSame, IsValid
    <3>2. Working(u) => /\ call[u].id \in DOMAIN slots[call[u].kind]
                        /\ call[u].id \in DOMAIN slots'[call[u].kind]
      BY <1>2, WorkDomain
    <3>3. TodoInv(u)'
      BY <1>2, <1>4, <2>2, <3>1, <3>2, TodoKept
    <3>4. OldCounts /\ seen'[u] = seen[u]
      BY <1>1, <1>2 DEF OldCounts, Begun
    <3>5. SeenInv(u)'
      BY <1>2, <1>4, <2>2, <3>4, SeenKept
    <3> QED
      BY <3>3, <3>5
  <2> QED
    BY <2>1, <2>2
<1>12. GeneratorInv'
  <2>1. ASSUME NEW c \in {"pro", "alg"}, NEW m, HasRandom(c, m)
        PROVE  HasRandom(c, m)'
    <3>1. ASSUME NEW u \in Users, WorksOn(u, <<c, m>>)', Removes(u)'
          PROVE  call'[u].drop # <<>>
      <4>1. CASE u = t
        BY <1>2, <4>1
      <4>2. CASE u # t
        <5>1. WorksOn(u, <<c, m>>) /\ Removes(u) /\ call'[u].drop = call[u].drop
          BY <1>2, <3>1, <4>2 DEF Removes
        <5> QED
          BY <2>1, <5>1 DEF HasRandom
      <4> QED
        BY <4>1, <4>2
    <3>2. slots'[c][m] # NULL
      BY <1>2, <2>1 DEF HasRandom
    <3> QED
      BY <3>1, <3>2 DEF HasRandom
  <2> QED
    BY <1>2, <1>3, <1>4, <2>1, GeneratorKept, KindNames
<1>13. LeftInv'
  <2>1. \A u \in Users : Dropped(u)' = Dropped(u)
    <3>1. ASSUME NEW u \in Users
          PROVE  Dropped(u)' = Dropped(u)
      <4>1. CASE u = t
        <5>1. call'[t].kind = k /\ call'[t].id = i /\ slots'[k][i] # NULL
          BY <1>1 DEF Begun
        <5> QED
          BY <1>2, <4>1, <5>1 DEF Dropped
      <4>2. CASE u # t
        BY <1>2, <4>2 DEF Dropped, Removes
      <4> QED
        BY <4>1, <4>2
    <3> QED
      BY <3>1
  <2>2. \A p : IsPart(p)' <=> IsPart(p)
    BY <1>2, <2>1, PartsSame
  <2>3. \A p : ToBeRemoved(p)' <=> ToBeRemoved(p)
    BY <1>2, <1>6, ToBeSame, KindNames
  <2>4. Left' = Left
    <3>1. \A p : IsValid("param", p)' <=> IsValid("param", p)
      BY <1>2 DEF IsValid
    <3> QED
      BY <1>3, <2>2, <2>3, <3>1, LeftSame
  <2>5. job # 0 /\ LeavesParam(job) /\ at'[Main] = StartAt + 2 => pc'[Main] = "idle"
    BY <1>2, <1>4, <1>5, MainRests
  <2> QED
    BY <1>2, <1>4, <1>5, <2>4, <2>5, LeftKept
<1> QED
  BY <1>7, <1>10, <1>11, <1>12, <1>13 DEF ExactInv

\* Steps that change something in the registry: what stays is as before, what goes has
\* counted nothing, and what comes is somebody's and has not counted anything.
NewlyHeld(c, x) ==
    /\ \E u \in Users :
         /\ Holds(u, c, x)'
         /\ slots'[c][x].rcr = IF c = "alg" THEN OwnId(u, "rcr")' ELSE NoId
         /\ c = "pro" => slots'[c][x].pro = NoId
    /\ \A l \in RefKinds : \A r \in Nat \ {0} : ~CountsFor(<<c, x>>, <<l, r>>)'
Changes(t) ==
    /\ OldCounts /\ NewCounts
    /\ \A u \in Users : u # t => pc'[u] = pc[u] /\ call'[u] = call[u] /\ seen'[u] = seen[u]
    /\ pc'[t] # "writing"
    /\ \A c \in {"pro", "alg"} : \A x : IsValid(c, x) /\ IsValid(c, x)' =>
         /\ ReferSame(c, x) /\ CountingSame(c, x)
         /\ \A u \in Users : Holds(u, c, x) =>
              Holds(u, c, x)' /\ OwnId(u, "rcr")' = OwnId(u, "rcr")
    /\ \A c \in {"pro", "alg"} : \A x : IsValid(c, x) /\ ~IsValid(c, x)' =>
         \A l \in RefKinds : \A r \in Nat \ {0} : ~CountsFor(<<c, x>>, <<l, r>>)
    /\ \A c \in {"pro", "alg"} : \A x : ~IsValid(c, x) /\ IsValid(c, x)' =>
         NewlyHeld(c, x) /\ \A u \in Users : u # t => ~WorksOn(u, <<c, x>>)

LEMMA ChangeExact ==
    ASSUME InstanceInv, InstanceInv', ExactInv, NEW t \in Users, Changes(t), TodoInv(t)',
           GeneratorInv', LeftInv'
    PROVE  ExactInv'
<1>1. /\ TypeOK /\ TypeOK' /\ HeldInv /\ CountsAreExact
      /\ \A u \in Users : TodoInv(u) /\ SeenInv(u)
  BY DEF ExactInv, InstanceInv
<1>2. \A c \in Kinds : DOMAIN slots[c] = Ids(c) /\ DOMAIN slots'[c] = Ids(c)'
  BY <1>1, SlotsNow, SlotsNext DEF SlotsOf
<1>3. HeldInv'
  <2>1. SUFFICES ASSUME NEW c \in {"pro", "alg"}, NEW m \in Ids(c)', slots'[c][m] # NULL
                 PROVE  \E u \in Users :
                          /\ Holds(u, c, m)'
                          /\ slots'[c][m].rcr = IF c = "alg" THEN OwnId(u, "rcr")' ELSE NoId
                          /\ c = "pro" => slots'[c][m].pro = NoId
    BY DEF HeldInv
  <2>2. IsValid(c, m)'
    BY <1>2, <2>1, KindNames DEF IsValid
  <2>3. CASE IsValid(c, m)
    <3>1. /\ ReferSame(c, m)
          /\ \A u \in Users : Holds(u, c, m) =>
               Holds(u, c, m)' /\ OwnId(u, "rcr")' = OwnId(u, "rcr")
      BY <2>2, <2>3 DEF Changes
    <3>2. m \in Ids(c) /\ slots[c][m] # NULL
      BY <1>2, <2>3, KindNames DEF IsValid
    <3>3. PICK u \in Users :
            /\ Holds(u, c, m)
            /\ slots[c][m].rcr = IF c = "alg" THEN OwnId(u, "rcr") ELSE NoId
            /\ c = "pro" => slots[c][m].pro = NoId
      BY <1>1, <3>2 DEF HeldInv
    <3>4. slots'[c][m].rcr = slots[c][m].rcr /\ slots'[c][m].pro = slots[c][m].pro
      BY <2>3, <3>1 DEF ReferSame, RefKinds
    <3> QED
      BY <3>1, <3>3, <3>4
  <2>4. CASE ~IsValid(c, m)
    BY <2>2, <2>4 DEF Changes, NewlyHeld
  <2> QED
    BY <2>3, <2>4
<1>4. CountsAreExact'
  <2>1. ASSUME NEW c \in {"pro", "alg"}, NEW m
        PROVE  CountingSame(c, m)
    <3>1. CASE IsValid(c, m) /\ IsValid(c, m)'
      BY <3>1 DEF Changes
    <3>2. CASE IsValid(c, m) /\ ~IsValid(c, m)'
      <4>1. \A l \in RefKinds : \A r \in Nat \ {0} : ~CountsFor(<<c, m>>, <<l, r>>)
        BY <3>2 DEF Changes
      <4> QED
        BY <3>2, <4>1 DEF CountingSame, CountsFor
    <3>3. CASE ~IsValid(c, m) /\ IsValid(c, m)'
      <4>1. NewlyHeld(c, m)
        BY <3>3 DEF Changes
      <4> QED
        BY <3>3, <4>1 DEF CountingSame, CountsFor, NewlyHeld
    <3>4. CASE ~IsValid(c, m) /\ ~IsValid(c, m)'
      BY <3>4 DEF CountingSame, CountsFor
    <3> QED
      BY <3>1, <3>2, <3>3, <3>4
  <2>2. OldCounts /\ NewCounts
    BY DEF Changes
  <2>3. CountingKept
    BY <2>1 DEF CountingKept
  <2> QED
    BY <1>1, <2>2, <2>3, CountsKept
<1>5. ASSUME NEW u \in Users, u # t
      PROVE  TodoInv(u)' /\ SeenInv(u)'
  <2>1. pc'[u] = pc[u] /\ call'[u] = call[u] /\ seen'[u] = seen[u]
    BY <1>5 DEF Changes
  <2>2. OldCounts
    BY DEF Changes
  <2>3. SeenInv(u)'
    BY <1>1, <2>1, <2>2, SeenKept
  <2>4. TodoInv(u)
    BY <1>1
  <2>5. CASE ~Working(u)'
    BY <2>3, <2>5 DEF TodoInv
  <2>6. CASE slots'[call'[u].kind][call'[u].id] = NULL
    BY <2>3, <2>6 DEF TodoInv
  <2>7. CASE Working(u)' /\ slots'[call'[u].kind][call'[u].id] # NULL
    <3>1. Working(u)
      BY <2>1, <2>7 DEF Working
    <3>2. /\ call[u].kind \in {"pro", "alg"} /\ call[u].kind \in Kinds
          /\ call[u].id \in DOMAIN slots[call[u].kind]
      BY <3>1, WorkDomain
    <3>3. PICK c, m : c = call[u].kind /\ m = call[u].id
      OBVIOUS
    <3>4. m \in DOMAIN slots'[c] /\ slots'[c][m] # NULL
      <4>1. WorkInv(u)'
        BY DEF InstanceInv
      <4>2. call'[u].kind = c /\ call'[u].id = m
        BY <2>1, <3>3
      <4>3. m \in Ids(c)'
        BY <2>7, <4>1, <4>2 DEF WorkInv
      <4> QED
        BY <1>2, <2>7, <3>2, <3>3, <4>2, <4>3
    <3>5. IsValid(c, m)' /\ WorksOn(u, <<c, m>>)
      BY <3>1, <3>3, <3>4 DEF IsValid, WorksOn
    <3>6. IsValid(c, m)
      BY <1>5, <3>2, <3>3, <3>5 DEF Changes
    <3>7. ReferSame(c, m)
      BY <3>2, <3>3, <3>5, <3>6 DEF Changes
    <3>8. ReferSame(call[u].kind, call[u].id)
      BY <2>1, <3>3, <3>7 DEF ReferSame, IsValid
    <3>9. call[u].id \in DOMAIN slots'[call[u].kind]
      BY <3>3, <3>4
    <3>10. call'[u] = call[u] /\ (Working(u)' => Working(u))
      BY <2>1, <3>1
    <3>11. TodoInv(u)'
      BY <2>4, <3>2, <3>8, <3>9, <3>10, TodoKept
    <3> QED
      BY <2>3, <3>11
  <2> QED
    BY <2>3, <2>5, <2>6, <2>7
<1>6. SeenInv(t)'
  BY DEF SeenInv, Changes
<1> QED
  BY <1>3, <1>4, <1>5, <1>6 DEF ExactInv

\* Steps that take something away.  The objects that stay are worked on as before, and
\* what goes has counted nothing.
Shrinks(t) ==
    /\ occupied' = occupied /\ own' = own /\ job' = job
    /\ \A c \in Kinds : Ids(c)' = Ids(c)
    /\ \A c \in Kinds : \A x \in Ids(c) : slots'[c][x] \in {slots[c][x], NULL}
    /\ \A u \in Users : u # t => pc'[u] = pc[u] /\ call'[u] = call[u] /\ seen'[u] = seen[u]
    /\ pc'[t] # "writing"
    /\ \A c \in {"pro", "alg"} : \A x : IsValid(c, x)' => \A u \in Users :
         /\ Holds(u, c, x) => Holds(u, c, x)'
         /\ WorksOn(u, <<c, x>>)' <=> WorksOn(u, <<c, x>>)
         /\ WorksOn(u, <<c, x>>) => call'[u].op = call[u].op /\ call'[u].todo = call[u].todo
    /\ \A c \in {"pro", "alg"} : \A x : IsValid(c, x) /\ ~IsValid(c, x)' =>
         \A l \in RefKinds : \A r \in Nat \ {0} : ~CountsFor(<<c, x>>, <<l, r>>)

LEMMA ShrinkExact ==
    ASSUME InstanceInv, InstanceInv', ExactInv, NEW t \in Users, Shrinks(t), TodoInv(t)',
           GeneratorInv', LeftInv'
    PROVE  ExactInv'
<1>1. \A c \in Kinds : DOMAIN slots[c] = Ids(c) /\ DOMAIN slots'[c] = Ids(c)
  <2>1. SlotsOf /\ SlotsOf'
    BY SlotsNow, SlotsNext DEF InstanceInv
  <2> QED
    BY <2>1 DEF SlotsOf, Shrinks
<1>2. ASSUME NEW c \in {"pro", "alg"}, NEW x, IsValid(c, x)'
      PROVE  IsValid(c, x) /\ ReferSame(c, x)
  <2>1. c \in Kinds /\ x \in Ids(c) /\ slots'[c][x] # NULL
    BY <1>1, <1>2, KindNames DEF IsValid
  <2>2. slots'[c][x] = slots[c][x]
    BY <2>1 DEF Shrinks
  <2>3. IsValid(c, x)
    BY <1>1, <2>1, <2>2 DEF IsValid
  <2> QED
    BY <1>2, <2>2, <2>3 DEF ReferSame
<1>3. ASSUME NEW c \in {"pro", "alg"}, NEW x, IsValid(c, x)'
      PROVE  /\ CountingSame(c, x)
             /\ \A u \in Users : Holds(u, c, x) =>
                  Holds(u, c, x)' /\ OwnId(u, "rcr")' = OwnId(u, "rcr")
  <2>1. \A u \in Users :
          /\ Holds(u, c, x) => Holds(u, c, x)'
          /\ WorksOn(u, <<c, x>>)' <=> WorksOn(u, <<c, x>>)
          /\ WorksOn(u, <<c, x>>) => call'[u].op = call[u].op /\ call'[u].todo = call[u].todo
    BY <1>3 DEF Shrinks
  <2>2. CountingSame(c, x)
    BY <1>2, <1>3, <2>1, CountingKeeps
  <2>3. \A u \in Users : OwnId(u, "rcr")' = OwnId(u, "rcr")
    BY OwnIdSame DEF Shrinks
  <2> QED
    BY <2>1, <2>2, <2>3
<1>4. OldCounts /\ NewCounts
  BY DEF OldCounts, NewCounts, Shrinks
<1>5. /\ \A u \in Users : u # t => pc'[u] = pc[u] /\ call'[u] = call[u] /\ seen'[u] = seen[u]
      /\ pc'[t] # "writing"
      /\ \A c \in {"pro", "alg"} : \A x : IsValid(c, x) /\ ~IsValid(c, x)' =>
           \A l \in RefKinds : \A r \in Nat \ {0} : ~CountsFor(<<c, x>>, <<l, r>>)
  BY DEF Shrinks
<1>6. Changes(t)
  BY <1>2, <1>3, <1>4, <1>5 DEF Changes
<1> QED
  BY <1>6, ChangeExact

\* A problem or algorithm goes, with its parts still to drop.
Gone(t, k, i, o) ==
    /\ k = call[t].kind /\ i = call[t].id /\ o = slots[k][i]
    /\ k \in {"pro", "alg"} /\ k \in Kinds /\ i \in Ids(k)
    /\ o \in Objects /\ o # NULL /\ o.parts \in Seq(Nat)
    /\ Working(t) /\ Removes(t) /\ call[t].todo = <<>> /\ call[t].drop = <<>>
    /\ pc[t] # "idle" /\ pc'[t] # "writing"
    /\ slots'[k][i] = NULL
    /\ \A c \in Kinds : Ids(c)' = Ids(c) /\ (c # k => slots'[c] = slots[c])
    /\ \A c \in Kinds : \A x \in Ids(c) : c # k \/ x # i => slots'[c][x] = slots[c][x]
    /\ call'[t].op = call[t].op /\ call'[t].kind = k /\ call'[t].id = i /\ call'[t].todo = <<>>
    /\ DOMAIN call'[t].drop = DOMAIN o.parts
    /\ \A p \in DOMAIN o.parts : call'[t].drop[p] = <<"param", o.parts[p]>>
    /\ \A u \in Users : u # t => call'[u] = call[u]
    /\ \A u \in Users : \A x : WorksOn(u, x)' <=> WorksOn(u, x)
    /\ occupied' = occupied /\ pc' = pc /\ at' = at /\ seen' = seen /\ own' = own /\ job' = job

LEMMA GoneFacts ==
    ASSUME InstanceInv, NEW t \in Users, Reset(t)
    PROVE  \E k, i, o : Gone(t, k, i, o)
<1>1. PICK k, i, o : k = call[t].kind /\ i = call[t].id /\ o = slots[k][i]
  OBVIOUS
<1> DEFINE parts == [p \in DOMAIN o.parts |-> <<"param", o.parts[p]>>]
<1>2. /\ pc[t] = "counting" /\ Working(t) /\ Removes(t) /\ call[t].todo = <<>>
      /\ call[t].drop = <<>> /\ o # NULL
      /\ Empties(k, i) /\ call' = [call EXCEPT ![t].drop = parts]
      /\ occupied' = occupied /\ pc' = pc /\ at' = at /\ seen' = seen /\ own' = own /\ job' = job
  BY <1>1 DEF Reset, Dropping, Working, Removes, task, Empties
<1>3. TypeOK
  BY DEF InstanceInv
<1>4. k \in {"pro", "alg"} /\ k \in Kinds /\ i \in Ids(k)
  BY <1>1, <1>2, WorkDomain
<1>5. /\ slots'[k][i] = NULL
      /\ \A c \in Kinds : Ids(c)' = Ids(c) /\ (c # k => slots'[c] = slots[c])
      /\ \A c \in Kinds : \A x \in Ids(c) : c # k \/ x # i => slots'[c][x] = slots[c][x]
  BY <1>2, <1>3, <1>4, SlotEmptied
<1>6. o \in Objects /\ o.parts \in Seq(Nat)
  <2>1. o \in Objects
    BY <1>1, <1>2, <1>3, <1>4, SlotFacts
  <2> QED
    BY <2>1 DEF Objects
<1>7. /\ call'[t].op = call[t].op /\ call'[t].kind = k /\ call'[t].id = i /\ call'[t].todo = <<>>
      /\ call'[t].drop = parts /\ \A u \in Users : u # t => call'[u] = call[u]
  <2> HIDE DEF parts
  <2>1. call \in [Users -> CallStates] /\ call[t] \in CallStates
    BY <1>3 DEF TypeOK
  <2> QED
    BY <1>1, <1>2, <2>1 DEF CallStates
<1>8. \A u \in Users : \A x : WorksOn(u, x)' <=> WorksOn(u, x)
  <2>1. \A u \in Users : Working(u)' <=> Working(u)
    BY <1>2 DEF Working
  <2>2. \A u \in Users : call'[u].kind = call[u].kind /\ call'[u].id = call[u].id
    BY <1>1, <1>7
  <2> QED
    BY <2>1, <2>2 DEF WorksOn
<1>9. DOMAIN call'[t].drop = DOMAIN o.parts
      /\ \A p \in DOMAIN o.parts : call'[t].drop[p] = <<"param", o.parts[p]>>
  BY <1>7
<1>10. Gone(t, k, i, o)
  BY <1>1, <1>2, <1>4, <1>5, <1>6, <1>7, <1>8, <1>9 DEF Gone
<1> QED
  BY <1>10

LEMMA ResetExact ==
    ASSUME InstanceInv, ExactInv, NEW t \in Users, Reset(t)
    PROVE  ExactInv'
<1>1. PICK k, i, o : Gone(t, k, i, o)
  BY GoneFacts
<1>2. /\ k = call[t].kind /\ i = call[t].id /\ o = slots[k][i]
      /\ k \in {"pro", "alg"} /\ k \in Kinds /\ i \in Ids(k) /\ o # NULL
      /\ Working(t) /\ Removes(t) /\ call[t].todo = <<>> /\ call[t].drop = <<>>
      /\ slots'[k][i] = NULL
      /\ \A c \in Kinds : Ids(c)' = Ids(c) /\ (c # k => slots'[c] = slots[c])
      /\ \A c \in Kinds : \A x \in Ids(c) : c # k \/ x # i => slots'[c][x] = slots[c][x]
      /\ \A u \in Users : \A x : WorksOn(u, x)' <=> WorksOn(u, x)
      /\ \A u \in Users : u # t => call'[u] = call[u]
      /\ call'[t].op = call[t].op /\ call'[t].kind = k /\ call'[t].id = i /\ call'[t].todo = <<>>
      /\ occupied' = occupied /\ pc' = pc /\ at' = at /\ seen' = seen /\ own' = own /\ job' = job
  BY <1>1 DEF Gone
<1>3. InstanceInv' /\ TypeOK /\ HeldInv /\ LeftInv /\ GeneratorInv
  BY ResetKeeps DEF ExactInv, InstanceInv
<1>4. WorksOn(t, <<k, i>>) /\ \A c \in {"pro", "alg"} : c \in Kinds
  BY <1>2, KindNames DEF WorksOn
<1>5. Advances(t) /\ \A c : Passes(t, c)
  BY <1>2 DEF Advances, Passes
<1>6. \A u \in Users, c \in Kinds : ToRemove(u, c)' = ToRemove(u, c)
  BY <1>2, <1>3, <1>5, ToRemoveSame
<1>7. Shrinks(t)
  <2>1. \A c \in Kinds : \A x \in Ids(c) : slots'[c][x] \in {slots[c][x], NULL}
    BY <1>2
  <2>2. ASSUME NEW c \in {"pro", "alg"}, NEW x, NEW u \in Users
        PROVE  /\ Holds(u, c, x) => Holds(u, c, x)'
               /\ WorksOn(u, <<c, x>>) => call'[u].op = call[u].op /\ call'[u].todo = call[u].todo
    <3>1. call'[u].op = call[u].op /\ call'[u].todo = call[u].todo
      BY <1>2
    <3>2. ToRemove(u, c)' = ToRemove(u, c) /\ own'[u][c] = own[u][c]
      BY <1>2, <1>4, <1>6
    <3> QED
      BY <1>2, <3>1, <3>2, HoldsSame
  <2>3. ASSUME NEW c \in {"pro", "alg"}, NEW x, IsValid(c, x), ~IsValid(c, x)',
               NEW l \in RefKinds, NEW r \in Nat \ {0}, CountsFor(<<c, x>>, <<l, r>>)
        PROVE  FALSE
    <3>1. c = k /\ x = i
      <4>1. x \in Ids(c) /\ slots[c][x] # NULL
        BY <1>3, <1>4, <2>3, SlotFacts DEF IsValid
      <4>2. ASSUME c # k \/ x # i
            PROVE  FALSE
        <5>1. slots'[c][x] # NULL
          BY <1>2, <1>4, <4>1, <4>2
        <5>2. DOMAIN slots'[c] = Ids(c)'
          BY <1>3, <1>4, SlotsNext DEF SlotsOf, InstanceInv
        <5> QED
          BY <1>2, <1>4, <2>3, <4>1, <5>1, <5>2 DEF IsValid
      <4> QED
        BY <4>2
    <3>2. CountedBy(<<k, i>>, <<l, r>>)
      BY <2>3, <3>1 DEF CountsFor
    <3> QED
      BY <1>2, <1>4, <3>2 DEF CountedBy, Removes
  <2>4. \A c \in {"pro", "alg"} : \A x : IsValid(c, x)' => \A u \in Users :
          /\ Holds(u, c, x) => Holds(u, c, x)'
          /\ WorksOn(u, <<c, x>>)' <=> WorksOn(u, <<c, x>>)
          /\ WorksOn(u, <<c, x>>) => call'[u].op = call[u].op /\ call'[u].todo = call[u].todo
    BY <1>2, <2>2
  <2>5. pc'[t] # "writing"
    BY <1>1 DEF Gone
  <2>6. \A u \in Users : u # t => pc'[u] = pc[u] /\ call'[u] = call[u] /\ seen'[u] = seen[u]
    BY <1>2
  <2> QED
    BY <1>2, <2>1, <2>3, <2>4, <2>5, <2>6 DEF Shrinks
<1>8. TodoInv(t)'
  BY <1>2 DEF TodoInv
<1>9. GeneratorInv'
  <2>1. ASSUME NEW c \in {"pro", "alg"}, NEW m \in Ids(c), HasRandom(c, m)
        PROVE  m \in Ids(c)' /\ HasRandom(c, m)' /\ slots'[c][m].rnd = slots[c][m].rnd
    <3>1. c # k \/ m # i
      BY <1>2, <1>4, <2>1 DEF HasRandom
    <3>2. slots'[c][m] = slots[c][m] /\ slots[c][m] # NULL /\ m \in Ids(c)'
      BY <1>2, <1>4, <2>1, <3>1 DEF HasRandom
    <3>3. ASSUME NEW u \in Users, WorksOn(u, <<c, m>>)', Removes(u)'
          PROVE  call'[u].drop # <<>>
      <4>1. WorksOn(u, <<c, m>>) /\ u # t
        BY <1>2, <3>1, <3>3 DEF WorksOn
      <4> QED
        BY <1>2, <2>1, <3>3, <4>1 DEF HasRandom, Removes
    <3> QED
      BY <3>2, <3>3 DEF HasRandom
  <2>2. slots'["rnd"] = slots["rnd"] /\ Ids("rnd")' = Ids("rnd")
    BY <1>2, KindNames
  <2> QED
    BY <1>3, <2>1, <2>2, GeneratorKept
<1>10. Dropped(t) = <<>> /\ DOMAIN Dropped(t)' = DOMAIN o.parts
       /\ \A p \in DOMAIN o.parts : Dropped(t)'[p] = <<"param", o.parts[p]>>
  <2>1. Working(t)' /\ Removes(t)'
    BY <1>2 DEF Working, Removes
  <2>2. Dropped(t)' = call'[t].drop
    BY <1>2, <2>1 DEF Dropped
  <2> QED
    BY <1>1, <1>2, <2>2 DEF Dropped, Gone
<1>11. \A u \in Users : u # t => Dropped(u)' = Dropped(u)
  <2>1. ASSUME NEW u \in Users, u # t
        PROVE  Dropped(u)' = Dropped(u)
    <3>1. call'[u] = call[u] /\ (Working(u)' <=> Working(u)) /\ (Removes(u)' <=> Removes(u))
      BY <1>2, <2>1 DEF Working, Removes
    <3>2. Working(u) => slots'[call[u].kind] = slots[call[u].kind]
      <4>1. Working(u) => call[u].kind # k
        BY <1>2, <2>1, WorkFacts
      <4> QED
        BY <1>2, <4>1, WorkDomain
    <3> QED
      BY <3>1, <3>2 DEF Dropped
  <2> QED
    BY <2>1
<1>12. \A p : IsPart(p)' <=> IsPart(p)
  <2>1. CASE k = "alg"
    <3>1. o.parts = <<>>
      BY <1>2, <2>1 DEF InstanceInv, PartInv
    <3>2. DOMAIN o.parts = {} /\ DOMAIN Dropped(t) = {}
      BY <1>10, <3>1
    <3>3. slots'["pro"] = slots["pro"] /\ Ids("pro")' = Ids("pro")
      BY <1>2, <2>1, KindNames
    <3>4. \A x : PartsOf(x)' = PartsOf(x)
      BY <3>3 DEF PartsOf
    <3> QED
      BY <1>10, <1>11, <3>2, <3>3, <3>4 DEF IsPart
  <2>2. CASE k = "pro"
    <3>1. PartsOf(i) = o.parts /\ PartsOf(i)' = <<>> /\ DOMAIN PartsOf(i)' = {}
      BY <1>2, <2>2 DEF PartsOf
    <3>2. Ids("pro")' = Ids("pro") /\ \A x \in Ids("pro") : x # i => PartsOf(x)' = PartsOf(x)
      BY <1>2, <2>2 DEF PartsOf
    <3>3. DOMAIN Dropped(t) = {}
      BY <1>10
    <3>4. ASSUME NEW p, IsPart(p)
          PROVE  IsPart(p)'
      <4>1. CASE \E x \in Ids("pro") : \E q \in DOMAIN PartsOf(x) : PartsOf(x)[q] = p
        <5>1. PICK x \in Ids("pro") : \E q \in DOMAIN PartsOf(x) : PartsOf(x)[q] = p
          BY <4>1
        <5>2. CASE x = i
          <6>1. PICK q \in DOMAIN PartsOf(x) : PartsOf(x)[q] = p
            BY <5>1
          <6>2. q \in DOMAIN Dropped(t)' /\ Dropped(t)'[q][2] = p
            BY <1>10, <3>1, <5>2, <6>1
          <6> QED
            BY <6>2 DEF IsPart
        <5>3. CASE x # i
          BY <3>2, <5>1, <5>3 DEF IsPart
        <5> QED
          BY <5>2, <5>3
      <4>2. CASE \E u \in Users : \E n \in DOMAIN Dropped(u) : Dropped(u)[n][2] = p
        BY <1>11, <3>3, <4>2 DEF IsPart
      <4> QED
        BY <3>4, <4>1, <4>2 DEF IsPart
    <3>5. ASSUME NEW p, IsPart(p)'
          PROVE  IsPart(p)
      <4>1. CASE \E x \in Ids("pro")' : \E q \in DOMAIN PartsOf(x)' : PartsOf(x)'[q] = p
        BY <3>1, <3>2, <4>1 DEF IsPart
      <4>2. CASE \E u \in Users : \E n \in DOMAIN Dropped(u)' : Dropped(u)'[n][2] = p
        <5>1. PICK u \in Users : \E n \in DOMAIN Dropped(u)' : Dropped(u)'[n][2] = p
          BY <4>2
        <5>2. CASE u = t
          <6>1. PICK n \in DOMAIN Dropped(u)' : Dropped(u)'[n][2] = p
            BY <5>1
          <6>2. n \in DOMAIN PartsOf(i) /\ PartsOf(i)[n] = p
            BY <1>10, <3>1, <5>2, <6>1
          <6> QED
            BY <1>2, <2>2, <6>2 DEF IsPart
        <5>3. CASE u # t
          BY <1>11, <5>1, <5>3 DEF IsPart
        <5> QED
          BY <5>2, <5>3
      <4> QED
        BY <3>5, <4>1, <4>2 DEF IsPart
    <3> QED
      BY <3>4, <3>5
  <2> QED
    BY <1>2, <2>1, <2>2
<1>13. LeftInv'
  <2>1. \A p : ToBeRemoved(p)' <=> ToBeRemoved(p)
    BY <1>2, <1>6, KindNames, ToBeSame
  <2>2. \A p : IsValid("param", p)' <=> IsValid("param", p)
    <3>1. slots'["param"] = slots["param"]
      BY <1>2, KindNames
    <3> QED
      BY <3>1 DEF IsValid
  <2>3. Left' = Left
    BY <1>3, <1>12, <2>1, <2>2, LeftSame
  <2>4. job # 0 /\ LeavesParam(job) /\ at'[Main] = StartAt + 2 => pc'[Main] = "idle"
    BY <1>2, <1>3, <1>5, MainRests DEF Gone
  <2> QED
    BY <1>2, <1>3, <1>5, <2>3, <2>4, LeftKept
<1> QED
  BY <1>3, <1>7, <1>8, <1>9, <1>13, ShrinkExact

\* An object drops what was its own.
Drops(t, k, i, l, n, d) ==
    /\ k = call[t].kind /\ i = call[t].id /\ d = call[t].drop
    /\ k \in {"pro", "alg"} /\ k \in Kinds /\ i \in Ids(k)
    /\ l \in {"rnd", "param"} /\ l \in Kinds /\ n \in Ids(l) /\ slots[l][n] # NULL
    /\ d \in Seq(Kinds \X Nat) /\ d # <<>> /\ d[1] = <<l, n>>
    /\ slots[k][i] # NULL => l = "rnd" /\ n = slots[k][i].rnd /\ Dropped(t) = <<>>
    /\ slots[k][i] = NULL => l = "param" /\ Dropped(t) = d
    /\ Working(t) /\ Removes(t) /\ call[t].todo = <<>>
    /\ pc[t] # "idle" /\ pc'[t] = "counting"
    /\ slots'[l][n] = NULL
    /\ \A c \in Kinds : Ids(c)' = Ids(c) /\ (c # l => slots'[c] = slots[c])
    /\ \A c \in Kinds : \A x \in Ids(c) : c # l \/ x # n => slots'[c][x] = slots[c][x]
    /\ call'[t].op = call[t].op /\ call'[t].kind = k /\ call'[t].id = i /\ call'[t].todo = <<>>
    /\ call'[t].drop = Tail(d)
    /\ \A u \in Users : u # t => pc'[u] = pc[u] /\ call'[u] = call[u]
    /\ \A u \in Users : Working(u)' <=> Working(u)
    /\ \A u \in Users : \A x : WorksOn(u, x)' <=> WorksOn(u, x)
    /\ occupied' = occupied /\ at' = at /\ seen' = seen /\ own' = own /\ job' = job

LEMMA DropFacts ==
    ASSUME InstanceInv, NEW t \in Users, DropDone(t)
    PROVE  \E k, i, l, n, d : Drops(t, k, i, l, n, d)
<1>1. PICK k, i : k = call[t].kind /\ i = call[t].id
  OBVIOUS
<1>2. PICK l, n : l = Head(call[t].drop)[1] /\ n = Head(call[t].drop)[2]
  OBVIOUS
<1>3. PICK d : d = call[t].drop
  OBVIOUS
<1>4. pc[t] = "discarding" /\ AtCallInv(t) /\ TypeOK
  BY DEF DropDone, InstanceInv
<1>5. Working(t) /\ Removes(t) /\ call[t].todo = <<>> /\ d # <<>>
  BY <1>3, <1>4 DEF AtCallInv, Working
<1>6. /\ pc' = [pc EXCEPT ![t] = "counting"] /\ call' = [call EXCEPT ![t].drop = Tail(d)]
      /\ occupied' = occupied /\ at' = at /\ seen' = seen /\ own' = own /\ job' = job
      /\ Empties(l, n)
  BY <1>2, <1>3 DEF DropDone, Goto, Discard, Empties, task
<1>7. /\ l \in {"rnd", "param"} /\ n \in Ids(l) /\ slots[l][n] # NULL
      /\ d \in Seq(Kinds \X Nat) /\ d[1] = <<l, n>>
      /\ slots[k][i] # NULL => l = "rnd" /\ n = slots[k][i].rnd /\ Dropped(t) = <<>>
      /\ slots[k][i] = NULL => l = "param" /\ Dropped(t) = d
  BY <1>1, <1>2, <1>3, <1>5, DropNeeds
<1>8. k \in {"pro", "alg"} /\ k \in Kinds /\ i \in Ids(k) /\ l \in Kinds
  BY <1>1, <1>5, <1>7, WorkDomain, KindNames
<1>9. /\ slots'[l][n] = NULL
      /\ \A c \in Kinds : Ids(c)' = Ids(c) /\ (c # l => slots'[c] = slots[c])
      /\ \A c \in Kinds : \A x \in Ids(c) : c # l \/ x # n => slots'[c][x] = slots[c][x]
  BY <1>4, <1>6, <1>7, <1>8, SlotEmptied
<1>10. pc'[t] = "counting" /\ \A u \in Users : u # t => pc'[u] = pc[u]
  BY <1>4, <1>6 DEF TypeOK
<1>11. /\ call'[t].op = call[t].op /\ call'[t].kind = k /\ call'[t].id = i
       /\ call'[t].todo = <<>> /\ call'[t].drop = Tail(d)
       /\ \A u \in Users : u # t => call'[u] = call[u]
  <2>1. call \in [Users -> CallStates] /\ call[t] \in CallStates
    BY <1>4 DEF TypeOK
  <2> QED
    BY <1>1, <1>5, <1>6, <2>1 DEF CallStates
<1>12. \A u \in Users : Working(u)' <=> Working(u)
  BY <1>5, <1>10 DEF Working
<1>13. \A u \in Users : \A x : WorksOn(u, x)' <=> WorksOn(u, x)
  <2>1. \A u \in Users : call'[u].kind = call[u].kind /\ call'[u].id = call[u].id
    BY <1>1, <1>11
  <2> QED
    BY <1>12, <2>1 DEF WorksOn
<1>14. Drops(t, k, i, l, n, d)
  BY <1>1, <1>3, <1>4, <1>5, <1>6, <1>7, <1>8, <1>9, <1>10, <1>11, <1>12, <1>13 DEF Drops
<1> QED
  BY <1>14

LEMMA DropDoneExact ==
    ASSUME InstanceInv, ExactInv, NEW t \in Users, DropDone(t)
    PROVE  ExactInv'
<1>1. PICK k, i, l, n, d : Drops(t, k, i, l, n, d)
  BY DropFacts
<1>2. /\ k = call[t].kind /\ i = call[t].id /\ k \in {"pro", "alg"} /\ k \in Kinds /\ i \in Ids(k)
      /\ l \in {"rnd", "param"} /\ l \in Kinds /\ n \in Ids(l)
      /\ slots[k][i] # NULL => l = "rnd" /\ n = slots[k][i].rnd /\ Dropped(t) = <<>>
      /\ slots[k][i] = NULL => l = "param" /\ Dropped(t) = d
      /\ Working(t) /\ Removes(t) /\ call[t].todo = <<>> /\ pc[t] # "idle" /\ pc'[t] = "counting"
      /\ slots'[l][n] = NULL
      /\ \A c \in Kinds : Ids(c)' = Ids(c) /\ (c # l => slots'[c] = slots[c])
      /\ \A c \in Kinds : \A x \in Ids(c) : c # l \/ x # n => slots'[c][x] = slots[c][x]
      /\ call'[t].op = call[t].op /\ call'[t].todo = <<>> /\ call'[t].drop = Tail(d)
      /\ call'[t].kind = k /\ call'[t].id = i
      /\ \A u \in Users : u # t => pc'[u] = pc[u] /\ call'[u] = call[u]
      /\ \A u \in Users : Working(u)' <=> Working(u)
      /\ \A u \in Users : \A x : WorksOn(u, x)' <=> WorksOn(u, x)
      /\ occupied' = occupied /\ at' = at /\ seen' = seen /\ own' = own /\ job' = job
  BY <1>1 DEF Drops
<1>3. /\ InstanceInv' /\ TypeOK /\ HeldInv /\ LeftInv /\ GeneratorInv
  BY DropDoneKeeps DEF ExactInv, InstanceInv
<1>4. WorksOn(t, <<k, i>>) /\ \A c \in {"pro", "alg"} : c \in Kinds /\ slots'[c] = slots[c]
  BY <1>2, KindNames DEF WorksOn
<1>5. Advances(t) /\ \A c : Passes(t, c)
  BY <1>2 DEF Advances, Passes
<1>6. \A u \in Users, c \in Kinds : ToRemove(u, c)' = ToRemove(u, c)
  BY <1>2, <1>3, <1>5, ToRemoveSame
<1>7. Shrinks(t)
  <2>1. \A c \in Kinds : \A x \in Ids(c) : slots'[c][x] \in {slots[c][x], NULL}
    BY <1>2
  <2>2. ASSUME NEW c \in {"pro", "alg"}, NEW x, NEW u \in Users
        PROVE  /\ Holds(u, c, x) => Holds(u, c, x)'
               /\ WorksOn(u, <<c, x>>) => call'[u].op = call[u].op /\ call'[u].todo = call[u].todo
    <3>1. call'[u].op = call[u].op /\ call'[u].todo = call[u].todo
      BY <1>2
    <3>2. ToRemove(u, c)' = ToRemove(u, c) /\ own'[u][c] = own[u][c]
      BY <1>2, <1>4, <1>6
    <3> QED
      BY <1>2, <3>1, <3>2, HoldsSame
  <2>3. \A c \in {"pro", "alg"} : \A x : IsValid(c, x)' <=> IsValid(c, x)
    BY <1>4 DEF IsValid
  <2>4. \A c \in {"pro", "alg"} : \A x : IsValid(c, x)' => \A u \in Users :
          /\ Holds(u, c, x) => Holds(u, c, x)'
          /\ WorksOn(u, <<c, x>>)' <=> WorksOn(u, <<c, x>>)
          /\ WorksOn(u, <<c, x>>) => call'[u].op = call[u].op /\ call'[u].todo = call[u].todo
    BY <1>2, <2>2
  <2> QED
    BY <1>2, <2>1, <2>3, <2>4 DEF Shrinks
<1>8. TodoInv(t)'
  BY <1>2 DEF TodoInv
<1>9. GeneratorInv'
  <2>1. ASSUME NEW c \in {"pro", "alg"}, NEW m \in Ids(c), HasRandom(c, m),
               l = "rnd" => slots[c][m].rnd # n
        PROVE  m \in Ids(c)' /\ HasRandom(c, m)' /\ slots'[c][m].rnd = slots[c][m].rnd
    <3>1. c # k \/ m # i
      BY <1>2, <2>1 DEF HasRandom
    <3>2. slots'[c][m] = slots[c][m] /\ slots[c][m] # NULL /\ m \in Ids(c)'
      BY <1>2, <1>4, <2>1 DEF HasRandom
    <3>3. ASSUME NEW u \in Users, WorksOn(u, <<c, m>>)', Removes(u)'
          PROVE  call'[u].drop # <<>>
      <4>1. WorksOn(u, <<c, m>>) /\ u # t
        BY <1>2, <3>1, <3>3 DEF WorksOn
      <4> QED
        BY <1>2, <2>1, <3>3, <4>1 DEF HasRandom, Removes
    <3> QED
      BY <3>2, <3>3 DEF HasRandom
  <2>2. ASSUME NEW r \in Ids("rnd")', slots'["rnd"][r] # NULL
        PROVE  /\ r \in Ids("rnd") /\ slots["rnd"][r] # NULL /\ (l = "rnd" => r # n)
    BY <1>2, <2>2, KindNames
  <2> QED
    BY <1>3, <2>1, <2>2, GeneratorKept
<1>10. \A u \in Users : u # t => Dropped(u)' = Dropped(u)
  <2>1. ASSUME NEW u \in Users, u # t
        PROVE  Dropped(u)' = Dropped(u)
    <3>1. call'[u] = call[u] /\ (Working(u)' <=> Working(u)) /\ (Removes(u)' <=> Removes(u))
      BY <1>2, <2>1 DEF Removes
    <3>2. Working(u) => slots'[call[u].kind] = slots[call[u].kind]
      BY <1>4, WorkDomain
    <3> QED
      BY <3>1, <3>2 DEF Dropped
  <2> QED
    BY <2>1
<1>11. Dropped(t)' = IF slots[k][i] = NULL THEN Tail(d) ELSE <<>>
  <2>1. Working(t)' /\ Removes(t)' /\ slots'[k][i] = slots[k][i]
    BY <1>2, <1>4 DEF Removes
  <2> QED
    BY <1>2, <2>1 DEF Dropped
<1>12. \A x : PartsOf(x)' = PartsOf(x)
  BY <1>4 DEF PartsOf
<1>13. Ids("pro")' = Ids("pro")
  BY <1>2, KindNames
<1>14. ASSUME NEW p, l = "param" => p # n
       PROVE  IsPart(p)' <=> IsPart(p)
  <2>1. CASE slots[k][i] # NULL
    <3>1. \A u \in Users : Dropped(u)' = Dropped(u)
      BY <1>2, <1>10, <1>11, <2>1
    <3> QED
      BY <1>12, <1>13, <3>1 DEF IsPart
  <2>2. CASE slots[k][i] = NULL
    <3>1. Dropped(t) = d /\ Dropped(t)' = Tail(d) /\ p # d[1][2]
      BY <1>1, <1>2, <1>11, <1>14, <2>2 DEF Drops
    <3>2. Len(d) \in Nat \ {0} /\ DOMAIN d = 1..Len(d) /\ DOMAIN Tail(d) = 1..(Len(d) - 1)
      BY <1>1 DEF Drops
    <3>3. \A m \in 1..(Len(d) - 1) : Tail(d)[m] = d[m + 1]
      BY <1>1 DEF Drops
    <3>4. (\E m \in DOMAIN Tail(d) : Tail(d)[m][2] = p) <=> (\E m \in DOMAIN d : d[m][2] = p)
      <4>1. ASSUME NEW m \in DOMAIN d, d[m][2] = p
            PROVE  \E x \in DOMAIN Tail(d) : Tail(d)[x][2] = p
        <5>1. m # 1
          BY <3>1, <4>1
        <5>2. m - 1 \in 1..(Len(d) - 1) /\ m - 1 + 1 = m
          BY <3>2, <5>1
        <5> QED
          BY <3>2, <3>3, <4>1, <5>2
      <4>2. ASSUME NEW m \in DOMAIN Tail(d), Tail(d)[m][2] = p
            PROVE  \E x \in DOMAIN d : d[x][2] = p
        BY <3>2, <3>3, <4>2
      <4> QED
        BY <4>1, <4>2
    <3>5. (\E m \in DOMAIN Dropped(t)' : Dropped(t)'[m][2] = p)
             <=> (\E m \in DOMAIN Dropped(t) : Dropped(t)[m][2] = p)
      BY <3>1, <3>4
    <3>6. \A u \in Users : (\E m \in DOMAIN Dropped(u)' : Dropped(u)'[m][2] = p)
                              <=> (\E m \in DOMAIN Dropped(u) : Dropped(u)[m][2] = p)
      BY <1>10, <3>5
    <3> QED
      BY <1>12, <1>13, <3>6 DEF IsPart
  <2> QED
    BY <2>1, <2>2
<1>15. LeftInv'
  <2>1. \A p : ToBeRemoved(p)' <=> ToBeRemoved(p)
    BY <1>2, <1>6, KindNames, ToBeSame
  <2>2. ASSUME NEW p, l = "param" => p # n
        PROVE  IsValid("param", p)' <=> IsValid("param", p)
    <3>1. SlotsOf /\ SlotsOf'
      BY <1>3, SlotsNow, SlotsNext DEF InstanceInv
    <3>2. DOMAIN slots["param"] = Ids("param") /\ DOMAIN slots'["param"] = Ids("param")
      BY <1>2, <3>1, KindNames DEF SlotsOf
    <3>3. \A x \in Ids("param") : l # "param" \/ x # n => slots'["param"][x] = slots["param"][x]
      BY <1>2, KindNames
    <3> QED
      BY <2>2, <3>2, <3>3 DEF IsValid
  <2>3. l = "param" => IsPart(n) /\ ~IsValid("param", n)'
    <3>1. ASSUME l = "param"
          PROVE  IsPart(n)
      <4>1. Dropped(t) = d /\ 1 \in DOMAIN d /\ d[1][2] = n
        BY <1>1, <3>1 DEF Drops
      <4> QED
        BY <4>1 DEF IsPart
    <3>2. l = "param" => ~IsValid("param", n)'
      BY <1>2 DEF IsValid
    <3> QED
      BY <3>1, <3>2
  <2>4. Left' = Left
    BY <1>3, <1>14, <2>1, <2>2, <2>3, LeftSame
  <2>5. job # 0 /\ LeavesParam(job) /\ at'[Main] = StartAt + 2 => pc'[Main] = "idle"
    BY <1>2, <1>3, <1>5, MainRests
  <2> QED
    BY <1>2, <1>3, <1>5, <2>4, <2>5, LeftKept
<1> QED
  BY <1>3, <1>7, <1>8, <1>9, <1>15, ShrinkExact

-----------------------------------------------------------------------------
(* A removal is over.                                                      *)

\* It was the only one of its object.
LEMMA ToRemoveLess ==
    ASSUME TypeOK, job' = job, own' = own, NEW t \in Users, Advances(t), NEW k \in Kinds, NEW j,
           Script(t)[at[t]] = <<"remove", k, j>>,
           NEW u \in Users, NEW c \in Kinds, NEW m \in ToRemove(u, c), u # t \/ c # k \/ m # j
    PROVE  m \in ToRemove(u, c)'
<1>1. /\ at[u] \in Nat \ {0} /\ at'[u] \in Nat \ {0} /\ Script(u)' = Script(u)
      /\ at[u] <= at'[u] /\ (u # t => at'[u] = at[u])
  BY AdvancesOn, ScriptStays
<1>2. at'[u] # at[u] => u = t /\ at'[t] = at[t] + 1
  BY <1>1, ThreadTypes DEF Advances
<1>3. DOMAIN Script(u) \subseteq Nat
  BY ThreadTypes, ScriptType
<1>4. PICK n \in DOMAIN Script(u) : n >= at[u] /\ Script(u)[n] = <<"remove", c, m>>
  BY DEF ToRemove
<1>5. n >= at'[u]
  <2>1. CASE at'[u] = at[u]
    BY <1>4, <2>1
  <2>2. CASE at'[u] # at[u]
    <3>1. n # at[u]
      BY <1>2, <1>4, <2>2
    <3> QED
      BY <1>1, <1>2, <1>3, <1>4, <2>2, <3>1
  <2> QED
    BY <2>1, <2>2
<1>6. m \in DOMAIN own'[u][c]
  BY DEF ToRemove
<1> QED
  BY <1>1, <1>4, <1>5, <1>6 DEF ToRemove

Over(t, k, i, j) ==
    /\ k = call[t].kind /\ i = call[t].id /\ k \in Kinds /\ Removes(t) /\ pc[t] # "idle"
    /\ j \in ToRemove(t, k) /\ Script(t)[at[t]] = <<"remove", k, j>> /\ i = own[t][k][j]
    /\ pc'[t] = "idle" /\ call'[t] = NoCall
    /\ \A u \in Users : u # t => pc'[u] = pc[u] /\ call'[u] = call[u]
    /\ \A u \in Users : Working(u)' <=> Working(u) /\ u # t
    /\ \A u \in Users : \A x : WorksOn(u, x)' <=> WorksOn(u, x) /\ u # t
    /\ Advances(t)
    /\ occupied' = occupied /\ seen' = seen /\ own' = own /\ job' = job

LEMMA OverFacts ==
    ASSUME InstanceInv, NEW t \in Users, call[t].op = "remove", pc[t] \notin {"idle", "thrown"},
           pc' = [pc EXCEPT ![t] = "idle"], at' = [at EXCEPT ![t] = @ + 1],
           call' = [call EXCEPT ![t] = NoCall],
           UNCHANGED <<occupied, seen, own, task>>
    PROVE  \E k, i, j : Over(t, k, i, j)
<1>1. PICK k, i : k = call[t].kind /\ i = call[t].id
  OBVIOUS
<1>2. TypeOK /\ AtCallInv(t)
  BY DEF InstanceInv
<1>3. k \in Kinds
  BY <1>1, <1>2, CallType
<1>4. PICK j \in DOMAIN own[t][k] : Script(t)[at[t]] = <<"remove", k, j>> /\ i = own[t][k][j]
  BY <1>1, <1>2 DEF AtCallInv
<1>5. Active(t) /\ at[t] \in DOMAIN Script(t)
  BY BusyIsActive DEF Active
<1>6. j \in ToRemove(t, k)
  <2>1. GotBefore(t, at[t], own[t])
    BY GotNow
  <2> QED
    BY <1>2, <1>3, <1>4, <1>5, <2>1, RemovedIsOn
<1>7. /\ call'[t] = NoCall /\ \A u \in Users : u # t => call'[u] = call[u]
      /\ \A u \in Users : Working(u)' <=> Working(u) /\ u # t
      /\ \A u \in Users : \A x : WorksOn(u, x)' <=> WorksOn(u, x) /\ u # t
      /\ Advances(t)
  <2>1. Script(t)[at[t]][1] \in {"add", "remove"} /\ job' = job /\ running' = running /\ own' = own
    BY <1>4 DEF task
  <2> QED
    BY <1>5, <2>1, CallReturns
<1>8. pc'[t] = "idle" /\ \A u \in Users : u # t => pc'[u] = pc[u]
  BY <1>2 DEF TypeOK
<1>9. occupied' = occupied /\ seen' = seen /\ own' = own /\ job' = job
  BY DEF task
<1>10. Over(t, k, i, j)
  BY <1>1, <1>3, <1>4, <1>6, <1>7, <1>8, <1>9 DEF Over, Removes
<1> QED
  BY <1>10

LEMMA RemoveReturnsExact ==
    ASSUME InstanceInv, ExactInv, NEW t \in Users, RemoveReturns(t)
    PROVE  ExactInv'
<1>1. PICK k, i, j : Over(t, k, i, j)
  <2>1. /\ pc[t] \notin {"idle", "thrown"} /\ call[t].op = "remove"
        /\ pc' = [pc EXCEPT ![t] = "idle"] /\ at' = [at EXCEPT ![t] = @ + 1]
        /\ call' = [call EXCEPT ![t] = NoCall] /\ UNCHANGED <<occupied, seen, own, task>>
    BY DEF RemoveReturns, Dropping, Goto, Returns
  <2> QED
    BY <2>1, OverFacts
<1>2. /\ k = call[t].kind /\ i = call[t].id /\ k \in Kinds /\ Removes(t) /\ pc[t] # "idle"
      /\ j \in ToRemove(t, k) /\ Script(t)[at[t]] = <<"remove", k, j>> /\ i = own[t][k][j]
      /\ pc'[t] = "idle" /\ Advances(t)
      /\ \A u \in Users : u # t => pc'[u] = pc[u] /\ call'[u] = call[u]
      /\ \A u \in Users : Working(u)' <=> Working(u) /\ u # t
      /\ \A u \in Users : \A x : WorksOn(u, x)' <=> WorksOn(u, x) /\ u # t
      /\ occupied' = occupied /\ seen' = seen /\ own' = own /\ job' = job
  BY <1>1 DEF Over
<1>3. /\ Working(t) /\ slots' = slots /\ slots[k][i] = NULL /\ call[t].drop = <<>>
      /\ \A c \in Kinds : Ids(c)' = Ids(c)
  BY <1>2 DEF RemoveReturns, Dropping, Working, Ids
<1>4. InstanceInv' /\ TypeOK /\ HeldInv /\ LeftInv /\ GeneratorInv
  BY RemoveReturnsKeeps DEF ExactInv, InstanceInv
<1>5. k \in {"pro", "alg"} /\ \A c \in {"pro", "alg"} : c \in Kinds
  BY <1>2, <1>3, WorkDomain, KindNames
<1>6. at' = [at EXCEPT ![t] = @ + 1] /\ NotRemoval(t, "param")
  BY <1>2, <1>5 DEF NotRemoval, RemoveReturns, Returns
<1>7. Shrinks(t)
  <2>1. ASSUME NEW c \in {"pro", "alg"}, NEW x, IsValid(c, x)', NEW u \in Users
        PROVE  /\ Holds(u, c, x) => Holds(u, c, x)'
               /\ WorksOn(u, <<c, x>>)' <=> WorksOn(u, <<c, x>>)
               /\ WorksOn(u, <<c, x>>) => call'[u].op = call[u].op /\ call'[u].todo = call[u].todo
    <3>1. <<c, x>> # <<k, i>>
      BY <1>3, <2>1 DEF IsValid
    <3>2. ~WorksOn(t, <<c, x>>)
      BY <1>2, <3>1 DEF WorksOn
    <3>3. ASSUME NEW m \in ToRemove(u, c), own[u][c][m] = x
          PROVE  m \in ToRemove(u, c)' /\ own'[u][c][m] = x
      <4>1. u # t \/ c # k \/ m # j
        BY <1>2, <3>1, <3>3
      <4> QED
        BY <1>2, <1>4, <1>5, <3>3, <4>1, ToRemoveLess
    <3>4. WorksOn(u, <<c, x>>)' <=> WorksOn(u, <<c, x>>)
      BY <1>2, <3>2
    <3>5. WorksOn(u, <<c, x>>) => call'[u].op = call[u].op /\ call'[u].todo = call[u].todo
      BY <1>2, <3>2
    <3>6. Holds(u, c, x) => Holds(u, c, x)'
      BY <3>3, <3>4, <3>5 DEF Holds
    <3> QED
      BY <3>4, <3>5, <3>6
  <2>2. \A c \in {"pro", "alg"} : \A x : IsValid(c, x)' <=> IsValid(c, x)
    BY <1>3 DEF IsValid
  <2>3. \A c \in Kinds : \A x \in Ids(c) : slots'[c][x] \in {slots[c][x], NULL}
    BY <1>3
  <2> QED
    BY <1>2, <1>3, <2>1, <2>2, <2>3 DEF Shrinks
<1>8. TodoInv(t)'
  BY <1>2 DEF TodoInv
<1>9. GeneratorInv'
  <2>1. ASSUME NEW c \in {"pro", "alg"}, NEW m, HasRandom(c, m)
        PROVE  HasRandom(c, m)'
    <3>1. \A u \in Users : WorksOn(u, <<c, m>>)' /\ Removes(u)' => call'[u].drop # <<>>
      BY <1>2, <2>1 DEF HasRandom, Removes
    <3> QED
      BY <1>3, <2>1, <3>1 DEF HasRandom
  <2> QED
    BY <1>3, <1>4, <2>1, GeneratorKept, KindNames
<1>10. LeftInv'
  <2>1. \A u \in Users : ToRemove(u, "param")' = ToRemove(u, "param")
    BY <1>2, <1>4, <1>6, ToRemoveSame, KindNames DEF Passes
  <2>2. \A p : ToBeRemoved(p)' <=> ToBeRemoved(p)
    BY <1>2, <2>1, ToBeSame
  <2>3. ASSUME NEW u \in Users
        PROVE  Dropped(u)' = Dropped(u)
    <3>1. CASE u = t
      BY <1>2, <1>3, <3>1 DEF Dropped
    <3>2. CASE u # t
      BY <1>2, <1>3, <3>2 DEF Dropped, Removes
    <3> QED
      BY <3>1, <3>2
  <2>4. \A p : IsPart(p)' <=> IsPart(p)
    BY <1>3, <2>3, PartsSame
  <2>5. \A p : IsValid("param", p)' <=> IsValid("param", p)
    BY <1>3 DEF IsValid
  <2>6. Left' = Left
    BY <1>4, <2>2, <2>4, <2>5, LeftSame
  <2>7. job # 0 /\ LeavesParam(job) /\ at'[Main] = StartAt + 2 => pc'[Main] = "idle"
    BY <1>2, <1>4, MainRests
  <2> QED
    BY <1>2, <1>4, <1>6, <2>6, <2>7, LeftKept DEF Passes
<1> QED
  BY <1>4, <1>7, <1>8, <1>9, <1>10, ShrinkExact

LEMMA RemoveLeafExact ==
    ASSUME InstanceInv, ExactInv, NEW t \in Users, RemoveLeaf(t)
    PROVE  ExactInv'
<1>1. PICK k, i, j : Over(t, k, i, j)
  <2>1. /\ pc[t] \notin {"idle", "thrown"} /\ call[t].op = "remove"
        /\ pc' = [pc EXCEPT ![t] = "idle"] /\ at' = [at EXCEPT ![t] = @ + 1]
        /\ call' = [call EXCEPT ![t] = NoCall] /\ UNCHANGED <<occupied, seen, own, task>>
    BY DEF RemoveLeaf, Goto, Returns
  <2> QED
    BY <2>1, OverFacts
<1>2. /\ k = call[t].kind /\ i = call[t].id /\ k \in Kinds /\ Removes(t) /\ pc[t] # "idle"
      /\ j \in ToRemove(t, k) /\ Script(t)[at[t]] = <<"remove", k, j>> /\ i = own[t][k][j]
      /\ pc'[t] = "idle" /\ Advances(t)
      /\ \A u \in Users : u # t => pc'[u] = pc[u] /\ call'[u] = call[u]
      /\ \A u \in Users : Working(u)' <=> Working(u) /\ u # t
      /\ \A u \in Users : \A x : WorksOn(u, x)' <=> WorksOn(u, x) /\ u # t
      /\ occupied' = occupied /\ seen' = seen /\ own' = own /\ job' = job
  BY <1>1 DEF Over
<1>3. /\ ~Working(t) /\ Empties(k, i) /\ k \in {"param", "rcr"} /\ pc[t] = "locking"
  BY <1>2 DEF RemoveLeaf, Discard, Empties, Working
<1>4. InstanceInv' /\ TypeOK /\ HeldInv /\ LeftInv /\ GeneratorInv
  BY RemoveLeafKeeps DEF ExactInv, InstanceInv
<1>5. i \in Ids(k)
  BY <1>2, <1>4, OwnType DEF ToRemove
<1>6. /\ slots'[k][i] = NULL
      /\ \A c \in Kinds : Ids(c)' = Ids(c) /\ (c # k => slots'[c] = slots[c])
      /\ \A c \in Kinds : \A x \in Ids(c) : c # k \/ x # i => slots'[c][x] = slots[c][x]
  BY <1>2, <1>3, <1>4, <1>5, SlotEmptied
<1>7. \A c \in {"pro", "alg"} : c \in Kinds /\ slots'[c] = slots[c]
  BY <1>3, <1>6, KindNames
<1>8. at' = [at EXCEPT ![t] = @ + 1] /\ \A c : c # k => NotRemoval(t, c)
  BY <1>2 DEF NotRemoval, RemoveLeaf, Returns
<1>9. \A u \in Users, c \in Kinds : c # k => ToRemove(u, c)' = ToRemove(u, c)
  BY <1>2, <1>4, <1>8, ToRemoveSame DEF Passes
<1>10. \A u \in Users : \A x : WorksOn(u, x)' <=> WorksOn(u, x)
  BY <1>2, <1>3 DEF WorksOn
<1>11. Shrinks(t)
  <2>1. ASSUME NEW c \in {"pro", "alg"}, NEW x, NEW u \in Users
        PROVE  /\ Holds(u, c, x) => Holds(u, c, x)'
               /\ WorksOn(u, <<c, x>>) => call'[u].op = call[u].op /\ call'[u].todo = call[u].todo
    <3>1. WorksOn(u, <<c, x>>) => call'[u].op = call[u].op /\ call'[u].todo = call[u].todo
      BY <1>2, <1>3 DEF WorksOn
    <3>2. ToRemove(u, c)' = ToRemove(u, c) /\ own'[u][c] = own[u][c]
      BY <1>2, <1>3, <1>7, <1>9
    <3> QED
      BY <1>10, <3>1, <3>2, HoldsSame
  <2>2. \A c \in {"pro", "alg"} : \A x : IsValid(c, x)' <=> IsValid(c, x)
    BY <1>7 DEF IsValid
  <2>3. \A c \in Kinds : \A x \in Ids(c) : slots'[c][x] \in {slots[c][x], NULL}
    BY <1>6
  <2>4. \A c \in {"pro", "alg"} : \A x : IsValid(c, x)' => \A u \in Users :
          /\ Holds(u, c, x) => Holds(u, c, x)'
          /\ WorksOn(u, <<c, x>>)' <=> WorksOn(u, <<c, x>>)
          /\ WorksOn(u, <<c, x>>) => call'[u].op = call[u].op /\ call'[u].todo = call[u].todo
    BY <1>10, <2>1
  <2> QED
    BY <1>2, <1>6, <2>2, <2>3, <2>4 DEF Shrinks
<1>12. TodoInv(t)'
  BY <1>2 DEF TodoInv
<1>13. GeneratorInv'
  <2>1. ASSUME NEW c \in {"pro", "alg"}, NEW m, HasRandom(c, m)
        PROVE  HasRandom(c, m)' /\ slots'[c] = slots[c]
    <3>1. \A u \in Users : WorksOn(u, <<c, m>>)' /\ Removes(u)' => call'[u].drop # <<>>
      BY <1>2, <2>1 DEF HasRandom, Removes
    <3> QED
      BY <1>7, <2>1, <3>1 DEF HasRandom
  <2>2. slots'["rnd"] = slots["rnd"] /\ \A c \in Kinds : Ids(c)' = Ids(c)
    BY <1>3, <1>6, KindNames
  <2> QED
    BY <1>4, <2>1, <2>2, GeneratorKept, KindNames
<1>14. \A p : IsPart(p)' <=> IsPart(p)
  <2>1. ASSUME NEW u \in Users
        PROVE  Dropped(u)' = Dropped(u)
    <3>1. CASE u = t
      BY <1>2, <1>3, <3>1 DEF Dropped
    <3>2. CASE u # t
      <4>1. call'[u] = call[u] /\ (Working(u)' <=> Working(u)) /\ (Removes(u)' <=> Removes(u))
        BY <1>2, <3>2 DEF Removes
      <4>2. Working(u) => slots'[call[u].kind] = slots[call[u].kind]
        BY <1>7, WorkDomain
      <4> QED
        BY <4>1, <4>2 DEF Dropped
    <3> QED
      BY <3>1, <3>2
  <2> QED
    BY <1>7, <2>1, PartsSame
<1>15. LeftInv'
  <2>1. \A u \in Users : \A m \in ToRemove(u, "param")' : m \in ToRemove(u, "param")
    BY <1>2, <1>4, ToRemoveShrinks, KindNames
  <2>2. \A p : ToBeRemoved(p)' => ToBeRemoved(p)
    BY <1>2, <2>1 DEF ToBeRemoved
  <2>3. ASSUME NEW p, ToBeRemoved(p), k # "param" \/ p # i
        PROVE  ToBeRemoved(p)'
    <3>1. PICK u \in Users : \E m \in ToRemove(u, "param") : own[u]["param"][m] = p
      BY <2>3 DEF ToBeRemoved
    <3>2. PICK m \in ToRemove(u, "param") : own[u]["param"][m] = p
      BY <3>1
    <3>3. u # t \/ "param" # k \/ m # j
      BY <1>2, <2>3, <3>2
    <3>4. m \in ToRemove(u, "param")'
      BY <1>2, <1>4, <3>3, KindNames, ToRemoveLess
    <3> QED
      BY <1>2, <3>2, <3>4 DEF ToBeRemoved
  <2>4. ASSUME NEW p, k # "param" \/ p # i
        PROVE  IsValid("param", p)' <=> IsValid("param", p)
    <3>1. SlotsOf /\ SlotsOf'
      BY <1>4, SlotsNow, SlotsNext DEF InstanceInv
    <3>2. DOMAIN slots["param"] = Ids("param") /\ DOMAIN slots'["param"] = Ids("param")
      BY <1>6, <3>1, KindNames DEF SlotsOf
    <3>3. \A x \in Ids("param") : k # "param" \/ x # i => slots'["param"][x] = slots["param"][x]
      BY <1>6, KindNames
    <3> QED
      BY <2>4, <3>2, <3>3 DEF IsValid
  <2>5. k = "param" => ToBeRemoved(i) /\ ~IsValid("param", i)'
    BY <1>2, <1>6 DEF ToBeRemoved, IsValid
  <2>6. Left' = Left
    BY <1>4, <1>14, <2>2, <2>3, <2>4, <2>5, LeftSame
  <2>7. job # 0 /\ LeavesParam(job) /\ at'[Main] = StartAt + 2 => pc'[Main] = "idle"
    BY <1>2, <1>4, MainRests
  <2>8. ~LeavesNow(t)
    BY <1>3, <1>4 DEF LeavesNow, LeftInv
  <2> QED
    BY <1>2, <1>4, <2>6, <2>7, <2>8, LeftKept
<1> QED
  BY <1>4, <1>11, <1>12, <1>13, <1>15, ShrinkExact

-----------------------------------------------------------------------------
(* A thread gets an id.                                                    *)

\* No script ends with an adding.
LEMMA MoreToCome ==
    ASSUME JobOK, NEW t \in Users, at[t] \in DOMAIN Script(t), Script(t)[at[t]][1] = "add"
    PROVE  at[t] \in Nat /\ at[t] + 1 \in DOMAIN Script(t)
<1>1. CASE t # Main
  <2>1. t \in Threads
    BY <1>1 DEF Users
  <2>2. DOMAIN Script(t) = 1..7 /\ Script(t)[7] = <<"remove", "param", 1>>
    BY <2>1, ScriptOfThread
  <2>3. at[t] \in 1..7 /\ at[t] # 7
    BY <2>2
  <2> QED
    BY <2>2, <2>3
<1>2. CASE t = Main
  <2>1. job # 0
    BY <1>2, ScriptOfNobody
  <2>2. PICK n, f : n = Job.runs /\ f = FirstRemoval(Job.runs, Job.paramFirst)
    OBVIOUS
  <2>3. n \in Nat /\ DOMAIN Script(Main) = 1..5 * n + 6
    BY <2>1, <2>2, ScriptOfMain
  <2>4. 5 * n + 6 \in 1..5 * n + 6 /\ 5 * n + 6 > 3 * n + 4 /\ 5 * n + 6 > 3 * n + 2
    BY <2>3
  <2>5. Script(Main)[5 * n + 6][1] = "remove"
    BY <2>1, <2>2, <2>4, EndsOfMain
  <2>6. at[t] \in 1..5 * n + 6 /\ at[t] # 5 * n + 6
    BY <1>2, <2>3, <2>5
  <2> QED
    BY <1>2, <2>3, <2>6
<1> QED
  BY <1>1, <1>2

\* It will remove what it gets, and what it has got before.
Added(t, k, i) ==
    /\ OwnGrows(t, k, i)
    /\ \A u \in Users : \A m \in Kinds : \A j \in ToRemove(u, m) :
         j \in ToRemove(u, m)' /\ own'[u][m][j] = own[u][m][j]
    /\ \E j \in ToRemove(t, k)' : own'[t][k][j] = i /\ j = Len(own[t][k]) + 1

LEMMA OwnAdded ==
    ASSUME InstanceInv, InstanceInv', NEW t \in Users, NEW k \in Kinds, NEW i \in Nat,
           at[t] \in DOMAIN Script(t), Script(t)[at[t]] = <<"add", k, 1>>,
           at' = [at EXCEPT ![t] = @ + 1], Gets(t, k, i), job' = job
    PROVE  Added(t, k, i)
<1>1. /\ TypeOK /\ TypeOK' /\ GotInv' /\ JobOK
      /\ \A u : Script(u)' = Script(u)
  BY ScriptStays DEF InstanceInv, TypeOK, JobOK
<1>2. OwnGrows(t, k, i)
  <2>1. Script(t)[at[t]][1] = "add"
    OBVIOUS
  <2> QED
    BY <1>1, <2>1, OwnMore
<1>3. /\ at[t] \in Nat /\ at[t] + 1 \in DOMAIN Script(t)
      /\ \A u \in Users : at[u] \in Nat \ {0} /\ at'[u] = (IF u = t THEN at[u] + 1 ELSE at[u])
  <2>1. \A u \in Users : at[u] \in Nat \ {0}
    BY <1>1, AdvancesOn DEF Advances
  <2>2. \A u \in Users : at'[u] = (IF u = t THEN at[u] + 1 ELSE at[u])
    <3>1. at \in [Users -> Nat \ {0}]
      BY <1>1 DEF TypeOK
    <3> QED
      BY <3>1
  <2>3. at[t] \in Nat /\ at[t] + 1 \in DOMAIN Script(t)
    BY <1>1, MoreToCome
  <2> QED
    BY <2>1, <2>2, <2>3
<1>4. ASSUME NEW u \in Users, NEW m \in Kinds, NEW j \in DOMAIN own[u][m]
      PROVE  j \in DOMAIN own'[u][m] /\ own'[u][m][j] = own[u][m][j]
  <2>1. CASE u # t \/ m # k
    BY <1>2, <2>1 DEF OwnGrows
  <2>2. CASE u = t /\ m = k
    <3>1. Len(own[t][k]) \in Nat /\ DOMAIN own[t][k] = 1..Len(own[t][k])
      BY <1>1, OwnType
    <3>2. DOMAIN own'[t][k] = 1..Len(own'[t][k])
      <4>1. own'[t] \in IdLists
        BY <1>2 DEF OwnGrows
      <4> QED
        BY <4>1 DEF IdLists
    <3>3. Len(own'[t][k]) = Len(own[t][k]) + 1 /\ \A n \in 1..Len(own[t][k]) : own'[t][k][n] = own[t][k][n]
      BY <1>2 DEF OwnGrows
    <3> QED
      BY <2>2, <3>1, <3>2, <3>3
  <2> QED
    BY <2>1, <2>2
<1>5. ASSUME NEW u \in Users, NEW m \in Kinds, NEW j \in ToRemove(u, m)
      PROVE  j \in ToRemove(u, m)' /\ own'[u][m][j] = own[u][m][j]
  <2>1. PICK n \in DOMAIN Script(u) : n >= at[u] /\ Script(u)[n] = <<"remove", m, j>>
    BY DEF ToRemove
  <2>2. j \in DOMAIN own[u][m]
    BY DEF ToRemove
  <2>3. n \in Nat
    BY <1>1, ScriptType
  <2>4. u = t => n # at[t]
    BY <2>1
  <2>5. n >= at'[u]
    BY <1>3, <2>1, <2>3, <2>4
  <2>6. j \in DOMAIN own'[u][m] /\ own'[u][m][j] = own[u][m][j]
    BY <1>4, <2>2
  <2> QED
    BY <1>1, <2>1, <2>5, <2>6 DEF ToRemove
<1>6. \E j \in ToRemove(t, k)' : own'[t][k][j] = i /\ j = Len(own[t][k]) + 1
  <2>1. PICK j : j = Len(own[t][k]) + 1
    OBVIOUS
  <2>2. /\ own'[t] \in IdLists /\ Len(own'[t][k]) = j /\ own'[t][k][j] = i
    BY <1>2, <2>1 DEF OwnGrows
  <2>3. j \in DOMAIN own'[t][k]
    <3>1. Len(own[t][k]) \in Nat
      BY <1>1, OwnType
    <3>2. DOMAIN own'[t][k] = 1..Len(own'[t][k])
      BY <2>2 DEF IdLists
    <3> QED
      BY <2>1, <2>2, <3>1, <3>2
  <2>4. GotBefore(t, at[t] + 1, own'[t])
    <3>2. PICK n, ids : n = at[t] + 1 /\ ids = own'[t]
      OBVIOUS
    <3>3. at'[t] = n
      BY <1>3, <3>2
    <3>4. GotInv' => GotBefore(t, n, ids)'
      BY <3>2, <3>3 DEF GotInv
    <3>5. GotBefore(t, n, ids)
      BY <1>1, <3>4, GotSame
    <3> QED
      BY <3>2, <3>5
  <2>5. PICK n, ids : n = at[t] + 1 /\ ids = own'[t]
    OBVIOUS
  <2>6. PICK l \in DOMAIN Script(t) : Script(t)[l] = <<"remove", k, j>>
    <3>1. n \in DOMAIN Script(t) /\ ids \in IdLists /\ GotBefore(t, n, ids) /\ j \in DOMAIN ids[k]
      BY <1>3, <2>2, <2>3, <2>4, <2>5
    <3> QED
      BY <1>1, <3>1, GotIsRemoved
  <2>7. at[t] < l
    BY <1>1, <2>6, RemovesLast
  <2>8. l >= at'[t]
    <3>1. l \in Nat
      BY <1>1, <2>6, ScriptType
    <3> QED
      BY <1>3, <2>7, <3>1
  <2>9. j \in ToRemove(t, k)'
    BY <1>1, <2>3, <2>6, <2>8 DEF ToRemove
  <2> QED
    BY <2>1, <2>2, <2>9
<1> QED
  BY <1>2, <1>5, <1>6 DEF Added

\* The end of an adding: what was being added is now to be removed.
LEMMA AddReturnsExact ==
    ASSUME InstanceInv, ExactInv, NEW t \in Users, AddReturns(t)
    PROVE  ExactInv'
<1>1. PICK k, i : k = call[t].kind /\ i = call[t].id
  OBVIOUS
<1>2. /\ pc[t] = "counting" /\ call[t].op = "add" /\ ~Removes(t) /\ Working(t)
      /\ call[t].todo = <<>>
      /\ slots' = slots /\ call' = [call EXCEPT ![t] = NoCall] /\ pc' = [pc EXCEPT ![t] = "idle"]
      /\ at' = [at EXCEPT ![t] = @ + 1] /\ Gets(t, k, i)
      /\ occupied' = occupied /\ seen' = seen /\ job' = job /\ running' = running
  BY <1>1 DEF AddReturns, Goto, Returns, task, Removes, Working, Gets
<1>3. /\ TypeOK /\ AtCallInv(t) /\ InstanceInv' /\ HeldInv /\ LeftInv /\ GeneratorInv
  BY AddReturnsKeeps DEF InstanceInv, ExactInv
<1>4. /\ k \in {"pro", "alg"} /\ k \in Kinds /\ i \in Ids(k) /\ i \in Nat
      /\ \A u \in Users : \A x : WorksOn(u, x) /\ WorksOn(t, x) => u = t
      /\ \A x : WorksOn(t, x) <=> x = <<k, i>>
  <2>1. k \in {"pro", "alg"} /\ k \in Kinds /\ i \in Ids(k)
    BY <1>1, <1>2, WorkDomain
  <2>2. i \in Nat
    BY <1>3, <2>1, SlotFacts
  <2>3. \A u \in Users : \A x : WorksOn(u, x) /\ WorksOn(t, x) => u = t
    BY <1>2, WorkFacts
  <2>4. \A x : WorksOn(t, x) <=> x = <<k, i>>
    BY <1>1, <1>2 DEF WorksOn
  <2> QED
    BY <2>1, <2>2, <2>3, <2>4
<1>5. at[t] \in DOMAIN Script(t) /\ Active(t) /\ Script(t)[at[t]] = <<"add", k, 1>>
  BY <1>1, <1>2, <1>3, BusyIsActive DEF Active, AtCallInv
<1>6. Added(t, k, i)
  BY <1>2, <1>3, <1>4, <1>5, OwnAdded
<1>7. /\ call'[t] = NoCall /\ \A u \in Users : u # t => call'[u] = call[u]
      /\ \A u \in Users : Working(u)' <=> Working(u) /\ u # t
      /\ \A u \in Users : \A x : WorksOn(u, x)' <=> WorksOn(u, x) /\ u # t
      /\ Advances(t)
  <2>1. Script(t)[at[t]][1] \in {"add", "remove"}
    BY <1>5
  <2>2. \A u \in Users : u # t => own'[u] = own[u]
    BY <1>6 DEF Added, OwnGrows
  <2> QED
    BY <1>2, <1>5, <2>1, <2>2, CallReturns
<1>8. \A u \in Users : u # t => pc'[u] = pc[u] /\ call'[u] = call[u] /\ seen'[u] = seen[u]
  BY <1>2, <1>3, <1>7 DEF TypeOK
<1>9. pc'[t] = "idle"
  BY <1>2, <1>3 DEF TypeOK
<1>10. \A u \in Users : /\ own'[u]["param"] = own[u]["param"]
                        /\ own'[u]["rcr"] = own[u]["rcr"]
  BY <1>4, <1>6, KindNames DEF Added, OwnGrows
<1>11. /\ \A c \in Kinds : Ids(c)' = Ids(c)
       /\ \A c, x : IsValid(c, x)' <=> IsValid(c, x)
  BY <1>2 DEF Ids, IsValid
<1>12. Changes(t)
  <2>1. OldCounts /\ NewCounts
    BY <1>2, <1>11 DEF OldCounts, NewCounts
  <2>2. ASSUME NEW c \in {"pro", "alg"}, NEW x
        PROVE  CountingSame(c, x)
    <3>1. ReferSame(c, x)
      BY <1>2, <1>11 DEF ReferSame
    <3>2. CASE <<c, x>> # <<k, i>>
      <4>1. \A u \in Users : WorksOn(u, <<c, x>>)' <=> WorksOn(u, <<c, x>>)
        BY <1>4, <1>7, <3>2
      <4>2. \A u \in Users : WorksOn(u, <<c, x>>) =>
              call'[u].op = call[u].op /\ call'[u].todo = call[u].todo
        BY <1>4, <1>7, <3>2
      <4> QED
        BY <3>1, <4>1, <4>2, CountingKeeps
    <3>3. CASE <<c, x>> = <<k, i>>
      <4>1. \A u \in Users : ~WorksOn(u, <<c, x>>)' /\ (WorksOn(u, <<c, x>>) <=> u = t)
        BY <1>4, <1>7, <3>3
      <4>2. ASSUME NEW l \in RefKinds, NEW r \in Nat \ {0}
            PROVE  CountsFor(<<c, x>>, <<l, r>>)' <=> CountsFor(<<c, x>>, <<l, r>>)
        <5>1. \A p \in DOMAIN call[t].todo : call[t].todo[p] # <<l, r>>
          BY <1>2
        <5>2. CountsFor(<<c, x>>, <<l, r>>) <=>
                IsValid(c, x) /\ l # "alg" /\ slots[c][x][l] = r
          BY <1>2, <4>1, <5>1 DEF CountsFor, CountedBy
        <5>3. CountsFor(<<c, x>>, <<l, r>>)' <=>
                IsValid(c, x)' /\ l # "alg" /\ slots'[c][x][l] = r
          BY <4>1 DEF CountsFor, CountedBy
        <5> QED
          BY <1>2, <1>11, <5>2, <5>3
      <4> QED
        BY <4>2 DEF CountingSame
    <3> QED
      BY <3>2, <3>3
  <2>3. ASSUME NEW c \in {"pro", "alg"}, NEW x, NEW u \in Users, Holds(u, c, x)
        PROVE  Holds(u, c, x)' /\ OwnId(u, "rcr")' = OwnId(u, "rcr")
    <3>1. OwnId(u, "rcr")' = OwnId(u, "rcr")
      BY <1>10, OwnIdSame
    <3>2. CASE \E j \in ToRemove(u, c) : own[u][c][j] = x
      <4>1. c \in Kinds
        BY <2>3, KindNames
      <4>2. \E j \in ToRemove(u, c)' : own'[u][c][j] = x
        BY <1>6, <2>3, <3>2, <4>1 DEF Added
      <4> QED
        BY <3>1, <4>2 DEF Holds
    <3>3. CASE WorksOn(u, <<c, x>>) /\ call[u].op = "add" /\ u # t
      BY <1>7, <3>1, <3>3 DEF Holds
    <3>4. CASE WorksOn(u, <<c, x>>) /\ u = t
      <4>1. c = k /\ x = i
        BY <1>4, <3>4
      <4>2. \E j \in ToRemove(t, k)' : own'[t][k][j] = i
        BY <1>6 DEF Added
      <4> QED
        BY <3>1, <3>4, <4>1, <4>2 DEF Holds
    <3> QED
      BY <2>3, <3>2, <3>3, <3>4 DEF Holds
  <2>4. \A c \in {"pro", "alg"} : \A x : ReferSame(c, x)
    BY <1>2, <1>11 DEF ReferSame
  <2> QED
    BY <1>8, <1>9, <1>11, <2>1, <2>2, <2>3, <2>4 DEF Changes
<1>13. TodoInv(t)'
  BY <1>7 DEF TodoInv
<1>14. GeneratorInv'
  <2>1. ASSUME NEW c \in {"pro", "alg"}, NEW m, HasRandom(c, m)
        PROVE  HasRandom(c, m)'
    <3>1. \A u \in Users : WorksOn(u, <<c, m>>)' /\ Removes(u)' => call'[u].drop # <<>>
      BY <1>7, <2>1 DEF HasRandom, Removes
    <3> QED
      BY <1>2, <2>1, <3>1 DEF HasRandom
  <2> QED
    BY <1>2, <1>3, <1>11, <2>1, GeneratorKept, KindNames
<1>15. LeftInv'
  <2>0. Passes(t, "param")
    BY <1>2, <1>5 DEF Passes, NotRemoval
  <2>1. \A u \in Users : ToRemove(u, "param")' = ToRemove(u, "param")
    BY <1>2, <1>3, <1>7, <1>10, <2>0, ToRemoveSame, KindNames
  <2>2. \A p : ToBeRemoved(p)' <=> ToBeRemoved(p)
    BY <1>10, <2>1, ToBeSame
  <2>3. ASSUME NEW u \in Users
        PROVE  Dropped(u)' = Dropped(u)
    <3>1. CASE u = t
      BY <1>2, <1>7, <3>1 DEF Dropped
    <3>2. CASE u # t
      BY <1>2, <1>7, <3>2 DEF Dropped, Removes
    <3> QED
      BY <3>1, <3>2
  <2>4. \A p : IsPart(p)' <=> IsPart(p)
    BY <1>2, <2>3, PartsSame
  <2>6. Left' = Left
    BY <1>3, <1>11, <2>2, <2>4, LeftSame
  <2>7. job # 0 /\ LeavesParam(job) /\ at'[Main] = StartAt + 2 => pc'[Main] = "idle"
    BY <1>2, <1>3, <1>7, <1>8, <1>9, MainRests
  <2>8. own'[Main]["param"] = own[Main]["param"]
    BY <1>10, UserTypes
  <2> QED
    BY <1>2, <1>3, <1>7, <2>0, <2>6, <2>7, <2>8, LeftKept
<1> QED
  BY <1>3, <1>12, <1>13, <1>14, <1>15, ChangeExact

-----------------------------------------------------------------------------
(* New objects.                                                            *)

\* A new id brings a new count of zero or the one that is left.
LEMMA TakeCounts ==
    ASSUME TypeOK, NEW kinds, kinds \subseteq Kinds, Take(kinds),
           \A m \in kinds : Ids(m)' = Ids(m) \cup {NewId(m)},
           \A m \in Kinds : m \notin kinds => Ids(m)' = Ids(m)
    PROVE  OldCounts /\ NewCounts
<1>1. ASSUME NEW l \in Kinds
      PROVE  /\ \A r \in Ids(l) : occupied'[l][r] = occupied[l][r]
             /\ \A r \in Ids(l)' \ Ids(l) : occupied'[l][r] = 0
  <2>1. PICK s : s = occupied[l]
    OBVIOUS
  <2>2. /\ s \in Seq(0..Modulus - 1) /\ Len(s) \in Nat /\ Len(s) = Len(slots[l])
        /\ Ids(l) = 1..Len(s)
    <3>1. s \in Seq(0..Modulus - 1) /\ Len(s) = Len(slots[l])
      BY <2>1, SlotFacts
    <3> QED
      BY <3>1 DEF Ids
  <2>3. occupied'[l] = IF l \in kinds /\ shelved[l] = <<>> THEN Append(s, 0) ELSE s
    BY <2>1 DEF Take
  <2>4. CASE l \in kinds /\ shelved[l] = <<>>
    <3>1. NewId(l) = Len(s) + 1 /\ Ids(l)' = Ids(l) \cup {NewId(l)}
      BY <2>2, <2>4 DEF NewId
    <3>2. /\ \A r \in 1..Len(s) : Append(s, 0)[r] = s[r]
          /\ Append(s, 0)[Len(s) + 1] = 0
      BY <2>2
    <3> QED
      BY <2>1, <2>2, <2>3, <2>4, <3>1, <3>2
  <2>5. CASE l \in kinds /\ shelved[l] # <<>>
    <3>1. NewId(l) \in Ids(l)
      <4>1. shelved[l] \in Seq(Nat) /\ \A p \in DOMAIN shelved[l] : shelved[l][p] \in Ids(l)
        BY SlotFacts
      <4>2. Head(shelved[l]) = shelved[l][1] /\ 1 \in DOMAIN shelved[l]
        BY <2>5, <4>1
      <4> QED
        BY <2>5, <4>1, <4>2 DEF NewId
    <3>2. Ids(l)' = Ids(l)
      BY <2>5, <3>1
    <3> QED
      BY <2>1, <2>3, <2>5, <3>2
  <2>6. CASE l \notin kinds
    BY <2>1, <2>3, <2>6
  <2> QED
    BY <2>4, <2>5, <2>6
<1> QED
  BY <1>1 DEF OldCounts, NewCounts

\* What is there stays as it is, and there is nothing else but the new objects.
Extends(new) ==
    /\ OldCounts /\ NewCounts
    /\ \A c \in Kinds : \A x : IsValid(c, x) => ReferSame(c, x) /\ IsValid(c, x)'
    /\ \A c \in Kinds : \A x : IsValid(c, x)' => IsValid(c, x) \/ (c \in DOMAIN new /\ x = NewId(c))
    /\ \A c \in DOMAIN new : \A x : x = NewId(c) =>
         /\ ~IsValid(c, x) /\ IsValid(c, x)' /\ x \in Ids(c)' /\ slots'[c][x] = new[c]
         /\ x \in Nat \ {0} /\ Untouched(c, x)
    /\ \A c \in Kinds : c \notin DOMAIN new => Ids(c)' = Ids(c)

LEMMA PlaceExtends ==
    ASSUME InstanceInv, InstanceInv', NEW table, NEW new, Places(table, new)
    PROVE  Grown(table, new) /\ Grows(new) /\ Extends(new)
<1>1. Grown(table, new)
  BY PlaceEffect
<1>2. Grows(new)
  BY <1>1, PlaceGrows
<1>3. /\ TypeOK /\ TypeOK'
  BY DEF InstanceInv
<1>4. \A c \in Kinds : DOMAIN slots[c] = Ids(c) /\ DOMAIN slots'[c] = Ids(c)'
  BY <1>3, SlotsNow, SlotsNext DEF SlotsOf
<1>5. DOMAIN new \subseteq Kinds
  BY DEF Places
<1>6. OldCounts /\ NewCounts
  <2>1. Take(DOMAIN new)
    BY DEF Places
  <2>2. /\ \A m \in DOMAIN new : Ids(m)' = Ids(m) \cup {NewId(m)}
        /\ \A m \in Kinds : m \notin DOMAIN new => Ids(m)' = Ids(m)
    BY <1>1 DEF Grown
  <2> QED
    BY <1>3, <1>5, <2>1, <2>2, TakeCounts
<1>7. ASSUME NEW c \in Kinds, NEW x, IsValid(c, x)
      PROVE  ReferSame(c, x) /\ IsValid(c, x)'
  <2>1. IsValid(c, x)'
    BY <1>2, <1>7 DEF Grows
  <2>2. x \in Ids(c) /\ slots[c][x] # NULL
    BY <1>4, <1>7 DEF IsValid
  <2>3. \A l \in RefKinds : slots'[c][x][l] = slots[c][x][l]
    BY <1>2, <2>2 DEF Grows, RefKinds
  <2> QED
    BY <1>7, <2>1, <2>3 DEF ReferSame
<1>8. ASSUME NEW c \in Kinds, NEW x, IsValid(c, x)'
      PROVE  IsValid(c, x) \/ (c \in DOMAIN new /\ x = NewId(c))
  <2>1. x \in Ids(c)' /\ slots'[c][x] # NULL
    BY <1>4, <1>8 DEF IsValid
  <2>2. \/ x \in Ids(c) /\ slots[c][x] # NULL
        \/ c \in DOMAIN new /\ x = NewId(c)
    BY <1>2, <2>1 DEF Grows
  <2> QED
    BY <1>4, <2>2 DEF IsValid
<1>9. ASSUME NEW c \in DOMAIN new, NEW x, x = NewId(c)
      PROVE  /\ ~IsValid(c, x) /\ IsValid(c, x)' /\ x \in Ids(c)' /\ slots'[c][x] = new[c]
             /\ x \in Nat \ {0} /\ Untouched(c, x)
  <2>1. c \in Kinds
    BY <1>5
  <2>2. /\ NewId(c) \in Nat \ {0} /\ Untouched(c, NewId(c))
        /\ NewId(c) \in Ids(c) => slots[c][NewId(c)] = NULL
    BY <2>1, NewIdIsNew
  <2>3. ~IsValid(c, x)
    BY <1>4, <1>9, <2>1, <2>2 DEF IsValid
  <2>4. IsValid(c, x)'
    BY <1>2, <1>9 DEF Grows
  <2>5. x \in Ids(c)' /\ slots'[c][x] = new[c]
    BY <1>1, <1>9 DEF Grown
  <2> QED
    BY <1>9, <2>2, <2>3, <2>4, <2>5
<1>10. \A c \in Kinds : c \notin DOMAIN new => Ids(c)' = Ids(c)
  BY <1>1 DEF Grown
<1> QED
  BY <1>1, <1>2, <1>6, <1>7, <1>8, <1>9, <1>10 DEF Extends

\* A record is the first thing Main adds but for its parameters.
LEMMA FirstRecord ==
    ASSUME InstanceInv, InstanceInv', NEW i, Added(Main, "rcr", i), job' = job,
           at' = [at EXCEPT ![Main] = @ + 1], NEW c \in {"pro", "alg"}
    PROVE  own[Main][c] = <<>>
<1>1. /\ Main \in Users /\ TypeOK /\ GotInv' /\ GotBefore(Main, at[Main], own[Main])
      /\ at[Main] \in Nat /\ own[Main]["rcr"] \in Seq(Nat) /\ own[Main][c] \in Seq(Nat)
  <2>1. Main \in Users /\ TypeOK /\ GotInv'
    BY UserTypes DEF InstanceInv
  <2>2. GotBefore(Main, at[Main], own[Main]) /\ at[Main] \in Nat
    BY <2>1, GotNow
  <2>3. own[Main]["rcr"] \in Seq(Nat) /\ own[Main][c] \in Seq(Nat)
    BY <2>1, OwnType, KindNames
  <2> QED
    BY <2>1, <2>2, <2>3
<1>2. GotBefore(Main, at[Main], own[Main])'
  BY <1>1 DEF GotInv
<1>3. Len(own'[Main]["rcr"]) \in {0, 1}
  BY <1>2 DEF GotBefore
<1>4. Len(own'[Main]["rcr"]) = Len(own[Main]["rcr"]) + 1 /\ Len(own[Main]["rcr"]) \in Nat
  BY <1>1 DEF Added, OwnGrows
<1>5. Len(own[Main]["rcr"]) = 0
  BY <1>3, <1>4
<1>6. at[Main] <= 2
  BY <1>1, <1>5 DEF GotBefore
<1>7. Len(own[Main][c]) = 0
  BY <1>1, <1>6 DEF GotBefore
<1> QED
  BY <1>1, <1>7

\* The parameters that a thread has got before stay in their place.
LEMMA LeftInPlace ==
    ASSUME InstanceInv, NEW t \in Users, NEW k, NEW i, OwnGrows(t, k, i), job # 0, HasLeft(job)
    PROVE  own'[Main]["param"][1] = own[Main]["param"][1]
<1>1. Main \in Users /\ JobOK /\ GotBefore(Main, at[Main], own[Main]) /\ at[Main] \in Nat
  BY UserTypes, GotNow
<1>2. StartAt \in Nat
  BY <1>1, ParamRemoval
<1>3. at[Main] > 1
  BY <1>1, <1>2 DEF HasLeft
<1>4. Len(own[Main]["param"]) = 1
  BY <1>1, <1>3 DEF GotBefore
<1>5. CASE t # Main
  BY <1>1, <1>5 DEF OwnGrows
<1>6. CASE k # "param"
  BY <1>1, <1>6, KindNames DEF OwnGrows
<1>7. CASE t = Main /\ k = "param"
  BY <1>4, <1>7 DEF OwnGrows
<1> QED
  BY <1>5, <1>6, <1>7

\* Parameters or a record are added.
LEMMA AddLeafExact ==
    ASSUME InstanceInv, ExactInv, NEW t \in Users, NEW k \in {"param", "rcr"}, AddLeaf(t, k)
    PROVE  ExactInv'
<1>1. /\ Active(t) /\ pc[t] = "idle" /\ Script(t)[at[t]] = <<"add", k, 1>> /\ call[t] = NoCall
      /\ k \in Kinds
  BY CallIsActive DEF AddLeaf, Kinds
<1>2. /\ TypeOK /\ ShelvedAreFree /\ InstanceInv' /\ HeldInv /\ LeftInv /\ GeneratorInv
  BY AddLeafKeeps DEF InstanceInv, ExactInv
<1>3. ~Working(t) /\ Script(t)[at[t]][1] = "add" /\ at[t] \in DOMAIN Script(t)
  BY <1>1 DEF Working, Active
<1>4. k = "rcr" => IsValid("param", OwnId(t, "param")) /\ t = Main
  <2>1. /\ \A x \in Kinds : DOMAIN own[t][x] = 1..Len(own[t][x]) /\ Len(own[t][x]) \in Nat
        /\ "param" \in Kinds
    BY GotNow DEF Kinds
  <2>2. k = "rcr" => Len(own[t]["param"]) = 1 /\ OwnId(t, "param") = own[t]["param"][1] /\ t = Main
    BY <1>1, AddNeeds
  <2>3. k = "rcr" => 1 \in DOMAIN own[t]["param"]
    BY <2>1, <2>2
  <2> QED
    BY <1>1, <1>3, <2>1, <2>2, <2>3, GotIsValid
<1>5. PICK i, new, table : i = NewId(k) /\ new = [kind \in {k} |-> Plain] /\ table = slots
  OBVIOUS
<1>7. /\ slots' = Placed(table, new) /\ Take(DOMAIN new) /\ Gets(t, k, i)
      /\ at' = [at EXCEPT ![t] = @ + 1] /\ pc' = pc /\ call' = call
      /\ seen' = seen /\ job' = job
  BY <1>4, <1>5 DEF AddLeaf, Place, Gets, Returns, task
<1>8. DOMAIN new = {k} /\ new[k] = Plain
  BY <1>5
<1>9. Places(table, new)
  BY <1>1, <1>2, <1>5, <1>7, <1>8, PlainType DEF Places, Like, TypeOK
<1>10. Grown(table, new) /\ Grows(new) /\ Extends(new)
  BY <1>2, <1>9, PlaceExtends
<1>11. i \in Nat /\ IsValid(k, i)' /\ ~IsValid(k, i)
  BY <1>5, <1>8, <1>10 DEF Extends
<1>12. Added(t, k, i)
  BY <1>1, <1>2, <1>3, <1>7, <1>11, OwnAdded
<1>13. Advances(t) /\ (\A u \in Users : /\ Working(u)' <=> Working(u)
                                        /\ \A x : WorksOn(u, x)' <=> WorksOn(u, x))
  BY <1>7 DEF Working, WorksOn, Advances
<1>14. \A c \in {"pro", "alg"} : /\ c \in Kinds /\ c \notin DOMAIN new
                                 /\ Ids(c)' = Ids(c) /\ slots'[c] = slots[c]
                                 /\ \A x : IsValid(c, x)' <=> IsValid(c, x)
  <2>1. \A c \in {"pro", "alg"} : c \in Kinds /\ c \notin DOMAIN new
    BY <1>8, KindNames
  <2>2. \A c \in {"pro", "alg"} : Ids(c)' = Ids(c) /\ slots'[c] = slots[c]
    BY <1>5, <1>10, <2>1 DEF Grown
  <2> QED
    BY <2>1, <2>2 DEF IsValid
<1>15. Changes(t)
  <2>1. OldCounts /\ NewCounts
    BY <1>10 DEF Extends
  <2>2. ASSUME NEW c \in {"pro", "alg"}, NEW x, IsValid(c, x)
        PROVE  ReferSame(c, x) /\ CountingSame(c, x)
    <3>1. ReferSame(c, x)
      BY <1>10, <1>14, <2>2 DEF Extends
    <3>2. \A u \in Users : call'[u].op = call[u].op /\ call'[u].todo = call[u].todo
      BY <1>7
    <3> QED
      BY <1>13, <3>1, <3>2, CountingKeeps
  <2>3. ASSUME NEW c \in {"pro", "alg"}, NEW x, NEW u \in Users, Holds(u, c, x)
        PROVE  Holds(u, c, x)' /\ OwnId(u, "rcr")' = OwnId(u, "rcr")
    <3>1. CASE WorksOn(u, <<c, x>>) /\ call[u].op = "add"
      <4>1. Holds(u, c, x)'
        BY <1>7, <1>13, <3>1 DEF Holds
      <4>2. u # t
        BY <1>3, <3>1 DEF WorksOn
      <4>3. own'[u]["rcr"] = own[u]["rcr"]
        BY <1>12, <4>2 DEF Added, OwnGrows
      <4> QED
        BY <4>1, <4>3, OwnIdSame
    <3>2. CASE \E j \in ToRemove(u, c) : own[u][c][j] = x
      <4>1. Holds(u, c, x)'
        BY <1>12, <1>14, <2>3, <3>2 DEF Added, Holds
      <4>2. u # t \/ k # "rcr"
        <5>1. ASSUME u = t, k = "rcr"
              PROVE  FALSE
          <6>1. own[Main][c] = <<>>
            BY <1>2, <1>4, <1>7, <1>12, <2>3, <5>1, FirstRecord
          <6>2. PICK j : j \in DOMAIN own[Main][c]
            BY <1>4, <3>2, <5>1 DEF ToRemove
          <6> QED
            BY <6>1, <6>2
        <5> QED
          BY <5>1
      <4>3. own'[u]["rcr"] = own[u]["rcr"]
        BY <1>12, <4>2, KindNames DEF Added, OwnGrows
      <4> QED
        BY <4>1, <4>3, OwnIdSame
    <3> QED
      BY <2>3, <3>1, <3>2 DEF Holds
  <2>4. pc'[t] # "writing"
    BY <1>1, <1>7
  <2> QED
    BY <1>7, <1>14, <2>1, <2>2, <2>3, <2>4 DEF Changes
<1>16. TodoInv(t)'
  BY <1>3, <1>13 DEF TodoInv
<1>17. GeneratorInv'
  <2>1. ASSUME NEW c \in {"pro", "alg"}, NEW m, HasRandom(c, m)
        PROVE  HasRandom(c, m)'
    <3>1. \A u \in Users : WorksOn(u, <<c, m>>)' /\ Removes(u)' => call'[u].drop # <<>>
      BY <1>7, <1>13, <2>1 DEF HasRandom, Removes
    <3> QED
      BY <1>14, <2>1, <3>1 DEF HasRandom
  <2>2. slots'["rnd"] = slots["rnd"] /\ Ids("rnd")' = Ids("rnd")
    <3>1. "rnd" \in Kinds /\ "rnd" \notin DOMAIN new
      BY <1>8, KindNames
    <3> QED
      BY <1>5, <1>10, <3>1 DEF Grown
  <2> QED
    BY <1>2, <1>14, <2>1, <2>2, GeneratorKept
<1>18. LeftInv'
  <2>1. \A p : ToBeRemoved(p)' <=> ToBeRemoved(p) \/ (k = "param" /\ p = i)
    <3>1. ASSUME NEW p, ToBeRemoved(p)
          PROVE  ToBeRemoved(p)'
      BY <1>12, <3>1, KindNames DEF ToBeRemoved, Added
    <3>2. ASSUME k = "param"
          PROVE  ToBeRemoved(i)'
      BY <1>12, <3>2 DEF ToBeRemoved, Added
    <3>3. ASSUME NEW p, ToBeRemoved(p)'
          PROVE  ToBeRemoved(p) \/ (k = "param" /\ p = i)
      <4>1. PICK u \in Users : \E j \in ToRemove(u, "param")' : own'[u]["param"][j] = p
        BY <3>3 DEF ToBeRemoved
      <4>2. PICK j \in ToRemove(u, "param")' : own'[u]["param"][j] = p
        BY <4>1
      <4>3. \/ j \in ToRemove(u, "param") /\ own'[u]["param"][j] = own[u]["param"][j]
            \/ k = "param" /\ own'[u]["param"][j] = i
        <5>1. \A v \in Users : \A m \in Kinds : \A q \in ToRemove(v, m)' :
                \/ q \in ToRemove(v, m) /\ q \in DOMAIN own[v][m] /\ own'[v][m][q] = own[v][m][q]
                \/ v = t /\ m = k /\ q = Len(own[t][k]) + 1 /\ own'[v][m][q] = i
          BY <1>12, Zenon DEF Added, OwnGrows
        <5> QED
          BY <4>2, <5>1, KindNames
      <4> QED
        BY <4>2, <4>3 DEF ToBeRemoved
    <3> QED
      BY <3>1, <3>2, <3>3
  <2>2. \A p : IsPart(p)' <=> IsPart(p)
    <3>1. \A u \in Users : Dropped(u)' = Dropped(u)
      <4>1. ASSUME NEW u \in Users
            PROVE  Dropped(u)' = Dropped(u)
        <5>1. CASE ~Working(u)
          BY <1>13, <5>1 DEF Dropped
        <5>2. CASE Working(u)
          <6>1. call[u].kind \in {"pro", "alg"}
            BY <5>2, WorkDomain
          <6>2. slots'[call[u].kind] = slots[call[u].kind]
            BY <1>14, <6>1
          <6> QED
            BY <1>7, <1>13, <6>2 DEF Dropped, Removes
        <5> QED
          BY <5>1, <5>2
      <4> QED
        BY <4>1
    <3> QED
      BY <1>14, <3>1, PartsSame
  <2>3. \A p : IsValid("param", p)' <=> IsValid("param", p) \/ (k = "param" /\ p = i)
    <3>1. \A p : IsValid("param", p) => IsValid("param", p)'
      BY <1>10, KindNames DEF Extends
    <3>2. \A p : IsValid("param", p)' => IsValid("param", p) \/ (k = "param" /\ p = i)
      BY <1>5, <1>8, <1>10, KindNames DEF Extends
    <3>3. k = "param" => IsValid("param", i)'
      BY <1>11
    <3> QED
      BY <3>1, <3>2, <3>3
  <2>4. Left' = Left
    <3>1. \A p : IsValid("param", p)' /\ ~ToBeRemoved(p)' /\ ~IsPart(p)'
                   <=> IsValid("param", p) /\ ~ToBeRemoved(p) /\ ~IsPart(p)
      BY <1>11, <2>1, <2>2, <2>3
    <3> QED
      BY <1>2, <3>1, LeftSame
  <2>5. job # 0 /\ LeavesParam(job) /\ at'[Main] = StartAt + 2 => pc'[Main] = "idle"
    BY <1>1, <1>2, <1>7, <1>13, MainRests
  <2>6. Passes(t, "param")
    BY <1>1, <1>7 DEF Passes, NotRemoval
  <2>7. job # 0 /\ HasLeft(job) => own'[Main]["param"][1] = own[Main]["param"][1]
    BY <1>12, LeftInPlace DEF Added
  <2> QED
    BY <1>2, <1>7, <1>13, <2>4, <2>5, <2>6, <2>7, LeftKept
<1> QED
  BY <1>2, <1>15, <1>16, <1>17, <1>18, ChangeExact

\* A problem or an algorithm appears with its random generator, and nobody has counted it.
Appears(t, k, i, o, r, new) ==
    /\ k = call[t].kind /\ k \in {"pro", "alg"} /\ k \in Kinds /\ k # "rnd" /\ "rnd" \in Kinds
    /\ o \in Objects /\ o # NULL /\ o.rnd = r /\ o.parts = <<>>
    /\ o.rcr = (IF k = "alg" THEN OwnId(t, "rcr") ELSE NoId)
    /\ k = "pro" => o.pro = NoId
    /\ DOMAIN new = {k, "rnd"} /\ new[k] = o /\ new["rnd"] = Plain
    /\ i = NewId(k) /\ r = NewId("rnd")
    /\ Places(slots, new) /\ Grown(slots, new) /\ Grows(new) /\ Extends(new)
    /\ ~Working(t) /\ pc[t] # "idle" /\ pc'[t] = "counting" /\ Working(t)'
    /\ call'[t].op = "add" /\ call'[t].kind = k /\ call'[t].id = i /\ call'[t].todo = Counts(o, k)
    /\ \A u \in Users : u # t => /\ pc'[u] = pc[u] /\ call'[u] = call[u] /\ (Working(u)' <=> Working(u))
    /\ \A u \in Users : \A x : WorksOn(u, x)' <=> WorksOn(u, x) \/ (u = t /\ x = <<k, i>>)
    /\ seen' = seen /\ at' = at /\ own' = own /\ job' = job

LEMMA AppearsFacts ==
    ASSUME InstanceInv, NEW t \in Users, AddLocked(t)
    PROVE  \E k, i, o, r, new : Appears(t, k, i, o, r, new)
<1>1. PICK k, o, i, r, c, new :
        /\ k = call[t].kind /\ o = References(t, k) /\ i = NewId(k) /\ r = NewId("rnd")
        /\ c = Counts(o, k)
        /\ new = [kind \in {k, "rnd"} |-> IF kind = k THEN o ELSE Plain]
  OBVIOUS
<1>2. /\ pc[t] = "locking" /\ call[t].op = "add"
      /\ slots' = Placed(slots, new) /\ Take(DOMAIN new)
      /\ call' = [call EXCEPT ![t].id = i, ![t].todo = c]
      /\ pc' = [pc EXCEPT ![t] = "counting"]
      /\ at' = at /\ seen' = seen /\ own' = own /\ job' = job
  BY <1>1 DEF AddLocked, Place, Goto, task
<1>3. TypeOK /\ AtCallInv(t) /\ InstanceInv'
  BY AddLockedKeeps DEF InstanceInv
<1>4. /\ ~Working(t) /\ pc[t] # "idle" /\ k \in {"pro", "alg"} /\ k \in Kinds /\ k # "rnd"
      /\ "rnd" \in Kinds
  BY <1>1, <1>2, <1>3, KindNames DEF AtCallInv, Working
<1>5. /\ o.param = OwnId(t, "param") /\ o.rnd = r /\ o.parts = <<>>
      /\ o.pro = (IF k = "alg" THEN OwnId(t, "pro") ELSE NoId)
      /\ o.rcr = (IF k = "alg" THEN OwnId(t, "rcr") ELSE NoId)
      /\ o = [param |-> o.param, pro |-> o.pro, rcr |-> o.rcr, rnd |-> o.rnd, parts |-> <<>>]
  BY <1>1 DEF References
<1>6. o \in Objects
  <2>1. OwnId(t, "param") \in Nat /\ OwnId(t, "pro") \in Nat /\ OwnId(t, "rcr") \in Nat
    BY OwnIdType, KindNames
  <2>2. r \in Nat /\ <<>> \in Seq(Nat)
    BY <1>1, <1>4, NewIdIsNew
  <2>3. o.param \in Nat /\ o.pro \in Nat /\ o.rcr \in Nat /\ o.rnd \in Nat
    BY <1>5, <2>1, <2>2 DEF NoId
  <2> QED
    BY <1>5, <2>2, <2>3 DEF Objects
<1>7. o # NULL
  BY <1>6, NullAssumption
<1>8. DOMAIN new = {k, "rnd"} /\ new[k] = o /\ new["rnd"] = Plain
  BY <1>1, <1>4
<1>9. Places(slots, new)
  <2>1. \A m \in DOMAIN new : new[m] \in Objects
    BY <1>6, <1>8, PlainType
  <2>2. Like(slots)
    BY <1>3 DEF Like, TypeOK
  <2> QED
    BY <1>2, <1>4, <1>8, <2>1, <2>2 DEF Places
<1>10. Grown(slots, new) /\ Grows(new) /\ Extends(new)
  BY <1>3, <1>9, PlaceExtends
<1>11. /\ \A u \in Users : u # t => call'[u] = call[u]
       /\ call'[t].todo = c /\ call'[t].op = "add" /\ call'[t].kind = k /\ call'[t].id = i
  <2>1. call \in [Users -> CallStates] /\ call[t] \in CallStates
    BY <1>3 DEF TypeOK
  <2>2. \A u \in Users : u # t => call'[u] = call[u]
    BY <1>2, <2>1
  <2>3. call'[t] = [[call[t] EXCEPT !.id = i] EXCEPT !.todo = c]
    BY <1>2, <2>1
  <2>4. call'[t] = [op |-> call[t].op, kind |-> call[t].kind, id |-> i, todo |-> c, drop |-> call[t].drop]
    BY <2>1, <2>3 DEF CallStates
  <2>5. /\ call'[t].todo = c /\ call'[t].op = call[t].op /\ call'[t].kind = call[t].kind
        /\ call'[t].id = i
    BY <2>4
  <2>6. call[t].op = "add" /\ call[t].kind = k
    BY <1>1, <1>2
  <2> QED
    BY <2>2, <2>5, <2>6
<1>12. pc'[t] = "counting" /\ \A u \in Users : u # t => pc'[u] = pc[u]
  BY <1>2, <1>3 DEF TypeOK
<1>13. Working(t)' /\ \A u \in Users : u # t => (Working(u)' <=> Working(u))
  BY <1>12 DEF Working
<1>14. \A u \in Users : \A x : WorksOn(u, x)' <=> WorksOn(u, x) \/ (u = t /\ x = <<k, i>>)
  BY <1>4, <1>11, <1>13 DEF WorksOn
<1>15. /\ k = call[t].kind /\ k \in {"pro", "alg"} /\ k \in Kinds /\ k # "rnd" /\ "rnd" \in Kinds
       /\ o \in Objects /\ o # NULL /\ o.rnd = r /\ o.parts = <<>>
       /\ o.rcr = (IF k = "alg" THEN OwnId(t, "rcr") ELSE NoId)
  BY <1>1, <1>4, <1>5, <1>6, <1>7
<1>16. k = "pro" => o.pro = NoId
  BY <1>5
<1>17. i = NewId(k) /\ r = NewId("rnd") /\ c = Counts(o, k)
  BY <1>1
<1>18. /\ ~Working(t) /\ pc[t] # "idle" /\ pc'[t] = "counting" /\ Working(t)'
       /\ call'[t].op = "add" /\ call'[t].kind = k /\ call'[t].id = i
       /\ call'[t].todo = Counts(o, k)
  BY <1>4, <1>11, <1>12, <1>13, <1>17
<1>19. \A u \in Users : u # t => /\ pc'[u] = pc[u] /\ call'[u] = call[u]
                                 /\ (Working(u)' <=> Working(u))
  BY <1>11, <1>12, <1>13
<1>20. seen' = seen /\ at' = at /\ own' = own /\ job' = job
  BY <1>2
<1>21. Appears(t, k, i, o, r, new)
  BY <1>8, <1>9, <1>10, <1>14, <1>15, <1>16, <1>17, <1>18, <1>19, <1>20, Zenon DEF Appears
<1> QED
  BY <1>21

LEMMA AddLockedExact ==
    ASSUME InstanceInv, ExactInv, NEW t \in Users, AddLocked(t)
    PROVE  ExactInv'
<1>1. PICK k, i, o, r, new : Appears(t, k, i, o, r, new)
  BY AppearsFacts
<1>2. /\ k = call[t].kind /\ k \in {"pro", "alg"} /\ k \in Kinds /\ k # "rnd" /\ "rnd" \in Kinds
      /\ o \in Objects /\ o # NULL /\ o.rnd = r /\ o.parts = <<>>
      /\ DOMAIN new = {k, "rnd"} /\ new[k] = o /\ new["rnd"] = Plain
      /\ i = NewId(k) /\ r = NewId("rnd")
  BY <1>1 DEF Appears
<1>3. /\ o.rcr = (IF k = "alg" THEN OwnId(t, "rcr") ELSE NoId)
      /\ k = "pro" => o.pro = NoId
      /\ Places(slots, new) /\ Grown(slots, new) /\ Grows(new) /\ Extends(new)
      /\ ~Working(t) /\ pc[t] # "idle" /\ pc'[t] = "counting" /\ Working(t)'
      /\ call'[t].op = "add" /\ call'[t].kind = k /\ call'[t].id = i /\ call'[t].todo = Counts(o, k)
      /\ seen' = seen /\ at' = at /\ own' = own /\ job' = job
  BY <1>1 DEF Appears
<1>4. /\ \A u \in Users : u # t => /\ pc'[u] = pc[u] /\ call'[u] = call[u] /\ (Working(u)' <=> Working(u))
      /\ \A u \in Users : \A x : WorksOn(u, x)' <=> WorksOn(u, x) \/ (u = t /\ x = <<k, i>>)
  BY <1>1 DEF Appears
<1>5. /\ TypeOK /\ InstanceInv' /\ TypeOK' /\ HeldInv /\ LeftInv /\ GeneratorInv
  BY AddLockedKeeps DEF InstanceInv, ExactInv
<1>6. /\ ~IsValid(k, i) /\ IsValid(k, i)' /\ i \in Ids(k)' /\ slots'[k][i] = o
      /\ Untouched(k, i)
      /\ r \in Ids("rnd")'
  <2>1. /\ ~IsValid(k, i) /\ IsValid(k, i)' /\ i \in Ids(k)' /\ slots'[k][i] = new[k]
        /\ Untouched(k, i)
    BY <1>2, <1>3 DEF Extends
  <2>2. r \in Ids("rnd")'
    BY <1>2, <1>3 DEF Extends
  <2> QED
    BY <1>2, <2>1, <2>2
<1>7. \A c \in {"pro", "alg"} : c \in Kinds /\ c # "rnd"
  BY KindNames
<1>8. CountsAll(Counts(o, k), o)
  BY <1>2, <1>3, CountsAreAll
<1>9. Advances(t) /\ \A c \in Kinds : Passes(t, c)
  BY <1>3 DEF Advances, Passes
<1>10. \A u \in Users : \A c \in Kinds : ToRemove(u, c)' = ToRemove(u, c)
  BY <1>3, <1>5, <1>9, ToRemoveSame
<1>11. \A u \in Users : OwnId(u, "rcr")' = OwnId(u, "rcr")
  BY <1>3, OwnIdSame
<1>12. ASSUME NEW c \in {"pro", "alg"}, NEW x, IsValid(c, x)
       PROVE  /\ \A u \in Users : WorksOn(u, <<c, x>>)' <=> WorksOn(u, <<c, x>>)
              /\ \A u \in Users : WorksOn(u, <<c, x>>) => u # t /\ call'[u] = call[u]
              /\ ReferSame(c, x) /\ IsValid(c, x)'
  <2>1. <<c, x>> # <<k, i>>
    BY <1>6, <1>12
  <2>2. ~WorksOn(t, <<c, x>>)
    BY <1>3 DEF WorksOn
  <2>3. ReferSame(c, x) /\ IsValid(c, x)'
    BY <1>3, <1>7, <1>12 DEF Extends
  <2> QED
    BY <1>4, <2>1, <2>2, <2>3
<1>13. Changes(t)
  <2>1. OldCounts /\ NewCounts
    BY <1>3 DEF Extends
  <2>2. ASSUME NEW c \in {"pro", "alg"}, NEW x, IsValid(c, x)
        PROVE  ReferSame(c, x) /\ CountingSame(c, x)
    <3>1. \A u \in Users : WorksOn(u, <<c, x>>) =>
            call'[u].op = call[u].op /\ call'[u].todo = call[u].todo
      BY <1>12, <2>2
    <3>2. ReferSame(c, x) /\ \A u \in Users : WorksOn(u, <<c, x>>)' <=> WorksOn(u, <<c, x>>)
      BY <1>12, <2>2
    <3> QED
      BY <3>1, <3>2, CountingKeeps
  <2>3. ASSUME NEW c \in {"pro", "alg"}, NEW x, IsValid(c, x), NEW u \in Users, Holds(u, c, x)
        PROVE  Holds(u, c, x)' /\ OwnId(u, "rcr")' = OwnId(u, "rcr")
    <3>1. WorksOn(u, <<c, x>>) /\ call[u].op = "add" =>
            WorksOn(u, <<c, x>>)' /\ call'[u].op = "add"
      BY <1>12, <2>3
    <3>2. ToRemove(u, c)' = ToRemove(u, c) /\ own'[u][c] = own[u][c]
      BY <1>3, <1>7, <1>10
    <3> QED
      BY <1>11, <2>3, <3>1, <3>2, HoldsSame
  <2>4. ASSUME NEW c \in {"pro", "alg"}, NEW x, ~IsValid(c, x), IsValid(c, x)'
        PROVE  NewlyHeld(c, x) /\ \A u \in Users : u # t => ~WorksOn(u, <<c, x>>)
    <3>1. c = k /\ x = i
      BY <1>2, <1>3, <1>7, <2>4 DEF Extends
    <3>2. WorksOn(t, <<k, i>>)' /\ ~(call'[t].op = "remove")
      BY <1>3, <1>4
    <3>3. Holds(t, k, i)'
      BY <1>3, <3>2 DEF Holds
    <3>4. ASSUME NEW l \in RefKinds, NEW n \in Nat \ {0}, CountsFor(<<k, i>>, <<l, n>>)'
          PROVE  FALSE
      <4>1. slots'[k][i][l] = n /\ \A p \in DOMAIN call'[t].todo : call'[t].todo[p] # <<l, n>>
        BY <1>3, <3>2, <3>4 DEF CountsFor, CountedBy
      <4>2. o[l] = n /\ n # NoId
        BY <1>6, <3>4, <4>1 DEF NoId
      <4> QED
        BY <1>3, <1>8, <4>1, <4>2 DEF CountsAll
    <3>5. NewlyHeld(k, i)
      <4>1. slots'[k][i].rcr = (IF k = "alg" THEN OwnId(t, "rcr")' ELSE NoId)
            /\ (k = "pro" => slots'[k][i].pro = NoId)
        BY <1>3, <1>6, <1>11
      <4> QED
        BY <3>3, <3>4, <4>1 DEF NewlyHeld
    <3>6. \A u \in Users : ~WorksOn(u, <<k, i>>)
      BY <1>6 DEF Untouched
    <3> QED
      BY <3>1, <3>5, <3>6
  <2>5. \A u \in Users : u # t => pc'[u] = pc[u] /\ call'[u] = call[u] /\ seen'[u] = seen[u]
    BY <1>3, <1>4
  <2>6. \A c \in {"pro", "alg"} : \A x : IsValid(c, x) => IsValid(c, x)'
    BY <1>12
  <2> QED
    BY <1>3, <2>1, <2>2, <2>3, <2>4, <2>5, <2>6 DEF Changes
<1>14. TodoInv(t)'
  <2>1. slots'[call'[t].kind][call'[t].id] = o
    BY <1>3, <1>6
  <2>2. \A n \in DOMAIN call'[t].todo :
          call'[t].todo[n][1] \in {"param", "pro", "rcr", "rnd"}
          /\ call'[t].todo[n][2] = o[call'[t].todo[n][1]]
    BY <1>3, <1>8 DEF CountsAll, RefKinds
  <2>3. \A n, m \in DOMAIN call'[t].todo : call'[t].todo[n] = call'[t].todo[m] => n = m
    BY <1>3, <1>8 DEF CountsAll
  <2> QED
    BY <2>1, <2>2, <2>3 DEF TodoInv
<1>15. GeneratorInv'
  <2>1. ASSUME NEW n \in Ids("rnd")', slots'["rnd"][n] # NULL
        PROVE  \E c \in {"pro", "alg"} : \E m \in Ids(c)' : HasRandom(c, m)' /\ slots'[c][m].rnd = n
    <3>1. CASE n = r
      <4>1. \A u \in Users : WorksOn(u, <<k, i>>)' => u = t
        BY <1>4, <1>6 DEF Untouched
      <4>2. HasRandom(k, i)'
        BY <1>2, <1>3, <1>6, <4>1 DEF HasRandom, Removes
      <4>3. slots'[k][i].rnd = n
        BY <1>2, <1>6, <3>1
      <4> QED
        BY <1>2, <1>6, <4>2, <4>3
    <3>2. CASE n # r
      <4>1. n \in Ids("rnd") /\ slots["rnd"][n] # NULL
        <5>1. DOMAIN slots["rnd"] = Ids("rnd") /\ DOMAIN slots'["rnd"] = Ids("rnd")'
          BY <1>2, <1>5, SlotsNow, SlotsNext DEF SlotsOf
        <5>2. IsValid("rnd", n)'
          BY <2>1, <5>1 DEF IsValid
        <5>3. IsValid("rnd", n)
          BY <1>2, <1>3, <3>2, <5>2 DEF Extends
        <5> QED
          BY <5>1, <5>3 DEF IsValid
      <4>2. PICK c \in {"pro", "alg"} : \E m \in Ids(c) : HasRandom(c, m) /\ slots[c][m].rnd = n
        BY <1>5, <4>1 DEF GeneratorInv
      <4>3. PICK m \in Ids(c) : HasRandom(c, m) /\ slots[c][m].rnd = n
        BY <4>2
      <4>4. slots[c][m] # NULL
        BY <4>3 DEF HasRandom
      <4>5. IsValid(c, m)
        <5>1. DOMAIN slots[c] = Ids(c)
          BY <1>5, <1>7, SlotsNow DEF SlotsOf
        <5> QED
          BY <4>3, <4>4, <5>1 DEF IsValid
      <4>6. m \in Ids(c)' /\ slots'[c][m] # NULL /\ slots'[c][m].rnd = n
        BY <1>3, <1>7, <4>3, <4>4 DEF Grows, IdsStay
      <4>7. HasRandom(c, m)'
        <5>1. \A u \in Users : WorksOn(u, <<c, m>>)' /\ Removes(u)' => call'[u].drop # <<>>
          BY <1>12, <4>3, <4>5 DEF HasRandom, Removes
        <5> QED
          BY <4>6, <5>1 DEF HasRandom
      <4> QED
        BY <4>6, <4>7
    <3> QED
      BY <3>1, <3>2
  <2> QED
    BY <2>1 DEF GeneratorInv
<1>16. LeftInv'
  <2>1. \A p : ToBeRemoved(p)' <=> ToBeRemoved(p)
    BY <1>3, <1>10, ToBeSame, KindNames
  <2>2. ASSUME NEW u \in Users
        PROVE  Dropped(u)' = Dropped(u)
    <3>1. CASE u = t
      BY <1>3, <3>1 DEF Dropped, Removes
    <3>2. CASE u # t /\ ~Working(u)
      BY <1>4, <3>2 DEF Dropped
    <3>3. CASE u # t /\ Working(u)
      <4>1. SlotKept(call[u].kind, call[u].id)
        BY <1>3, <3>3 DEF Grows
      <4> QED
        BY <1>4, <3>3, <4>1 DEF Dropped, Removes, SlotKept
    <3> QED
      BY <3>1, <3>2, <3>3
  <2>3. /\ \A n \in Ids("pro")' : \/ PartsOf(n)' = <<>>
                                  \/ n \in Ids("pro") /\ PartsOf(n)' = PartsOf(n)
        /\ Ids("pro") \subseteq Ids("pro")'
    <3>1. \A m \in DOMAIN new : new[m].parts = <<>>
      BY <1>2, PlainType
    <3>2. \A n \in Ids("pro")' : \/ PartsOf(n)' = <<>>
                                 \/ n \in Ids("pro") /\ PartsOf(n)' = PartsOf(n)
      BY <1>3, <3>1, PartsGrown
    <3> QED
      BY <1>3, <3>2, KindNames DEF Grows, IdsStay
  <2>4. ASSUME NEW n \in Ids("pro"), PartsOf(n) # <<>>
        PROVE  PartsOf(n)' = PartsOf(n)
    <3>1. slots["pro"][n] # NULL
      BY <2>4 DEF PartsOf
    <3>2. IsValid("pro", n)
      BY <1>5, <3>1, SlotsNow, KindNames DEF SlotsOf, IsValid
    <3>3. k = "pro" => n # i
      BY <1>6, <3>2
    <3>4. slots'["pro"][n] = slots["pro"][n]
      BY <1>2, <1>3, <3>3, KindNames DEF Grown
    <3> QED
      BY <3>4 DEF PartsOf
  <2>5. \A p : IsPart(p)' <=> IsPart(p)
    <3>1. ASSUME NEW p, IsPart(p)
          PROVE  IsPart(p)'
      <4>1. CASE \E n \in Ids("pro") : \E q \in DOMAIN PartsOf(n) : PartsOf(n)[q] = p
        <5>1. PICK n \in Ids("pro") : \E q \in DOMAIN PartsOf(n) : PartsOf(n)[q] = p
          BY <4>1
        <5>2. PartsOf(n) # <<>>
          BY <5>1
        <5>3. PartsOf(n)' = PartsOf(n) /\ n \in Ids("pro")'
          BY <2>3, <2>4, <5>2
        <5> QED
          BY <5>1, <5>3 DEF IsPart
      <4>2. CASE \E u \in Users : \E n \in DOMAIN Dropped(u) : Dropped(u)[n][2] = p
        BY <2>2, <4>2 DEF IsPart
      <4> QED
        BY <3>1, <4>1, <4>2 DEF IsPart
    <3>2. ASSUME NEW p, IsPart(p)'
          PROVE  IsPart(p)
      <4>1. CASE \E n \in Ids("pro")' : \E q \in DOMAIN PartsOf(n)' : PartsOf(n)'[q] = p
        <5>1. PICK n \in Ids("pro")' : \E q \in DOMAIN PartsOf(n)' : PartsOf(n)'[q] = p
          BY <4>1
        <5>2. PartsOf(n)' # <<>>
          BY <5>1
        <5>3. PartsOf(n)' = PartsOf(n) /\ n \in Ids("pro")
          BY <2>3, <5>2
        <5> QED
          BY <5>1, <5>3 DEF IsPart
      <4>2. CASE \E u \in Users : \E n \in DOMAIN Dropped(u)' : Dropped(u)'[n][2] = p
        BY <2>2, <4>2 DEF IsPart
      <4> QED
        BY <3>2, <4>1, <4>2 DEF IsPart
    <3> QED
      BY <3>1, <3>2
  <2>6. \A p : IsValid("param", p)' <=> IsValid("param", p)
    <3>1. "param" \in Kinds /\ "param" \notin DOMAIN new
      BY <1>2, KindNames
    <3>2. slots'["param"] = slots["param"]
      BY <1>3, <3>1 DEF Grown
    <3> QED
      BY <3>2 DEF IsValid
  <2>7. Left' = Left
    BY <1>5, <2>1, <2>5, <2>6, LeftSame
  <2>8. job # 0 /\ LeavesParam(job) /\ at'[Main] = StartAt + 2 => pc'[Main] = "idle"
    BY <1>3, <1>4, <1>5, <1>9, MainRests
  <2> QED
    BY <1>3, <1>5, <1>9, <2>7, <2>8, LeftKept, KindNames
<1> QED
  BY <1>5, <1>13, <1>14, <1>15, <1>16, ChangeExact

-----------------------------------------------------------------------------
(* A composition gets a function, and nobody's work changes.               *)

PartComes(i, p, table, new) ==
    /\ p = NewId("param") /\ p \in Nat
    /\ i \in Ids("pro") /\ slots["pro"][i] # NULL
    /\ DOMAIN new = {"param"} /\ new["param"] = Plain /\ OnePartMore(table, i, p)
    /\ Places(table, new) /\ Grown(table, new) /\ Grows(new) /\ Extends(new)
    /\ ~IsValid("param", p) /\ IsValid("param", p)'
    /\ pc[Main] = "idle"
    /\ pc' = pc /\ at' = at /\ call' = call /\ seen' = seen /\ own' = own /\ job' = job

LEMMA PartComesFacts ==
    ASSUME InstanceInv, NEW j, AddFunction(j)
    PROVE  \E i, p, table, new : PartComes(i, p, table, new) /\ i = own[Main]["pro"][j]
<1>1. PICK i, p, new, table :
        /\ i = own[Main]["pro"][j] /\ p = NewId("param")
        /\ new = [kind \in {"param"} |-> Plain]
        /\ PartAdded(table, i, p)
  BY ZenonT(60) DEF PartAdded
<1>2. /\ slots' = Placed(table, new) /\ Take(DOMAIN new)
      /\ Calls(Main, <<"initialize", "pro", j>>)
      /\ pc' = pc /\ at' = at /\ call' = call /\ seen' = seen /\ own' = own /\ job' = job
  BY <1>1, ZenonT(60) DEF AddFunction, PartAdded, threads, task
<1>3. TypeOK /\ InstanceInv'
  BY AddFunctionKeeps DEF InstanceInv
<1>4. i \in Ids("pro") /\ slots["pro"][i] # NULL /\ pc[Main] = "idle"
  BY <1>1, <1>2, InitializeNeeds DEF IsValid
<1>5. DOMAIN new = {"param"} /\ new["param"] = Plain /\ "param" \in Kinds
  BY <1>1, KindNames
<1>6. p \in Nat
  BY <1>1, <1>5, NewIdIsNew
<1>7. OnePartMore(table, i, p)
  BY <1>1, <1>3, <1>4, <1>6, OneMorePart
<1>8. Like(table)
  BY <1>7 DEF OnePartMore
<1>9. Places(table, new)
  BY <1>2, <1>5, <1>8, PlainType DEF Places
<1>10. Grown(table, new) /\ Grows(new) /\ Extends(new)
  BY <1>3, <1>9, PlaceExtends
<1>11. ~IsValid("param", p) /\ IsValid("param", p)'
  BY <1>1, <1>5, <1>10 DEF Extends
<1>12. PartComes(i, p, table, new)
  BY <1>1, <1>2, <1>4, <1>5, <1>6, <1>7, <1>9, <1>10, <1>11, Zenon DEF PartComes
<1> QED
  BY <1>1, <1>12

\* The new parameters are the only ones that become part of something.
LEMMA OnePartComes ==
    ASSUME InstanceInv, NEW i, NEW p, NEW table, NEW new, PartComes(i, p, table, new)
    PROVE  \A q : IsPart(q)' <=> IsPart(q) \/ q = p
<1>1. /\ i \in Ids("pro") /\ slots["pro"][i] # NULL /\ DOMAIN new = {"param"} /\ p \in Nat
      /\ Like(table) /\ table["pro"][i].parts = Append(slots["pro"][i].parts, p)
      /\ slots["pro"][i].parts \in Seq(Nat)
      /\ \A m \in Kinds : \A x \in Ids(m) : m # "pro" \/ x # i => table[m][x] = slots[m][x]
      /\ Grown(table, new) /\ Grows(new) /\ pc' = pc /\ call' = call
  BY DEF PartComes, OnePartMore
<1>2. slots'["pro"] = table["pro"] /\ Ids("pro")' = Ids("pro") /\ "pro" \in Kinds
  BY <1>1, KindNames DEF Grown
<1>3. PICK s : s = PartsOf(i)
  OBVIOUS
<1>4. s \in Seq(Nat) /\ PartsOf(i)' = Append(s, p)
  BY <1>1, <1>2, <1>3 DEF PartsOf, Like
<1>5. /\ DOMAIN Append(s, p) = 1..Len(s) + 1 /\ DOMAIN s = 1..Len(s) /\ Len(s) \in Nat
      /\ \A y \in DOMAIN s : Append(s, p)[y] = s[y]
      /\ Append(s, p)[Len(s) + 1] = p
  BY <1>1, <1>4
<1>6. \A x \in Ids("pro") : x # i => PartsOf(x)' = PartsOf(x)
  BY <1>1, <1>2 DEF PartsOf
<1>7. \A u \in Users : Dropped(u)' = Dropped(u)
  <2>1. \A u \in Users : (Working(u)' <=> Working(u)) /\ (Removes(u)' <=> Removes(u))
    BY <1>1 DEF Working, Removes
  <2> QED
    BY <1>1, <2>1 DEF Dropped, Grows, SlotKept
<1>8. ASSUME NEW q, IsPart(q)
      PROVE  IsPart(q)'
  <2>1. CASE \E x \in Ids("pro") : \E n \in DOMAIN PartsOf(x) : PartsOf(x)[n] = q
    <3>1. PICK x \in Ids("pro") : \E n \in DOMAIN PartsOf(x) : PartsOf(x)[n] = q
      BY <2>1
    <3>2. PICK n \in DOMAIN PartsOf(x) : PartsOf(x)[n] = q
      BY <3>1
    <3>3. n \in DOMAIN PartsOf(x)' /\ PartsOf(x)'[n] = q
      <4>1. CASE x = i
        <5>1. n \in DOMAIN Append(s, p) /\ Append(s, p)[n] = q
          BY <1>3, <1>5, <3>2, <4>1
        <5> QED
          BY <1>4, <4>1, <5>1
      <4>2. CASE x # i
        BY <1>6, <3>2, <4>2
      <4> QED
        BY <4>1, <4>2
    <3> QED
      BY <1>2, <3>3 DEF IsPart
  <2>2. CASE \E u \in Users : \E n \in DOMAIN Dropped(u) : Dropped(u)[n][2] = q
    BY <1>7, <2>2 DEF IsPart
  <2> QED
    BY <1>8, <2>1, <2>2 DEF IsPart
<1>9. IsPart(p)'
  <2>1. Len(s) + 1 \in DOMAIN PartsOf(i)' /\ PartsOf(i)'[Len(s) + 1] = p
    BY <1>4, <1>5
  <2> QED
    BY <1>1, <1>2, <2>1 DEF IsPart
<1>10. ASSUME NEW q, IsPart(q)', q # p
       PROVE  IsPart(q)
  <2>1. CASE \E x \in Ids("pro")' : \E n \in DOMAIN PartsOf(x)' : PartsOf(x)'[n] = q
    <3>1. PICK x \in Ids("pro") : \E n \in DOMAIN PartsOf(x)' : PartsOf(x)'[n] = q
      BY <1>2, <2>1
    <3>2. PICK n \in DOMAIN PartsOf(x)' : PartsOf(x)'[n] = q
      BY <3>1
    <3>3. n \in DOMAIN PartsOf(x) /\ PartsOf(x)[n] = q
      <4>1. CASE x = i
        <5>1. n \in DOMAIN Append(s, p) /\ Append(s, p)[n] = q
          BY <1>4, <3>2, <4>1
        <5>2. n \in DOMAIN s
          BY <1>5, <1>10, <5>1
        <5> QED
          BY <1>3, <1>5, <4>1, <5>1, <5>2
      <4>2. CASE x # i
        BY <1>6, <3>2, <4>2
      <4> QED
        BY <4>1, <4>2
    <3> QED
      BY <3>3 DEF IsPart
  <2>2. CASE \E u \in Users : \E n \in DOMAIN Dropped(u)' : Dropped(u)'[n][2] = q
    BY <1>7, <2>2 DEF IsPart
  <2> QED
    BY <1>10, <2>1, <2>2 DEF IsPart
<1> QED
  BY <1>8, <1>9, <1>10

LEMMA AddFunctionExact ==
    ASSUME InstanceInv, ExactInv, NEW j, AddFunction(j)
    PROVE  ExactInv'
<1>1. PICK i, p, table, new : PartComes(i, p, table, new)
  BY PartComesFacts
<1>2. /\ DOMAIN new = {"param"} /\ Grown(table, new) /\ Grows(new) /\ Extends(new)
      /\ p = NewId("param") /\ ~IsValid("param", p) /\ IsValid("param", p)'
      /\ OnePartMore(table, i, p)
  BY <1>1 DEF PartComes
<1>3. /\ pc[Main] = "idle"
      /\ pc' = pc /\ at' = at /\ call' = call /\ seen' = seen /\ own' = own /\ job' = job
  BY <1>1 DEF PartComes
<1>4. Main \in Users /\ TypeOK /\ InstanceInv' /\ HeldInv /\ LeftInv /\ GeneratorInv
  BY AddFunctionKeeps, UserTypes DEF InstanceInv, ExactInv
<1>5. Advances(Main) /\ \A c \in Kinds : Passes(Main, c)
  BY <1>3 DEF Advances, Passes
<1>6. \A u \in Users : \A c \in Kinds : ToRemove(u, c)' = ToRemove(u, c)
  BY <1>3, <1>4, <1>5, ToRemoveSame
<1>7. \A u \in Users : \A x : WorksOn(u, x)' <=> WorksOn(u, x)
  BY <1>3 DEF WorksOn, Working
<1>8. \A c \in {"pro", "alg"} : c \in Kinds /\ \A x :
        /\ IsValid(c, x) => ReferSame(c, x) /\ IsValid(c, x)'
        /\ IsValid(c, x)' => IsValid(c, x)
  <2>1. \A c \in {"pro", "alg"} : c \in Kinds /\ c \notin DOMAIN new
    BY <1>2, KindNames
  <2> QED
    BY <1>2, <2>1 DEF Extends
<1>9. Changes(Main)
  <2>1. OldCounts /\ NewCounts
    BY <1>2 DEF Extends
  <2>2. ASSUME NEW c \in {"pro", "alg"}, NEW x, IsValid(c, x)
        PROVE  ReferSame(c, x) /\ CountingSame(c, x)
    <3>1. \A u \in Users : call'[u].op = call[u].op /\ call'[u].todo = call[u].todo
      BY <1>3
    <3>2. ReferSame(c, x)
      BY <1>8, <2>2
    <3> QED
      BY <1>7, <3>1, <3>2, CountingKeeps
  <2>3. ASSUME NEW c \in {"pro", "alg"}, NEW x, NEW u \in Users, Holds(u, c, x)
        PROVE  Holds(u, c, x)' /\ OwnId(u, "rcr")' = OwnId(u, "rcr")
    <3>1. WorksOn(u, <<c, x>>) /\ call[u].op = "add" =>
            WorksOn(u, <<c, x>>)' /\ call'[u].op = "add"
      BY <1>3, <1>7
    <3>2. ToRemove(u, c)' = ToRemove(u, c) /\ own'[u][c] = own[u][c]
      BY <1>3, <1>6, <1>8
    <3>3. Holds(u, c, x)'
      BY <2>3, <3>1, <3>2, HoldsSame
    <3>4. OwnId(u, "rcr")' = OwnId(u, "rcr")
      BY <1>3, OwnIdSame
    <3> QED
      BY <3>3, <3>4
  <2>4. /\ \A u \in Users : u # Main => pc'[u] = pc[u] /\ call'[u] = call[u] /\ seen'[u] = seen[u]
        /\ pc'[Main] # "writing"
    BY <1>3
  <2> QED
    BY <1>8, <2>1, <2>2, <2>3, <2>4 DEF Changes
<1>10. TodoInv(Main)'
  BY <1>3 DEF TodoInv, Working
<1>11. GeneratorInv'
  <2>1. slots'["rnd"] = slots["rnd"] /\ Ids("rnd")' = Ids("rnd")
    <3>1. "rnd" \in Kinds /\ "rnd" \notin DOMAIN new
      BY <1>2, KindNames
    <3>2. slots'["rnd"] = table["rnd"] /\ Ids("rnd")' = Ids("rnd")
      BY <1>2, <3>1 DEF Grown
    <3>3. table["rnd"] = slots["rnd"]
      BY <1>2, <3>1 DEF OnePartMore
    <3> QED
      BY <3>2, <3>3
  <2>2. ASSUME NEW c \in {"pro", "alg"}, NEW m \in Ids(c), HasRandom(c, m)
        PROVE  m \in Ids(c)' /\ HasRandom(c, m)' /\ slots'[c][m].rnd = slots[c][m].rnd
    <3>1. slots[c][m] # NULL
      BY <2>2 DEF HasRandom
    <3>2. m \in Ids(c)' /\ slots'[c][m] # NULL /\ slots'[c][m].rnd = slots[c][m].rnd
      BY <1>2, <1>8, <3>1 DEF Grows, IdsStay
    <3>3. \A u \in Users : WorksOn(u, <<c, m>>)' /\ Removes(u)' => call'[u].drop # <<>>
      BY <1>3, <1>7, <2>2 DEF HasRandom, Removes
    <3> QED
      BY <3>2, <3>3 DEF HasRandom
  <2> QED
    BY <1>4, <2>1, <2>2, GeneratorKept
<1>12. LeftInv'
  <2>1. \A q : ToBeRemoved(q)' <=> ToBeRemoved(q)
    BY <1>3, <1>6, ToBeSame, KindNames
  <2>2. \A q : IsPart(q)' <=> IsPart(q) \/ q = p
    BY <1>1, OnePartComes
  <2>3. \A q : IsValid("param", q)' <=> IsValid("param", q) \/ q = p
    BY <1>2, KindNames DEF Extends
  <2>4. Left' = Left
    BY <1>2, <1>4, <2>1, <2>2, <2>3, LeftSame
  <2>5. job # 0 /\ LeavesParam(job) /\ at'[Main] = StartAt + 2 => pc'[Main] = "idle"
    BY <1>3, <1>4, <1>5, MainRests
  <2> QED
    BY <1>3, <1>4, <1>5, <2>4, <2>5, LeftKept, KindNames
<1> QED
  BY <1>4, <1>9, <1>10, <1>11, <1>12, ChangeExact

-----------------------------------------------------------------------------
(* Between two tasks, and at the beginning.                                *)

\* Nobody has anything to remove, so there is no problem, no algorithm and no random
\* generator, and the parameters of the task have been left if they are to be.
NothingHeld ==
    /\ \A u \in Users : pc[u] = "idle" /\ ~Working(u)
    /\ \A u \in Users : \A k \in Kinds : ToRemove(u, k) = {}
    /\ \A k \in {"pro", "alg"} : \A i \in Ids(k) : slots[k][i] = NULL
    /\ \A i \in Ids("rnd") : slots["rnd"][i] = NULL
    /\ job # 0 => at[Main] > StartAt + 2

LEMMA RestFacts ==
    ASSUME InstanceInv, ExactInv, pc[Main] = "idle", Finished(Main)
    PROVE  NothingHeld
<1>1. \A u \in Users : pc[u] = "idle" /\ ~Working(u)
  BY AllRest DEF Working
<1>2. /\ TypeOK /\ JobOK /\ PlaceInv /\ HeldInv /\ GeneratorInv /\ Main \in Users
      /\ at \in [Users -> Nat \ {0}]
  BY ThreadTypes, UserTypes DEF InstanceInv, ExactInv
<1>3. job # 0 => at[Main] > StartAt + 2 /\ at[Main] > StartAt + 1
  <2>1. ASSUME job # 0
        PROVE  at[Main] > StartAt + 2 /\ at[Main] > StartAt + 1
    <3>1. PICK n, f : n = Job.runs /\ f = FirstRemoval(Job.runs, Job.paramFirst)
      OBVIOUS
    <3>2. n \in Nat /\ StartAt = 3 * n + 3 /\ DOMAIN Script(Main) = 1..5 * n + 6
      BY <1>2, <2>1, <3>1, ScriptOfMain
    <3>3. at[Main] \in Nat \ {0} /\ at[Main] \notin DOMAIN Script(Main)
      BY <1>2 DEF Finished
    <3> QED
      BY <3>2, <3>3
  <2> QED
    BY <2>1
<1>4. \A u \in running : Finished(u)
  BY <1>2, <1>3 DEF PlaceInv
<1>5. ASSUME NEW u \in Users, NEW k \in Kinds
      PROVE  ToRemove(u, k) = {}
  <2>1. /\ at[u] \in Nat \ {0} /\ JobOK /\ GotBefore(u, at[u], own[u])
        /\ DOMAIN own[u][k] = 1..Len(own[u][k]) /\ Len(own[u][k]) \in Nat
    BY GotNow
  <2>2. Len(Script(u)) \in Nat /\ DOMAIN Script(u) = 1..Len(Script(u))
    BY <1>2, ScriptType
  <2>3. CASE Finished(u)
    <3>1. ~\E n \in DOMAIN Script(u) : n >= at[u]
      BY <2>1, <2>2, <2>3 DEF Finished
    <3> QED
      BY <3>1 DEF ToRemove
  <2>4. CASE ~Finished(u)
    <3>1. u \in Threads \ running /\ u # Main
      BY <1>4, <2>4, UserTypes
    <3>2. at[u] = 1
      BY <1>2, <3>1 DEF PlaceInv
    <3>3. /\ own[u]["rnd"] = <<>> /\ own[u]["rcr"] = <<>> /\ Len(own[u]["param"]) = 0
          /\ Len(own[u]["pro"]) = 0 /\ Len(own[u]["alg"]) = 0
      BY <2>1, <3>1, <3>2 DEF GotBefore
    <3>4. Len(own[u][k]) = 0
      BY <3>3 DEF Kinds
    <3>5. DOMAIN own[u][k] = {}
      BY <2>1, <3>4
    <3> QED
      BY <3>5 DEF ToRemove
  <2> QED
    BY <2>3, <2>4
<1>6. ASSUME NEW k \in {"pro", "alg"}, NEW i \in Ids(k), slots[k][i] # NULL
      PROVE  FALSE
  <2>1. PICK u \in Users : Holds(u, k, i)
    BY <1>2, <1>6 DEF HeldInv
  <2>2. ToRemove(u, k) = {} /\ ~WorksOn(u, <<k, i>>)
    BY <1>1, <1>5, KindNames DEF WorksOn
  <2> QED
    BY <2>1, <2>2 DEF Holds
<1>7. ASSUME NEW i \in Ids("rnd"), slots["rnd"][i] # NULL
      PROVE  FALSE
  <2>1. \E k \in {"pro", "alg"} : \E m \in Ids(k) : HasRandom(k, m)
    BY <1>2, <1>7 DEF GeneratorInv
  <2> QED
    BY <1>6, <2>1 DEF HasRandom
<1> QED
  BY <1>1, <1>3, <1>5, <1>6, <1>7 DEF NothingHeld

LEMMA NextTaskExact ==
    ASSUME InstanceInv, ExactInv, NextTask
    PROVE  ExactInv'
<1>1. /\ slots' = slots /\ occupied' = occupied /\ pc' = pc /\ call' = call /\ seen' = seen
      /\ job' = job + 1 /\ job < Len(Tasks)
      /\ at' = [u \in Users |-> 1] /\ own' = [u \in Users |-> Nothing]
  BY DEF NextTask, manager
<1>2. NothingHeld
  BY RestFacts DEF NextTask
<1>3. /\ InstanceInv' /\ TypeOK /\ TypeOK' /\ HeldInv /\ CountsAreExact /\ LeftInv /\ Main \in Users
      /\ job \in Nat /\ Len(Tasks) \in Nat
  <2>1. InstanceInv' /\ Main \in Users
    BY NextTaskKeeps, UserTypes
  <2>2. TypeOK /\ TypeOK' /\ HeldInv /\ CountsAreExact /\ LeftInv
    BY <2>1 DEF InstanceInv, ExactInv
  <2>3. Len(Tasks) \in Nat /\ job \in Nat
    BY <2>2, TasksAssumption DEF TypeOK
  <2> QED
    BY <2>1, <2>2, <2>3
<1>4. \A k : Ids(k)' = Ids(k)
  BY <1>1 DEF Ids
<1>5. \A u \in Users : ~Working(u) /\ ~Working(u)' /\ pc'[u] = "idle"
  BY <1>1, <1>2 DEF NothingHeld, Working
<1>6. HeldInv' /\ GeneratorInv'
  <2>1. \A k \in {"pro", "alg"} : \A i \in Ids(k)' : slots'[k][i] = NULL
    BY <1>1, <1>2, <1>4 DEF NothingHeld
  <2>2. \A i \in Ids("rnd")' : slots'["rnd"][i] = NULL
    BY <1>1, <1>2, <1>4 DEF NothingHeld
  <2> QED
    BY <2>1, <2>2 DEF HeldInv, GeneratorInv
<1>7. \A u \in Users : TodoInv(u)' /\ SeenInv(u)'
  BY <1>5 DEF TodoInv, SeenInv
<1>8. CountsAreExact'
  <2>1. \A k \in {"pro", "alg"} : \A i : ~IsValid(k, i) /\ ~IsValid(k, i)'
    <3>1. \A k \in {"pro", "alg"} : DOMAIN slots[k] = Ids(k)
      BY <1>3, SlotsNow, KindNames DEF SlotsOf
    <3> QED
      BY <1>1, <1>2, <3>1 DEF NothingHeld, IsValid
  <2>2. CountingKept
    BY <2>1 DEF CountingKept, CountingSame, CountsFor
  <2>3. OldCounts /\ NewCounts
    BY <1>1, <1>4 DEF OldCounts, NewCounts
  <2> QED
    BY <1>3, <2>2, <2>3, CountsKept
<1>9. LeftInv'
  <2>1. \A u \in Users : ToRemove(u, "param") = {} /\ ToRemove(u, "param")' = {}
    <3>1. \A u \in Users : ToRemove(u, "param") = {}
      BY <1>2, KindNames DEF NothingHeld
    <3>2. \A u \in Users : own'[u]["param"] = <<>>
      BY <1>1, NothingIsGot
    <3>3. \A u \in Users : DOMAIN own'[u]["param"] = {}
      BY <3>2
    <3> QED
      BY <3>1, <3>3 DEF ToRemove
  <2>2. \A p : ToBeRemoved(p)' <=> ToBeRemoved(p)
    BY <2>1 DEF ToBeRemoved
  <2>3. \A p : IsPart(p)' <=> IsPart(p)
    <3>1. \A u \in Users : Dropped(u)' = Dropped(u)
      BY <1>5 DEF Dropped
    <3> QED
      BY <1>1, <3>1, PartsSame
  <2>4. \A p : IsValid("param", p)' <=> IsValid("param", p)
    BY <1>1 DEF IsValid
  <2>5. Left' = Left
    BY <1>3, <2>2, <2>3, <2>4, LeftSame
  <2>6. StartAt' \in Nat /\ StartAt' >= 3 /\ at'[Main] = 1
    <3>1. job' # 0 /\ JobOK'
      BY <1>1, <1>3 DEF JobOK
    <3> QED
      BY <1>1, <1>3, <3>1, NextScripts DEF MiddleOK
  <2>7. \A n \in 1..job : HasLeft(n)' <=> HasLeft(n)
    <3>1. ASSUME NEW n \in 1..job
          PROVE  HasLeft(n)' <=> HasLeft(n)
      <4>1. n # job' /\ (n = job => at[Main] > StartAt + 2)
        BY <1>1, <1>2, <1>3, <3>1 DEF NothingHeld
      <4> QED
        BY <4>1 DEF HasLeft, LeavesParam
    <3> QED
      BY <3>1
  <2>8. ~HasLeft(job)' /\ \A n : n = job' => ~HasLeft(n)'
    <3>1. PICK s, n : s = StartAt' /\ n = at'[Main]
      OBVIOUS
    <3>2. s \in Nat /\ n = 1
      BY <2>6, <3>1
    <3>3. ~(n > s + 2)
      BY <3>2
    <3> QED
      BY <3>1, <3>3 DEF HasLeft
  <2>9. 1..job' = 1..job \cup {job'}
    BY <1>1, <1>3
  <2>10. {n \in 1..job : HasLeft(n)}' = {n \in 1..job : HasLeft(n)}
    <3>1. \A n \in 1..job' : HasLeft(n)' => n \in 1..job
      BY <2>8, <2>9
    <3>2. 1..job \subseteq 1..job'
      BY <2>9
    <3> QED
      BY <2>7, <3>1, <3>2
  <2>11. ~(at'[Main] = StartAt' + 2)
    <3>1. PICK s, n : s = StartAt' /\ n = at'[Main]
      OBVIOUS
    <3>2. s \in Nat /\ n = 1
      BY <2>6, <3>1
    <3>3. n # s + 2
      BY <3>2
    <3> QED
      BY <3>1, <3>3
  <2> QED
    BY <1>3, <2>5, <2>8, <2>10, <2>11 DEF LeftInv
<1> QED
  BY <1>6, <1>7, <1>8, <1>9 DEF ExactInv

LEMMA StutterExact ==
    ASSUME InstanceInv, ExactInv, UNCHANGED vars
    PROVE  ExactInv'
<1>1. /\ slots' = slots /\ occupied' = occupied /\ pc' = pc /\ at' = at /\ call' = call
      /\ seen' = seen /\ own' = own /\ job' = job
  BY DEF vars, manager, threads, task
<1>2. InstanceInv' /\ Main \in Users
  BY StutterKeeps, UserTypes
<1>3. Calm(Main) /\ DropsStay
  BY <1>1 DEF Calm, DropsStay, WorkGoesOn, Working, Advances
<1>4. SeenInv(Main)'
  BY <1>1, <1>2, SeenKept DEF ExactInv, OldCounts
<1>5. \A k : Passes(Main, k)
  BY <1>1 DEF Passes
<1> QED
  BY <1>1, <1>2, <1>3, <1>4, <1>5, QuietKeeps

LEMMA InitExact == Init => ExactInv
<1> SUFFICES ASSUME Init
             PROVE  ExactInv
  OBVIOUS
<1>1. /\ slots = Nothing /\ job = 0 /\ pc = [t \in Users |-> "idle"]
      /\ call = [t \in Users |-> NoCall]
  BY DEF Init
<1>2. \A k \in Kinds : slots[k] = <<>> /\ Ids(k) = {}
  BY <1>1, NothingIsGot DEF Ids
<1>3. \A u \in Users : ~Working(u) /\ pc[u] = "idle"
  BY <1>1 DEF Working
<1>4. Left = {}
  BY <1>2, KindNames DEF Left
<1>5. LeftInv
  <2>1. {n \in 1..job : HasLeft(n)} = {}
    BY <1>1
  <2> QED
    BY <1>1, <1>4, <2>1, FS_EmptySet DEF LeftInv
<1>6. HeldInv /\ GeneratorInv /\ CountsAreExact
  BY <1>2, KindNames DEF HeldInv, GeneratorInv, CountsAreExact
<1>7. \A u \in Users : TodoInv(u) /\ SeenInv(u)
  BY <1>3 DEF TodoInv, SeenInv
<1> QED
  BY <1>5, <1>6, <1>7 DEF ExactInv

-----------------------------------------------------------------------------
(* The theorems about the counts.                                          *)

\* What is lost is lost.
LEMMA LostStays == [Next]_vars /\ lost => lost'
<1> SUFFICES ASSUME [Next]_vars, lost
             PROVE  lost'
  OBVIOUS
<1>1. ASSUME NEW t \in Users, Adding(t)
      PROVE  lost'
  BY <1>1 DEF Adding, AddLeaf, AddCheck, AddLocked, AddReturns
<1>2. ASSUME NEW t \in Users, Counting(t)
      PROVE  lost'
  BY <1>2 DEF Counting, CountRead, CountWrite
<1>3. ASSUME NEW t \in Users, Removing(t)
      PROVE  lost'
  BY <1>3 DEF Removing, RemoveCheck, RemoveLeaf, RemoveLocked, DropCheck, DropDone, Reset,
     RemoveReturns
<1>4. ASSUME NEW t \in Threads, RunAlgorithm(t)
      PROVE  lost'
  BY <1>4 DEF RunAlgorithm
<1>5. CASE RunStep
  BY <1>5 DEF RunStep, AddFunction, Initialized, StartThreads, Join
<1>6. CASE NextTask
  BY <1>6 DEF NextTask
<1>7. CASE Ended \/ UNCHANGED vars
  BY <1>7 DEF Ended, vars
<1> QED
  BY <1>1, <1>2, <1>3, <1>4, <1>5, <1>6, <1>7 DEF Next, Step

\* Every step but one in which a count is lost.
LEMMA StepExact == InstanceInv /\ ExactInv /\ [Next]_vars /\ ~lost' => ExactInv'
<1> SUFFICES ASSUME InstanceInv, ExactInv, [Next]_vars, ~lost'
             PROVE  ExactInv'
  OBVIOUS
<1>1. ASSUME NEW t \in Users, Adding(t)
      PROVE  ExactInv'
  BY <1>1, AddLeafExact, AddCheckExact, AddLockedExact, AddReturnsExact DEF Adding
<1>2. ASSUME NEW t \in Users, Counting(t)
      PROVE  ExactInv'
  BY <1>2, CountReadExact, CountWriteExact DEF Counting
<1>3. ASSUME NEW t \in Users, Removing(t)
      PROVE  ExactInv'
  BY <1>3, RemoveCheckExact, RemoveLeafExact, RemoveLockedExact, DropCheckExact, DropDoneExact,
     ResetExact, RemoveReturnsExact DEF Removing
<1>4. InstanceInv'
  BY StepKeeps
<1>5. ASSUME NEW t \in Threads, RunAlgorithm(t)
      PROVE  ExactInv'
  BY <1>4, <1>5, OtherExact
<1>6. CASE RunStep
  BY <1>4, <1>6, AddFunctionExact, OtherExact DEF RunStep
<1>7. CASE NextTask
  BY <1>7, NextTaskExact
<1>8. CASE Ended \/ UNCHANGED vars
  BY <1>8, StutterExact DEF Ended
<1> QED
  BY <1>1, <1>2, <1>3, <1>5, <1>6, <1>7, <1>8 DEF Next, Step

\* Whatever the threads and the tasks, CountInv holds: until a count is lost every
\* count of the registry is the number of users, and everything is somebody's.
THEOREM CountInvariant == Spec => []CountInv
<1>1. Init => CountInv
  BY InitKeeps, InitExact DEF CountInv
<1>2. CountInv /\ [Next]_vars => CountInv'
  <2> SUFFICES ASSUME CountInv, [Next]_vars
               PROVE  CountInv'
    OBVIOUS
  <2>1. InstanceInv /\ InstanceInv' /\ (~lost => ExactInv)
    BY StepKeeps DEF CountInv
  <2>2. ~lost' => ~lost
    BY LostStays
  <2>3. ~lost' => ExactInv'
    BY <2>1, <2>2, StepExact
  <2> QED
    BY <2>1, <2>3 DEF CountInv
<1> QED
  BY <1>1, <1>2, PTL DEF Spec

\* The occupation that the remove functions test is the number of users of an object,
\* through adding, removing and the reuse of ids, until a count is lost.
THEOREM CountsAreRight == Spec => []CountsAreUsers
<1>1. CountInv => CountsAreUsers
  BY DEF CountInv, ExactInv, CountsAreUsers
<1> QED
  BY <1>1, CountInvariant, PTL

\* The parameters there are, when run() has released a task, are those that have been
\* left.
LEMMA LeftAreAll ==
    ASSUME InstanceInv, ExactInv, NothingHeld
    PROVE  /\ \A x \in Settled : x[1] \in {"rcr", "param"}
           /\ {x \in Settled : x[1] = "param"} = {"param"} \X Left
<1>1. /\ TypeOK /\ \A k \in Kinds : DOMAIN slots[k] = Ids(k)
  BY SlotsNow DEF InstanceInv, SlotsOf
<1>2. \A u \in Users : ~Working(u) /\ ToRemove(u, "param") = {}
  BY KindNames DEF NothingHeld
<1>3. Settled = {x \in UNION {{k} \X DOMAIN slots[k] : k \in Kinds} : IsValid(x[1], x[2])}
  BY <1>2 DEF Settled
<1>4. \A k \in {"pro", "alg", "rnd"} : \A i : ~IsValid(k, i)
  BY <1>1, KindNames DEF NothingHeld, IsValid
<1>5. \A x \in Settled : x[1] \in {"rcr", "param"}
  <2>1. \A x \in Settled : x[1] \in Kinds /\ IsValid(x[1], x[2])
    BY <1>3
  <2> QED
    BY <1>4, <2>1 DEF Kinds
<1>6. \A p : ~ToBeRemoved(p)
  BY <1>2 DEF ToBeRemoved
<1>7. \A p : ~IsPart(p)
  <2>1. \A i \in Ids("pro") : PartsOf(i) = <<>>
    BY DEF NothingHeld, PartsOf
  <2>2. \A u \in Users : Dropped(u) = <<>>
    BY <1>2 DEF Dropped
  <2>3. DOMAIN <<>> = {}
    OBVIOUS
  <2> QED
    BY <2>1, <2>2, <2>3 DEF IsPart
<1>8. Left = {p \in Ids("param") : IsValid("param", p)}
  BY <1>6, <1>7 DEF Left
<1>9. \A x : x \in Settled /\ x[1] = "param" => x \in {"param"} \X Left
  <2>1. ASSUME NEW x, x \in Settled, x[1] = "param"
        PROVE  x \in {"param"} \X Left
    <3>1. PICK k \in Kinds : x \in {k} \X DOMAIN slots[k]
      BY <1>3, <2>1
    <3>2. k = "param" /\ x = <<"param", x[2]>> /\ x[2] \in DOMAIN slots["param"] /\ IsValid("param", x[2])
      BY <1>3, <2>1, <3>1
    <3>3. x[2] \in Left
      BY <1>1, <1>8, <3>2, KindNames
    <3> QED
      BY <3>2, <3>3
  <2> QED
    BY <2>1
<1>10. \A x \in {"param"} \X Left : x \in Settled /\ x[1] = "param"
  <2>1. ASSUME NEW p \in Left
        PROVE  <<"param", p>> \in Settled
    <3>1. p \in DOMAIN slots["param"] /\ IsValid("param", p)
      BY <1>1, <1>8, <2>1, KindNames
    <3>2. <<"param", p>> \in {"param"} \X DOMAIN slots["param"]
      BY <3>1
    <3> QED
      BY <1>3, <3>1, <3>2, KindNames
  <2> QED
    BY <2>1
<1> QED
  BY <1>5, <1>9, <1>10

LEMMA PairsAreAsMany ==
    ASSUME NEW k, NEW S, IsFiniteSet(S)
    PROVE  Cardinality({k} \X S) = Cardinality(S)
<1>1. PICK f : f = [i \in S |-> <<k, i>>]
  OBVIOUS
<1>2. DOMAIN f = S /\ \A x \in {k} \X S : \E i \in S : f[i] = x
  BY <1>1
<1>3. /\ IsFiniteSet({k} \X S) /\ Cardinality({k} \X S) <= Cardinality(S)
      /\ Cardinality({k} \X S) \in Nat /\ Cardinality(S) \in Nat
  BY <1>2, ImageBound
<1>4. PICK T : T = {k} \X S
  OBVIOUS
<1>5. PICK g : g = [x \in T |-> x[2]]
  OBVIOUS
<1>6. DOMAIN g = T /\ \A i \in S : \E x \in T : g[x] = i
  <2>1. \A i \in S : <<k, i>> \in T /\ <<k, i>>[2] = i
    BY <1>4
  <2> QED
    BY <1>5, <2>1
<1>7. Cardinality(S) <= Cardinality(T)
  BY <1>3, <1>4, <1>6, ImageBound
<1> QED
  BY <1>3, <1>4, <1>7

\* When run() has released a task nothing is left of it but its record, and the
\* parameters of the tasks that were to be released parameters first, unless a count
\* has been lost.
THEOREM ReleaseIsComplete == Spec => []TaskIsReleased
<1>1. CountInv => TaskIsReleased
  <2> SUFFICES ASSUME CountInv, pc[Main] = "idle", Finished(Main), ~lost
               PROVE  /\ \A x \in Settled : x[1] \in {"rcr", "param"}
                      /\ Cardinality({x \in Settled : x[1] = "param"})
                           = Cardinality({n \in 1..job : LeavesParam(n)})
    BY DEF TaskIsReleased
  <2>1. InstanceInv /\ ExactInv /\ NothingHeld
    BY RestFacts DEF CountInv
  <2>2. /\ \A x \in Settled : x[1] \in {"rcr", "param"}
        /\ {x \in Settled : x[1] = "param"} = {"param"} \X Left
    BY <2>1, LeftAreAll
  <2>3. IsFiniteSet(Left) /\ Cardinality(Left) = Cardinality({n \in 1..job : HasLeft(n)})
    BY <2>1 DEF ExactInv, LeftInv
  <2>4. {n \in 1..job : HasLeft(n)} = {n \in 1..job : LeavesParam(n)}
    <3>1. \A n \in 1..job : n = job => at[Main] > StartAt + 2
      <4>1. job \in Nat
        BY <2>1, TasksAssumption DEF InstanceInv, TypeOK
      <4>2. \A n \in 1..job : job # 0
        BY <4>1
      <4> QED
        BY <2>1, <4>2 DEF NothingHeld
    <3> QED
      BY <3>1 DEF HasLeft
  <2>5. Cardinality({"param"} \X Left) = Cardinality(Left)
    BY <2>3, PairsAreAsMany
  <2>6. Cardinality({x \in Settled : x[1] = "param"}) = Cardinality(Left)
    BY <2>2, <2>5, Zenon
  <2>7. Cardinality(Left) = Cardinality({n \in 1..job : LeavesParam(n)})
    BY <2>3, <2>4, Zenon
  <2> QED
    BY <2>2, <2>6, <2>7, Zenon
<1> QED
  BY <1>1, CountInvariant, PTL

-----------------------------------------------------------------------------
(* What the threads see.                                                   *)

\* Parameter maps, records and random generators refer to nothing.
LeafKinds == {"param", "rcr", "rnd"}
LeavesArePlain ==
    \A k \in LeafKinds : \A i \in Ids(k) : slots[k][i] # NULL => slots[k][i] = Plain

LEMMA PlainKept ==
    ASSUME LeavesArePlain,
           \A k \in LeafKinds : \A i \in Ids(k)' : slots'[k][i] # NULL =>
             \/ slots'[k][i] = Plain
             \/ i \in Ids(k) /\ slots'[k][i] = slots[k][i]
    PROVE  LeavesArePlain'
  BY DEF LeavesArePlain

LEMMA LeafKindNames == LeafKinds \subseteq Kinds /\ \A k \in LeafKinds : k \notin {"pro", "alg"}
  BY DEF LeafKinds, Kinds

LEMMA PlainSame ==
    ASSUME LeavesArePlain, slots' = slots
    PROVE  LeavesArePlain'
  BY DEF LeavesArePlain, Ids

LEMMA PlainPlaced ==
    ASSUME InstanceInv, LeavesArePlain, NEW table, NEW new, Grown(table, new),
           \A k \in LeafKinds : /\ table[k] = slots[k]
                                /\ k \in DOMAIN new => new[k] = Plain
    PROVE  LeavesArePlain'
<1>1. ASSUME NEW k \in LeafKinds, NEW i \in Ids(k)', slots'[k][i] # NULL
      PROVE  slots'[k][i] = Plain \/ (i \in Ids(k) /\ slots'[k][i] = slots[k][i])
  <2>1. k \in Kinds
    BY LeafKindNames
  <2>2. CASE k \notin DOMAIN new
    BY <1>1, <2>1, <2>2 DEF Grown
  <2>3. CASE k \in DOMAIN new /\ i = NewId(k)
    BY <1>1, <2>3 DEF Grown
  <2>4. CASE k \in DOMAIN new /\ i # NewId(k)
    <3>1. i \in Ids(k)
      BY <1>1, <2>4 DEF Grown
    <3> QED
      BY <1>1, <2>1, <2>4, <3>1 DEF Grown
  <2> QED
    BY <2>2, <2>3, <2>4
<1> QED
  BY <1>1, PlainKept

LEMMA PlainEmptied ==
    ASSUME LeavesArePlain, NEW l \in Kinds, NEW n, slots'[l][n] = NULL,
           \A c \in Kinds : Ids(c)' = Ids(c),
           \A c \in Kinds : \A x \in Ids(c) : c # l \/ x # n => slots'[c][x] = slots[c][x]
    PROVE  LeavesArePlain'
<1>1. ASSUME NEW k \in LeafKinds, NEW i \in Ids(k)', slots'[k][i] # NULL
      PROVE  i \in Ids(k) /\ slots'[k][i] = slots[k][i]
  <2>1. k \in Kinds /\ i \in Ids(k)
    BY <1>1, LeafKindNames
  <2>2. k # l \/ i # n
    BY <1>1
  <2> QED
    BY <2>1, <2>2
<1> QED
  BY <1>1, PlainKept

\* The step that adds parameters or a record.
LeafComes(t, k, i, new) ==
    /\ k \in {"param", "rcr"} /\ i = NewId(k) /\ DOMAIN new = {k} /\ new[k] = Plain
    /\ Places(slots, new) /\ Grown(slots, new) /\ Grows(new) /\ Extends(new)
    /\ pc' = pc /\ call' = call

LEMMA LeafComesFacts ==
    ASSUME InstanceInv, NEW t \in Users, NEW k \in {"param", "rcr"}, AddLeaf(t, k)
    PROVE  (\E i, new : LeafComes(t, k, i, new)) \/ (pc' # pc /\ slots' = slots /\ call' = call)
<1>1. TypeOK /\ InstanceInv' /\ pc[t] = "idle"
  BY AddLeafKeeps DEF InstanceInv, AddLeaf, Calls
<1>2. CASE Goto(t, "thrown") /\ UNCHANGED <<manager, at, own>>
  <2>1. pc'[t] = "thrown" /\ pc[t] = "idle"
    BY <1>1, <1>2 DEF Goto, TypeOK
  <2> QED
    BY <1>2, <2>1 DEF manager, AddLeaf
<1>3. CASE Place([kind \in {k} |-> Plain]) /\ UNCHANGED <<mutex, pc>>
  <2>1. PICK i, new : i = NewId(k) /\ new = [kind \in {k} |-> Plain]
    OBVIOUS
  <2>2. DOMAIN new = {k} /\ new[k] = Plain /\ k \in Kinds
    BY <2>1, KindNames
  <2>3. slots' = Placed(slots, new) /\ Take(DOMAIN new) /\ pc' = pc /\ call' = call
    BY <1>3, <2>1 DEF Place, AddLeaf
  <2>4. Places(slots, new)
    BY <1>1, <2>2, <2>3, PlainType DEF Places, Like, TypeOK
  <2>5. Grown(slots, new) /\ Grows(new) /\ Extends(new)
    BY <1>1, <2>4, PlaceExtends
  <2>6. LeafComes(t, k, i, new)
    BY <2>1, <2>2, <2>3, <2>4, <2>5, Zenon DEF LeafComes
  <2> QED
    BY <2>6
<1> QED
  BY <1>2, <1>3 DEF AddLeaf

\* A removal of parameters or of a record ends.
LeafGoes(t, k, i, j) ==
    /\ Over(t, k, i, j) /\ ~Working(t) /\ k \in {"param", "rcr"} /\ i \in Ids(k)
    /\ slots'[k][i] = NULL
    /\ \A c \in Kinds : Ids(c)' = Ids(c)
    /\ \A c \in Kinds : \A x \in Ids(c) : c # k \/ x # i => slots'[c][x] = slots[c][x]

LEMMA LeafGoesFacts ==
    ASSUME InstanceInv, NEW t \in Users, RemoveLeaf(t)
    PROVE  \E k, i, j : LeafGoes(t, k, i, j)
<1>1. PICK k, i, j : Over(t, k, i, j)
  <2>1. /\ pc[t] \notin {"idle", "thrown"} /\ call[t].op = "remove"
        /\ pc' = [pc EXCEPT ![t] = "idle"] /\ at' = [at EXCEPT ![t] = @ + 1]
        /\ call' = [call EXCEPT ![t] = NoCall] /\ UNCHANGED <<occupied, seen, own, task>>
    BY DEF RemoveLeaf, Goto, Returns
  <2> QED
    BY <2>1, OverFacts
<1>2. /\ k = call[t].kind /\ i = call[t].id /\ k \in Kinds /\ j \in ToRemove(t, k)
      /\ i = own[t][k][j]
  BY <1>1 DEF Over
<1>3. /\ ~Working(t) /\ Empties(k, i) /\ k \in {"param", "rcr"}
  BY <1>2 DEF RemoveLeaf, Discard, Empties, Working
<1>4. TypeOK
  BY DEF InstanceInv
<1>5. i \in Ids(k)
  BY <1>2, <1>4, OwnType DEF ToRemove
<1>6. /\ slots'[k][i] = NULL
      /\ \A c \in Kinds : Ids(c)' = Ids(c)
      /\ \A c \in Kinds : \A x \in Ids(c) : c # k \/ x # i => slots'[c][x] = slots[c][x]
  BY <1>2, <1>3, <1>4, <1>5, SlotEmptied
<1>7. LeafGoes(t, k, i, j)
  BY <1>1, <1>3, <1>5, <1>6 DEF LeafGoes
<1> QED
  BY <1>7

LEMMA PlainStep == InstanceInv /\ LeavesArePlain /\ [Next]_vars => LeavesArePlain'
<1> SUFFICES ASSUME InstanceInv, LeavesArePlain, [Next]_vars
             PROVE  LeavesArePlain'
  OBVIOUS
<1>1. slots' = slots => LeavesArePlain'
  BY PlainSame
<1>2. ASSUME NEW t \in Users, NEW k \in {"param", "rcr"}, AddLeaf(t, k)
      PROVE  LeavesArePlain'
  <2>1. CASE slots' = slots
    BY <1>1, <2>1
  <2>2. CASE \E i, new : LeafComes(t, k, i, new)
    <3>1. PICK i, new : LeafComes(t, k, i, new)
      BY <2>2
    <3>2. Grown(slots, new) /\ \A c \in LeafKinds : c \in DOMAIN new => new[c] = Plain
      BY <3>1 DEF LeafComes
    <3> QED
      BY <3>2, PlainPlaced
  <2> QED
    BY <1>2, <2>1, <2>2, LeafComesFacts
<1>3. ASSUME NEW t \in Users, AddLocked(t)
      PROVE  LeavesArePlain'
  <2>1. PICK k, i, o, r, new : Appears(t, k, i, o, r, new)
    BY <1>3, AppearsFacts
  <2>2. /\ Grown(slots, new) /\ k \in {"pro", "alg"} /\ DOMAIN new = {k, "rnd"}
        /\ new["rnd"] = Plain
    BY <2>1 DEF Appears
  <2>3. \A c \in LeafKinds : c \in DOMAIN new => new[c] = Plain
    BY <2>2, LeafKindNames
  <2> QED
    BY <2>2, <2>3, PlainPlaced
<1>4. ASSUME NEW j, AddFunction(j)
      PROVE  LeavesArePlain'
  <2>1. PICK i, p, table, new : PartComes(i, p, table, new)
    BY <1>4, PartComesFacts
  <2>2. /\ Grown(table, new) /\ DOMAIN new = {"param"} /\ new["param"] = Plain
        /\ \A m \in Kinds : m # "pro" => table[m] = slots[m]
    BY <2>1 DEF PartComes, OnePartMore
  <2>3. \A c \in LeafKinds : table[c] = slots[c] /\ (c \in DOMAIN new => new[c] = Plain)
    BY <2>2, LeafKindNames
  <2> QED
    BY <2>2, <2>3, PlainPlaced
<1>5. ASSUME NEW t \in Users, RemoveLeaf(t)
      PROVE  LeavesArePlain'
  <2>1. PICK k, i, j : LeafGoes(t, k, i, j)
    BY <1>5, LeafGoesFacts
  <2> QED
    BY <2>1, PlainEmptied, KindNames DEF LeafGoes
<1>6. ASSUME NEW t \in Users, Reset(t)
      PROVE  LeavesArePlain'
  <2>1. PICK k, i, o : Gone(t, k, i, o)
    BY <1>6, GoneFacts
  <2> QED
    BY <2>1, PlainEmptied DEF Gone
<1>7. ASSUME NEW t \in Users, DropDone(t)
      PROVE  LeavesArePlain'
  <2>1. PICK k, i, l, n, d : Drops(t, k, i, l, n, d)
    BY <1>7, DropFacts
  <2> QED
    BY <2>1, PlainEmptied DEF Drops
<1>8. ASSUME NEW t \in Users, Adding(t)
      PROVE  LeavesArePlain'
  <2>1. (\E k \in {"pro", "alg"} : AddCheck(t, k)) \/ AddReturns(t) => slots' = slots
    BY DEF AddCheck, AddReturns, manager
  <2> QED
    BY <1>1, <1>2, <1>3, <1>8, <2>1 DEF Adding
<1>9. ASSUME NEW t \in Users, Counting(t)
      PROVE  LeavesArePlain'
  BY <1>1, <1>9 DEF Counting, CountRead, CountWrite, manager
<1>10. ASSUME NEW t \in Users, Removing(t)
       PROVE  LeavesArePlain'
  <2>1. \/ \E k \in Kinds, j \in Runs : RemoveCheck(t, k, j)
        \/ RemoveLocked(t) \/ DropCheck(t) \/ RemoveReturns(t)
        => slots' = slots
    BY DEF RemoveCheck, RemoveLocked, DropCheck, RemoveReturns, manager
  <2> QED
    BY <1>1, <1>5, <1>6, <1>7, <1>10, <2>1 DEF Removing
<1>11. ASSUME NEW t \in Threads, RunAlgorithm(t)
       PROVE  LeavesArePlain'
  BY <1>1, <1>11 DEF RunAlgorithm, manager
<1>12. CASE RunStep
  <2>1. (\E j : Initialized(j)) \/ StartThreads \/ Join => slots' = slots
    BY DEF Initialized, StartThreads, Join, manager
  <2> QED
    BY <1>1, <1>4, <1>12, <2>1 DEF RunStep
<1>13. CASE NextTask
  BY <1>1, <1>13 DEF NextTask, manager
<1>14. CASE Ended \/ UNCHANGED vars
  BY <1>1, <1>14 DEF Ended, vars, manager
<1> QED
  BY <1>8, <1>9, <1>10, <1>11, <1>12, <1>13, <1>14 DEF Next, Step

LEMMA PlainInvariant == Spec => []LeavesArePlain
<1>1. Init => LeavesArePlain
  <2> SUFFICES ASSUME Init
               PROVE  LeavesArePlain
    OBVIOUS
  <2>1. \A k \in Kinds : Ids(k) = {}
    BY NothingIsGot DEF Init, Ids
  <2> QED
    BY <2>1, LeafKindNames DEF LeavesArePlain
<1> QED
  BY <1>1, PlainStep, InstanceInvariant, PTL DEF Spec

\* An object that has been added and is not being removed.
There(k, i) == k \in Kinds /\ IsValid(k, i) /\ Untouched(k, i)

LEMMA SettledFacts ==
    /\ \A k, i : <<k, i>> \in Settled <=> There(k, i)
    /\ \A x \in Settled : \E k, i : x = <<k, i>> /\ There(k, i)
<1>1. PICK held : held = {<<call[t].kind, call[t].id>> : t \in {t \in Users : Working(t)}}
  OBVIOUS
<1>2. \A k, i : <<k, i>> \in held <=> ~Untouched(k, i)
  BY <1>1 DEF Untouched, WorksOn
<1>3. PICK all : all = UNION {{k} \X DOMAIN slots[k] : k \in Kinds}
  OBVIOUS
<1>4. \A k, i : <<k, i>> \in all <=> k \in Kinds /\ i \in DOMAIN slots[k]
  BY <1>3
<1>5. \A x \in all : \E k, i : x = <<k, i>>
  BY <1>3
<1>6. Settled = {x \in all : IsValid(x[1], x[2])} \ held
  BY <1>1, <1>3 DEF Settled
<1>7. \A k, i : <<k, i>> \in Settled <=> There(k, i)
  BY <1>2, <1>4, <1>6 DEF There, IsValid
<1>8. \A x \in Settled : \E k, i : x = <<k, i>>
  BY <1>5, <1>6
<1> QED
  BY <1>7, <1>8

LEMMA RefersFacts ==
    ASSUME NEW o
    PROVE  \A y : y \in Refers(o) <=>
             \/ \E l \in RefKinds : o[l] # NoId /\ y = <<l, o[l]>>
             \/ \E p \in DOMAIN o.parts : y = <<"param", o.parts[p]>>
  BY DEF Refers, RefKinds

LEMMA PlainRefers == Refers(Plain) = {}
<1>1. Plain.parts = <<>> /\ \A l \in RefKinds : Plain[l] = NoId
  BY DEF Plain, RefKinds
<1>2. DOMAIN <<>> = {}
  OBVIOUS
<1> QED
  BY <1>1, <1>2, RefersFacts

\* What a problem or an algorithm refers to is there, before it drops anything.
LEMMA RefsAreSettled ==
    ASSUME InstanceInv, ExactInv, NEW k \in {"pro", "alg"}, NEW i, IsValid(k, i), HasRandom(k, i),
           NEW y \in Refers(slots[k][i])
    PROVE  \E l, n : y = <<l, n>> /\ There(l, n)
<1>1. /\ TypeOK /\ RandomInv /\ PartInv /\ HeldInv /\ LeftInv /\ k \in Kinds
      /\ i \in Ids(k) /\ slots[k][i] # NULL
  BY ValidNow, KindNames DEF InstanceInv, ExactInv, ValidIds, IsValid
<1>2. \A l \in {"param", "rnd"} : \A n : Untouched(l, n)
  <2>1. \A u \in Users : Working(u) => call[u].kind \in {"pro", "alg"}
    BY WorkFacts
  <2> QED
    BY <2>1 DEF Untouched, WorksOn
<1>3. CASE \E l \in RefKinds : slots[k][i][l] # NoId /\ y = <<l, slots[k][i][l]>>
  <2>1. PICK l \in RefKinds : slots[k][i][l] # NoId /\ y = <<l, slots[k][i][l]>>
    BY <1>3
  <2>2. l \in Kinds
    BY RefKindFacts
  <2>3. CASE l = "rnd"
    <3>1. IsValid("rnd", slots[k][i].rnd)
      BY <1>1 DEF RandomInv
    <3> QED
      BY <1>2, <2>1, <2>2, <2>3, <3>1 DEF There
  <2>4. CASE l # "rnd"
    <3>1. l \in {"param", "pro", "rcr"}
      BY <2>4 DEF RefKinds
    <3>2. IsValid(l, slots[k][i][l]) /\ Untouched(l, slots[k][i][l])
      BY <1>1, <2>1, <3>1, RefsAreThere
    <3> QED
      BY <2>1, <2>2, <3>2 DEF There
  <2> QED
    BY <2>3, <2>4
<1>4. CASE \E p \in DOMAIN slots[k][i].parts : y = <<"param", slots[k][i].parts[p]>>
  <2>1. PICK p \in DOMAIN slots[k][i].parts : y = <<"param", slots[k][i].parts[p]>>
    BY <1>4
  <2>2. k = "pro"
    <3>1. k = "alg" => slots[k][i].parts = <<>>
      BY <1>1 DEF PartInv
    <3>2. DOMAIN <<>> = {}
      OBVIOUS
    <3> QED
      BY <2>1, <3>1, <3>2
  <2>3. PartsOf(i) = slots[k][i].parts
    BY <1>1, <2>2 DEF PartsOf
  <2>4. IsValid("param", slots[k][i].parts[p])
    BY <1>1, <2>1, <2>2, <2>3 DEF PartInv
  <2> QED
    BY <1>2, <2>1, <2>4, KindNames DEF There
<1> QED
  BY <1>3, <1>4, RefersFacts

AllLive == \A k, i : There(k, i) => \A y \in Refers(slots[k][i]) : \E l, n : y = <<l, n>> /\ There(l, n)

LEMMA LiveNow == InstanceInv /\ ExactInv /\ LeavesArePlain => AllLive
<1> SUFFICES ASSUME InstanceInv, ExactInv, LeavesArePlain, NEW k, NEW i, There(k, i),
                    NEW y \in Refers(slots[k][i])
             PROVE  \E l, n : y = <<l, n>> /\ There(l, n)
  BY DEF AllLive
<1>1. k \in Kinds /\ i \in Ids(k) /\ slots[k][i] # NULL /\ IsValid(k, i)
  BY ValidNow DEF There, InstanceInv, ValidIds, IsValid
<1>2. CASE k \in {"pro", "alg"}
  <2>1. HasRandom(k, i)
    BY <1>1 DEF HasRandom, There, Untouched
  <2> QED
    BY <1>1, <1>2, <2>1, RefsAreSettled
<1>3. CASE k \in LeafKinds
  <2>1. slots[k][i] = Plain
    BY <1>1, <1>3 DEF LeavesArePlain
  <2> QED
    BY <2>1, PlainRefers
<1> QED
  BY <1>1, <1>2, <1>3 DEF Kinds, LeafKinds

LEMMA LiveNext == (InstanceInv /\ ExactInv /\ LeavesArePlain)' => AllLive'
  BY LiveNow, PTL

\* As long as a problem or an algorithm is there, so is all it refers to, unless a
\* count has been lost: a get of it finds its object.
THEOREM NothingGoesTooEarly == Spec => []ReferencesAreLive
<1>1. CountInv /\ LeavesArePlain => ReferencesAreLive
  <2> SUFFICES ASSUME CountInv, LeavesArePlain, ~lost, NEW x \in Settled,
                      NEW y \in Refers(slots[x[1]][x[2]])
               PROVE  y \in Settled
    BY DEF ReferencesAreLive
  <2>1. AllLive
    BY LiveNow DEF CountInv
  <2>2. PICK k, i : x = <<k, i>> /\ There(k, i)
    BY SettledFacts
  <2>3. y \in Refers(slots[k][i])
    BY <2>2
  <2>4. PICK l, n : y = <<l, n>> /\ There(l, n)
    BY <2>1, <2>2, <2>3 DEF AllLive
  <2> QED
    BY <2>4, SettledFacts
<1> QED
  BY <1>1, CountInvariant, PlainInvariant, PTL

-----------------------------------------------------------------------------
(* InstanceManager implements Registry up to the loss of a count.          *)

Shown == Kinds \ {"rnd"}

LEMMA ShownFacts == /\ Shown = {"pro", "alg", "param", "rcr"} /\ Shown \subseteq Kinds
                    /\ "rnd" \notin Shown
  BY DEF Shown, Kinds

\* What the threads see, and who uses what.
VisibleAre ==
    /\ \A k, i : <<k, i>> \in Visible <=> k \in Shown /\ There(k, i)
    /\ \A x \in Visible : \E k, i : x = <<k, i>> /\ k \in Shown /\ There(k, i)
UsesAre ==
    /\ \A k, i, y : <<<<k, i>>, y>> \in VisibleUses <=>
         k \in Shown /\ There(k, i) /\ y \in Refers(slots[k][i]) /\ y[1] # "rnd"
    /\ \A u \in VisibleUses : \E k, i, y : u = <<<<k, i>>, y>>

LEMMA VisibleNow == VisibleAre /\ UsesAre
<1>1. \A k, i : <<k, i>>[1] = k /\ <<k, i>>[2] = i
  OBVIOUS
<1>2. \A k, i : There(k, i) => k \in Kinds
  BY DEF There
<1>3. VisibleAre
  <2>1. \A k, i : <<k, i>> \in Visible <=> k \in Shown /\ There(k, i)
    BY <1>1, <1>2, SettledFacts DEF Visible, Shown
  <2>2. \A x \in Visible : \E k, i : x = <<k, i>>
    BY SettledFacts DEF Visible
  <2> QED
    BY <2>1, <2>2 DEF VisibleAre
<1>4. \A u : u \in VisibleUses <=> \E x \in Visible : \E y \in Refers(slots[x[1]][x[2]]) :
               y[1] # "rnd" /\ u = <<x, y>>
  BY DEF VisibleUses
<1>5. \A k, i, y : <<<<k, i>>, y>> \in VisibleUses <=>
        <<k, i>> \in Visible /\ y \in Refers(slots[k][i]) /\ y[1] # "rnd"
  BY <1>4
<1>6. \A u \in VisibleUses : \E k, i, y : u = <<<<k, i>>, y>>
  BY <1>3, <1>4 DEF VisibleAre
<1> QED
  BY <1>3, <1>5, <1>6 DEF UsesAre, VisibleAre

LEMMA VisibleNext == VisibleAre' /\ UsesAre'
  BY VisibleNow, PTL

\* Steps after which the threads see the same, but perhaps for one object.
OthersStay(c, m) ==
    \A k \in Shown : \A i : <<k, i>> # <<c, m>> =>
      /\ There(k, i)' <=> There(k, i)
      /\ There(k, i) => slots'[k][i] = slots[k][i]
ViewStays ==
    \A k \in Shown : \A i :
      /\ There(k, i)' <=> There(k, i)
      /\ There(k, i) => slots'[k][i] = slots[k][i]
Comes(c, m) ==
    /\ c \in Shown /\ ~There(c, m) /\ There(c, m)' /\ OthersStay(c, m)
    /\ \A y \in Refers(slots'[c][m]) : \E l, n : y = <<l, n>> /\ There(l, n)
Goes(c, m) ==
    /\ c \in Shown /\ There(c, m) /\ ~There(c, m)' /\ OthersStay(c, m)
    /\ <<c, m>> \notin Refers(slots[c][m])
\* A composition c gets the parameters p.
PartAppears(c, p) ==
    /\ There("pro", c) /\ There("pro", c)' /\ ~There("param", p) /\ There("param", p)'
    /\ Refers(slots'["param"][p]) = {}
    /\ Refers(slots'["pro"][c]) = Refers(slots["pro"][c]) \cup {<<"param", p>>}
    /\ \A k \in Shown : \A i : <<k, i>> # <<"param", p>> =>
         /\ There(k, i)' <=> There(k, i)
         /\ <<k, i>> # <<"pro", c>> /\ There(k, i) => slots'[k][i] = slots[k][i]

RegistryMoves == Implemented!RegistryNext \/ UNCHANGED <<Visible, VisibleUses>>

LEMMA StaysMoves == ViewStays => RegistryMoves
<1> SUFFICES ASSUME ViewStays
             PROVE  Visible' = Visible /\ VisibleUses' = VisibleUses
  BY DEF RegistryMoves
<1>1. VisibleAre /\ UsesAre /\ VisibleAre' /\ UsesAre'
  BY VisibleNow, VisibleNext
<1>2. \A k \in Shown : \A i : There(k, i)' <=> There(k, i)
  BY DEF ViewStays
<1>3. \A k, i : <<k, i>> \in Visible' <=> <<k, i>> \in Visible
  BY <1>1, <1>2 DEF VisibleAre
<1>4. Visible' = Visible
  <2>1. \A x \in Visible : \E k, i : x = <<k, i>>
    BY <1>1 DEF VisibleAre
  <2>2. \A x \in Visible' : \E k, i : x = <<k, i>>
    BY <1>1 DEF VisibleAre
  <2> QED
    BY <1>3, <2>1, <2>2
<1>5. \A k, i, y : <<<<k, i>>, y>> \in VisibleUses' <=> <<<<k, i>>, y>> \in VisibleUses
  <2>1. ASSUME NEW k, NEW i, NEW y
        PROVE  <<<<k, i>>, y>> \in VisibleUses' <=> <<<<k, i>>, y>> \in VisibleUses
    <3>1. k \in Shown => (There(k, i)' <=> There(k, i))
                         /\ (There(k, i) => slots'[k][i] = slots[k][i])
      BY DEF ViewStays
    <3> QED
      BY <1>1, <3>1 DEF UsesAre
  <2> QED
    BY <2>1
<1>6. VisibleUses' = VisibleUses
  <2>1. \A u \in VisibleUses : \E k, i, y : u = <<<<k, i>>, y>>
    BY <1>1 DEF UsesAre
  <2>2. \A u \in VisibleUses' : \E k, i, y : u = <<<<k, i>>, y>>
    BY <1>1 DEF UsesAre
  <2> QED
    BY <1>5, <2>1, <2>2
<1> QED
  BY <1>4, <1>6

LEMMA ComesMoves ==
    ASSUME NEW c, NEW m, Comes(c, m)
    PROVE  RegistryMoves
<1>1. VisibleAre /\ UsesAre /\ VisibleAre' /\ UsesAre'
  BY VisibleNow, VisibleNext
<1>2. c \in Shown /\ ~There(c, m) /\ There(c, m)'
  BY DEF Comes
<1>3. \A k \in Shown : \A i : <<k, i>> # <<c, m>> =>
        /\ There(k, i)' <=> There(k, i)
        /\ There(k, i) => slots'[k][i] = slots[k][i]
  BY DEF Comes, OthersStay
<1>4. \A k, i : <<k, i>> \in Visible' <=> <<k, i>> \in Visible \/ <<k, i>> = <<c, m>>
  BY <1>1, <1>2, <1>3 DEF VisibleAre
<1>5. <<c, m>> \notin Visible /\ <<c, m>> \in Visible'
  BY <1>1, <1>2 DEF VisibleAre
<1>6. Visible' = Visible \cup {<<c, m>>}
  <2>1. \A x \in Visible : \E k, i : x = <<k, i>>
    BY <1>1 DEF VisibleAre
  <2>2. \A x \in Visible' : \E k, i : x = <<k, i>>
    BY <1>1 DEF VisibleAre
  <2> QED
    BY <1>4, <2>1, <2>2
<1>7. VisibleUses \subseteq VisibleUses'
  <2>1. ASSUME NEW k, NEW i, NEW y, <<<<k, i>>, y>> \in VisibleUses
        PROVE  <<<<k, i>>, y>> \in VisibleUses'
    <3>1. k \in Shown /\ There(k, i) /\ y \in Refers(slots[k][i]) /\ y[1] # "rnd"
      BY <1>1, <2>1 DEF UsesAre
    <3>2. <<k, i>> # <<c, m>>
      BY <1>2, <3>1
    <3>3. There(k, i)' /\ slots'[k][i] = slots[k][i]
      BY <1>3, <3>1, <3>2
    <3> QED
      BY <1>1, <3>1, <3>3 DEF UsesAre
  <2>2. \A u \in VisibleUses : \E k, i, y : u = <<<<k, i>>, y>>
    BY <1>1 DEF UsesAre
  <2> QED
    BY <2>1, <2>2
<1>8. VisibleUses' \ VisibleUses \subseteq {<<c, m>>} \X Visible
  <2>1. ASSUME NEW k, NEW i, NEW y, <<<<k, i>>, y>> \in VisibleUses', <<<<k, i>>, y>> \notin VisibleUses
        PROVE  <<k, i>> = <<c, m>> /\ y \in Visible
    <3>1. k \in Shown /\ There(k, i)' /\ y \in Refers(slots'[k][i]) /\ y[1] # "rnd"
      BY <1>1, <2>1 DEF UsesAre
    <3>2. <<k, i>> = <<c, m>>
      <4>1. ASSUME <<k, i>> # <<c, m>>
            PROVE  FALSE
        <5>1. There(k, i) /\ slots'[k][i] = slots[k][i]
          BY <1>3, <3>1, <4>1
        <5> QED
          BY <1>1, <2>1, <3>1, <5>1 DEF UsesAre
      <4> QED
        BY <4>1
    <3>3. PICK l, n : y = <<l, n>> /\ There(l, n)
      BY <3>1, <3>2 DEF Comes
    <3>4. l \in Shown
      BY <3>1, <3>3 DEF There, Shown
    <3> QED
      BY <1>1, <3>2, <3>3, <3>4 DEF VisibleAre
  <2>2. \A u \in VisibleUses' : \E k, i, y : u = <<<<k, i>>, y>>
    BY <1>1 DEF UsesAre
  <2> QED
    BY <2>1, <2>2
<1>9. Implemented!Add(<<c, m>>) /\ <<c, m>> \in Visible' \ Visible
  BY <1>5, <1>6, <1>7, <1>8 DEF Implemented!Add
<1> QED
  BY <1>9 DEF RegistryMoves, Implemented!RegistryNext

LEMMA GoesMoves ==
    ASSUME NEW c, NEW m, Goes(c, m), AllLive'
    PROVE  RegistryMoves
<1>1. VisibleAre /\ UsesAre /\ VisibleAre' /\ UsesAre'
  BY VisibleNow, VisibleNext
<1>2. c \in Shown /\ There(c, m) /\ ~There(c, m)' /\ <<c, m>> \notin Refers(slots[c][m])
  BY DEF Goes
<1>3. \A k \in Shown : \A i : <<k, i>> # <<c, m>> =>
        /\ There(k, i)' <=> There(k, i)
        /\ There(k, i) => slots'[k][i] = slots[k][i]
  BY DEF Goes, OthersStay
<1>4. \A k, i : <<k, i>> \in Visible' <=> <<k, i>> \in Visible /\ <<k, i>> # <<c, m>>
  BY <1>1, <1>2, <1>3 DEF VisibleAre
<1>5. <<c, m>> \in Visible /\ <<c, m>> \notin Visible'
  BY <1>1, <1>2 DEF VisibleAre
<1>6. Visible' = Visible \ {<<c, m>>}
  <2>1. \A x \in Visible : \E k, i : x = <<k, i>>
    BY <1>1 DEF VisibleAre
  <2>2. \A x \in Visible' : \E k, i : x = <<k, i>>
    BY <1>1 DEF VisibleAre
  <2> QED
    BY <1>4, <2>1, <2>2
<1>7. \A k, i, y : <<<<k, i>>, y>> \in VisibleUses' <=>
        <<<<k, i>>, y>> \in VisibleUses /\ <<k, i>> # <<c, m>>
  <2>1. ASSUME NEW k, NEW i, NEW y, <<k, i>> # <<c, m>>
        PROVE  <<<<k, i>>, y>> \in VisibleUses' <=> <<<<k, i>>, y>> \in VisibleUses
    <3>1. k \in Shown => (There(k, i)' <=> There(k, i))
                         /\ (There(k, i) => slots'[k][i] = slots[k][i])
      BY <1>3, <2>1
    <3> QED
      BY <1>1, <3>1 DEF UsesAre
  <2>2. \A y : <<<<c, m>>, y>> \notin VisibleUses'
    BY <1>1, <1>2 DEF UsesAre
  <2> QED
    BY <2>1, <2>2
<1>8. \A k, i, y : <<<<k, i>>, y>> \in VisibleUses => y # <<c, m>>
  <2>1. ASSUME NEW k, NEW i, <<<<k, i>>, <<c, m>>>> \in VisibleUses
        PROVE  FALSE
    <3>1. k \in Shown /\ There(k, i) /\ <<c, m>> \in Refers(slots[k][i])
      BY <1>1, <2>1 DEF UsesAre
    <3>2. <<k, i>> # <<c, m>>
      BY <1>2, <3>1
    <3>3. There(k, i)' /\ <<c, m>> \in Refers(slots'[k][i])
      BY <1>3, <3>1, <3>2
    <3>4. PICK l, n : <<c, m>> = <<l, n>> /\ There(l, n)'
      BY <3>3 DEF AllLive
    <3> QED
      BY <1>2, <3>4
  <2> QED
    BY <2>1
<1>9. \A u \in VisibleUses : u[2] # <<c, m>>
  <2>1. \A u \in VisibleUses : \E k, i, y : u = <<<<k, i>>, y>>
    BY <1>1 DEF UsesAre
  <2> QED
    BY <1>8, <2>1
<1>10. VisibleUses' = {u \in VisibleUses : u[1] # <<c, m>>}
  <2>1. \A u \in VisibleUses : \E k, i, y : u = <<<<k, i>>, y>>
    BY <1>1 DEF UsesAre
  <2>2. \A u \in VisibleUses' : \E k, i, y : u = <<<<k, i>>, y>>
    BY <1>1 DEF UsesAre
  <2>3. \A k, i, y : <<<<k, i>>, y>>[1] = <<k, i>>
    OBVIOUS
  <2> QED
    BY <1>7, <2>1, <2>2, <2>3
<1>11. Implemented!Remove(<<c, m>>) /\ <<c, m>> \in Visible \ Visible'
  BY <1>5, <1>6, <1>9, <1>10 DEF Implemented!Remove
<1> QED
  BY <1>11 DEF RegistryMoves, Implemented!RegistryNext

LEMMA PartMoves ==
    ASSUME NEW c, NEW p, PartAppears(c, p)
    PROVE  RegistryMoves
<1>1. VisibleAre /\ UsesAre /\ VisibleAre' /\ UsesAre'
  BY VisibleNow, VisibleNext
<1>2. /\ There("pro", c) /\ There("pro", c)' /\ ~There("param", p) /\ There("param", p)'
      /\ Refers(slots'["param"][p]) = {}
      /\ Refers(slots'["pro"][c]) = Refers(slots["pro"][c]) \cup {<<"param", p>>}
      /\ "pro" \in Shown /\ "param" \in Shown
  BY ShownFacts DEF PartAppears
<1>3. \A k \in Shown : \A i : <<k, i>> # <<"param", p>> =>
        /\ There(k, i)' <=> There(k, i)
        /\ <<k, i>> # <<"pro", c>> /\ There(k, i) => slots'[k][i] = slots[k][i]
  BY DEF PartAppears
<1>4. \A k, i : <<k, i>> \in Visible' <=> <<k, i>> \in Visible \/ <<k, i>> = <<"param", p>>
  BY <1>1, <1>2, <1>3 DEF VisibleAre
<1>5. /\ <<"param", p>> \notin Visible /\ <<"param", p>> \in Visible' /\ <<"pro", c>> \in Visible
  BY <1>1, <1>2 DEF VisibleAre
<1>6. Visible' = Visible \cup {<<"param", p>>}
  <2>1. \A x \in Visible : \E k, i : x = <<k, i>>
    BY <1>1 DEF VisibleAre
  <2>2. \A x \in Visible' : \E k, i : x = <<k, i>>
    BY <1>1 DEF VisibleAre
  <2> QED
    BY <1>4, <2>1, <2>2
<1>7. \A k, i, y : <<<<k, i>>, y>> \in VisibleUses' <=>
        <<<<k, i>>, y>> \in VisibleUses \/ (<<k, i>> = <<"pro", c>> /\ y = <<"param", p>>)
  <2>1. ASSUME NEW k, NEW i, NEW y, <<k, i>> # <<"param", p>>, <<k, i>> # <<"pro", c>>
        PROVE  <<<<k, i>>, y>> \in VisibleUses' <=> <<<<k, i>>, y>> \in VisibleUses
    <3>1. k \in Shown => (There(k, i)' <=> There(k, i))
                         /\ (There(k, i) => slots'[k][i] = slots[k][i])
      BY <1>3, <2>1
    <3> QED
      BY <1>1, <3>1 DEF UsesAre
  <2>2. \A y : <<<<"param", p>>, y>> \notin VisibleUses' /\ <<<<"param", p>>, y>> \notin VisibleUses
    BY <1>1, <1>2 DEF UsesAre
  <2>3. \A y : <<<<"pro", c>>, y>> \in VisibleUses' <=>
               <<<<"pro", c>>, y>> \in VisibleUses \/ y = <<"param", p>>
    <3>1. <<"param", p>>[1] # "rnd"
      OBVIOUS
    <3> QED
      BY <1>1, <1>2, <3>1 DEF UsesAre
  <2>4. <<"param", p>> # <<"pro", c>>
    OBVIOUS
  <2> QED
    BY <2>1, <2>2, <2>3, <2>4
<1>8. VisibleUses' = VisibleUses \cup {<<<<"pro", c>>, <<"param", p>>>>}
  <2>1. \A u \in VisibleUses : \E k, i, y : u = <<<<k, i>>, y>>
    BY <1>1 DEF UsesAre
  <2>2. \A u \in VisibleUses' : \E k, i, y : u = <<<<k, i>>, y>>
    BY <1>1 DEF UsesAre
  <2> QED
    BY <1>7, <2>1, <2>2
<1>9. Implemented!AddPart(<<"param", p>>) /\ <<"param", p>> \in Visible' \ Visible
  BY <1>5, <1>6, <1>8 DEF Implemented!AddPart
<1> QED
  BY <1>9 DEF RegistryMoves, Implemented!RegistryNext

\* The steps one by one.  Most change nothing that the threads can see.
LEMMA CalmMoves ==
    ASSUME slots' = slots, \A u \in Users : WorkGoesOn(u)
    PROVE  RegistryMoves
<1>1. \A u \in Users : \A x : WorksOn(u, x)' <=> WorksOn(u, x)
  BY WorkKept
<1>2. \A k, i : There(k, i)' <=> There(k, i)
  <2>1. \A k, i : IsValid(k, i)' <=> IsValid(k, i)
    BY DEF IsValid
  <2>2. \A k, i : Untouched(k, i)' <=> Untouched(k, i)
    BY <1>1 DEF Untouched
  <2> QED
    BY <2>1, <2>2 DEF There
<1> QED
  BY <1>2, StaysMoves DEF ViewStays

LEMMA RestMoves ==
    ASSUME slots' = slots, pc' = pc, call' = call
    PROVE  RegistryMoves
<1>1. \A u \in Users : WorkGoesOn(u)
  BY DEF WorkGoesOn, Working
<1> QED
  BY <1>1, CalmMoves

LEMMA IdleMoves ==
    ASSUME NEW t \in Users, ~Working(t), ~Working(t)', slots' = slots,
           \A u \in Users : u # t => pc'[u] = pc[u] /\ call'[u] = call[u]
    PROVE  RegistryMoves
<1>1. \A u \in Users : WorkGoesOn(u)
  BY DEF WorkGoesOn, Working
<1> QED
  BY <1>1, CalmMoves

LEMMA BetweenMoves ==
    ASSUME InstanceInv, NEW t \in Users,
           \/ \E k \in {"pro", "alg"} : AddCheck(t, k)
           \/ \E k \in Kinds : \E j : RemoveCheck(t, k, j)
           \/ RunAlgorithm(t)
           \/ t = Main /\ \E j : Initialized(j)
    PROVE  RegistryMoves
<1>1. /\ pc \in [Users -> {"idle", "locking", "counting", "writing", "discarding", "thrown"}]
      /\ call \in [Users -> CallStates]
  BY DEF InstanceInv, TypeOK
<1>2. pc[t] = "idle" /\ slots' = slots
  BY DEF AddCheck, RemoveCheck, RunAlgorithm, Initialized, Calls, manager
<1>3. pc'[t] \in {"idle", "locking", "thrown"} /\ \A u \in Users : u # t => pc'[u] = pc[u]
  BY <1>1, <1>2 DEF AddCheck, RemoveCheck, RunAlgorithm, Initialized, Goto
<1>4. \A u \in Users : u # t => call'[u] = call[u]
  BY <1>1 DEF AddCheck, RemoveCheck, RunAlgorithm, Initialized
<1>5. ~Working(t) /\ ~Working(t)'
  BY <1>2, <1>3 DEF Working
<1> QED
  BY <1>2, <1>3, <1>4, <1>5, IdleMoves

LEMMA CountMoves ==
    ASSUME InstanceInv, NEW t \in Users, Counting(t) \/ DropCheck(t)
    PROVE  RegistryMoves
<1>1. /\ pc \in [Users -> {"idle", "locking", "counting", "writing", "discarding", "thrown"}]
      /\ call \in [Users -> CallStates]
  BY DEF InstanceInv, TypeOK
<1>2. CASE CountRead(t)
  <2>1. pc' = [pc EXCEPT ![t] = "writing"] /\ call' = call /\ slots' = slots /\ pc[t] = "counting"
    BY <1>2 DEF CountRead, HasNext, Goto, manager
  <2>2. \A u \in Users : WorkGoesOn(u)
    BY <1>1, <2>1 DEF WorkGoesOn, Working
  <2> QED
    BY <2>1, <2>2, CalmMoves
<1>3. CASE CountWrite(t)
  BY <1>3, WriteFacts, CalmMoves DEF Calm
<1>4. CASE DropCheck(t)
  <2>1. pc[t] = "counting" /\ slots' = slots
    BY <1>4 DEF DropCheck, Dropping, manager
  <2>2. pc'[t] \in {"counting", "discarding"} /\ \A u \in Users : u # t => pc'[u] = pc[u]
    BY <1>1, <1>4, <2>1 DEF DropCheck, Goto
  <2>3. \A u \in Users : /\ call'[u].kind = call[u].kind /\ call'[u].id = call[u].id
                         /\ call'[u].op = call[u].op
    <3>1. call' = call \/ \E d : call' = [call EXCEPT ![t].drop = d]
      BY <1>1, <1>4 DEF DropCheck
    <3>2. ASSUME NEW d, call' = [call EXCEPT ![t].drop = d], NEW u \in Users
          PROVE  /\ call'[u].kind = call[u].kind /\ call'[u].id = call[u].id
                 /\ call'[u].op = call[u].op
      BY <1>1, <3>2 DEF CallStates
    <3> QED
      BY <3>1, <3>2
  <2>4. \A u \in Users : WorkGoesOn(u)
    BY <2>1, <2>2, <2>3 DEF WorkGoesOn, Working
  <2> QED
    BY <2>1, <2>4, CalmMoves
<1> QED
  BY <1>2, <1>3, <1>4 DEF Counting

\* New objects come, and what has been there stays.
LEMMA GrownView ==
    ASSUME InstanceInv, InstanceInv', NEW table, NEW new, Grown(table, new), Extends(new),
           NEW k \in Kinds, NEW i, k \notin DOMAIN new \/ i # NewId(k)
    PROVE  /\ IsValid(k, i)' <=> IsValid(k, i)
           /\ IsValid(k, i) => slots'[k][i] = table[k][i]
<1>1. IsValid(k, i) => i \in Ids(k)
  BY ValidNow DEF InstanceInv, ValidIds
<1>2. IsValid(k, i) => IsValid(k, i)'
  BY DEF Extends
<1>3. IsValid(k, i)' => IsValid(k, i)
  BY DEF Extends
<1>4. i \in Ids(k) => slots'[k][i] = table[k][i]
  BY DEF Grown
<1> QED
  BY <1>1, <1>2, <1>3, <1>4

LEMMA AddLeafMoves ==
    ASSUME InstanceInv, InstanceInv', NEW t \in Users, NEW k \in {"param", "rcr"}, AddLeaf(t, k)
    PROVE  RegistryMoves
<1>1. CASE pc' # pc /\ slots' = slots /\ call' = call
  <2>1. pc \in [Users -> {"idle", "locking", "counting", "writing", "discarding", "thrown"}]
    BY DEF InstanceInv, TypeOK
  <2>2. pc[t] = "idle" /\ pc' = [pc EXCEPT ![t] = "thrown"]
    BY <1>1 DEF AddLeaf, Calls, Goto
  <2>3. ~Working(t) /\ ~Working(t)' /\ \A u \in Users : u # t => pc'[u] = pc[u]
    BY <2>1, <2>2 DEF Working
  <2> QED
    BY <1>1, <2>3, IdleMoves
<1>2. ASSUME NEW i, NEW new, LeafComes(t, k, i, new)
      PROVE  RegistryMoves
  <2>1. /\ k \in {"param", "rcr"} /\ i = NewId(k) /\ DOMAIN new = {k} /\ new[k] = Plain
        /\ Grown(slots, new) /\ Extends(new) /\ pc' = pc /\ call' = call
    BY <1>2 DEF LeafComes
  <2>2. \A c, x : Untouched(c, x)' <=> Untouched(c, x)
    BY <2>1 DEF Untouched, WorksOn, Working
  <2>3. ~IsValid(k, i) /\ IsValid(k, i)' /\ slots'[k][i] = Plain /\ Untouched(k, i)
    BY <2>1 DEF Extends
  <2>4. k \in Shown /\ k \in Kinds /\ \A c \in Shown : c \in Kinds
    BY <2>1, ShownFacts, KindNames
  <2>5. ~There(k, i) /\ There(k, i)'
    BY <2>2, <2>3, <2>4 DEF There
  <2>6. OthersStay(k, i)
    <3>1. ASSUME NEW c \in Shown, NEW x, <<c, x>> # <<k, i>>
          PROVE  (There(c, x)' <=> There(c, x)) /\ (There(c, x) => slots'[c][x] = slots[c][x])
      <4>1. c \in Kinds /\ (c \notin DOMAIN new \/ x # NewId(c))
        BY <2>1, <2>4, <3>1
      <4>2. (IsValid(c, x)' <=> IsValid(c, x)) /\ (IsValid(c, x) => slots'[c][x] = slots[c][x])
        BY <2>1, <4>1, GrownView
      <4> QED
        BY <2>2, <4>1, <4>2 DEF There
    <3> QED
      BY <3>1 DEF OthersStay
  <2>7. Refers(slots'[k][i]) = {}
    BY <2>3, PlainRefers
  <2>8. Comes(k, i)
    BY <2>4, <2>5, <2>6, <2>7 DEF Comes
  <2> QED
    BY <2>8, ComesMoves
<1> QED
  BY <1>1, <1>2, LeafComesFacts

\* A problem or an algorithm is seen when its adding is over, ...
LEMMA AddLockedMoves ==
    ASSUME InstanceInv, InstanceInv', NEW t \in Users, AddLocked(t)
    PROVE  RegistryMoves
<1>1. PICK k, i, o, r, new : Appears(t, k, i, o, r, new)
  BY AppearsFacts
<1>2. /\ k \in {"pro", "alg"} /\ i = NewId(k) /\ DOMAIN new = {k, "rnd"}
      /\ Grown(slots, new) /\ Extends(new)
      /\ \A u \in Users : \A x : WorksOn(u, x)' <=> WorksOn(u, x) \/ (u = t /\ x = <<k, i>>)
  BY <1>1 DEF Appears
<1>3. ASSUME NEW c \in Shown, NEW x, <<c, x>> # <<k, i>>
      PROVE  (There(c, x)' <=> There(c, x)) /\ (There(c, x) => slots'[c][x] = slots[c][x])
  <2>1. c \in Kinds /\ c # "rnd"
    BY ShownFacts
  <2>2. c \notin DOMAIN new \/ x # NewId(c)
    BY <1>2, <1>3, <2>1
  <2>3. (IsValid(c, x)' <=> IsValid(c, x)) /\ (IsValid(c, x) => slots'[c][x] = slots[c][x])
    BY <1>2, <2>1, <2>2, GrownView
  <2>4. Untouched(c, x)' <=> Untouched(c, x)
    BY <1>2, <1>3 DEF Untouched
  <2> QED
    BY <2>1, <2>3, <2>4 DEF There
<1>4. ~There(k, i) /\ ~There(k, i)'
  <2>1. ~IsValid(k, i)
    BY <1>2 DEF Extends
  <2>2. ~Untouched(k, i)'
    BY <1>2 DEF Untouched
  <2> QED
    BY <2>1, <2>2 DEF There
<1>5. ASSUME NEW c \in Shown, NEW x
      PROVE  (There(c, x)' <=> There(c, x)) /\ (There(c, x) => slots'[c][x] = slots[c][x])
  <2>1. CASE <<c, x>> = <<k, i>>
    BY <1>4, <2>1
  <2>2. CASE <<c, x>> # <<k, i>>
    BY <1>3, <2>2
  <2> QED
    BY <2>1, <2>2
<1>6. ViewStays
  BY <1>5 DEF ViewStays
<1> QED
  BY <1>6, StaysMoves

LEMMA AddReturnsMoves ==
    ASSUME InstanceInv, InstanceInv', ExactInv, NEW t \in Users, AddReturns(t)
    PROVE  RegistryMoves
<1>1. PICK k, i : k = call[t].kind /\ i = call[t].id
  OBVIOUS
<1>2. /\ pc[t] = "counting" /\ call[t].op = "add" /\ Working(t) /\ slots' = slots
      /\ call' = [call EXCEPT ![t] = NoCall] /\ pc' = [pc EXCEPT ![t] = "idle"]
  BY DEF AddReturns, Goto, Working
<1>3. /\ pc \in [Users -> {"idle", "locking", "counting", "writing", "discarding", "thrown"}]
      /\ call \in [Users -> CallStates] /\ WorkInv(t)
  BY DEF InstanceInv, TypeOK
<1>4. /\ k \in {"pro", "alg"} /\ k \in Kinds /\ i \in Ids(k) /\ i \in DOMAIN slots[k]
      /\ \A u \in Users : WorksOn(u, <<k, i>>) => u = t
  BY <1>1, <1>2, WorkDomain, WorkHolds
<1>5. slots[k][i] # NULL
  BY <1>1, <1>2, <1>3 DEF WorkInv
<1>6. WorksOn(t, <<k, i>>) /\ \A x : WorksOn(t, x) => x = <<k, i>>
  BY <1>1, <1>2 DEF WorksOn
<1>7. \A u \in Users : \A x : WorksOn(u, x)' <=> WorksOn(u, x) /\ u # t
  <2>1. ~Working(t)' /\ \A u \in Users : u # t => pc'[u] = pc[u] /\ call'[u] = call[u]
    BY <1>2, <1>3 DEF Working
  <2> QED
    BY <2>1 DEF WorksOn, Working
<1>8. IsValid(k, i) /\ \A c, x : IsValid(c, x)' <=> IsValid(c, x)
  BY <1>2, <1>4, <1>5 DEF IsValid
<1>9. ~There(k, i) /\ There(k, i)'
  <2>1. ~Untouched(k, i) /\ Untouched(k, i)'
    BY <1>4, <1>6, <1>7 DEF Untouched
  <2> QED
    BY <1>4, <1>8, <2>1 DEF There
<1>10. OthersStay(k, i)
  <2>1. \A c, x : <<c, x>> # <<k, i>> => (Untouched(c, x)' <=> Untouched(c, x))
    BY <1>6, <1>7 DEF Untouched
  <2> QED
    BY <1>2, <1>8, <2>1 DEF OthersStay, There
<1>11. HasRandom(k, i)
  BY <1>2, <1>4, <1>5 DEF HasRandom, Removes
<1>12. \A y \in Refers(slots[k][i]) : \E l, n : y = <<l, n>> /\ There(l, n)
  BY <1>4, <1>8, <1>11, RefsAreSettled
<1>13. k \in Shown
  BY <1>4, ShownFacts
<1>14. Comes(k, i)
  BY <1>2, <1>9, <1>10, <1>12, <1>13 DEF Comes
<1> QED
  BY <1>14, ComesMoves

\* ... and no more when its removal begins.
LEMMA RemoveLockedMoves ==
    ASSUME InstanceInv, ExactInv, AllLive', NEW t \in Users, RemoveLocked(t)
    PROVE  RegistryMoves
<1>1. PICK k, i, o : Begun(t, k, i, o)
  BY BegunFacts
<1>2. /\ k \in {"pro", "alg"} /\ k \in Kinds /\ i \in Ids(k) /\ IsValid(k, i) /\ slots' = slots
      /\ \A u \in Users : ~WorksOn(u, <<k, i>>)
      /\ \A u \in Users : \A x : WorksOn(u, x)' <=> WorksOn(u, x) \/ (u = t /\ x = <<k, i>>)
  BY <1>1 DEF Begun
<1>3. \A c, x : IsValid(c, x)' <=> IsValid(c, x)
  BY <1>2 DEF IsValid
<1>4. There(k, i) /\ ~There(k, i)'
  <2>1. Untouched(k, i) /\ ~Untouched(k, i)'
    BY <1>2 DEF Untouched
  <2> QED
    BY <1>2, <2>1 DEF There
<1>5. OthersStay(k, i)
  <2>1. \A c, x : <<c, x>> # <<k, i>> => (Untouched(c, x)' <=> Untouched(c, x))
    BY <1>2 DEF Untouched
  <2> QED
    BY <1>2, <1>3, <2>1 DEF OthersStay, There
<1>6. k = "pro" => slots[k][i].pro = NoId
  <2>1. HeldInv
    BY DEF ExactInv
  <2>2. \E u \in Users : HeldBy(u, k, i)
    BY <1>2, <2>1, LiveFacts
  <2> QED
    BY <2>2 DEF HeldBy
<1>7. <<k, i>> \notin Refers(slots[k][i])
  <2>1. ASSUME NEW l \in RefKinds, slots[k][i][l] # NoId, <<k, i>> = <<l, slots[k][i][l]>>
        PROVE  FALSE
    <3>1. k = l /\ k = "pro"
      BY <1>2, <2>1, RefKindFacts
    <3> QED
      BY <1>6, <2>1, <3>1
  <2>2. \A n : <<k, i>> # <<"param", n>>
    BY <1>2
  <2> QED
    BY <2>1, <2>2, RefersFacts
<1>8. k \in Shown
  BY <1>2, ShownFacts
<1>9. Goes(k, i)
  BY <1>4, <1>5, <1>7, <1>8 DEF Goes
<1> QED
  BY <1>9, GoesMoves

\* Emptied slots.
LEMMA EmptiedView ==
    ASSUME InstanceInv, InstanceInv', NEW k \in Kinds, NEW i, slots'[k][i] = NULL,
           \A c \in Kinds : Ids(c)' = Ids(c),
           \A c \in Kinds : \A x \in Ids(c) : c # k \/ x # i => slots'[c][x] = slots[c][x]
    PROVE  /\ ~IsValid(k, i)'
           /\ \A c \in Kinds : \A x : <<c, x>> # <<k, i>> =>
                /\ IsValid(c, x)' <=> IsValid(c, x)
                /\ IsValid(c, x) => slots'[c][x] = slots[c][x]
<1>1. ~IsValid(k, i)'
  BY DEF IsValid
<1>2. \A c \in Kinds : DOMAIN slots[c] = Ids(c)
  BY SlotsNow DEF InstanceInv, SlotsOf
<1>3. \A c \in Kinds : DOMAIN slots'[c] = Ids(c)
  <2>1. TypeOK'
    BY DEF InstanceInv
  <2>2. SlotsOf'
    BY <2>1, SlotsNext
  <2> QED
    BY <2>2 DEF SlotsOf
<1>4. ASSUME NEW c \in Kinds, NEW x, <<c, x>> # <<k, i>>
      PROVE  (IsValid(c, x)' <=> IsValid(c, x)) /\ (IsValid(c, x) => slots'[c][x] = slots[c][x])
  <2>1. x \in Ids(c) => slots'[c][x] = slots[c][x]
    BY <1>4
  <2> QED
    BY <1>2, <1>3, <2>1 DEF IsValid
<1> QED
  BY <1>1, <1>4

LEMMA RemoveLeafMoves ==
    ASSUME InstanceInv, InstanceInv', LeavesArePlain, AllLive', NEW t \in Users, RemoveLeaf(t)
    PROVE  RegistryMoves
<1>1. PICK k, i, j : LeafGoes(t, k, i, j)
  BY LeafGoesFacts
<1>2. /\ k \in {"param", "rcr"} /\ i \in Ids(k) /\ k \in Kinds /\ ~Working(t)
      /\ j \in ToRemove(t, k) /\ i = own[t][k][j]
      /\ \A u \in Users : \A x : WorksOn(u, x)' <=> WorksOn(u, x) /\ u # t
      /\ slots'[k][i] = NULL /\ \A c \in Kinds : Ids(c)' = Ids(c)
      /\ \A c \in Kinds : \A x \in Ids(c) : c # k \/ x # i => slots'[c][x] = slots[c][x]
  BY <1>1 DEF LeafGoes, Over
<1>3. \A c, x : Untouched(c, x)' <=> Untouched(c, x)
  BY <1>2 DEF Untouched, WorksOn
<1>4. Untouched(k, i)
  <2>1. ASSUME NEW u \in Users, WorksOn(u, <<k, i>>)
        PROVE  FALSE
    BY <1>2, <2>1, OwnWork DEF WorksOn
  <2> QED
    BY <2>1 DEF Untouched
<1>5. IsValid(k, i)
  BY <1>2, <1>4, OwnAreThere
<1>6. /\ ~IsValid(k, i)'
      /\ \A c \in Kinds : \A x : <<c, x>> # <<k, i>> =>
           /\ IsValid(c, x)' <=> IsValid(c, x)
           /\ IsValid(c, x) => slots'[c][x] = slots[c][x]
  BY <1>2, EmptiedView
<1>7. There(k, i) /\ ~There(k, i)'
  BY <1>2, <1>4, <1>5, <1>6 DEF There
<1>8. OthersStay(k, i)
  BY <1>3, <1>6, ShownFacts DEF OthersStay, There
<1>9. Refers(slots[k][i]) = {}
  <2>1. slots[k][i] # NULL /\ k \in LeafKinds
    BY <1>2, <1>5 DEF IsValid, LeafKinds
  <2>2. slots[k][i] = Plain
    BY <1>2, <2>1 DEF LeavesArePlain
  <2> QED
    BY <2>2, PlainRefers
<1>10. k \in Shown
  BY <1>2, ShownFacts
<1>11. Goes(k, i)
  BY <1>7, <1>8, <1>9, <1>10 DEF Goes
<1> QED
  BY <1>11, GoesMoves

LEMMA ResetMoves ==
    ASSUME InstanceInv, InstanceInv', NEW t \in Users, Reset(t)
    PROVE  RegistryMoves
<1>1. PICK k, i, o : Gone(t, k, i, o)
  BY GoneFacts
<1>2. /\ k = call[t].kind /\ i = call[t].id /\ Working(t)
      /\ \A u \in Users : \A x : WorksOn(u, x)' <=> WorksOn(u, x)
  BY <1>1 DEF Gone
<1>3. /\ ~IsValid(k, i)'
      /\ \A c \in Kinds : \A x : <<c, x>> # <<k, i>> =>
           /\ IsValid(c, x)' <=> IsValid(c, x)
           /\ IsValid(c, x) => slots'[c][x] = slots[c][x]
  <2>1. /\ k \in Kinds /\ slots'[k][i] = NULL /\ \A c \in Kinds : Ids(c)' = Ids(c)
        /\ \A c \in Kinds : \A x \in Ids(c) : c # k \/ x # i => slots'[c][x] = slots[c][x]
    BY <1>1 DEF Gone
  <2> QED
    BY <2>1, EmptiedView
<1>4. ~There(k, i) /\ ~There(k, i)'
  <2>1. WorksOn(t, <<k, i>>)
    BY <1>2 DEF WorksOn
  <2>2. ~Untouched(k, i)
    BY <2>1 DEF Untouched
  <2> QED
    BY <1>3, <2>2 DEF There
<1>5. \A c, x : Untouched(c, x)' <=> Untouched(c, x)
  BY <1>2 DEF Untouched
<1>6. ASSUME NEW c \in Shown, NEW x
      PROVE  (There(c, x)' <=> There(c, x)) /\ (There(c, x) => slots'[c][x] = slots[c][x])
  <2>1. CASE <<c, x>> = <<k, i>>
    BY <1>4, <2>1
  <2>2. CASE <<c, x>> # <<k, i>>
    BY <1>3, <1>5, <2>2, ShownFacts DEF There
  <2> QED
    BY <2>1, <2>2
<1>7. ViewStays
  BY <1>6 DEF ViewStays
<1> QED
  BY <1>7, StaysMoves

LEMMA DropDoneMoves ==
    ASSUME InstanceInv, InstanceInv', LeavesArePlain, AllLive', NEW t \in Users, DropDone(t)
    PROVE  RegistryMoves
<1>1. PICK k, i, l, n, d : Drops(t, k, i, l, n, d)
  BY DropFacts
<1>2. /\ l \in {"rnd", "param"} /\ l \in Kinds /\ n \in Ids(l) /\ slots[l][n] # NULL
      /\ slots'[l][n] = NULL /\ \A c \in Kinds : Ids(c)' = Ids(c)
      /\ \A c \in Kinds : \A x \in Ids(c) : c # l \/ x # n => slots'[c][x] = slots[c][x]
      /\ \A u \in Users : \A x : WorksOn(u, x)' <=> WorksOn(u, x)
  BY <1>1 DEF Drops
<1>3. /\ ~IsValid(l, n)'
      /\ \A c \in Kinds : \A x : <<c, x>> # <<l, n>> =>
           /\ IsValid(c, x)' <=> IsValid(c, x)
           /\ IsValid(c, x) => slots'[c][x] = slots[c][x]
  BY <1>2, EmptiedView
<1>4. \A c, x : Untouched(c, x)' <=> Untouched(c, x)
  BY <1>2 DEF Untouched
<1>5. OthersStay(l, n)
  BY <1>3, <1>4, ShownFacts DEF OthersStay, There
<1>6. CASE l = "rnd"
  <2>1. \A c \in Shown : \A x : <<c, x>> # <<l, n>>
    BY <1>6, ShownFacts
  <2>2. ViewStays
    BY <1>5, <2>1 DEF ViewStays, OthersStay
  <2> QED
    BY <2>2, StaysMoves
<1>7. CASE l = "param"
  <2>1. Untouched(l, n)
    <3>1. \A u \in Users : Working(u) => call[u].kind \in {"pro", "alg"}
      BY WorkDomain
    <3> QED
      BY <1>7, <3>1 DEF Untouched, WorksOn
  <2>2. IsValid(l, n)
    <3>1. DOMAIN slots[l] = Ids(l)
      BY <1>2, SlotsNow DEF InstanceInv, SlotsOf
    <3> QED
      BY <1>2, <3>1 DEF IsValid
  <2>3. There(l, n) /\ ~There(l, n)'
    BY <1>2, <1>3, <2>1, <2>2 DEF There
  <2>4. Refers(slots[l][n]) = {}
    <3>1. l \in LeafKinds
      BY <1>7 DEF LeafKinds
    <3>2. slots[l][n] = Plain
      BY <1>2, <3>1 DEF LeavesArePlain
    <3> QED
      BY <3>2, PlainRefers
  <2>5. l \in Shown
    BY <1>7, ShownFacts
  <2>6. Goes(l, n)
    BY <1>5, <2>3, <2>4, <2>5 DEF Goes
  <2> QED
    BY <2>6, GoesMoves
<1> QED
  BY <1>2, <1>6, <1>7

LEMMA RemoveReturnsMoves ==
    ASSUME InstanceInv, NEW t \in Users, RemoveReturns(t)
    PROVE  RegistryMoves
<1>1. PICK k, i, j : Over(t, k, i, j)
  <2>1. /\ pc[t] \notin {"idle", "thrown"} /\ call[t].op = "remove"
        /\ pc' = [pc EXCEPT ![t] = "idle"] /\ at' = [at EXCEPT ![t] = @ + 1]
        /\ call' = [call EXCEPT ![t] = NoCall] /\ UNCHANGED <<occupied, seen, own, task>>
    BY DEF RemoveReturns, Dropping, Goto, Returns
  <2> QED
    BY <2>1, OverFacts
<1>2. /\ k = call[t].kind /\ i = call[t].id
      /\ \A u \in Users : \A x : WorksOn(u, x)' <=> WorksOn(u, x) /\ u # t
  BY <1>1 DEF Over
<1>3. slots' = slots /\ slots[k][i] = NULL
  BY <1>2 DEF RemoveReturns
<1>4. \A c, x : IsValid(c, x)' <=> IsValid(c, x)
  BY <1>3 DEF IsValid
<1>5. ~There(k, i) /\ ~There(k, i)'
  BY <1>3 DEF There, IsValid
<1>6. \A c, x : <<c, x>> # <<k, i>> => (Untouched(c, x)' <=> Untouched(c, x))
  BY <1>2 DEF Untouched, WorksOn
<1>7. ASSUME NEW c \in Shown, NEW x
      PROVE  There(c, x)' <=> There(c, x)
  <2>1. CASE <<c, x>> = <<k, i>>
    BY <1>5, <2>1
  <2>2. CASE <<c, x>> # <<k, i>>
    BY <1>4, <1>6, <2>2 DEF There
  <2> QED
    BY <2>1, <2>2
<1>8. ViewStays
  BY <1>3, <1>7 DEF ViewStays
<1> QED
  BY <1>8, StaysMoves

\* What a composition refers to, with a part more.
ByField(o, y) == \E l \in RefKinds : o[l] # NoId /\ y = <<l, o[l]>>
ByPart(o, y) == \E p \in DOMAIN o.parts : y = <<"param", o.parts[p]>>

LEMMA RefersBy ==
    ASSUME NEW o, NEW y
    PROVE  y \in Refers(o) <=> ByField(o, y) \/ ByPart(o, y)
  BY RefersFacts DEF ByField, ByPart

LEMMA RefersMore ==
    ASSUME NEW o, NEW n, NEW p, o.parts \in Seq(Nat), p \in Nat, n.parts = Append(o.parts, p),
           \A l \in RefKinds : n[l] = o[l]
    PROVE  Refers(n) = Refers(o) \cup {<<"param", p>>}
<1>1. PICK s : s = o.parts
  OBVIOUS
<1>2. /\ s \in Seq(Nat) /\ n.parts = Append(s, p)
  BY <1>1
<1>3. /\ DOMAIN Append(s, p) = DOMAIN s \cup {Len(s) + 1} /\ Append(s, p)[Len(s) + 1] = p
      /\ \A q \in DOMAIN s : Append(s, p)[q] = s[q]
  BY <1>2
<1>4. ASSUME NEW y
      PROVE  y \in Refers(n) <=> y \in Refers(o) \cup {<<"param", p>>}
  <2>1. ByPart(n, y) <=> ByPart(o, y) \/ y = <<"param", p>>
    BY <1>1, <1>2, <1>3 DEF ByPart
  <2>2. ByField(n, y) <=> ByField(o, y)
    BY DEF ByField
  <2> QED
    BY <2>1, <2>2, RefersBy, Zenon
<1> QED
  BY <1>4, Zenon

LEMMA AddFunctionMoves ==
    ASSUME InstanceInv, InstanceInv', NEW j, AddFunction(j)
    PROVE  RegistryMoves
<1>1. PICK i, p, table, new :
        PartComes(i, p, table, new) /\ \A u \in Users : ~WorksOn(u, <<"pro", i>>)
  <2>1. PICK i, p, table, new : PartComes(i, p, table, new) /\ i = own[Main]["pro"][j]
    BY PartComesFacts
  <2>2. j \in ToRemove(Main, "pro") /\ Main \in Users /\ ~Working(Main)
    BY InitializeNeeds DEF AddFunction
  <2>3. ASSUME NEW u \in Users, WorksOn(u, <<"pro", i>>)
        PROVE  FALSE
    <3>1. u = Main
      BY <2>1, <2>2, <2>3, OwnWork, KindNames
    <3> QED
      BY <2>2, <2>3, <3>1 DEF WorksOn
  <2> QED
    BY <2>1, <2>3
<1>2. /\ p = NewId("param") /\ p \in Nat /\ i \in Ids("pro") /\ slots["pro"][i] # NULL
      /\ DOMAIN new = {"param"} /\ new["param"] = Plain /\ OnePartMore(table, i, p)
      /\ Grown(table, new) /\ Extends(new)
      /\ ~IsValid("param", p) /\ IsValid("param", p)' /\ pc' = pc /\ call' = call
  BY <1>1 DEF PartComes
<1>3. \A c, x : Untouched(c, x)' <=> Untouched(c, x)
  BY <1>2 DEF Untouched, WorksOn, Working
<1>4. "pro" \in Kinds /\ "param" \in Kinds /\ "pro" \in Shown /\ "param" \in Shown
      /\ \A c \in Shown : c \in Kinds
  BY KindNames, ShownFacts
<1>5. IsValid("pro", i)
  BY <1>2, <1>4, SlotsNow DEF InstanceInv, SlotsOf, IsValid
<1>6. \A c \in Kinds : \A x : <<c, x>> # <<"param", p>> =>
        /\ IsValid(c, x)' <=> IsValid(c, x)
        /\ IsValid(c, x) => slots'[c][x] = table[c][x]
  <2>1. \A c \in Kinds : \A x : <<c, x>> # <<"param", p>> => c \notin DOMAIN new \/ x # NewId(c)
    BY <1>2
  <2> QED
    BY <1>2, <2>1, GrownView
<1>7. There("pro", i) /\ There("pro", i)'
  <2>1. Untouched("pro", i)
    BY <1>1 DEF Untouched
  <2>2. <<"pro", i>> # <<"param", p>>
    OBVIOUS
  <2> QED
    BY <1>3, <1>4, <1>5, <1>6, <2>1, <2>2 DEF There
<1>8. ~There("param", p) /\ There("param", p)'
  <2>1. Untouched("param", p)
    BY <1>2 DEF Extends
  <2> QED
    BY <1>2, <1>3, <1>4, <2>1 DEF There
<1>9. Refers(slots'["param"][p]) = {}
  <2>1. slots'["param"][p] = Plain
    BY <1>2 DEF Extends
  <2> QED
    BY <2>1, PlainRefers
<1>10. Refers(slots'["pro"][i]) = Refers(slots["pro"][i]) \cup {<<"param", p>>}
  <2>1. slots'["pro"][i] = table["pro"][i]
    <3>1. <<"pro", i>> # <<"param", p>>
      OBVIOUS
    <3> QED
      BY <1>4, <1>5, <1>6, <3>1
  <2>2. /\ table["pro"][i].parts = Append(slots["pro"][i].parts, p)
        /\ slots["pro"][i].parts \in Seq(Nat) /\ Like(table)
    BY <1>2 DEF OnePartMore
  <2>3. \A l \in RefKinds : table["pro"][i][l] = slots["pro"][i][l]
    BY <1>2, <1>4, <2>2 DEF Like, RefKinds
  <2>4. PICK o, n : o = slots["pro"][i] /\ n = table["pro"][i]
    OBVIOUS
  <2>5. /\ o.parts \in Seq(Nat) /\ n.parts = Append(o.parts, p) /\ p \in Nat
        /\ \A l \in RefKinds : n[l] = o[l]
    BY <1>2, <2>2, <2>3, <2>4
  <2>6. Refers(n) = Refers(o) \cup {<<"param", p>>}
    BY <2>5, RefersMore
  <2> QED
    BY <2>1, <2>4, <2>6
<1>11. ASSUME NEW c \in Shown, NEW x, <<c, x>> # <<"param", p>>
       PROVE  /\ There(c, x)' <=> There(c, x)
              /\ <<c, x>> # <<"pro", i>> /\ There(c, x) => slots'[c][x] = slots[c][x]
  <2>1. (IsValid(c, x)' <=> IsValid(c, x)) /\ (IsValid(c, x) => slots'[c][x] = table[c][x])
    BY <1>4, <1>6, <1>11
  <2>2. There(c, x)' <=> There(c, x)
    BY <1>3, <1>4, <2>1 DEF There
  <2>3. <<c, x>> # <<"pro", i>> /\ There(c, x) => table[c][x] = slots[c][x]
    <3>1. There(c, x) => x \in Ids(c)
      BY <1>4, ValidNow DEF InstanceInv, ValidIds, There
    <3> QED
      BY <1>2, <1>4, <3>1 DEF OnePartMore
  <2> QED
    BY <2>1, <2>2, <2>3 DEF There
<1>12. PartAppears(i, p)
  BY <1>7, <1>8, <1>9, <1>10, <1>11 DEF PartAppears
<1> QED
  BY <1>12, PartMoves

-----------------------------------------------------------------------------
(* The refinement.                                                         *)

LEMMA StepMoves ==
    ASSUME InstanceInv, InstanceInv', ExactInv, LeavesArePlain, AllLive', [Next]_vars
    PROVE  RegistryMoves
<1>1. ASSUME NEW t \in Users, Adding(t)
      PROVE  RegistryMoves
  BY <1>1, AddLeafMoves, BetweenMoves, AddLockedMoves, AddReturnsMoves DEF Adding
<1>2. ASSUME NEW t \in Users, Counting(t)
      PROVE  RegistryMoves
  BY <1>2, CountMoves
<1>3. ASSUME NEW t \in Users, Removing(t)
      PROVE  RegistryMoves
  BY <1>3, BetweenMoves, RemoveLeafMoves, RemoveLockedMoves, CountMoves, DropDoneMoves,
     ResetMoves, RemoveReturnsMoves DEF Removing
<1>4. ASSUME NEW t \in Threads, RunAlgorithm(t)
      PROVE  RegistryMoves
  BY <1>4, BetweenMoves DEF Users
<1>5. CASE RunStep
  <2>1. ASSUME NEW j, Initialized(j)
        PROVE  RegistryMoves
    BY <2>1, BetweenMoves, UserTypes
  <2>2. CASE StartThreads \/ Join
    BY <2>2, RestMoves DEF StartThreads, Join, manager
  <2> QED
    BY <1>5, <2>1, <2>2, AddFunctionMoves DEF RunStep
<1>6. CASE NextTask
  BY <1>6, RestMoves DEF NextTask, manager
<1>7. CASE Ended \/ UNCHANGED vars
  BY <1>7, RestMoves DEF Ended, vars, manager, threads
<1> QED
  BY <1>1, <1>2, <1>3, <1>4, <1>5, <1>6, <1>7 DEF Next, Step

\* A count is lost where it is written.
LEMMA LossIsWrite ==
    ASSUME [Next]_vars, ~lost, lost'
    PROVE  \E t \in Users : CountWrite(t)
<1>1. ASSUME NEW t \in Users, Adding(t) \/ Removing(t)
      PROVE  lost' = lost
  BY <1>1 DEF Adding, AddLeaf, AddCheck, AddLocked, AddReturns, Removing, RemoveCheck, RemoveLeaf,
     RemoveLocked, DropCheck, DropDone, Reset, RemoveReturns
<1>2. ASSUME NEW t \in Users, CountRead(t)
      PROVE  lost' = lost
  BY <1>2 DEF CountRead
<1>3. ASSUME NEW t \in Threads, RunAlgorithm(t)
      PROVE  lost' = lost
  BY <1>3 DEF RunAlgorithm
<1>4. RunStep \/ NextTask \/ Ended \/ UNCHANGED vars => lost' = lost
  BY DEF RunStep, AddFunction, Initialized, StartThreads, Join, NextTask, Ended, vars
<1> QED
  BY <1>1, <1>2, <1>3, <1>4 DEF Next, Step, Counting

LEMMA InitShows == Init => Implemented!RegistryInit
<1> SUFFICES ASSUME Init
             PROVE  Visible = {} /\ VisibleUses = {}
  BY DEF Implemented!RegistryInit
<1>1. \A k, i : ~There(k, i)
  BY NothingIsGot DEF Init, There, IsValid
<1>2. VisibleAre /\ UsesAre
  BY VisibleNow
<1>3. \A x : x \notin Visible
  BY <1>1, <1>2 DEF VisibleAre
<1>4. \A u : u \notin VisibleUses
  BY <1>1, <1>2 DEF UsesAre
<1> QED
  BY <1>3, <1>4

\* Until a count is lost the registry is a set of objects that come under an id of
\* their own, on top of objects that are there, and go when nobody uses them: whatever
\* the threads do in between is no step of it or one that they do not see.
THEOREM RegistryIsImplemented == Spec => ImplementsRegistry
<1>1. CountInv /\ CountInv' /\ LeavesArePlain /\ LeavesArePlain' /\ [Next]_vars
        => [lost \/ Implemented!RegistryNext]_<<Visible, VisibleUses>>
  <2> SUFFICES ASSUME CountInv, CountInv', LeavesArePlain, LeavesArePlain', [Next]_vars, ~lost
               PROVE  RegistryMoves
    BY DEF RegistryMoves
  <2>1. InstanceInv /\ InstanceInv' /\ ExactInv
    BY DEF CountInv
  <2>2. CASE lost'
    <3>1. PICK t \in Users : CountWrite(t)
      BY <2>1, <2>2, LossIsWrite
    <3> QED
      BY <2>1, <3>1, CountMoves DEF Counting
  <2>3. CASE ~lost'
    <3>1. ExactInv'
      BY <2>3 DEF CountInv
    <3>2. AllLive'
      BY <2>1, <3>1, LiveNext
    <3> QED
      BY <2>1, <3>2, StepMoves
  <2> QED
    BY <2>2, <2>3
<1> QED
  BY <1>1, InitShows, CountInvariant, PlainInvariant, PTL DEF Spec, ImplementsRegistry
=============================================================================
