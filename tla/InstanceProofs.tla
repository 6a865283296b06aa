----------------------------- MODULE InstanceProofs -----------------------------
(***************************************************************************)
(* Proofs about InstanceManager, for any number of threads, any list of    *)
(* tasks, any size of a composition and any growth of the vectors.         *)
(***************************************************************************)
EXTENDS InstanceManager, SequenceTheorems, TLAPS

-----------------------------------------------------------------------------
(* Sequences.                                                              *)

LEMMA SeqMade ==
    ASSUME NEW S, NEW n \in Nat, NEW s, s = [i \in 1..n |-> s[i]], \A i \in 1..n : s[i] \in S
    PROVE  s \in Seq(S) /\ Len(s) = n
  BY IsASeq

-----------------------------------------------------------------------------
(* The script of run().                                                    *)

\* The positions of the script, one by one, with n runs; p says whether the parameters
\* are the first to be removed, and f is where the algorithms are.
MiddleCall(m) ==
    IF m % 3 = 1 THEN <<"add", "pro", 1>>
    ELSE IF m % 3 = 2 THEN <<"add", "alg", 1>>
    ELSE <<"initialize", "pro", m \div 3>>
Firsts(n) == {3 * n + 5, 3 * n + 6}
FirstRemoval(n, p) == 3 * n + (IF p THEN 6 ELSE 5)
TaskCall(n, f, m) ==
    IF m = 1 THEN <<"add", "param", 1>>
    ELSE IF m = 2 THEN <<"add", "rcr", 1>>
    ELSE IF m <= 3 * n + 2 THEN MiddleCall(m - 2)
    ELSE IF m = 3 * n + 3 THEN <<"start", "alg", 1>>
    ELSE IF m = 3 * n + 4 THEN <<"join", "alg", 1>>
    ELSE IF m < f THEN <<"remove", "param", 1>>
    ELSE IF m < f + n THEN <<"remove", "alg", m - f + 1>>
    ELSE IF m < f + 2 * n THEN <<"remove", "pro", m - f - n + 1>>
    ELSE IF m = f + 2 * n THEN <<"remove", "rcr", 1>>
    ELSE <<"remove", "param", 1>>

CallNames ==
    {"add", "initialize", "start", "run", "join", "remove"} \X Kinds \X Int

LEMMA JobType ==
    ASSUME job \in 1..Len(Tasks)
    PROVE  Job \in [runs : Nat, composition : BOOLEAN, paramFirst : BOOLEAN]
  BY TasksAssumption, ElementOfSeq DEF Job

\* s is the beginning of a script, of length a.
Begins(s, a, n, f) ==
    /\ a \in Nat /\ s \in Seq(CallNames) /\ Len(s) = a
    /\ \A m \in 1..a : s[m] = TaskCall(n, f, m)

LEMMA BeginsConcat ==
    ASSUME NEW n \in Nat, NEW f \in Nat, NEW s, NEW a, Begins(s, a, n, f),
           NEW r \in Seq(CallNames), NEW l, l = Len(r), NEW c, c = a + l,
           \A m \in 1..l : r[m] = TaskCall(n, f, a + m)
    PROVE  Begins(s \o r, c, n, f)
<1>1. a \in Nat /\ s \in Seq(CallNames) /\ Len(s) = a /\ Len(r) \in Nat
  BY DEF Begins
<1>2. /\ s \o r \in Seq(CallNames) /\ Len(s \o r) = a + Len(r)
      /\ \A m \in 1..a + Len(r) : (s \o r)[m] = IF m <= a THEN s[m] ELSE r[m - a]
  BY <1>1, ConcatProperties
<1>3. ASSUME NEW m \in 1..a + Len(r), m > a
      PROVE  r[m - a] = TaskCall(n, f, m)
  <2>1. m - a \in 1..Len(r) /\ a + (m - a) = m
    BY <1>1, <1>3
  <2> QED
    BY <2>1
<1> QED
  BY <1>1, <1>2, <1>3 DEF Begins

LEMMA RunTaskIs ==
    ASSUME job \in 1..Len(Tasks)
    PROVE  Begins(RunTask, 5 * Job.runs + 6, Job.runs, FirstRemoval(Job.runs, Job.paramFirst))
<1>1. Job.runs \in Nat /\ Job.paramFirst \in BOOLEAN
  BY JobType
<1> DEFINE all(n, k) == [j \in 1..n |-> <<"remove", k, j>>]
           param == << <<"remove", "param", 1>> >>
           first == << <<"add", "param", 1>>, <<"add", "rcr", 1>> >>
           middle(n) == [j \in 1..3 * n |-> IF j % 3 = 1 THEN <<"add", "pro", 1>>
                                ELSE IF j % 3 = 2 THEN <<"add", "alg", 1>>
                                ELSE <<"initialize", "pro", j \div 3>>]
           threads0 == << <<"start", "alg", 1>>, <<"join", "alg", 1>> >>
           record == << <<"remove", "rcr", 1>> >>
<1>2. RunTask = first \o middle(Job.runs) \o threads0
                 \o (IF Job.paramFirst THEN param ELSE <<>>) \o all(Job.runs, "alg")
                 \o all(Job.runs, "pro") \o record \o (IF Job.paramFirst THEN <<>> ELSE param)
  <2>1. RunTask = RunOf(job)
    BY TasksAssumption DEF RunTask, RunTasks
  <2> QED
    BY <2>1 DEF RunOf, Job
<1>3. ASSUME NEW n \in Nat, NEW p \in BOOLEAN, NEW f, f = FirstRemoval(n, p),
             NEW s1, s1 = first, NEW s2, s2 = middle(n), NEW s3, s3 = threads0,
             NEW s4, s4 = IF p THEN param ELSE <<>>,
             NEW s5, s5 = all(n, "alg"), NEW s6, s6 = all(n, "pro"),
             NEW s7, s7 = record, NEW s8, s8 = IF p THEN <<>> ELSE param
      PROVE  Begins(s1 \o s2 \o s3 \o s4 \o s5 \o s6 \o s7 \o s8, 5 * n + 6, n, f)
  <2>0. f \in Nat
    BY <1>3 DEF FirstRemoval
  <2>1. f \in Nat /\ f = IF p THEN 3 * n + 6 ELSE 3 * n + 5
    BY <1>3 DEF FirstRemoval
  <2>2. Begins(s1, 2, n, f)
    BY <1>3 DEF Begins, CallNames, Kinds, TaskCall
  <2>3. Begins(s1 \o s2, 3 * n + 2, n, f)
    <3>1. ASSUME NEW m \in 1..3 * n
          PROVE  s2[m] \in CallNames /\ s2[m] = TaskCall(n, f, 2 + m)
      <4>1. 2 + m # 1 /\ 2 + m # 2 /\ 2 + m <= 3 * n + 2 /\ (2 + m) - 2 = m /\ m \div 3 \in Int
        OBVIOUS
      <4>2. TaskCall(n, f, 2 + m) = MiddleCall(m)
        BY <4>1 DEF TaskCall
      <4>3. s2[m] = MiddleCall(m)
        BY <1>3 DEF MiddleCall
      <4>4. MiddleCall(m) \in CallNames
        BY <4>1 DEF MiddleCall, CallNames, Kinds
      <4> QED
        BY <4>2, <4>3, <4>4
    <3>2. 3 * n \in Nat /\ s2 = [m \in 1..3 * n |-> s2[m]]
      BY <1>3
    <3>3. s2 \in Seq(CallNames) /\ Len(s2) = 3 * n
      BY <3>1, <3>2, SeqMade
    <3>4. 3 * n + 2 = 2 + 3 * n
      OBVIOUS
    <3> QED
      BY <2>0, <2>2, <3>1, <3>3, <3>4, BeginsConcat
  <2> DEFINE r2 == s1 \o s2
  <2> HIDE DEF r2
  <2>4. Begins(r2 \o s3, 3 * n + 4, n, f)
    <3>1. TaskCall(n, f, 3 * n + 3) = s3[1] /\ TaskCall(n, f, 3 * n + 4) = s3[2]
      BY <1>3 DEF TaskCall
    <3>2. s3 \in Seq(CallNames) /\ Len(s3) = 2
      BY <1>3 DEF CallNames, Kinds
    <3>3. \A m \in 1..2 : s3[m] = TaskCall(n, f, 3 * n + 2 + m)
      BY <3>1, <3>2
    <3>4. 3 * n + 4 = 3 * n + 2 + 2
      OBVIOUS
    <3> QED
      BY <2>0, <2>3, <3>2, <3>3, <3>4, BeginsConcat DEF r2
  <2> DEFINE r3 == r2 \o s3
  <2> HIDE DEF r3
  <2>5. Begins(r3 \o s4, f - 1, n, f)
    <3>1. CASE p
      <4>1. TaskCall(n, f, 3 * n + 5) = <<"remove", "param", 1>>
        BY <2>1, <3>1 DEF TaskCall
      <4>2. s4 \in Seq(CallNames) /\ Len(s4) = 1 /\ s4[1] = <<"remove", "param", 1>>
        BY <1>3, <3>1 DEF CallNames, Kinds
      <4>3. \A m \in 1..Len(s4) : s4[m] = TaskCall(n, f, 3 * n + 4 + m)
        BY <4>1, <4>2
      <4>4. f - 1 = 3 * n + 4 + Len(s4)
        BY <2>1, <3>1, <4>2
      <4> QED
        BY <2>0, <2>4, <4>2, <4>3, <4>4, BeginsConcat DEF r3
    <3>2. CASE ~p
      <4>1. s4 \in Seq(CallNames) /\ Len(s4) = 0
        BY <1>3, <3>2
      <4>2. f - 1 = 3 * n + 4 + Len(s4)
        BY <2>1, <3>2, <4>1
      <4> QED
        BY <2>0, <2>4, <4>1, <4>2, BeginsConcat DEF r3
    <3> QED
      BY <3>1, <3>2
  <2> DEFINE r4 == r3 \o s4
  <2> HIDE DEF r4
  <2>6. /\ s5 \in Seq(CallNames) /\ Len(s5) = n
        /\ \A m \in 1..Len(s5) : s5[m] = <<"remove", "alg", m>>
        /\ s6 \in Seq(CallNames) /\ Len(s6) = n
        /\ \A m \in 1..Len(s6) : s6[m] = <<"remove", "pro", m>>
    <3>1. /\ \A m \in 1..n : s5[m] \in CallNames /\ s6[m] \in CallNames
          /\ \A m \in 1..n : s5[m] = <<"remove", "alg", m>> /\ s6[m] = <<"remove", "pro", m>>
          /\ s5 = [m \in 1..n |-> s5[m]] /\ s6 = [m \in 1..n |-> s6[m]]
      BY <1>3 DEF CallNames, Kinds
    <3> QED
      BY <3>1, SeqMade
  <2>7. Begins(r4 \o s5, f + n - 1, n, f)
    <3>1. \A m \in 1..n : TaskCall(n, f, f - 1 + m) = <<"remove", "alg", m>>
      BY <2>1 DEF TaskCall
    <3>2. f + n - 1 = f - 1 + Len(s5)
      BY <2>1, <2>6
    <3>3. \A m \in 1..Len(s5) : s5[m] = TaskCall(n, f, f - 1 + m)
      BY <2>6, <3>1
    <3> QED
      BY <2>0, <2>5, <2>6, <3>2, <3>3, BeginsConcat DEF r4
  <2> DEFINE r5 == r4 \o s5
  <2> HIDE DEF r5
  <2>8. Begins(r5 \o s6, f + 2 * n - 1, n, f)
    <3>1. \A m \in 1..n : TaskCall(n, f, f + n - 1 + m) = <<"remove", "pro", m>>
      BY <2>1 DEF TaskCall
    <3>2. f + 2 * n - 1 = f + n - 1 + Len(s6)
      BY <2>1, <2>6
    <3>3. \A m \in 1..Len(s6) : s6[m] = TaskCall(n, f, f + n - 1 + m)
      BY <2>6, <3>1
    <3> QED
      BY <2>0, <2>6, <2>7, <3>2, <3>3, BeginsConcat DEF r5
  <2> DEFINE r6 == r5 \o s6
  <2> HIDE DEF r6
  <2>9. Begins(r6 \o s7, f + 2 * n, n, f)
    <3>1. TaskCall(n, f, f + 2 * n) = <<"remove", "rcr", 1>>
      BY <2>1 DEF TaskCall
    <3>2. s7 \in Seq(CallNames) /\ Len(s7) = 1 /\ s7[1] = <<"remove", "rcr", 1>>
      BY <1>3 DEF CallNames, Kinds
    <3>3. f + 2 * n = f + 2 * n - 1 + 1
      BY <2>1
    <3>4. \A m \in 1..1 : s7[m] = TaskCall(n, f, f + 2 * n - 1 + m)
      BY <2>1, <3>1, <3>2
    <3> QED
      BY <2>0, <2>8, <3>2, <3>3, <3>4, BeginsConcat DEF r6
  <2> DEFINE r7 == r6 \o s7
  <2> HIDE DEF r7
  <2>10. Begins(r7 \o s8, 5 * n + 6, n, f)
    <3>1. CASE ~p
      <4>1. TaskCall(n, f, 5 * n + 6) = <<"remove", "param", 1>>
        BY <2>1, <3>1 DEF TaskCall
      <4>2. s8 \in Seq(CallNames) /\ Len(s8) = 1 /\ s8[1] = <<"remove", "param", 1>>
        BY <1>3, <3>1 DEF CallNames, Kinds
      <4>3. 5 * n + 6 = f + 2 * n + Len(s8)
        BY <2>1, <3>1, <4>2
      <4>4. \A m \in 1..Len(s8) : s8[m] = TaskCall(n, f, f + 2 * n + m)
        <5>1. f + 2 * n + 1 = 5 * n + 6
          BY <4>2, <4>3
        <5> QED
          BY <4>1, <4>2, <5>1
      <4> QED
        BY <2>0, <2>9, <4>2, <4>3, <4>4, BeginsConcat DEF r7
    <3>2. CASE p
      <4>1. s8 \in Seq(CallNames) /\ Len(s8) = 0
        BY <1>3, <3>2
      <4>2. 5 * n + 6 = f + 2 * n + Len(s8)
        BY <2>1, <3>2, <4>1
      <4> QED
        BY <2>0, <2>9, <4>1, <4>2, BeginsConcat DEF r7
    <3> QED
      BY <3>1, <3>2
  <2> QED
    BY <2>10 DEF r7, r6, r5, r4, r3, r2
<1>4. ASSUME NEW n \in Nat, NEW p \in BOOLEAN
      PROVE  Begins(first \o middle(n) \o threads0 \o (IF p THEN param ELSE <<>>)
                      \o all(n, "alg") \o all(n, "pro") \o record
                      \o (IF p THEN <<>> ELSE param), 5 * n + 6, n, FirstRemoval(n, p))
  <2> DEFINE s1 == first
             s2 == middle(n)
             s3 == threads0
             s4 == IF p THEN param ELSE <<>>
             s5 == all(n, "alg")
             s6 == all(n, "pro")
             s7 == record
             s8 == IF p THEN <<>> ELSE param
             f == FirstRemoval(n, p)
  <2>1. s1 = first /\ s2 = middle(n) /\ s3 = threads0
    OBVIOUS
  <2>2. s4 = (IF p THEN param ELSE <<>>) /\ s8 = (IF p THEN <<>> ELSE param)
    OBVIOUS
  <2>3. s5 = all(n, "alg") /\ s6 = all(n, "pro") /\ s7 = record /\ f = FirstRemoval(n, p)
    OBVIOUS
  <2> HIDE DEF s1, s2, s3, s4, s5, s6, s7, s8, f
  <2> HIDE DEF first, middle, threads0, param, all, record
  <2>4. Begins(s1 \o s2 \o s3 \o s4 \o s5 \o s6 \o s7 \o s8, 5 * n + 6, n, f)
    BY <1>3, <2>1, <2>2, <2>3
  <2> QED
    BY <2>4 DEF s1, s2, s3, s4, s5, s6, s7, s8, f
<1> QED
  BY <1>1, <1>2, <1>4, Zenon

-----------------------------------------------------------------------------
(* The calls at each position.                                             *)

LEMMA MiddleIs ==
    /\ \A p \in Nat : /\ MiddleCall(3 * p + 1) = <<"add", "pro", 1>>
                      /\ MiddleCall(3 * p + 2) = <<"add", "alg", 1>>
                      /\ MiddleCall(3 * p) = <<"initialize", "pro", p>>
    /\ \A m \in Nat : MiddleCall(m)[1] \in {"add", "initialize"}
<1>1. ASSUME NEW p \in Nat
      PROVE  /\ (3 * p + 1) % 3 = 1 /\ (3 * p + 2) % 3 = 2
             /\ (3 * p) % 3 = 0 /\ (3 * p) \div 3 = p
  OBVIOUS
<1>2. \A p \in Nat : /\ MiddleCall(3 * p + 1) = <<"add", "pro", 1>>
                     /\ MiddleCall(3 * p + 2) = <<"add", "alg", 1>>
                     /\ MiddleCall(3 * p) = <<"initialize", "pro", p>>
  BY <1>1 DEF MiddleCall
<1>3. \A m \in Nat : MiddleCall(m)[1] \in {"add", "initialize"}
  BY DEF MiddleCall
<1> QED
  BY <1>2, <1>3

\* Where an object is removed.
RemovedAt(n, f, k, j) ==
    IF k = "alg" THEN f + j - 1
    ELSE IF k = "pro" THEN f + n + j - 1
    ELSE IF k = "rcr" THEN f + 2 * n
    ELSE IF f = 3 * n + 6 THEN f - 1 ELSE 5 * n + 6
HasRemoval(n, k, j) ==
    \/ k \in {"alg", "pro"} /\ j \in 1..n
    \/ k \in {"param", "rcr"} /\ j = 1

LEMMA TaskRemoves ==
    ASSUME NEW n \in Nat, NEW f \in Firsts(n), NEW m \in Nat, m >= 1, m <= 5 * n + 6
    PROVE  /\ \A k, j : TaskCall(n, f, m) = <<"remove", k, j>> =>
                        m = RemovedAt(n, f, k, j) /\ HasRemoval(n, k, j)
           /\ m <= 3 * n + 4 => TaskCall(n, f, m)[1] # "remove"
           /\ m > 3 * n + 4 => TaskCall(n, f, m)[1] = "remove"
<1>1. CASE m <= 3 * n + 4
  <2>1. CASE m \in 3..3 * n + 2
    <3>1. TaskCall(n, f, m) = MiddleCall(m - 2) /\ m - 2 \in Nat
      BY <2>1 DEF TaskCall
    <3>2. MiddleCall(m - 2)[1] \in {"add", "initialize"}
      BY <3>1, MiddleIs
    <3> QED
      BY <1>1, <3>1, <3>2
  <2>2. CASE m \notin 3..3 * n + 2
    BY <1>1, <2>2 DEF TaskCall
  <2> QED
    BY <2>1, <2>2
<1>2. CASE m > 3 * n + 4
  <2>1. m # 1 /\ m # 2 /\ ~(m <= 3 * n + 2) /\ m # 3 * n + 3 /\ m # 3 * n + 4
    BY <1>2
  <2>2. TaskCall(n, f, m) = IF m < f THEN <<"remove", "param", 1>>
          ELSE IF m < f + n THEN <<"remove", "alg", m - f + 1>>
          ELSE IF m < f + 2 * n THEN <<"remove", "pro", m - f - n + 1>>
          ELSE IF m = f + 2 * n THEN <<"remove", "rcr", 1>>
          ELSE <<"remove", "param", 1>>
    BY <2>1 DEF TaskCall
  <2> QED
    BY <1>2, <2>2 DEF RemovedAt, HasRemoval, Firsts
<1> QED
  BY <1>1, <1>2

LEMMA TaskRemoved ==
    ASSUME NEW n \in Nat, NEW f \in Firsts(n), NEW k, NEW j, HasRemoval(n, k, j)
    PROVE  /\ RemovedAt(n, f, k, j) \in 3 * n + 5..5 * n + 6
           /\ TaskCall(n, f, RemovedAt(n, f, k, j)) = <<"remove", k, j>>
<1>1. CASE k = "alg"
  <2>1. j \in 1..n /\ RemovedAt(n, f, k, j) = f + j - 1
    BY <1>1 DEF RemovedAt, HasRemoval, Firsts
  <2>2. TaskCall(n, f, f + j - 1) = <<"remove", "alg", j>>
    BY <2>1 DEF TaskCall, Firsts
  <2> QED
    BY <1>1, <2>1, <2>2 DEF Firsts
<1>2. CASE k = "pro"
  <2>1. j \in 1..n /\ RemovedAt(n, f, k, j) = f + n + j - 1
    BY <1>2 DEF RemovedAt, HasRemoval, Firsts
  <2>2. TaskCall(n, f, f + n + j - 1) = <<"remove", "pro", j>>
    BY <2>1 DEF TaskCall, Firsts
  <2> QED
    BY <1>2, <2>1, <2>2 DEF Firsts
<1>3. CASE k = "rcr"
  <2>1. j = 1 /\ RemovedAt(n, f, k, j) = f + 2 * n
    BY <1>3 DEF RemovedAt, HasRemoval, Firsts
  <2>2. TaskCall(n, f, f + 2 * n) = <<"remove", "rcr", 1>>
    BY <2>1 DEF TaskCall, Firsts
  <2> QED
    BY <1>3, <2>1, <2>2 DEF Firsts
<1>4. CASE k = "param"
  <2>1. j = 1 /\ RemovedAt(n, f, k, j) = IF f = 3 * n + 6 THEN 3 * n + 5 ELSE 5 * n + 6
    BY <1>4 DEF RemovedAt, HasRemoval, Firsts
  <2>2. f = 3 * n + 6 => TaskCall(n, f, 3 * n + 5) = <<"remove", "param", 1>>
    BY <2>1 DEF TaskCall
  <2>3. f = 3 * n + 5 => TaskCall(n, f, 5 * n + 6) = <<"remove", "param", 1>>
    BY <2>1 DEF TaskCall
  <2> QED
    BY <1>4, <2>1, <2>2, <2>3 DEF Firsts
<1> QED
  BY <1>1, <1>2, <1>3, <1>4 DEF HasRemoval

-----------------------------------------------------------------------------
(* Scripts.                                                                *)

JobOK == job \in 0..Len(Tasks)

LEMMA ScriptOfMain ==
    ASSUME JobOK, job # 0,
           NEW n, n = Job.runs, NEW f, f = FirstRemoval(Job.runs, Job.paramFirst)
    PROVE  /\ n \in Nat /\ f \in Firsts(n) /\ StartAt = 3 * n + 3
           /\ Script(Main) \in Seq(CallNames)
           /\ DOMAIN Script(Main) = 1..5 * n + 6 /\ Len(Script(Main)) = 5 * n + 6
           /\ \A m \in 1..5 * n + 6 : Script(Main)[m] = TaskCall(n, f, m)
<1>1. job \in 1..Len(Tasks)
  <2>1. Len(Tasks) \in Nat
    BY TasksAssumption
  <2> QED
    BY <2>1 DEF JobOK
<1>2. n \in Nat /\ f \in Firsts(n) /\ StartAt = 3 * n + 3
  BY <1>1, JobType DEF FirstRemoval, StartAt, Firsts
<1>3. Begins(RunTask, 5 * n + 6, n, f)
  BY <1>1, RunTaskIs
<1>4. Script(Main) = RunTask
  BY ThreadsAssumption DEF Script
<1>5. DOMAIN RunTask = 1..Len(RunTask)
  BY <1>3 DEF Begins
<1> QED
  BY <1>2, <1>3, <1>4, <1>5 DEF Begins

LEMMA ScriptOfNobody ==
    ASSUME job = 0
    PROVE  Script(Main) = <<>> /\ DOMAIN Script(Main) = {} /\ Len(Script(Main)) = 0
  BY ThreadsAssumption DEF Script

LEMMA ScriptOfThread ==
    ASSUME NEW t \in Threads
    PROVE  /\ DOMAIN Script(t) = 1..7 /\ Len(Script(t)) = 7 /\ Script(t) \in Seq(CallNames)
           /\ Script(t)[1] = <<"add", "param", 1>> /\ Script(t)[2] = <<"add", "pro", 1>>
           /\ Script(t)[3] = <<"add", "alg", 1>> /\ Script(t)[4] = <<"run", "alg", 1>>
           /\ Script(t)[5] = <<"remove", "alg", 1>> /\ Script(t)[6] = <<"remove", "pro", 1>>
           /\ Script(t)[7] = <<"remove", "param", 1>>
<1>1. Script(t) = RegressCovLine
  BY ThreadsAssumption DEF Script
<1> QED
  BY <1>1 DEF RegressCovLine, CallNames, Kinds

LEMMA ScriptType ==
    ASSUME JobOK, NEW t \in Users
    PROVE  /\ Script(t) \in Seq(CallNames) /\ Len(Script(t)) \in Nat
           /\ DOMAIN Script(t) = 1..Len(Script(t))
<1>1. Script(t) \in Seq(CallNames)
  <2>1. CASE t \in Threads
    BY <2>1, ScriptOfThread
  <2>2. CASE t = Main /\ job = 0
    BY <2>2, ScriptOfNobody
  <2>3. CASE t = Main /\ job # 0
    BY <2>3, ScriptOfMain
  <2> QED
    BY <2>1, <2>2, <2>3 DEF Users
<1> QED
  BY <1>1

\* An object is removed once.
LEMMA RemovedOnce ==
    ASSUME JobOK, NEW t \in Users, NEW m \in DOMAIN Script(t), NEW l \in DOMAIN Script(t),
           NEW k, NEW j, Script(t)[m] = <<"remove", k, j>>, Script(t)[l] = <<"remove", k, j>>
    PROVE  m = l
<1>1. CASE t \in Threads
  <2>1. \A i \in 1..7 : Script(t)[i] = <<"remove", k, j>> =>
          i = IF k = "alg" THEN 5 ELSE IF k = "pro" THEN 6 ELSE 7
    <3>1. ASSUME NEW i \in 1..7, Script(t)[i] = <<"remove", k, j>>
          PROVE  i = IF k = "alg" THEN 5 ELSE IF k = "pro" THEN 6 ELSE 7
      <4>1. i = 1 \/ i = 2 \/ i = 3 \/ i = 4 \/ i = 5 \/ i = 6 \/ i = 7
        OBVIOUS
      <4> QED
        BY <1>1, <3>1, <4>1, ScriptOfThread
    <3> QED
      BY <3>1
  <2> QED
    BY <1>1, <2>1, ScriptOfThread
<1>2. CASE t = Main /\ job = 0
  BY <1>2, ScriptOfNobody
<1>3. CASE t = Main /\ job # 0
  <2> DEFINE n == Job.runs
             f == FirstRemoval(Job.runs, Job.paramFirst)
  <2>1. /\ n \in Nat /\ f \in Firsts(n) /\ DOMAIN Script(Main) = 1..5 * n + 6
        /\ \A i \in 1..5 * n + 6 : Script(Main)[i] = TaskCall(n, f, i)
    BY <1>3, ScriptOfMain
  <2> HIDE DEF n, f
  <2>2. TaskCall(n, f, m) = <<"remove", k, j>> /\ TaskCall(n, f, l) = <<"remove", k, j>>
        /\ m \in 1..5 * n + 6 /\ l \in 1..5 * n + 6
    BY <1>3, <2>1
  <2>3. \A i \in 1..5 * n + 6 : \A x, y :
          TaskCall(n, f, i) = <<"remove", x, y>> => i = RemovedAt(n, f, x, y)
    BY <2>1, TaskRemoves
  <2> QED
    BY <2>2, <2>3
<1> QED
  BY <1>1, <1>2, <1>3 DEF Users

\* Removals come last.
LEMMA RemovesLast ==
    ASSUME JobOK, NEW t \in Users, NEW m \in DOMAIN Script(t), NEW l \in DOMAIN Script(t),
           Script(t)[m][1] # "remove", Script(t)[l][1] = "remove"
    PROVE  m < l
<1>1. CASE t \in Threads
  BY <1>1, ScriptOfThread
<1>2. CASE t = Main /\ job = 0
  BY <1>2, ScriptOfNobody
<1>3. CASE t = Main /\ job # 0
  <2> DEFINE n == Job.runs
             f == FirstRemoval(Job.runs, Job.paramFirst)
  <2>1. /\ n \in Nat /\ f \in Firsts(n) /\ DOMAIN Script(Main) = 1..5 * n + 6
        /\ \A i \in 1..5 * n + 6 : Script(Main)[i] = TaskCall(n, f, i)
    BY <1>3, ScriptOfMain
  <2> HIDE DEF n, f
  <2>2. /\ m > 3 * n + 4 => TaskCall(n, f, m)[1] = "remove"
        /\ l <= 3 * n + 4 => TaskCall(n, f, l)[1] # "remove"
        /\ m \in 1..5 * n + 6 /\ l \in 1..5 * n + 6
    BY <1>3, <2>1, TaskRemoves
  <2> QED
    BY <1>3, <2>1, <2>2
<1> QED
  BY <1>1, <1>2, <1>3 DEF Users

-----------------------------------------------------------------------------
(* What a thread has got.                                                  *)

IdLists == [Kinds -> Seq(Nat)]

\* Main, in the middle of its script: it adds a problem, adds an algorithm to it, and
\* initializes the problem.
LEMMA MiddleOfMain ==
    ASSUME JobOK, job # 0, NEW n, n = Job.runs,
           NEW m \in 3..3 * n + 2, NEW ids \in IdLists, GotBefore(Main, m, ids)
    PROVE  LET pro == Len(ids["pro"])
               alg == Len(ids["alg"])
           IN  /\ pro \in Nat /\ alg \in Nat
               /\ \/ pro = alg /\ m = 3 * alg + 3 /\ alg < n
                     /\ Script(Main)[m] = <<"add", "pro", 1>>
                  \/ pro = alg + 1 /\ m = 3 * alg + 4 /\ alg < n
                     /\ Script(Main)[m] = <<"add", "alg", 1>>
                  \/ pro = alg /\ m = 3 * alg + 2 /\ alg <= n
                     /\ Script(Main)[m] = <<"initialize", "pro", alg>>
<1> DEFINE pro == Len(ids["pro"])
           alg == Len(ids["alg"])
           f == FirstRemoval(Job.runs, Job.paramFirst)
<1>1. pro \in Nat /\ alg \in Nat
  BY DEF IdLists, Kinds
<1>2. /\ n \in Nat /\ f \in Firsts(n) /\ StartAt = 3 * n + 3
      /\ \A i \in 1..5 * n + 6 : Script(Main)[i] = TaskCall(n, f, i)
  BY ScriptOfMain
<1>3. \/ pro = alg /\ m = 3 * alg + 3
      \/ pro = alg + 1 /\ m = 3 * alg + 4
      \/ pro = alg /\ m = 3 * alg + 2
  <2>1. m \in 3..StartAt
    BY <1>2
  <2> QED
    BY <2>1 DEF GotBefore
<1> HIDE DEF pro, alg, f
<1>4. Script(Main)[m] = MiddleCall(m - 2)
  <2>1. m \in 1..5 * n + 6 /\ m # 1 /\ m # 2 /\ m <= 3 * n + 2
    BY <1>2
  <2> QED
    BY <1>2, <2>1 DEF TaskCall
<1>5. CASE pro = alg /\ m = 3 * alg + 3
  <2>1. m - 2 = 3 * alg + 1 /\ alg < n
    BY <1>1, <1>2, <1>5
  <2> QED
    BY <1>1, <1>4, <1>5, <2>1, MiddleIs DEF pro, alg
<1>6. CASE pro = alg + 1 /\ m = 3 * alg + 4
  <2>1. m - 2 = 3 * alg + 2 /\ alg < n
    BY <1>1, <1>2, <1>6
  <2> QED
    BY <1>1, <1>4, <1>6, <2>1, MiddleIs DEF pro, alg
<1>7. CASE pro = alg /\ m = 3 * alg + 2
  <2>1. m - 2 = 3 * alg /\ alg <= n
    BY <1>1, <1>2, <1>7
  <2> QED
    BY <1>1, <1>4, <1>7, <2>1, MiddleIs DEF pro, alg
<1> QED
  BY <1>3, <1>5, <1>6, <1>7

\* What Main has got outside of that.
LEMMA EndsOfMain ==
    ASSUME JobOK, job # 0, NEW n, n = Job.runs,
           NEW m \in 1..5 * n + 6, m <= 2 \/ m > 3 * n + 2
    PROVE  /\ m = 1 => Script(Main)[m] = <<"add", "param", 1>>
           /\ m = 2 => Script(Main)[m] = <<"add", "rcr", 1>>
           /\ m = 3 * n + 3 => Script(Main)[m] = <<"start", "alg", 1>>
           /\ m = 3 * n + 4 => Script(Main)[m] = <<"join", "alg", 1>>
           /\ m > 3 * n + 4 => Script(Main)[m][1] = "remove"
<1> DEFINE f == FirstRemoval(Job.runs, Job.paramFirst)
<1>1. /\ n \in Nat /\ f \in Firsts(n) /\ StartAt = 3 * n + 3
      /\ \A i \in 1..5 * n + 6 : Script(Main)[i] = TaskCall(n, f, i)
  BY ScriptOfMain
<1> HIDE DEF f
<1>2. m > 3 * n + 4 => Script(Main)[m][1] = "remove"
  BY <1>1, TaskRemoves
<1>3. f >= 3 * n + 5
  BY <1>1 DEF Firsts
<1>4. ~(m > 3 * n + 4) => TaskCall(n, f, m) = IF m = 1 THEN <<"add", "param", 1>>
                                          ELSE IF m = 2 THEN <<"add", "rcr", 1>>
                                          ELSE IF m = 3 * n + 3 THEN <<"start", "alg", 1>>
                                          ELSE <<"join", "alg", 1>>
  BY <1>1, <1>3 DEF TaskCall
<1> QED
  BY <1>1, <1>2, <1>4

\* An add gives a thread one more.
LEMMA GotAdded ==
    ASSUME JobOK, NEW t \in Users, NEW m \in DOMAIN Script(t), NEW ids \in IdLists,
           GotBefore(t, m, ids), NEW k \in Kinds, Script(t)[m] = <<"add", k, 1>>, NEW i \in Nat
    PROVE  GotBefore(t, m + 1, [ids EXCEPT ![k] = Append(@, i)])
<1> DEFINE new == [ids EXCEPT ![k] = Append(@, i)]
<1>1. /\ \A l \in Kinds : ids[l] \in Seq(Nat) /\ Len(ids[l]) \in Nat
      /\ \A l \in Kinds : l # k => new[l] = ids[l]
      /\ new[k] = Append(ids[k], i) /\ Len(new[k]) = Len(ids[k]) + 1
  BY DEF IdLists
<1> HIDE DEF new
<1>0. Script(t)[m][1] = "add" /\ Script(t)[m][2] = k
  OBVIOUS
<1>2. CASE t \in Threads
  <2>1. t # Main
    BY <1>2, ThreadsAssumption
  <2>2. \/ m = 1 /\ k = "param"
        \/ m = 2 /\ k = "pro"
        \/ m = 3 /\ k = "alg"
    <3>1. m = 1 \/ m = 2 \/ m = 3 \/ m = 4 \/ m = 5 \/ m = 6 \/ m = 7
      BY <1>2, ScriptOfThread
    <3>2. /\ Script(t)[1][2] = "param" /\ Script(t)[2][2] = "pro" /\ Script(t)[3][2] = "alg"
          /\ Script(t)[4][1] # "add" /\ Script(t)[5][1] # "add" /\ Script(t)[6][1] # "add"
          /\ Script(t)[7][1] # "add"
      BY <1>2, ScriptOfThread
    <3> QED
      BY <1>0, <3>1, <3>2
  <2> QED
    BY <1>1, <2>1, <2>2 DEF GotBefore, Kinds, new
<1>3. CASE t = Main /\ job = 0
  BY <1>3, ScriptOfNobody
<1>4. CASE t = Main /\ job # 0
  <2> DEFINE n == Job.runs
  <2>1. n \in Nat /\ StartAt = 3 * n + 3 /\ m \in 1..5 * n + 6
    BY <1>4, ScriptOfMain
  <2> HIDE DEF n
  <2>2. CASE m \in 3..3 * n + 2
    <3>1. LET pro == Len(ids["pro"])
              alg == Len(ids["alg"])
           IN  \/ pro = alg /\ m = 3 * alg + 3 /\ alg < n /\ k = "pro"
               \/ pro = alg + 1 /\ m = 3 * alg + 4 /\ alg < n /\ k = "alg"
      BY <1>4, <2>2, MiddleOfMain DEF n
    <3>2. /\ m > 2 /\ m <= 3 * n + 2 /\ m + 1 \in 3..StartAt
          /\ k \notin {"rnd", "param", "rcr"}
      BY <2>1, <2>2, <3>1
    <3>3. /\ new["rnd"] = ids["rnd"] /\ new["param"] = ids["param"] /\ new["rcr"] = ids["rcr"]
          /\ k = "pro" => Len(new["pro"]) = Len(ids["pro"]) + 1 /\ new["alg"] = ids["alg"]
          /\ k = "alg" => Len(new["alg"]) = Len(ids["alg"]) + 1 /\ new["pro"] = ids["pro"]
          /\ Len(ids["pro"]) \in Nat /\ Len(ids["alg"]) \in Nat
      BY <1>1, <3>2 DEF Kinds
    <3>4. /\ ids["rnd"] = <<>> /\ Len(ids["param"]) = 1 /\ Len(ids["rcr"]) = 1
      BY <1>4, <2>2, <3>2 DEF GotBefore
    <3>5. m + 1 > 2 /\ m + 1 > 1 /\ ~(m + 1 > StartAt)
      BY <2>1, <3>2
    <3>7. CASE k = "pro"
      <4>1. Len(ids["pro"]) = Len(ids["alg"]) /\ m = 3 * Len(ids["alg"]) + 3
        BY <3>1, <3>7
      <4>2. Len(new["pro"]) = Len(new["alg"]) + 1 /\ m + 1 = 3 * Len(new["alg"]) + 4
        BY <3>3, <3>7, <4>1
      <4> QED
        BY <1>4, <2>1, <3>2, <3>3, <3>4, <3>5, <4>2 DEF GotBefore, new
    <3>8. CASE k = "alg"
      <4>1. Len(ids["pro"]) = Len(ids["alg"]) + 1 /\ m = 3 * Len(ids["alg"]) + 4
        BY <3>1, <3>8
      <4>2. Len(new["pro"]) = Len(new["alg"]) /\ m + 1 = 3 * Len(new["alg"]) + 2
        BY <3>3, <3>8, <4>1
      <4> QED
        BY <1>4, <2>1, <3>2, <3>3, <3>4, <3>5, <4>2 DEF GotBefore, new
    <3> QED
      BY <3>1, <3>7, <3>8
  <2>3. CASE m \notin 3..3 * n + 2
    <3>1. (m = 1 /\ k = "param") \/ (m = 2 /\ k = "rcr")
      BY <1>0, <1>4, <2>1, <2>3, EndsOfMain DEF n
    <3> QED
      BY <1>1, <1>4, <2>1, <3>1 DEF GotBefore, Kinds, new
  <2> QED
    BY <2>2, <2>3
<1> QED
  BY <1>2, <1>3, <1>4 DEF Users

\* Any other call leaves it at that.
LEMMA GotKept ==
    ASSUME JobOK, NEW t \in Users, NEW m \in DOMAIN Script(t), NEW ids \in IdLists,
           GotBefore(t, m, ids), Script(t)[m][1] # "add"
    PROVE  GotBefore(t, m + 1, ids)
<1>1. CASE t \in Threads
  <2>1. t # Main
    BY <1>1, ThreadsAssumption
  <2>2. m \in Nat /\ m > 3
    <3>1. m = 1 \/ m = 2 \/ m = 3 \/ m = 4 \/ m = 5 \/ m = 6 \/ m = 7
      BY <1>1, ScriptOfThread
    <3> QED
      BY <1>1, <3>1, ScriptOfThread
  <2>3. m > 1 /\ m > 2 /\ m + 1 > 1 /\ m + 1 > 2 /\ m + 1 > 3
    BY <2>2
  <2> QED
    BY <2>1, <2>2, <2>3 DEF GotBefore
<1>2. CASE t = Main /\ job = 0
  BY <1>2, ScriptOfNobody
<1>3. CASE t = Main /\ job # 0
  <2> DEFINE n == Job.runs
             pro == Len(ids["pro"])
             alg == Len(ids["alg"])
  <2>1. n \in Nat /\ StartAt = 3 * n + 3 /\ m \in 1..5 * n + 6
    BY <1>3, ScriptOfMain
  <2>2. pro \in Nat /\ alg \in Nat
    BY DEF IdLists, Kinds
  <2> HIDE DEF n, pro, alg
  <2>3. CASE m \in 3..3 * n + 2
    <3>1. pro = alg /\ m = 3 * alg + 2 /\ alg <= n
      BY <1>3, <2>3, MiddleOfMain DEF n, pro, alg
    <3>2. /\ m > 2 /\ m + 1 > 2 /\ m + 1 > 1 /\ m > 1 /\ ~(m + 1 <= 2) /\ ~(m + 1 > StartAt)
          /\ m + 1 = 3 * alg + 3
      BY <2>1, <2>2, <2>3, <3>1
    <3> QED
      BY <1>3, <3>1, <3>2 DEF GotBefore, pro, alg
  <2>4. CASE m = 3 * n + 3
    <3>1. /\ m > 2 /\ m > 1 /\ m \in 3..StartAt /\ m + 1 > 2 /\ m + 1 > 1 /\ ~(m + 1 <= 2)
          /\ m + 1 > StartAt /\ m + 1 \notin 3..StartAt
      BY <2>1, <2>4
    <3>2. \/ pro = alg /\ m = 3 * alg + 3
          \/ pro = alg + 1 /\ m = 3 * alg + 4
          \/ pro = alg /\ m = 3 * alg + 2
      BY <1>3, <3>1 DEF GotBefore, pro, alg
    <3>3. pro = n /\ alg = n
      BY <2>1, <2>2, <2>4, <3>2
    <3> QED
      BY <1>3, <3>1, <3>3 DEF GotBefore, pro, alg, n
  <2>5. CASE m > 3 * n + 3
    <3>1. /\ m > 2 /\ m > 1 /\ m > StartAt /\ m + 1 > 2 /\ m + 1 > 1 /\ ~(m + 1 <= 2)
          /\ m + 1 > StartAt /\ m + 1 \notin 3..StartAt
      BY <2>1, <2>5
    <3> QED
      BY <1>3, <3>1 DEF GotBefore, pro, alg
  <2>6. CASE m <= 2
    BY <1>3, <2>1, <2>6, EndsOfMain DEF n
  <2> QED
    BY <2>1, <2>3, <2>4, <2>5, <2>6
<1> QED
  BY <1>1, <1>2, <1>3 DEF Users

\* What a thread has got its script removes.
LEMMA GotIsRemoved ==
    ASSUME JobOK, NEW t \in Users, NEW m \in DOMAIN Script(t), NEW ids \in IdLists,
           GotBefore(t, m, ids), NEW k \in Kinds, NEW j \in DOMAIN ids[k]
    PROVE  \E l \in DOMAIN Script(t) : Script(t)[l] = <<"remove", k, j>>
<1>1. j \in 1..Len(ids[k]) /\ \A x \in Kinds : Len(ids[x]) \in Nat
  BY DEF IdLists
<1>2. k # "rnd"
  BY <1>1 DEF GotBefore, IdLists
<1>3. CASE t \in Threads
  <2>1. t # Main
    BY <1>3, ThreadsAssumption
  <2>2. k # "rcr" /\ Len(ids[k]) <= 1
    BY <1>1, <1>2, <2>1 DEF GotBefore, Kinds
  <2>3. j = 1
    BY <1>1, <2>2
  <2>4. 5 \in DOMAIN Script(t) /\ 6 \in DOMAIN Script(t) /\ 7 \in DOMAIN Script(t)
    BY <1>3, ScriptOfThread
  <2>5. /\ Script(t)[5] = <<"remove", "alg", j>> /\ Script(t)[6] = <<"remove", "pro", j>>
        /\ Script(t)[7] = <<"remove", "param", j>>
    BY <1>3, <2>3, ScriptOfThread
  <2>6. k = "alg" \/ k = "pro" \/ k = "param"
    BY <1>2, <2>2 DEF Kinds
  <2> QED
    BY <2>4, <2>5, <2>6
<1>4. CASE t = Main /\ job = 0
  BY <1>4, ScriptOfNobody
<1>5. CASE t = Main /\ job # 0
  <2> DEFINE n == Job.runs
             f == FirstRemoval(Job.runs, Job.paramFirst)
  <2>1. /\ n \in Nat /\ StartAt = 3 * n + 3 /\ m \in 1..5 * n + 6 /\ f \in Firsts(n)
        /\ DOMAIN Script(Main) = 1..5 * n + 6
        /\ \A i \in 1..5 * n + 6 : Script(Main)[i] = TaskCall(n, f, i)
    BY <1>5, ScriptOfMain
  <2> HIDE DEF n, f
  <2>2. Len(ids["pro"]) <= n /\ Len(ids["alg"]) <= n
    <3>1. CASE m \in 3..3 * n + 2
      <4>1. \/ Len(ids["pro"]) = Len(ids["alg"]) /\ Len(ids["alg"]) < n
            \/ Len(ids["pro"]) = Len(ids["alg"]) + 1 /\ Len(ids["alg"]) < n
            \/ Len(ids["pro"]) = Len(ids["alg"]) /\ Len(ids["alg"]) <= n
        BY <1>5, <3>1, MiddleOfMain DEF n
      <4>2. Len(ids["pro"]) \in Nat /\ Len(ids["alg"]) \in Nat
        BY <1>1 DEF Kinds
      <4> QED
        BY <2>1, <4>1, <4>2
    <3>2. CASE m = 3 * n + 3
      <4>1. m \in 3..StartAt
        BY <2>1, <3>2
      <4>2. \/ Len(ids["pro"]) = Len(ids["alg"]) /\ m = 3 * Len(ids["alg"]) + 3
            \/ Len(ids["pro"]) = Len(ids["alg"]) + 1 /\ m = 3 * Len(ids["alg"]) + 4
            \/ Len(ids["pro"]) = Len(ids["alg"]) /\ m = 3 * Len(ids["alg"]) + 2
        BY <1>5, <4>1 DEF GotBefore
      <4>3. Len(ids["pro"]) \in Nat /\ Len(ids["alg"]) \in Nat
        BY <1>1 DEF Kinds
      <4> QED
        BY <2>1, <3>2, <4>2, <4>3
    <3>3. CASE m > 3 * n + 3
      <4>1. m > StartAt
        BY <2>1, <3>3
      <4>2. Len(ids["pro"]) = n /\ Len(ids["alg"]) = n
        BY <1>5, <4>1 DEF GotBefore, n
      <4> QED
        BY <2>1, <4>2
    <3>4. CASE m <= 2
      <4>1. Len(ids["pro"]) = 0 /\ Len(ids["alg"]) = 0
        BY <1>5, <3>4 DEF GotBefore
      <4> QED
        BY <2>1, <4>1
    <3> QED
      BY <2>1, <3>1, <3>2, <3>3, <3>4
  <2>3. Len(ids["param"]) <= 1 /\ Len(ids["rcr"]) <= 1
    BY <1>1, <1>5 DEF GotBefore, Kinds
  <2>4. HasRemoval(n, k, j)
    <3>1. /\ Len(ids["param"]) \in Nat /\ Len(ids["rcr"]) \in Nat
          /\ Len(ids["pro"]) \in Nat /\ Len(ids["alg"]) \in Nat
      BY <1>1 DEF Kinds
    <3>2. k = "alg" \/ k = "pro" \/ k = "param" \/ k = "rcr"
      BY <1>2 DEF Kinds
    <3> QED
      BY <1>1, <2>1, <2>2, <2>3, <3>1, <3>2 DEF HasRemoval
  <2>5. /\ RemovedAt(n, f, k, j) \in 3 * n + 5..5 * n + 6
        /\ TaskCall(n, f, RemovedAt(n, f, k, j)) = <<"remove", k, j>>
    BY <2>1, <2>4, TaskRemoved
  <2>6. RemovedAt(n, f, k, j) \in 1..5 * n + 6
    BY <2>1, <2>5
  <2> QED
    BY <1>5, <2>1, <2>5, <2>6
<1> QED
  BY <1>3, <1>4, <1>5 DEF Users

\* Until it removes something it has to remove all it has got.
LEMMA AllToRemove ==
    ASSUME JobOK, NEW t \in Users, at[t] \in DOMAIN Script(t), own[t] \in IdLists,
           GotBefore(t, at[t], own[t]), Script(t)[at[t]][1] # "remove",
           NEW k \in Kinds
    PROVE  ToRemove(t, k) = DOMAIN own[t][k]
<1>1. ASSUME NEW j \in DOMAIN own[t][k]
      PROVE  j \in ToRemove(t, k)
  <2>1. PICK l \in DOMAIN Script(t) : Script(t)[l] = <<"remove", k, j>>
    BY GotIsRemoved
  <2>2. Script(t)[l][1] = "remove"
    BY <2>1
  <2>3. at[t] < l
    BY <2>2, RemovesLast
  <2>4. at[t] \in Nat /\ l \in Nat
    BY ScriptType
  <2> QED
    BY <2>1, <2>3, <2>4 DEF ToRemove
<1> QED
  BY <1>1 DEF ToRemove

\* What its script removes it has got.
LEMMA RemovedIsGot ==
    ASSUME JobOK, NEW t \in Users, NEW m \in DOMAIN Script(t), NEW ids \in IdLists,
           GotBefore(t, m, ids), NEW k, NEW j, Script(t)[m] = <<"remove", k, j>>
    PROVE  k \in {"alg", "pro", "rcr", "param"} /\ j \in DOMAIN ids[k] /\ j \in Nat
<1>1. \A x \in Kinds : DOMAIN ids[x] = 1..Len(ids[x])
  BY DEF IdLists
<1>0. Script(t)[m][1] = "remove" /\ Script(t)[m][2] = k /\ Script(t)[m][3] = j
  OBVIOUS
<1>2. CASE t \in Threads
  <2>1. t # Main
    BY <1>2, ThreadsAssumption
  <2>2. j = 1 /\ k \in {"alg", "pro", "param"} /\ m \in Nat /\ m > 4
    <3>1. m = 1 \/ m = 2 \/ m = 3 \/ m = 4 \/ m = 5 \/ m = 6 \/ m = 7
      BY <1>2, ScriptOfThread
    <3> QED
      BY <1>0, <1>2, <3>1, ScriptOfThread
  <2>3. m > 1 /\ m > 2 /\ m > 3
    BY <2>2
  <2> QED
    BY <1>1, <2>1, <2>2, <2>3 DEF GotBefore, Kinds
<1>3. CASE t = Main /\ job = 0
  BY <1>3, ScriptOfNobody
<1>4. CASE t = Main /\ job # 0
  <2> DEFINE n == Job.runs
             f == FirstRemoval(Job.runs, Job.paramFirst)
  <2>1. /\ n \in Nat /\ StartAt = 3 * n + 3 /\ m \in 1..5 * n + 6 /\ f \in Firsts(n)
        /\ \A i \in 1..5 * n + 6 : Script(Main)[i] = TaskCall(n, f, i)
    BY <1>4, ScriptOfMain
  <2> HIDE DEF n, f
  <2>2. TaskCall(n, f, m) = <<"remove", k, j>> /\ TaskCall(n, f, m)[1] = "remove"
    BY <1>4, <2>1
  <2>3. HasRemoval(n, k, j) /\ m > 3 * n + 4
    BY <2>1, <2>2, TaskRemoves
  <2>4. m > 1 /\ m > 2 /\ m > StartAt
    BY <2>1, <2>3
  <2>5. /\ Len(ids["param"]) = 1 /\ Len(ids["rcr"]) = 1
        /\ Len(ids["pro"]) = n /\ Len(ids["alg"]) = n
    BY <1>4, <2>4 DEF GotBefore, n
  <2> QED
    BY <1>1, <2>1, <2>3, <2>5 DEF HasRemoval, Kinds
<1> QED
  BY <1>2, <1>3, <1>4 DEF Users

\* What the other calls rely on.
LEMMA ThreadNeeds ==
    ASSUME NEW t \in Threads, NEW m \in DOMAIN Script(t), NEW ids \in IdLists,
           GotBefore(t, m, ids)
    PROVE  /\ Script(t)[m][1] \notin {"initialize", "start", "join"}
           /\ Script(t)[m][1] = "add" => Script(t)[m][2] # "rcr"
           /\ m > 1 => Len(ids["param"]) = 1
           /\ Script(t)[m] = <<"add", "pro", 1>> => m > 1
           /\ Script(t)[m] = <<"add", "alg", 1>> =>
                m > 1 /\ Len(ids["pro"]) = 1 /\ Len(ids["alg"]) = 0
           /\ Script(t)[m] = <<"run", "alg", 1>> =>
                m > 1 /\ Len(ids["pro"]) = 1 /\ Len(ids["alg"]) = 1
<1>1. t # Main
  BY ThreadsAssumption
<1>2. \/ m = 1 /\ Script(t)[m] = <<"add", "param", 1>>
      \/ m = 2 /\ Script(t)[m] = <<"add", "pro", 1>>
      \/ m = 3 /\ Script(t)[m] = <<"add", "alg", 1>>
      \/ m = 4 /\ Script(t)[m] = <<"run", "alg", 1>>
      \/ m \in {5, 6, 7} /\ Script(t)[m][1] = "remove"
  <2>1. m = 1 \/ m = 2 \/ m = 3 \/ m = 4 \/ m = 5 \/ m = 6 \/ m = 7
    BY ScriptOfThread
  <2>2. /\ Script(t)[5][1] = "remove" /\ Script(t)[6][1] = "remove" /\ Script(t)[7][1] = "remove"
        /\ Script(t)[1] = <<"add", "param", 1>> /\ Script(t)[2] = <<"add", "pro", 1>>
        /\ Script(t)[3] = <<"add", "alg", 1>> /\ Script(t)[4] = <<"run", "alg", 1>>
    BY ScriptOfThread
  <2> QED
    BY <2>1, <2>2
<1>3. m > 1 => Len(ids["param"]) = 1
  BY <1>1 DEF GotBefore
<1>4. m = 3 => Len(ids["pro"]) = 1 /\ Len(ids["alg"]) = 0
  BY <1>1 DEF GotBefore
<1>5. m = 4 => Len(ids["pro"]) = 1 /\ Len(ids["alg"]) = 1
  BY <1>1 DEF GotBefore
<1> QED
  BY <1>2, <1>3, <1>4, <1>5

LEMMA MainNeeds ==
    ASSUME JobOK, NEW m \in DOMAIN Script(Main), NEW ids \in IdLists, GotBefore(Main, m, ids)
    PROVE  /\ job # 0 /\ m \in Nat /\ StartAt \in Nat /\ StartAt > 2
           /\ m > 1 => Len(ids["param"]) = 1
           /\ Script(Main)[m][1] # "run"
           /\ Script(Main)[m] \in {<<"add", "pro", 1>>, <<"add", "rcr", 1>>, <<"add", "alg", 1>>} => m > 1
           /\ Script(Main)[m] = <<"add", "alg", 1>> => Len(ids["pro"]) = Len(ids["alg"]) + 1
           /\ \A j : Script(Main)[m] = <<"initialize", "pro", j>> =>
                m > 1 /\ j = Len(ids["pro"]) /\ j \in DOMAIN ids["pro"]
           /\ Script(Main)[m] = <<"start", "alg", 1>> <=> m = StartAt
           /\ Script(Main)[m] = <<"join", "alg", 1>> <=> m = StartAt + 1
<1> DEFINE n == Job.runs
<1>1. job # 0
  BY ScriptOfNobody
<1>2. n \in Nat /\ StartAt = 3 * n + 3 /\ m \in 1..5 * n + 6
  BY <1>1, ScriptOfMain
<1> HIDE DEF n
<1>3. m > 1 => Len(ids["param"]) = 1
  BY DEF GotBefore
<1>4. CASE m \in 3..3 * n + 2
  <2>1. LET pro == Len(ids["pro"])
            alg == Len(ids["alg"])
        IN  /\ pro \in Nat /\ alg \in Nat
            /\ \/ Script(Main)[m] = <<"add", "pro", 1>>
               \/ pro = alg + 1 /\ Script(Main)[m] = <<"add", "alg", 1>>
               \/ pro = alg /\ m = 3 * alg + 2 /\ Script(Main)[m] = <<"initialize", "pro", alg>>
    BY <1>1, <1>4, MiddleOfMain DEF n
  <2>2. m > 1 /\ m # StartAt /\ m # StartAt + 1 /\ m >= 3
    BY <1>2, <1>4
  <2>3. DOMAIN ids["pro"] = 1..Len(ids["pro"])
    BY DEF IdLists, Kinds
  <2>4. CASE Script(Main)[m] = <<"add", "pro", 1>>
    BY <1>1, <1>2, <1>3, <2>2, <2>4
  <2>5. CASE Len(ids["pro"]) = Len(ids["alg"]) + 1 /\ Script(Main)[m] = <<"add", "alg", 1>>
    BY <1>1, <1>2, <1>3, <2>2, <2>5
  <2>6. CASE /\ Len(ids["pro"]) = Len(ids["alg"]) /\ m = 3 * Len(ids["alg"]) + 2
             /\ Script(Main)[m] = <<"initialize", "pro", Len(ids["alg"])>>
    <3>1. Len(ids["alg"]) \in 1..Len(ids["pro"])
      BY <2>1, <2>2, <2>6
    <3> QED
      BY <1>1, <1>2, <1>3, <2>2, <2>3, <2>6, <3>1
  <2> QED
    BY <2>1, <2>4, <2>5, <2>6
<1>5. CASE m \notin 3..3 * n + 2
  <2>1. m <= 2 \/ m > 3 * n + 2
    BY <1>2, <1>5
  <2>2. /\ m = 1 => Script(Main)[m] = <<"add", "param", 1>>
        /\ m = 2 => Script(Main)[m] = <<"add", "rcr", 1>>
        /\ m = 3 * n + 3 => Script(Main)[m] = <<"start", "alg", 1>>
        /\ m = 3 * n + 4 => Script(Main)[m] = <<"join", "alg", 1>>
        /\ m > 3 * n + 4 => Script(Main)[m][1] = "remove"
    BY <1>1, <1>2, <2>1, EndsOfMain DEF n
  <2>3. \/ m = 1 /\ Script(Main)[m] = <<"add", "param", 1>>
        \/ m = 2 /\ Script(Main)[m] = <<"add", "rcr", 1>>
        \/ m = StartAt /\ Script(Main)[m] = <<"start", "alg", 1>>
        \/ m = StartAt + 1 /\ Script(Main)[m] = <<"join", "alg", 1>>
        \/ m > StartAt + 1 /\ Script(Main)[m][1] = "remove"
    <3>1. m = 1 \/ m = 2 \/ m = 3 * n + 3 \/ m = 3 * n + 4 \/ m > 3 * n + 4
      BY <1>2, <2>1
    <3>2. StartAt + 1 = 3 * n + 4 /\ StartAt = 3 * n + 3
      BY <1>2
    <3> QED
      BY <2>2, <3>1, <3>2
  <2>4. StartAt > 2
    BY <1>2
  <2> QED
    BY <1>1, <1>2, <1>3, <2>3, <2>4
<1> QED
  BY <1>4, <1>5

-----------------------------------------------------------------------------
(* The registry.                                                           *)

LEMMA SlotFacts ==
    ASSUME TypeOK, NEW k \in Kinds
    PROVE  /\ slots[k] \in Seq(Objects \cup {NULL}) /\ Len(slots[k]) \in Nat
           /\ occupied[k] \in Seq(0..Modulus - 1) /\ Len(occupied[k]) = Len(slots[k])
           /\ DOMAIN slots[k] = Ids(k) /\ DOMAIN occupied[k] = Ids(k)
           /\ shelved[k] \in Seq(Nat) /\ DOMAIN shelved[k] = 1..Len(shelved[k])
           /\ \A p \in DOMAIN shelved[k] : shelved[k][p] \in Ids(k)
           /\ Ids(k) \subseteq Nat \ {0}
           /\ \A i \in Ids(k) : slots[k][i] # NULL => slots[k][i] \in Objects
  BY DEF TypeOK, Ids

\* No thread holds a mutex for id i.
Untouched(k, i) == \A t \in Users : ~WorksOn(t, <<k, i>>)

\* A new id is nobody's.
LEMMA NewIdIsFree ==
    ASSUME TypeOK, ShelvedAreFree, NEW k \in Kinds
    PROVE  /\ NewId(k) \in Nat \ {0}
           /\ NewId(k) \in Ids(k) =>
                shelved[k] # <<>> /\ slots[k][NewId(k)] = NULL /\ Untouched(k, NewId(k))
           /\ NewId(k) \notin Ids(k) => shelved[k] = <<>> /\ NewId(k) = Len(slots[k]) + 1
<1>1. CASE shelved[k] = <<>>
  BY <1>1, SlotFacts DEF NewId, Ids
<1>2. CASE shelved[k] # <<>>
  <2>1. 1 \in DOMAIN shelved[k] /\ NewId(k) = shelved[k][1]
    BY <1>2, SlotFacts DEF NewId
  <2>2. NewId(k) \in Ids(k) /\ OnShelf(k, NewId(k))
    BY <2>1, SlotFacts DEF OnShelf
  <2>3. slots[k][NewId(k)] = NULL /\ Untouched(k, NewId(k))
    BY <2>2 DEF ShelvedAreFree, Untouched
  <2> QED
    BY <1>2, <2>2, <2>3, SlotFacts
<1> QED
  BY <1>1, <1>2

\* A table with a new object has it under the new id, and the others as before.
PlacedRight(table, new) ==
    /\ Placed(table, new) \in [Kinds -> Seq(Objects \cup {NULL})]
    /\ \A k \in Kinds \cap DOMAIN new :
         /\ DOMAIN Placed(table, new)[k] = Ids(k) \cup {NewId(k)}
         /\ Len(Placed(table, new)[k]) = Len(slots[k]) + (IF shelved[k] = <<>> THEN 1 ELSE 0)
         /\ Placed(table, new)[k][NewId(k)] = new[k]
         /\ \A i \in Ids(k) : i # NewId(k) => Placed(table, new)[k][i] = table[k][i]
    /\ \A k \in Kinds \ DOMAIN new : Placed(table, new)[k] = table[k]

LEMMA PlacedAt ==
    ASSUME TypeOK, ShelvedAreFree, NEW table, table \in [Kinds -> Seq(Objects \cup {NULL})],
           \A k \in Kinds : Len(table[k]) = Len(slots[k]),
           NEW new, \A k \in DOMAIN new : new[k] \in Objects
    PROVE  PlacedRight(table, new)
<1>1. ASSUME NEW k \in Kinds, k \in DOMAIN new
      PROVE  /\ Placed(table, new)[k] \in Seq(Objects \cup {NULL})
             /\ DOMAIN Placed(table, new)[k] = Ids(k) \cup {NewId(k)}
             /\ Len(Placed(table, new)[k]) = Len(slots[k]) + (IF shelved[k] = <<>> THEN 1 ELSE 0)
             /\ Placed(table, new)[k][NewId(k)] = new[k]
             /\ \A i \in Ids(k) : i # NewId(k) => Placed(table, new)[k][i] = table[k][i]
  <2>1. table[k] \in Seq(Objects \cup {NULL}) /\ Len(table[k]) = Len(slots[k]) /\ Len(slots[k]) \in Nat
    BY SlotFacts
  <2>2. new[k] \in Objects \cup {NULL}
    BY <1>1
  <2>3. CASE shelved[k] = <<>>
    <3>1. Placed(table, new)[k] = Append(table[k], new[k])
      BY <1>1, <2>3 DEF Placed
    <3>2. NewId(k) = Len(slots[k]) + 1 /\ Ids(k) = 1..Len(slots[k])
      BY <2>3 DEF NewId, Ids
    <3> QED
      BY <2>1, <2>2, <2>3, <3>1, <3>2
  <2>4. CASE shelved[k] # <<>>
    <3>1. Placed(table, new)[k] = [table[k] EXCEPT ![NewId(k)] = new[k]]
      BY <1>1, <2>4 DEF Placed
    <3>2. NewId(k) \in Ids(k) /\ Ids(k) = 1..Len(slots[k])
      BY <2>4, NewIdIsFree DEF Ids
    <3> QED
      BY <2>1, <2>2, <2>4, <3>1, <3>2
  <2> QED
    BY <2>3, <2>4
<1>2. ASSUME NEW k \in Kinds, k \notin DOMAIN new
      PROVE  Placed(table, new)[k] = table[k]
  BY <1>2 DEF Placed
<1>3. \A k \in Kinds : Placed(table, new)[k] \in Seq(Objects \cup {NULL})
  BY <1>1, <1>2
<1>4. Placed(table, new) \in [Kinds -> Seq(Objects \cup {NULL})]
  BY <1>3 DEF Placed
<1> QED
  BY <1>1, <1>2, <1>4 DEF PlacedRight

\* Their ids leave the shelf, and the counts grow with the tables.
LEMMA TakeEffect ==
    ASSUME TypeOK, ShelvedAreFree, NEW kinds, Take(kinds)
    PROVE  /\ occupied' \in [Kinds -> Seq(0..Modulus - 1)] /\ shelved' \in [Kinds -> Seq(Nat)]
           /\ \A k \in Kinds \cap kinds :
                /\ Len(occupied'[k]) = Len(slots[k]) + (IF shelved[k] = <<>> THEN 1 ELSE 0)
                /\ \A p \in DOMAIN shelved'[k] :
                     shelved'[k][p] \in Ids(k) /\ shelved'[k][p] # NewId(k)
                /\ \A p, q \in DOMAIN shelved'[k] : shelved'[k][p] = shelved'[k][q] => p = q
                /\ \A i \in Ids(k) : i # NewId(k) =>
                     ((\E p \in DOMAIN shelved'[k] : shelved'[k][p] = i) <=> OnShelf(k, i))
           /\ \A k \in Kinds \ kinds : occupied'[k] = occupied[k] /\ shelved'[k] = shelved[k]
<1>1. /\ occupied' = [k \in Kinds |->
           IF k \in kinds /\ shelved[k] = <<>> THEN Append(occupied[k], 0) ELSE occupied[k]]
      /\ shelved' = [k \in Kinds |->
           IF k \in kinds /\ shelved[k] # <<>> THEN Tail(shelved[k]) ELSE shelved[k]]
  BY DEF Take, Unshelved
<1>2. 0 \in 0..Modulus - 1
  BY NumbersAssumption
<1>3. ASSUME NEW k \in Kinds
      PROVE  occupied'[k] \in Seq(0..Modulus - 1) /\ shelved'[k] \in Seq(Nat)
  <2>1. occupied[k] \in Seq(0..Modulus - 1) /\ shelved[k] \in Seq(Nat)
    BY SlotFacts
  <2>2. /\ occupied'[k] \in {Append(occupied[k], 0), occupied[k]}
        /\ shelved'[k] = shelved[k] \/ (shelved'[k] = Tail(shelved[k]) /\ shelved[k] # <<>>)
    BY <1>1
  <2>3. Append(occupied[k], 0) \in Seq(0..Modulus - 1)
    BY <1>2, <2>1
  <2>4. shelved[k] # <<>> => Tail(shelved[k]) \in Seq(Nat)
    BY <2>1
  <2> QED
    BY <2>1, <2>2, <2>3, <2>4
<1>4. ASSUME NEW k \in Kinds, k \in kinds
      PROVE  /\ Len(occupied'[k]) = Len(slots[k]) + (IF shelved[k] = <<>> THEN 1 ELSE 0)
             /\ \A p \in DOMAIN shelved'[k] :
                  shelved'[k][p] \in Ids(k) /\ shelved'[k][p] # NewId(k)
             /\ \A p, q \in DOMAIN shelved'[k] : shelved'[k][p] = shelved'[k][q] => p = q
             /\ \A i \in Ids(k) : i # NewId(k) =>
                  ((\E p \in DOMAIN shelved'[k] : shelved'[k][p] = i) <=> OnShelf(k, i))
  <2>1. CASE shelved[k] = <<>>
    <3>1. occupied'[k] = Append(occupied[k], 0) /\ shelved'[k] = <<>>
      BY <1>1, <1>4, <2>1
    <3>2. Len(occupied'[k]) = Len(slots[k]) + 1
      BY <1>2, <3>1, SlotFacts
    <3>3. \A i \in Ids(k) : ~OnShelf(k, i)
      BY <2>1 DEF OnShelf
    <3> QED
      BY <2>1, <3>1, <3>2, <3>3
  <2>2. CASE shelved[k] # <<>>
    <3>1. occupied'[k] = occupied[k] /\ shelved'[k] = Tail(shelved[k])
      BY <1>1, <1>4, <2>2
    <3> DEFINE s == shelved[k]
    <3>2. s \in Seq(Nat) /\ s # <<>> /\ \A p, q \in DOMAIN s : s[p] = s[q] => p = q
      BY <2>2, SlotFacts DEF ShelvedAreFree
    <3>3. NewId(k) = s[1]
      BY <2>2, <3>2 DEF NewId
    <3>4. \A p \in DOMAIN s : s[p] \in Ids(k)
      BY SlotFacts
    <3>5. \A i : OnShelf(k, i) <=> \E p \in DOMAIN s : s[p] = i
      BY DEF OnShelf
    <3> HIDE DEF s
    <3>6. /\ DOMAIN Tail(s) = 1..Len(s) - 1 /\ DOMAIN s = 1..Len(s) /\ Len(s) \in Nat \ {0}
          /\ \A p \in 1..Len(s) - 1 : Tail(s)[p] = s[p + 1] /\ p + 1 \in DOMAIN s /\ p + 1 # 1
      BY <3>2
    <3>7. \A p \in DOMAIN Tail(s) : Tail(s)[p] \in Ids(k) /\ Tail(s)[p] # NewId(k)
      BY <3>2, <3>3, <3>4, <3>6
    <3>8. \A p, q \in DOMAIN Tail(s) : Tail(s)[p] = Tail(s)[q] => p = q
      BY <3>2, <3>6
    <3>9. ASSUME NEW i, i # NewId(k)
          PROVE  (\E p \in DOMAIN Tail(s) : Tail(s)[p] = i) <=> \E p \in DOMAIN s : s[p] = i
      <4>1. ASSUME NEW p \in DOMAIN s, s[p] = i
            PROVE  \E q \in DOMAIN Tail(s) : Tail(s)[q] = i
        <5>1. p # 1 /\ p \in 1..Len(s)
          BY <3>3, <3>6, <3>9, <4>1
        <5>2. p - 1 \in 1..Len(s) - 1 /\ (p - 1) + 1 = p
          BY <3>6, <5>1
        <5> QED
          BY <3>6, <4>1, <5>2
      <4> QED
        BY <3>6, <4>1
    <3>10. Len(occupied'[k]) = Len(slots[k]) + 0
      BY <3>1, SlotFacts
    <3> QED
      BY <2>2, <3>1, <3>5, <3>7, <3>8, <3>9, <3>10 DEF s
  <2> QED
    BY <2>1, <2>2
<1>5. \A k \in Kinds \ kinds : occupied'[k] = occupied[k] /\ shelved'[k] = shelved[k]
  BY <1>1
<1>6. occupied' \in [Kinds -> Seq(0..Modulus - 1)] /\ shelved' \in [Kinds -> Seq(Nat)]
  BY <1>1, <1>3
<1> QED
  BY <1>4, <1>5, <1>6

\* An id goes on the shelf.
LEMMA ShelfAppend ==
    ASSUME TypeOK, ShelvedAreFree, NEW k \in Kinds, NEW i \in Ids(k), ~OnShelf(k, i),
           shelved' = [shelved EXCEPT ![k] = Append(@, i)]
    PROVE  /\ shelved' \in [Kinds -> Seq(Nat)]
           /\ \A p \in DOMAIN shelved'[k] : shelved'[k][p] \in Ids(k)
           /\ \A p, q \in DOMAIN shelved'[k] : shelved'[k][p] = shelved'[k][q] => p = q
           /\ \A m \in Ids(k) : (\E p \in DOMAIN shelved'[k] : shelved'[k][p] = m)
                                  <=> OnShelf(k, m) \/ m = i
           /\ \A l \in Kinds : l # k => shelved'[l] = shelved[l]
<1> DEFINE s == shelved[k]
<1>1. /\ s \in Seq(Nat) /\ i \in Nat /\ \A p, q \in DOMAIN s : s[p] = s[q] => p = q
      /\ \A p \in DOMAIN s : s[p] \in Ids(k) /\ s[p] # i
  BY SlotFacts DEF ShelvedAreFree, OnShelf
<1>2. shelved'[k] = Append(s, i) /\ \A l \in Kinds : l # k => shelved'[l] = shelved[l]
  BY DEF TypeOK
<1>3. \A m : OnShelf(k, m) <=> \E p \in DOMAIN s : s[p] = m
  BY DEF OnShelf
<1> HIDE DEF s
<1>4. /\ Append(s, i) \in Seq(Nat) /\ DOMAIN Append(s, i) = 1..Len(s) + 1 /\ DOMAIN s = 1..Len(s)
      /\ Len(s) \in Nat /\ Append(s, i)[Len(s) + 1] = i
      /\ \A p \in 1..Len(s) : Append(s, i)[p] = s[p]
  BY <1>1
<1>5. \A p \in 1..Len(s) + 1 : p \in 1..Len(s) \/ p = Len(s) + 1
  BY <1>4
<1>6. \A p \in DOMAIN Append(s, i) : Append(s, i)[p] \in Ids(k)
  BY <1>1, <1>4, <1>5
<1>7. \A p, q \in DOMAIN Append(s, i) : Append(s, i)[p] = Append(s, i)[q] => p = q
  BY <1>1, <1>4, <1>5
<1>8. \A m : (\E p \in DOMAIN Append(s, i) : Append(s, i)[p] = m)
               <=> (\E p \in DOMAIN s : s[p] = m) \/ m = i
  <2>1. \A p \in DOMAIN s : p \in DOMAIN Append(s, i) /\ Append(s, i)[p] = s[p]
    BY <1>4
  <2>2. Len(s) + 1 \in DOMAIN Append(s, i)
    BY <1>4
  <2> QED
    BY <1>4, <1>5, <2>1, <2>2
<1>9. shelved' \in [Kinds -> Seq(Nat)]
  BY <1>4 DEF TypeOK, s
<1> QED
  BY <1>2, <1>3, <1>6, <1>7, <1>8, <1>9

=============================================================================
