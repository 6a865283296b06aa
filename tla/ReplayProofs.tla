------------------------------ MODULE ReplayProofs ------------------------------
(***************************************************************************)
(* Proofs about Replay, for any number of observers, any list of replays,  *)
(* any length of them and any number of failures.                          *)
(***************************************************************************)
EXTENDS Replay, FiniteSetTheorems, TLAPS

-----------------------------------------------------------------------------
(* Requests.                                                               *)

LEMMA AnsweredType ==
    ASSUME NEW c \in ControlStates, NEW g \in GameStates
    PROVE  /\ Answered(c, g) \in ControlStates /\ Erred(c, g) \in ControlStates
           /\ Unresponsive(c) \in ControlStates /\ Seen(c) \in ControlStates
           /\ [c EXCEPT !.errors = TRUE] \in ControlStates
           /\ [c EXCEPT !.answered = TRUE] \in ControlStates
           /\ [c EXCEPT !.pending = "start_replay"] \in ControlStates
           /\ [Seen(c) EXCEPT !.errors = TRUE] \in ControlStates
           /\ [g EXCEPT !.process = "dead"] \in GameStates
<1>1. Answered(c, g) \in ControlStates
  BY DEF ControlStates, GameStates, Answered
<1>2. Unresponsive(c) \in ControlStates
  BY DEF ControlStates, Unresponsive
<1>3. Seen(c) \in ControlStates
  BY DEF ControlStates, Seen
<1>4. \A d \in ControlStates : [d EXCEPT !.errors = TRUE] \in ControlStates
  BY DEF ControlStates
<1>5. Erred(c, g) \in ControlStates /\ [Seen(c) EXCEPT !.errors = TRUE] \in ControlStates
  BY <1>1, <1>3, <1>4 DEF Erred
<1>6. /\ [c EXCEPT !.answered = TRUE] \in ControlStates
      /\ [c EXCEPT !.pending = "start_replay"] \in ControlStates
  BY DEF ControlStates
<1>7. [g EXCEPT !.process = "dead"] \in GameStates
  BY DEF GameStates
<1>8. QED
  BY <1>1, <1>2, <1>3, <1>4, <1>5, <1>6, <1>7

\* The fields that each result sets.
LEMMA AnsweredFields ==
    ASSUME NEW c \in ControlStates, NEW g \in GameStates
    PROVE  /\ Answered(c, g).app = c.app /\ Answered(c, g).errors = c.errors
           /\ Answered(c, g).pending = "not_set" /\ Answered(c, g).status = g.status
           /\ Answered(c, g).observed = c.observed
           /\ Erred(c, g).app = c.app /\ Erred(c, g).errors = TRUE
           /\ Erred(c, g).pending = "not_set" /\ Erred(c, g).status = g.status
           /\ Unresponsive(c).app = "failed" /\ Unresponsive(c).errors = TRUE
           /\ Unresponsive(c).pending = "other" /\ Unresponsive(c).status = "unknown"
  BY DEF ControlStates, GameStates, Answered, Erred, Unresponsive

LEMMA SeenFields ==
    ASSUME NEW c \in ControlStates
    PROVE  /\ Seen(c).app = c.app /\ Seen(c).errors = c.errors
           /\ Seen(c).pending = c.pending /\ Seen(c).status = c.status
           /\ c.observed = "none" => Seen(c).observed = "none"
  BY DEF ControlStates, Seen

\* What may become of a request: it is answered, or an error has been recorded.
OutcomeStates ==
    [result : {"good", "errors", "late", "failed"}, control : ControlStates,
     game : GameStates, failures : 0..MaxFailures]

LEMMA OutcomeType ==
    ASSUME ReplayTypeOK, NEW r \in Clients, NEW g \in GameStates, NEW o \in Outcomes(r, g)
    PROVE  o \in OutcomeStates
<1>1. control[r] \in ControlStates /\ game[r] \in GameStates /\ failures \in 0..MaxFailures
  BY DEF ReplayTypeOK
<1>2. CASE game[r].process # "running"
  <2>1. o = [result |-> "failed", control |-> Unresponsive(control[r]),
             game |-> [game[r] EXCEPT !.process = "dead"], failures |-> failures]
    BY <1>2 DEF Outcomes
  <2>2. QED
    BY <1>1, <2>1, AnsweredType DEF OutcomeStates
<1>3. CASE game[r].process = "running"
  <2>1. \/ o = [result |-> "good", control |-> Answered(control[r], g), game |-> g,
                failures |-> failures]
        \/ \E result \in {"errors", "late"} :
             /\ failures < MaxFailures
             /\ o = [result |-> result, control |-> Erred(control[r], g), game |-> g,
                     failures |-> failures + 1]
    BY <1>3 DEF Outcomes
  <2>2. failures < MaxFailures => failures + 1 \in 0..MaxFailures
    BY <1>1, ReplaysAssumption
  <2>3. Answered(control[r], g) \in ControlStates /\ Erred(control[r], g) \in ControlStates
    BY <1>1, AnsweredType
  <2>4. QED
    BY <1>1, <2>1, <2>2, <2>3 DEF OutcomeStates
<1>4. QED
  BY <1>2, <1>3

\* An outcome taken changes one observer.
LEMMA TakesType ==
    ASSUME ReplayTypeOK, NEW r \in Clients, NEW o \in OutcomeStates, Takes(r, o)
    PROVE  /\ control' \in [Clients -> ControlStates] /\ game' \in [Clients -> GameStates]
           /\ failures' \in 0..MaxFailures
           /\ control'[r] = o.control /\ game'[r] = o.game
           /\ \A q \in Clients \ {r} : control'[q] = control[q] /\ game'[q] = game[q]
  BY DEF ReplayTypeOK, OutcomeStates, Takes

\* The last observation is new where the response has brought one.
LEMMA ObservedType ==
    ASSUME NEW o \in OutcomeStates
    PROVE  /\ Observed(o) \in OutcomeStates /\ Observed(o).result = o.result
           /\ Observed(o).control.app = o.control.app
           /\ Observed(o).control.errors = o.control.errors
           /\ Observed(o).control.pending = o.control.pending
           /\ Observed(o).control.status = o.control.status
           /\ o.result = "good" => Observed(o).control.observed # "old"
           /\ Observed(o).game.status = o.game.status
           /\ Observed(o).game.left = o.game.left
           /\ Observed(o).game.process = o.game.process
<1>1. CASE o.result # "good"
  BY <1>1 DEF Observed
<1>2. CASE o.result = "good"
  <2> DEFINE c == [o.control EXCEPT !.observed = IF o.game.unseen THEN "new" ELSE "none"]
             g == [o.game EXCEPT !.unseen = FALSE]
  <2>1. Observed(o) = [o EXCEPT !.control = c, !.game = g]
    BY <1>2 DEF Observed, OutcomeStates, ControlStates, GameStates
  <2>2. o.control \in ControlStates /\ o.game \in GameStates
    BY DEF OutcomeStates
  <2>3. c \in ControlStates /\ g \in GameStates
    BY <2>2 DEF ControlStates, GameStates
  <2>4. /\ c.app = o.control.app /\ c.errors = o.control.errors
        /\ c.pending = o.control.pending /\ c.status = o.control.status
        /\ c.observed # "old"
        /\ g.status = o.game.status /\ g.left = o.game.left /\ g.process = o.game.process
    BY <2>2 DEF ControlStates, GameStates
  <2> HIDE DEF c, g
  <2>5. Observed(o) \in OutcomeStates /\ Observed(o).control = c /\ Observed(o).game = g
        /\ Observed(o).result = o.result
    BY <2>1, <2>3 DEF OutcomeStates
  <2>6. QED
    BY <2>4, <2>5
<1>3. QED
  BY <1>1, <1>2

LEMMA SeenType ==
    ASSUME NEW o \in OutcomeStates
    PROVE  /\ [o EXCEPT !.control = Seen(@)] \in OutcomeStates
           /\ [o EXCEPT !.control = Seen(@)].control = Seen(o.control)
           /\ [o EXCEPT !.control = Seen(@)].game = o.game
<1>1. o.control \in ControlStates /\ o.game \in GameStates
  BY DEF OutcomeStates
<1>2. Seen(o.control) \in ControlStates
  BY <1>1, AnsweredType
<1>3. QED
  BY <1>2 DEF OutcomeStates

\* The game with a replay loaded, and one step on.
LEMMA GameType ==
    ASSUME NEW g \in GameStates, g.status = "in_replay" => g.left # 0
    PROVE  /\ Loaded(g) \in GameStates /\ Advanced(g) \in GameStates
           /\ Loaded(g).left # 0 /\ Loaded(g).process = g.process
           /\ Loaded(g).status = "in_replay"
           /\ Advanced(g).status = "in_replay" => g.status = "in_replay" /\ Advanced(g).left # 0
           /\ Advanced(g).process = g.process
<1>1. g.left \in 0..ReplayLength /\ ReplayLength \in 0..ReplayLength
  BY ReplaysAssumption DEF GameStates
<1>2. g.left # 0 => g.left - 1 \in 0..ReplayLength /\ (g.left # 1 => g.left - 1 # 0)
  BY <1>1, ReplaysAssumption
<1>3. /\ Loaded(g) \in GameStates /\ Loaded(g).process = g.process
      /\ Loaded(g).left # 0 /\ Loaded(g).status = "in_replay"
  BY <1>1, ReplaysAssumption DEF GameStates, Loaded
<1>4. CASE g.status # "in_replay"
  BY <1>3, <1>4 DEF Advanced
<1>5. CASE g.status = "in_replay"
  <2>1. Advanced(g) = [g EXCEPT !.left = @ - 1, !.status = IF g.left = 1 THEN "ended" ELSE @,
                                !.unseen = TRUE]
    BY <1>5 DEF Advanced
  <2>2. QED
    BY <1>2, <1>3, <1>5, <2>1 DEF GameStates
<1>6. QED
  BY <1>4, <1>5

\* The events of an observer are its own.
LEMMA EventsType ==
    ASSUME ReplayTypeOK, NEW r \in Clients, IssueEvents(r)
    PROVE  /\ phase' \in [Clients -> {"none", "begun", "ended"}]
           /\ orphan' \in [Clients -> BOOLEAN] /\ repeated' \in [Clients -> BOOLEAN]
           /\ phase'[r] = phase[r]
           /\ orphan'[r] => orphan[r] \/ (phase[r] = "none" /\ control[r].observed # "none")
           /\ repeated'[r] => repeated[r] \/ control[r].observed = "old"
           /\ \A q \in Clients \ {r} : /\ phase'[q] = phase[q] /\ orphan'[q] = orphan[q]
                                       /\ repeated'[q] = repeated[q]
<1>1. /\ phase \in [Clients -> {"none", "begun", "ended"}]
      /\ orphan \in [Clients -> BOOLEAN] /\ repeated \in [Clients -> BOOLEAN]
  BY DEF ReplayTypeOK
<1>2. CASE control[r].observed = "none"
  BY <1>1, <1>2 DEF IssueEvents, events
<1>3. CASE control[r].observed # "none"
  BY <1>1, <1>3 DEF IssueEvents, Event
<1>4. QED
  BY <1>2, <1>3

\* What is left of an outcome that is not good.
LEMMA OutcomeFacts ==
    ASSUME ReplayTypeOK, NEW r \in Clients, NEW g \in GameStates, NEW o \in Outcomes(r, g)
    PROVE  /\ control[r].errors => o.control.errors
           /\ o.control.pending # "start_replay"
           /\ \/ /\ o.control.app = control[r].app /\ o.control.pending = "not_set"
                 /\ o.control.status = g.status /\ o.game = g /\ o.game.status = g.status
                 /\ o.game.left = g.left
                 /\ game[r].process = "running"
                 /\ \/ o.result = "good" /\ o.control = Answered(control[r], g)
                    \/ o.result # "good" /\ o.control.errors
              \/ /\ o.result = "failed" /\ o.control.errors
                 /\ o.control.app # "normal" /\ o.control.status = "unknown"
                 /\ o.game.status = game[r].status /\ o.game.left = game[r].left
                 /\ o.game.process = "dead"
<1>1. control[r] \in ControlStates /\ game[r] \in GameStates /\ failures \in 0..MaxFailures
  BY DEF ReplayTypeOK
<1>2. CASE game[r].process # "running"
  <2>1. o = [result |-> "failed", control |-> Unresponsive(control[r]),
             game |-> [game[r] EXCEPT !.process = "dead"], failures |-> failures]
    BY <1>2 DEF Outcomes
  <2>2. /\ [game[r] EXCEPT !.process = "dead"].status = game[r].status
        /\ [game[r] EXCEPT !.process = "dead"].left = game[r].left
        /\ [game[r] EXCEPT !.process = "dead"].process = "dead"
    BY <1>1 DEF GameStates
  <2>3. QED
    BY <1>1, <2>1, <2>2, AnsweredFields
<1>3. CASE game[r].process = "running"
  <2>1. \/ o = [result |-> "good", control |-> Answered(control[r], g), game |-> g,
                failures |-> failures]
        \/ \E result \in {"errors", "late"} :
             /\ failures < MaxFailures
             /\ o = [result |-> result, control |-> Erred(control[r], g), game |-> g,
                     failures |-> failures + 1]
    BY <1>3 DEF Outcomes
  <2>2. CASE o = [result |-> "good", control |-> Answered(control[r], g), game |-> g,
                  failures |-> failures]
    BY <1>1, <1>3, <2>2, AnsweredFields
  <2>3. CASE \E result \in {"errors", "late"} :
               o = [result |-> result, control |-> Erred(control[r], g), game |-> g,
                    failures |-> failures + 1]
    <3>1. PICK result \in {"errors", "late"} :
            o = [result |-> result, control |-> Erred(control[r], g), game |-> g,
                 failures |-> failures + 1]
      BY <2>3
    <3>2. o.result # "good" /\ o.control = Erred(control[r], g) /\ o.game = g
      BY <3>1
    <3> DEFINE c == Erred(control[r], g)
    <3>e. /\ c.app = control[r].app /\ c.errors = TRUE
          /\ c.pending = "not_set" /\ c.status = g.status
      BY <1>1, AnsweredFields
    <3> HIDE DEF c
    <3>3. /\ o.control.app = control[r].app /\ o.control.errors = TRUE
          /\ o.control.pending = "not_set" /\ o.control.status = g.status
      BY <3>2, <3>e DEF c
    <3>4. o.control.errors
      BY <3>3
    <3>5. QED
      BY <1>3, <3>2, <3>3, <3>4
  <2>4. QED
    BY <2>1, <2>2, <2>3
<1>4. QED
  BY <1>2, <1>3

\* What IssueAndSend changes of an observer: its control has errors, or is as it was, or
\* has got an answer.
LEMMA SendFacts ==
    ASSUME ReplayTypeOK, NEW r \in Clients, IssueAndSend(r)
    PROVE  /\ control' \in [Clients -> ControlStates] /\ game' \in [Clients -> GameStates]
           /\ request_' \in [Clients -> BOOLEAN] /\ failures' \in 0..MaxFailures
           /\ pc' \in {pc, "segfault"}
           /\ \A q \in Clients \ {r} : control'[q] = control[q] /\ game'[q] = game[q]
           /\ control[r].errors => control'[r].errors
           /\ \/ control'[r].pending = control[r].pending /\ control'[r].app = control[r].app
              \/ control'[r].pending # "start_replay"
           /\ game'[r].status = game[r].status /\ game'[r].left = game[r].left
           /\ game'[r].process = game[r].process \/ control'[r].errors
           /\ \/ control'[r].errors
              \/ /\ control'[r].pending = control[r].pending
                 /\ control'[r].app = control[r].app
                 /\ control'[r].status = control[r].status
                 /\ control[r].observed = "none" => control'[r].observed = "none"
              \/ /\ control[r].pending = "not_set" /\ control'[r].pending = "not_set"
                 /\ control'[r].app = control[r].app
                 /\ control'[r].status = game[r].status
                 /\ control[r].observed = "none" => control'[r].observed = "none"
<1>1. /\ control \in [Clients -> ControlStates] /\ game \in [Clients -> GameStates]
      /\ request_ \in [Clients -> BOOLEAN] /\ failures \in 0..MaxFailures
      /\ control[r] \in ControlStates /\ game[r] \in GameStates
  BY DEF ReplayTypeOK
<1>2. CASE /\ control' = [control EXCEPT ![r] = Seen(@)]
           /\ UNCHANGED <<pc, request_, game, failures>>
  <2>1. control' \in [Clients -> ControlStates] /\ control'[r] = Seen(control[r])
        /\ \A q \in Clients \ {r} : control'[q] = control[q]
    BY <1>1, <1>2, AnsweredType
  <2>2. QED
    BY <1>1, <1>2, <2>1, SeenFields
<1>3. ASSUME control[r].app = "normal", ~HasResponsePending(control[r]),
             NEW o \in Outcomes(r, game[r]), Takes(r, [o EXCEPT !.control = Seen(@)]),
             request_' = [request_ EXCEPT ![r] = FALSE], UNCHANGED pc
      PROVE  /\ control' \in [Clients -> ControlStates] /\ game' \in [Clients -> GameStates]
             /\ request_' \in [Clients -> BOOLEAN] /\ failures' \in 0..MaxFailures
             /\ \A q \in Clients \ {r} : control'[q] = control[q] /\ game'[q] = game[q]
             /\ control'[r] = Seen(o.control) /\ game'[r] = o.game
             /\ o \in OutcomeStates
  <2>1. o \in OutcomeStates
    BY <1>1, OutcomeType
  <2>2. /\ [o EXCEPT !.control = Seen(@)] \in OutcomeStates
        /\ [o EXCEPT !.control = Seen(@)].control = Seen(o.control)
        /\ [o EXCEPT !.control = Seen(@)].game = o.game
    BY <2>1, SeenType
  <2>3. request_' \in [Clients -> BOOLEAN]
    BY <1>1, <1>3
  <2>4. QED
    BY <1>3, <2>1, <2>2, <2>3, TakesType
<1>4. ASSUME control[r].app = "normal", ~HasResponsePending(control[r]),
             NEW o \in Outcomes(r, game[r]), o \in OutcomeStates,
             control'[r] = Seen(o.control), game'[r] = o.game
      PROVE  /\ control[r].errors => control'[r].errors
             /\ control'[r].pending # "start_replay"
             /\ game'[r].status = game[r].status /\ game'[r].left = game[r].left
             /\ game'[r].process = game[r].process \/ control'[r].errors
             /\ \/ control'[r].errors
                \/ /\ control[r].pending = "not_set" /\ control'[r].pending = "not_set"
                   /\ control'[r].app = control[r].app
                   /\ control'[r].status = game[r].status
                   /\ control[r].observed = "none" => control'[r].observed = "none"
  <2>1. o.control \in ControlStates /\ o.game \in GameStates
    BY <1>4 DEF OutcomeStates
  <2>2. /\ control'[r].app = o.control.app /\ control'[r].errors = o.control.errors
        /\ control'[r].pending = o.control.pending /\ control'[r].status = o.control.status
        /\ o.control.observed = "none" => control'[r].observed = "none"
    BY <1>4, <2>1, SeenFields
  <2>3. Answered(control[r], game[r]).observed = control[r].observed
    BY <1>1, AnsweredFields
  <2>4. QED
    BY <1>1, <1>4, <2>2, <2>3, OutcomeFacts DEF HasResponsePending
<1>5. CASE /\ control' = [control EXCEPT ![r] = [Seen(@) EXCEPT !.errors = TRUE]]
           /\ request_' = [request_ EXCEPT ![r] = TRUE]
           /\ UNCHANGED <<pc, game, failures>>
  <2> DEFINE c == [Seen(control[r]) EXCEPT !.errors = TRUE]
  <2>1. Seen(control[r]) \in ControlStates /\ c \in ControlStates
    BY <1>1, AnsweredType
  <2>2. c.errors /\ c.pending = control[r].pending /\ c.app = control[r].app
    BY <1>1, <2>1, SeenFields DEF ControlStates
  <2> HIDE DEF c
  <2>3. control' = [control EXCEPT ![r] = c]
    BY <1>5 DEF c
  <2>4. control' \in [Clients -> ControlStates] /\ control'[r] = c
        /\ \A q \in Clients \ {r} : control'[q] = control[q]
    BY <1>1, <2>1, <2>3
  <2>5. request_' \in [Clients -> BOOLEAN]
    BY <1>1, <1>5
  <2>6. QED
    BY <1>1, <1>5, <2>2, <2>4, <2>5
<1>6. CASE pc' = "segfault" /\ UNCHANGED <<control, request_, game, failures>>
  BY <1>1, <1>6
<1>7. CASE /\ control[r].app = "normal" /\ ~HasResponsePending(control[r])
           /\ \E o \in Outcomes(r, game[r]) : Takes(r, [o EXCEPT !.control = Seen(@)])
           /\ request_' = [request_ EXCEPT ![r] = FALSE]
           /\ UNCHANGED pc
  <2>1. PICK o \in Outcomes(r, game[r]) : Takes(r, [o EXCEPT !.control = Seen(@)])
    BY <1>7
  <2>2. QED
    BY <1>3, <1>4, <1>7, <2>1
<1>8. QED
  BY <1>2, <1>5, <1>6, <1>7 DEF IssueAndSend, SendActions

-----------------------------------------------------------------------------
(* The types.                                                              *)

LEMMA ObserversAreClients ==
    ASSUME ReplayTypeOK
    PROVE  /\ replay_observers_ \in Nat \ {0} /\ Observers \subseteq Clients
           /\ turn \in Nat \ {0} /\ (turn \in Observers => turn + 1 \in 1..replay_observers_ + 1)
           /\ 1 \in Observers
  BY ObserversAssumption DEF ReplayTypeOK, Observers, Clients

\* A prefix of a sequence, its length and its elements.
LEMMA PrefixFacts ==
    ASSUME NEW S, NEW s \in Seq(S), NEW n \in 0 .. Len(s)
    PROVE  /\ SubSeq(s, 1, n) \in Seq(S)
           /\ Len(SubSeq(s, 1, n)) = n
           /\ \A i \in 1 .. n : SubSeq(s, 1, n)[i] = s[i]
  OBVIOUS

\* One replay less.
LEMMA PopFacts ==
    ASSUME ReplayTypeOK, replay_file # <<>>
    PROVE  /\ Len(replay_file) \in Nat \ {0} /\ File \in Files
           /\ PopBack => /\ replay_file' \in Seq(Files)
                         /\ Len(replay_file') = Len(replay_file) - 1
                         /\ \A p \in 1..Len(replay_file) - 1 : replay_file'[p] = replay_file[p]
                         /\ Len(replay_file) = 1 => replay_file' = <<>>
                         /\ Len(replay_file) # 1 => replay_file' # <<>>
<1> DEFINE n == Len(replay_file)
<1>1. replay_file \in Seq(Files)
  BY DEF ReplayTypeOK
<1>2. n \in Nat \ {0}
  BY <1>1
<1>3. File \in Files
  BY <1>1, <1>2 DEF File
<1>4. ASSUME PopBack
      PROVE  /\ replay_file' \in Seq(Files) /\ Len(replay_file') = n - 1
             /\ \A p \in 1..n - 1 : replay_file'[p] = replay_file[p]
  <2>1. n - 1 \in 0..Len(replay_file) /\ replay_file' = SubSeq(replay_file, 1, n - 1)
    BY <1>2, <1>4 DEF PopBack
  <2> HIDE DEF n
  <2>2. QED
    BY <1>1, <2>1, PrefixFacts
<1>5. ASSUME PopBack
      PROVE  /\ n = 1 => replay_file' = <<>>
             /\ n # 1 => replay_file' # <<>>
  BY <1>2, <1>4, <1>5
<1>6. QED
  BY <1>2, <1>3, <1>4, <1>5

LEMMA NewGameFacts ==
    /\ NoGame \in GameStates /\ NoGame.status = "launched" /\ NoGame.process = "none"
    /\ NewGame \in GameStates /\ NewGame.status = "launched"
<1>1. 0 \in 0..ReplayLength
  BY ReplaysAssumption
<1>2. NoGame \in GameStates /\ NoGame.status = "launched" /\ NoGame.process = "none"
  BY <1>1 DEF NoGame, GameStates
<1>3. \A g \in GameStates : /\ [g EXCEPT !.process = "running"] \in GameStates
                             /\ [g EXCEPT !.process = "running"].status = g.status
  BY DEF GameStates
<1>4. QED
  BY <1>2, <1>3 DEF NewGame

\* The observers that get a connection at the launch, and those that do not.
LEMMA LaunchFailures ==
    ASSUME ReplayTypeOK, NEW connected \in SUBSET Observers,
           failures + replay_observers_ - Cardinality(connected) <= MaxFailures
    PROVE  failures + replay_observers_ - Cardinality(connected) \in 0..MaxFailures
<1>1. replay_observers_ \in Nat /\ failures \in Nat /\ MaxFailures \in Nat
  BY ObserversAreClients, ReplaysAssumption DEF ReplayTypeOK
<1>2. IsFiniteSet(Observers) /\ Cardinality(Observers) = replay_observers_
  BY <1>1, FS_Interval DEF Observers
<1>3. /\ Cardinality(connected) \in Nat
      /\ Cardinality(connected) <= replay_observers_
  BY <1>2, FS_Subset, FS_CardinalityType
<1>4. QED
  BY <1>1, <1>3

LEMMA LaunchFacts ==
    ASSUME ReplayTypeOK, LaunchProcesses
    PROVE  /\ control' \in [Clients -> ControlStates] /\ game' \in [Clients -> GameStates]
           /\ failures' \in 0..MaxFailures
           /\ \A r \in Clients :
                /\ control'[r].app = control[r].app /\ control'[r].errors = control[r].errors
                /\ control'[r].pending = control[r].pending
                /\ control'[r].observed = control[r].observed
                /\ \/ control'[r].status = "launched"
                   \/ control'[r].status = control[r].status /\ game'[r].process = "none"
                /\ game'[r].status = "launched"
<1>1. control \in [Clients -> ControlStates] /\ version \in Installed \cup {FirstBuild}
  BY DEF ReplayTypeOK
<1>2. PICK connected \in SUBSET Observers :
        /\ failures + replay_observers_ - Cardinality(connected) <= MaxFailures
        /\ failures' = failures + replay_observers_ - Cardinality(connected)
        /\ control' = [r \in Clients |->
                         IF r \in connected THEN Connected(control[r]) ELSE control[r]]
        /\ game' = [r \in Clients |-> IF r \in connected THEN NewGame ELSE NoGame]
  BY DEF LaunchProcesses
<1>3. failures' \in 0..MaxFailures
  BY <1>2, LaunchFailures
<1>4. /\ NewGame \in GameStates /\ NewGame.status = "launched"
      /\ NoGame \in GameStates /\ NoGame.status = "launched" /\ NoGame.process = "none"
  BY NewGameFacts
<1>5. \A c \in ControlStates :
        /\ Connected(c) \in ControlStates /\ Connected(c).app = c.app
        /\ Connected(c).errors = c.errors /\ Connected(c).pending = c.pending
        /\ Connected(c).observed = c.observed /\ Connected(c).status = "launched"
  BY <1>1 DEF Connected, ControlStates
<1>6. game' \in [Clients -> GameStates] /\ control' \in [Clients -> ControlStates]
  BY <1>1, <1>2, <1>4, <1>5
<1>7. QED
  BY <1>1, <1>2, <1>3, <1>4, <1>5, <1>6

\* A new control with a new game, or without one.
LEMMA RelaunchFacts ==
    ASSUME ReplayTypeOK, NEW connected \in BOOLEAN, Relaunch(connected)
    PROVE  /\ turn \in Clients
           /\ control' \in [Clients -> ControlStates] /\ game' \in [Clients -> GameStates]
           /\ control'[turn].app = "normal" /\ control'[turn].errors = FALSE
           /\ control'[turn].pending = "not_set" /\ control'[turn].observed = "none"
           /\ \/ control'[turn].status = "launched"
              \/ control'[turn].status = "unknown" /\ game'[turn].process = "none"
           /\ game'[turn].status = "launched"
           /\ \A q \in Clients \ {turn} : control'[q] = control[q] /\ game'[q] = game[q]
<1>1. /\ control \in [Clients -> ControlStates] /\ game \in [Clients -> GameStates]
      /\ version \in Installed \cup {FirstBuild} /\ turn \in Clients
  BY ObserversAreClients DEF ReplayTypeOK, Relaunch
<1> DEFINE c == IF connected THEN Connected(NewControl) ELSE NewControl
           g == IF connected THEN NewGame ELSE NoGame
<1>2. /\ g \in GameStates /\ g.status = "launched" /\ (~connected => g.process = "none")
  BY NewGameFacts
<1>3. /\ NewControl \in ControlStates /\ NewControl.app = "normal"
      /\ NewControl.errors = FALSE /\ NewControl.pending = "not_set"
      /\ NewControl.observed = "none" /\ NewControl.status = "unknown"
  BY <1>1 DEF NewControl, ControlStates
<1>4. \A d \in ControlStates :
        /\ Connected(d) \in ControlStates /\ Connected(d).app = d.app
        /\ Connected(d).errors = d.errors /\ Connected(d).pending = d.pending
        /\ Connected(d).observed = d.observed /\ Connected(d).status = "launched"
  BY <1>1 DEF Connected, ControlStates
<1>5. /\ c \in ControlStates /\ c.app = "normal" /\ c.errors = FALSE
      /\ c.pending = "not_set" /\ c.observed = "none"
      /\ c.status = IF connected THEN "launched" ELSE "unknown"
  BY <1>3, <1>4
<1>6. control' = [control EXCEPT ![turn] = c] /\ game' = [game EXCEPT ![turn] = g]
  BY DEF Relaunch
<1> HIDE DEF c, g
<1>7. control'[turn] = c /\ game'[turn] = g
  BY <1>1, <1>6
<1>8. QED
  BY <1>1, <1>2, <1>5, <1>6, <1>7

\* The types of what the observers keep: the rest of ReplayTypeOK is about Update.
ObserversType ==
    /\ control \in [Clients -> ControlStates] /\ game \in [Clients -> GameStates]
    /\ info \in [Clients -> Files \cup {NoFile}]
    /\ request_ \in [Clients -> BOOLEAN] /\ stale \in [Clients -> BOOLEAN]
    /\ failures \in 0..MaxFailures
    /\ phase \in [Clients -> {"none", "begun", "ended"}]
    /\ orphan \in [Clients -> BOOLEAN] /\ repeated \in [Clients -> BOOLEAN]
    /\ lost \in [Clients -> SUBSET Files]

UpdateType ==
    /\ pc \in {"update", "stepping", "events", "available", "launch", "assign", "gather",
               "judge", "errors", "stopped", "segfault"}
    /\ turn \in 1..replay_observers_ + 1
    /\ stage \in [Clients -> {"run", "wait", "begin", "step", "observe", "stepped", "end",
                                "done"}]
    /\ replay_file \in Seq(Files) /\ starcraft_started_ \in BOOLEAN
    /\ version \in Installed \cup {FirstBuild}
    /\ realtime \in BOOLEAN /\ multi_threaded \in BOOLEAN /\ replay_recovery_ \in BOOLEAN
    /\ replay_observers_ \in 1..MaxObservers
    /\ error_occurred \in BOOLEAN /\ relaunched \in BOOLEAN
    /\ loads \in [Files -> SUBSET Observers]

\* A request to an observer whose control and game are well typed.
LEMMA RequestType ==
    ASSUME ReplayTypeOK, NEW r \in Clients, NEW g \in GameStates,
           \E o \in Outcomes(r, g) : Takes(r, o) \/ Takes(r, Observed(o))
    PROVE  /\ control' \in [Clients -> ControlStates] /\ game' \in [Clients -> GameStates]
           /\ failures' \in 0..MaxFailures
  BY OutcomeType, ObservedType, TakesType

\* The game of an observer now, with a replay loaded, and one step on.
LEMMA ObserverGame ==
    ASSUME ReplayTypeOK, NEW r \in Clients, ObserverInv(r)
    PROVE  /\ control[r] \in ControlStates /\ game[r] \in GameStates
           /\ Loaded(game[r]) \in GameStates /\ Advanced(game[r]) \in GameStates
  BY GameType DEF ReplayTypeOK, ObserverInv, LeftInv

LEMMA ObserversTypeStep ==
    ASSUME ReplayInv, [Next]_vars
    PROVE  ObserversType'
<1>0. ObserversType /\ ReplayTypeOK
  BY DEF ReplayInv, ReplayTypeOK, ObserversType
<1>a. Observers \subseteq Clients /\ (pc \in {"gather", "judge"} => turn \in Clients /\ File \in Files)
  BY <1>0, ObserversAreClients, PopFacts DEF ReplayInv, TurnInv
<1>b. \A r \in Clients : /\ control[r] \in ControlStates /\ game[r] \in GameStates
                         /\ Loaded(game[r]) \in GameStates /\ Advanced(game[r]) \in GameStates
  BY <1>0, ObserverGame DEF ReplayInv
<1> USE DEF client, history, events
<1>1. CASE \/ UpdateBegins \/ Joined \/ SecondLoopEnds \/ Available \/ Assign \/ AssignEnds
           \/ NoErrors \/ NotRelaunched \/ UpdateReturns
  BY <1>0, <1>1 DEF UpdateBegins, Joined, SecondLoopEnds, Available, Assign, AssignEnds,
     NoErrors, NotRelaunched, UpdateReturns, ObserversType
<1>2. CASE UNCHANGED vars
  BY <1>0, <1>2 DEF vars, ObserversType
<1>3. CASE SecondLoop
  <2>1. turn \in Clients /\ UNCHANGED <<info, stale, lost>>
    BY <1>a, <1>3 DEF SecondLoop
  <2>2. CASE IssueAndSend(turn)
    BY <1>0, <2>1, <2>2, SendFacts, EventsType DEF IssueAndSend, ObserversType
  <2>3. CASE UNCHANGED <<control, request_, game, failures, phase, orphan, repeated>>
    BY <1>0, <2>1, <2>3 DEF ObserversType
  <2>4. QED
    BY <1>3, <2>2, <2>3 DEF SecondLoop
<1>4. CASE LaunchProcesses
  <2>1. UNCHANGED <<info, request_, stale, phase, orphan, repeated, lost>>
    BY <1>4 DEF LaunchProcesses
  <2>2. QED
    BY <1>0, <1>4, <2>1, LaunchFacts DEF ObserversType
<1>5. CASE GatherReplayInfo
  <2>1. turn \in Clients /\ File \in Files
        /\ UNCHANGED <<request_, stale, phase, orphan, repeated, lost>>
    BY <1>a, <1>5 DEF GatherReplayInfo
  <2>2. info' \in [Clients -> Files \cup {NoFile}]
    BY <1>0, <1>5, <2>1 DEF GatherReplayInfo, ObserversType
  <2>3. /\ control' \in [Clients -> ControlStates] /\ game' \in [Clients -> GameStates]
        /\ failures' \in 0..MaxFailures
    <3>1. CASE control[turn].app = "normal"
      BY <1>0, <1>b, <1>5, <2>1, <3>1, RequestType DEF GatherReplayInfo
    <3>2. CASE control[turn].app # "normal"
      BY <1>0, <1>5, <3>2 DEF GatherReplayInfo, ObserversType
    <3>3. QED
      BY <3>1, <3>2
  <2>4. QED
    BY <1>0, <2>1, <2>2, <2>3 DEF ObserversType
<1>6. CASE SkipReplay \/ LoadReplayRefused
  <2>1. turn \in Clients /\ File \in Files
        /\ UNCHANGED <<control, info, request_, stale, game, failures, phase, orphan, repeated>>
    BY <1>a, <1>6 DEF SkipReplay, LoadReplayRefused
  <2>2. lost' = [lost EXCEPT ![turn] = IF Replays[File].short THEN @ ELSE @ \cup {File}]
    BY <1>6 DEF SkipReplay, LoadReplayRefused, Skip
  <2>3. lost' \in [Clients -> SUBSET Files]
    BY <1>0, <2>1, <2>2 DEF ObserversType
  <2>4. QED
    BY <1>0, <2>1, <2>3 DEF ObserversType
<1>7. CASE AskRelaunch \/ LoadReplay
  <2>1. turn \in Clients
        /\ UNCHANGED <<info, request_, stale, game, failures, phase, orphan, repeated, lost>>
    BY <1>a, <1>7 DEF AskRelaunch, LoadReplay
  <2>2. \/ control' = [control EXCEPT ![turn] = [@ EXCEPT !.errors = TRUE]]
        \/ control' = [control EXCEPT ![turn] = [@ EXCEPT !.pending = "start_replay"]]
    BY <1>7 DEF AskRelaunch, LoadReplay
  <2>3. control' \in [Clients -> ControlStates]
    <3>1. /\ [control[turn] EXCEPT !.errors = TRUE] \in ControlStates
          /\ [control[turn] EXCEPT !.pending = "start_replay"] \in ControlStates
      BY <1>b, <2>1, AnsweredType
    <3>2. control' = [control EXCEPT ![turn] = [control[turn] EXCEPT !.errors = TRUE]]
          \/ control' = [control EXCEPT ![turn] = [control[turn] EXCEPT !.pending = "start_replay"]]
      BY <2>2
    <3>3. QED
      BY <1>0, <2>1, <3>1, <3>2 DEF ObserversType
  <2>4. QED
    BY <1>0, <2>1, <2>3 DEF ObserversType
<1>8. CASE Recovered \/ NotRecovered
  <2>1. PICK connected \in BOOLEAN : Relaunch(connected)
    BY <1>8 DEF Recovered, NotRecovered
  <2>2. failures' \in 0..MaxFailures
    <3>1. failures \in 0..MaxFailures /\ MaxFailures \in Nat
      BY <1>0, ReplaysAssumption DEF ObserversType
    <3>2. failures' = failures \/ (failures < MaxFailures /\ failures' = failures + 1)
      BY <1>8 DEF Recovered, NotRecovered
    <3>3. QED
      BY <3>1, <3>2
  <2>3. UNCHANGED <<info, request_>> /\ turn \in Clients
        /\ stale' \in [Clients -> BOOLEAN] /\ lost' \in [Clients -> SUBSET Files]
        /\ phase' \in [Clients -> {"none", "begun", "ended"}]
        /\ orphan' \in [Clients -> BOOLEAN] /\ repeated' \in [Clients -> BOOLEAN]
    BY <1>0, <1>a, <2>1 DEF Relaunch, ObserversType
  <2>4. QED
    BY <1>0, <2>1, <2>2, <2>3, RelaunchFacts DEF ObserversType
<1>9. ASSUME NEW r \in Observers, RunThread(r)
      PROVE  ObserversType'
  <2>0. r \in Clients
    BY <1>a
  <2>1. CASE RunReplay(r)
    BY <1>0, <2>1 DEF RunReplay, ObserversType
  <2>2. CASE WaitForReplay(r)
    <3>1. UNCHANGED <<info, request_, stale, phase, orphan, repeated, lost>>
      BY <2>2 DEF WaitForReplay
    <3>2. PICK o \in Responses(r) : Takes(r, o)
      BY <2>2 DEF WaitForReplay
    <3>3. o \in OutcomeStates
      <4>1. CASE control[r].answered
        <5>1. o = [result |-> "good", control |-> Answered(control[r], game[r]),
                   game |-> game[r], failures |-> failures]
          BY <3>2, <4>1 DEF Responses
        <5>2. Answered(control[r], game[r]) \in ControlStates /\ game[r] \in GameStates
              /\ failures \in 0..MaxFailures
          BY <1>0, <1>b, <2>0, AnsweredType DEF ObserversType
        <5>3. QED
          BY <5>1, <5>2 DEF OutcomeStates
      <4>2. CASE ~control[r].answered
        BY <1>0, <1>b, <2>0, <3>2, <4>2, OutcomeType DEF Responses
      <4>3. QED
        BY <4>1, <4>2
    <3>4. QED
      BY <1>0, <2>0, <3>1, <3>2, <3>3, TakesType DEF ObserversType
  <2>3. CASE GameStarts(r)
    <3>1. UNCHANGED <<info, request_, stale, repeated, lost>>
      BY <2>3 DEF GameStarts
    <3>2. /\ control' \in [Clients -> ControlStates] /\ game' \in [Clients -> GameStates]
          /\ failures' \in 0..MaxFailures
      BY <1>0, <1>b, <2>0, <2>3, RequestType DEF GameStarts
    <3>3. /\ phase' \in [Clients -> {"none", "begun", "ended"}]
          /\ orphan' \in [Clients -> BOOLEAN]
      BY <1>0, <2>3 DEF GameStarts, Event, ObserversType
    <3>4. QED
      BY <1>0, <3>1, <3>2, <3>3 DEF ObserversType
  <2>4. CASE StepReplay(r) \/ Observe(r)
    <3>1. UNCHANGED <<info, request_, stale, phase, orphan, repeated, lost>>
      BY <2>4 DEF StepReplay, Observe
    <3>2. /\ control' \in [Clients -> ControlStates] /\ game' \in [Clients -> GameStates]
          /\ failures' \in 0..MaxFailures
      BY <1>0, <1>b, <2>0, <2>4, RequestType DEF StepReplay, Observe
    <3>3. QED
      BY <1>0, <3>1, <3>2 DEF ObserversType
  <2>5. CASE Stepped(r)
    <3>1. UNCHANGED <<info, stale, lost>>
      BY <2>5 DEF Stepped
    <3>2. CASE IssueAndSend(r)
      BY <1>0, <2>0, <3>1, <3>2, SendFacts, EventsType DEF IssueAndSend, ObserversType
    <3>3. CASE UNCHANGED <<control, request_, game, failures, phase, orphan, repeated>>
      BY <1>0, <3>1, <3>3 DEF ObserversType
    <3>4. QED
      BY <2>5, <3>2, <3>3 DEF Stepped
  <2>6. CASE EndReplay(r)
    BY <1>0, <2>0, <2>6 DEF EndReplay, Event, ObserversType
  <2>7. QED
    BY <1>9, <2>1, <2>2, <2>3, <2>4, <2>5, <2>6 DEF RunThread
<1>10. ASSUME NEW r \in Observers, GameStep(r)
       PROVE  ObserversType'
  <2>0. r \in Clients
    BY <1>a
  <2>1. UNCHANGED <<info, request_, stale, phase, orphan, repeated, lost>>
    BY <1>10 DEF GameStep, GameAnswers, GamePlays, GameFails, SocketCloses
  <2>2. CASE GameAnswers(r)
    <3>1. control' = [control EXCEPT ![r] = [@ EXCEPT !.answered = TRUE]]
          /\ (game' = game \/ game' = [game EXCEPT ![r] = Loaded(@)])
          /\ failures' \in 0..MaxFailures
      BY <1>0, <2>2, ReplaysAssumption DEF GameAnswers, ObserversType
    <3>2. control' \in [Clients -> ControlStates] /\ game' \in [Clients -> GameStates]
      BY <1>0, <1>b, <2>0, <3>1, AnsweredType DEF ObserversType
    <3>3. QED
      BY <1>0, <2>1, <3>1, <3>2 DEF ObserversType
  <2>3. CASE GamePlays(r)
    BY <1>0, <1>b, <2>0, <2>1, <2>3 DEF GamePlays, ObserversType
  <2>4. ASSUME NEW how \in {"hung", "dead"}, GameFails(r, how)
        PROVE  ObserversType'
    <3>1. [game[r] EXCEPT !.process = how] \in GameStates
      BY <1>b, <2>0 DEF GameStates
    <3>2. game' = [game EXCEPT ![r] = [game[r] EXCEPT !.process = how]]
      BY <2>4 DEF GameFails
    <3>3. game' \in [Clients -> GameStates] /\ UNCHANGED control /\ failures' \in 0..MaxFailures
      BY <1>0, <2>0, <2>4, <3>1, <3>2, ReplaysAssumption DEF GameFails, ObserversType
    <3>4. QED
      BY <1>0, <2>1, <3>3 DEF ObserversType
  <2>5. CASE SocketCloses(r)
    <3>1. control' = [control EXCEPT ![r] = [@ EXCEPT !.errors = TRUE]]
          /\ UNCHANGED <<game, failures>>
      BY <2>5 DEF SocketCloses
    <3>2. control' \in [Clients -> ControlStates]
      BY <1>0, <1>b, <2>0, <3>1, AnsweredType DEF ObserversType
    <3>3. QED
      BY <1>0, <2>1, <3>1, <3>2 DEF ObserversType
  <2>6. QED
    BY <1>10, <2>2, <2>3, <2>4, <2>5 DEF GameStep
<1>11. QED
  BY <1>1, <1>2, <1>3, <1>4, <1>5, <1>6, <1>7, <1>8, <1>9, <1>10 DEF Next, Update, Ended

LEMMA UpdateTypeStep ==
    ASSUME ReplayInv, [Next]_vars
    PROVE  UpdateType' /\ UNCHANGED settings
<1>0. UpdateType /\ ReplayTypeOK
  BY DEF ReplayInv, ReplayTypeOK, UpdateType
<1>a. /\ Observers \subseteq Clients /\ 1 \in 1..replay_observers_ + 1
      /\ turn \in Observers => turn + 1 \in 1..replay_observers_ + 1
  BY <1>0, ObserversAreClients DEF Observers
<1>b. /\ pc \in {"gather", "judge"} => turn \in Observers /\ replay_file # <<>>
      /\ pc = "judge" => info[turn] \in Files \cup {NoFile}
      /\ replay_file # <<>> => File \in Files
  BY <1>0, <1>a, PopFacts DEF ReplayInv, TurnInv, ReplayTypeOK
<1>c. UNCHANGED settings => Observers' = Observers
  BY DEF settings, Observers
<1> USE DEF coordinator, settings, client, locals, history, events
<1>1. CASE UpdateBegins
  BY <1>0, <1>1 DEF UpdateBegins, UpdateType, Observers
<1>2. CASE UNCHANGED vars
  BY <1>0, <1>2 DEF vars, UpdateType, Observers
<1>3. CASE Joined \/ SecondLoopEnds \/ Available
  BY <1>0, <1>a, <1>3 DEF Joined, SecondLoopEnds, Available, UpdateType, Observers
<1>4. CASE SecondLoop
  <2>1. turn \in Observers /\ turn' = turn + 1 /\ pc' \in {pc, "segfault"}
        /\ UNCHANGED <<stage, coordinator, locals, loads>>
    BY <1>0, <1>a, <1>4, SendFacts DEF SecondLoop
  <2>2. QED
    BY <1>0, <1>a, <2>1 DEF UpdateType, Observers
<1>5. CASE Assign \/ AssignEnds \/ LaunchProcesses
  BY <1>0, <1>a, <1>5 DEF Assign, AssignEnds, LaunchProcesses, UpdateType, Observers
<1>6. CASE NoErrors \/ NotRelaunched \/ UpdateReturns
  BY <1>0, <1>a, <1>6 DEF NoErrors, NotRelaunched, UpdateReturns, UpdateType, Observers
<1>7. CASE Recovered \/ NotRecovered
  BY <1>0, <1>a, <1>7 DEF Recovered, NotRecovered, Relaunch, UpdateType, Observers
<1>8. CASE GatherReplayInfo
  BY <1>0, <1>8 DEF GatherReplayInfo, UpdateType, Observers
<1>9. CASE SkipReplay \/ LoadReplayRefused
  <2>1. /\ UNCHANGED <<stage, starcraft_started_, version, settings, locals, loads>>
        /\ pc = "judge" /\ Skip
    BY <1>9 DEF SkipReplay, LoadReplayRefused
  <2>2. replay_file' \in Seq(Files)
    BY <1>0, <1>b, <2>1, PopFacts DEF Skip
  <2>3. pc' \in {"assign", "gather"} /\ turn' \in {turn, turn + 1}
    BY <2>1 DEF Skip
  <2>4. QED
    BY <1>0, <1>a, <1>b, <2>1, <2>2, <2>3 DEF UpdateType, Observers
<1>10. CASE AskRelaunch
  <2>1. version' \in Installed
    BY <1>10 DEF AskRelaunch, ShouldRelaunch
  <2>2. QED
    BY <1>0, <1>a, <1>b, <1>10, <2>1 DEF AskRelaunch, UpdateType, Observers
<1>11. CASE LoadReplay
  <2>1. pc = "judge" /\ PopBack /\ turn \in Observers /\ File \in Files
    BY <1>b, <1>11 DEF LoadReplay
  <2>2. replay_file' \in Seq(Files)
    BY <1>0, <1>b, <2>1, PopFacts
  <2>3. loads' \in [Files -> SUBSET Observers]
    BY <1>0, <1>11, <2>1 DEF LoadReplay, UpdateType
  <2>4. UNCHANGED <<stage, starcraft_started_, version, settings, locals>>
        /\ pc' = "assign" /\ turn' = turn + 1
    BY <1>11 DEF LoadReplay
  <2>5. Observers' = Observers
    BY <1>c, <2>4
  <2>6. turn' \in 1..replay_observers_ + 1
    BY <1>a, <2>1, <2>4
  <2>7. QED
    BY <1>0, <2>2, <2>3, <2>4, <2>5, <2>6 DEF UpdateType
<1>12. ASSUME NEW r \in Observers, RunThread(r)
       PROVE  UpdateType' /\ UNCHANGED settings
  <2>1. /\ UNCHANGED <<turn, coordinator, locals, loads>>
        /\ pc' \in {pc, "segfault"}
    <3>1. CASE Stepped(r)
      BY <1>0, <1>a, <3>1, SendFacts DEF Stepped
    <3>2. QED
      BY <1>12, <3>1 DEF RunThread, RunReplay, WaitForReplay, GameStarts, StepReplay, Observe,
         EndReplay
  <2>2. stage' \in [Clients -> {"run", "wait", "begin", "step", "observe", "stepped", "end",
                                  "done"}]
    BY <1>0, <1>12 DEF RunThread, RunReplay, WaitForReplay, GameStarts, StepReplay, Observe,
       Stepped, EndReplay, Goto, Playing, UpdateType
  <2>3. QED
    BY <1>0, <2>1, <2>2 DEF UpdateType, Observers
<1>13. ASSUME NEW r \in Observers, GameStep(r)
       PROVE  UpdateType' /\ UNCHANGED settings
  <2>1. UNCHANGED <<pc, turn, stage, coordinator, locals, loads>>
    BY <1>13 DEF GameStep, GameAnswers, GamePlays, GameFails, SocketCloses
  <2>2. QED
    BY <1>0, <2>1 DEF UpdateType, Observers
<1>14. QED
  BY <1>1, <1>2, <1>3, <1>4, <1>5, <1>6, <1>7, <1>8, <1>9, <1>10, <1>11, <1>12, <1>13
     DEF Next, Update, Ended

LEMMA ReplayTypeStep ==
    ASSUME ReplayInv, [Next]_vars
    PROVE  ReplayTypeOK' /\ UNCHANGED settings
  BY ObserversTypeStep, UpdateTypeStep DEF ObserversType, UpdateType, ReplayTypeOK

-----------------------------------------------------------------------------
(* The observers.                                                          *)

\* What is the same of an observer after a step that is not about it.
Same(q) ==
    /\ control'[q] = control[q] /\ game'[q] = game[q]
    /\ info'[q] = info[q] /\ stage'[q] = stage[q] /\ lost'[q] = lost[q]
    /\ phase'[q] = phase[q] /\ orphan'[q] = orphan[q] /\ repeated'[q] = repeated[q]

LEMMA SameKeeps ==
    ASSUME NEW q \in Clients, ObserverInv(q), Same(q), UNCHANGED settings
    PROVE  ObserverInv(q)'
  BY DEF ObserverInv, LeftInv, AppInv, PendingInv, StartInv, NewInv, ReportedInv, Same, settings

\* A step in which the observer may get errors, and otherwise stays where it is with the
\* answer, if any, to a request that is not for a replay.
LEMMA SendKeeps ==
    ASSUME ReplayTypeOK, NEW r \in Clients, ObserverInv(r), IssueAndSend(r),
           stage[r] \in {"done", "stepped"}, stage'[r] \in {"done", "end"},
           stage[r] = "done" => stage'[r] = "done",
           multi_threaded => stage[r] = "stepped",
           UNCHANGED settings, info'[r] = info[r], lost'[r] = lost[r]
    PROVE  ObserverInv(r)'
<1> USE DEF ObserverInv
<1>1. LeftInv(r)' /\ AppInv(r)'
  <2>1. game[r].status # "unknown"
    BY DEF ReplayTypeOK, GameStates
  <2>2. QED
    BY <2>1, SendFacts DEF LeftInv, AppInv
<1>2. PendingInv(r)'
  BY SendFacts DEF PendingInv
<1>3. phase'[r] = phase[r] /\ (control[r].errors => control'[r].errors)
  BY SendFacts, EventsType DEF IssueAndSend
<1>4. StartInv(r)'
  <2>1. CASE phase[r] # "none" \/ control[r].errors \/ control'[r].errors
    BY <1>3, <2>1 DEF StartInv
  <2>2. CASE ~(phase[r] # "none" \/ control[r].errors \/ control'[r].errors)
    <3>1. /\ stage[r] = "done" /\ stage'[r] = "done"
          /\ control[r].status # "in_replay" /\ control[r].observed = "none"
          /\ game[r].status = "in_replay" => control[r].pending = "start_replay"
      BY <2>2 DEF StartInv
    <3>2. QED
      BY <2>2, <3>1, SendFacts DEF StartInv
  <2>3. QED
    BY <2>1, <2>2
<1>5. NewInv(r)'
  BY DEF NewInv
<1>6. ReportedInv(r)'
  <2>1. orphan'[r] => orphan[r] \/ (phase[r] = "none" /\ control[r].observed # "none")
    BY EventsType DEF IssueAndSend
  <2>2. repeated'[r] => repeated[r] \/ control[r].observed = "old"
    BY EventsType DEF IssueAndSend
  <2>3. phase[r] = "none" /\ control[r].observed # "none" => control[r].errors
    BY DEF StartInv
  <2>4. multi_threaded /\ control[r].observed = "old" => control[r].errors
    BY DEF NewInv
  <2>5. QED
    BY <1>3, <2>1, <2>2, <2>3, <2>4 DEF ReportedInv, settings
<1>7. QED
  BY <1>1, <1>2, <1>4, <1>5, <1>6

\* A request without events.
LEMMA RequestKeeps ==
    ASSUME ReplayTypeOK, NEW r \in Clients, ObserverInv(r), NEW g \in GameStates,
           NEW o \in Outcomes(r, g), NEW c, NEW h,
           \/ c = o.control /\ h = o.game
           \/ c = Observed(o).control /\ h = Observed(o).game,
           g.status = "in_replay" => g.left # 0,
           control'[r] = c, game'[r] = h, info'[r] = info[r] \/ info'[r] # NoFile,
           UNCHANGED settings,
           lost'[r] = lost[r], repeated'[r] = repeated[r], orphan'[r] => orphan[r]
    PROVE  /\ LeftInv(r)' /\ AppInv(r)' /\ PendingInv(r)' /\ ReportedInv(r)'
           /\ control[r].errors => control'[r].errors
           /\ \/ control'[r].errors
              \/ /\ o.result = "good"
                 /\ control'[r].app = control[r].app /\ control'[r].pending = "not_set"
                 /\ control'[r].status = g.status /\ game'[r].status = g.status
<1>1. o \in OutcomeStates /\ g.status # "unknown" /\ control[r] \in ControlStates
  BY OutcomeType DEF GameStates, ReplayTypeOK
<1>2. /\ control'[r].app = o.control.app /\ control'[r].errors = o.control.errors
      /\ control'[r].pending = o.control.pending /\ control'[r].status = o.control.status
      /\ game'[r].status = o.game.status /\ game'[r].left = o.game.left
      /\ game'[r].process = o.game.process
  BY <1>1, ObservedType
<1>4. LeftInv(r)' /\ AppInv(r)' /\ PendingInv(r)'
  BY <1>1, <1>2, OutcomeFacts DEF LeftInv, AppInv, PendingInv, ObserverInv
<1>5. ReportedInv(r)'
  BY <1>2, OutcomeFacts DEF ReportedInv, ObserverInv, settings
<1>6. QED
  BY <1>1, <1>2, <1>4, <1>5, OutcomeFacts

\* A step that records an error for the observer.
LEMMA ErrorKeeps ==
    ASSUME NEW r \in Clients, ObserverInv(r), control'[r].errors, game'[r] = game[r],
           info'[r] = info[r],
           control'[r].app = control[r].app /\ control'[r].pending = control[r].pending
    PROVE  ObserverInv(r)'
  BY DEF ObserverInv, LeftInv, AppInv, PendingInv, StartInv, NewInv, ReportedInv

\* The steps of a thread: what it changes is its own.
LEMMA ThreadSame ==
    ASSUME ReplayTypeOK, NEW r \in Clients, RunThread(r), NEW q \in Clients, q # r
    PROVE  Same(q)
<1>0. /\ stage \in [Clients -> {"run", "wait", "begin", "step", "observe", "stepped", "end",
                                "done"}]
      /\ phase \in [Clients -> {"none", "begun", "ended"}]
      /\ orphan \in [Clients -> BOOLEAN] /\ repeated \in [Clients -> BOOLEAN]
      /\ control \in [Clients -> ControlStates] /\ game \in [Clients -> GameStates]
  BY DEF ReplayTypeOK
<1>1. ASSUME NEW o, Takes(r, o)
      PROVE  control'[q] = control[q] /\ game'[q] = game[q]
  BY <1>0, <1>1 DEF Takes
<1>2. stage'[q] = stage[q] /\ info'[q] = info[q] /\ lost'[q] = lost[q]
  BY <1>0 DEF RunThread, RunReplay, WaitForReplay, GameStarts, StepReplay, Observe, Stepped,
     EndReplay, Goto, client, history
<1>3. CASE RunReplay(r) \/ EndReplay(r)
  BY <1>0, <1>2, <1>3 DEF RunReplay, EndReplay, Same, Event, client, history, events
<1>4. CASE WaitForReplay(r)
  BY <1>1, <1>2, <1>4 DEF WaitForReplay, Same, history, events
<1>5. CASE GameStarts(r)
  <2>1. control'[q] = control[q] /\ game'[q] = game[q]
    BY <1>1, <1>5 DEF GameStarts
  <2>2. phase'[q] = phase[q] /\ orphan'[q] = orphan[q] /\ repeated'[q] = repeated[q]
    BY <1>0, <1>5 DEF GameStarts, Event
  <2>3. QED
    BY <1>2, <2>1, <2>2 DEF Same
<1>6. CASE StepReplay(r) \/ Observe(r)
  BY <1>1, <1>2, <1>6 DEF StepReplay, Observe, Same, history, events
<1>7. CASE Stepped(r)
  <2>1. CASE IssueAndSend(r)
    BY <1>2, <2>1, SendFacts, EventsType DEF IssueAndSend, Same
  <2>2. CASE UNCHANGED <<control, game, phase, orphan, repeated>>
    BY <1>2, <2>2 DEF Same
  <2>3. QED
    BY <1>7, <2>1, <2>2 DEF Stepped, events
<1>8. QED
  BY <1>3, <1>4, <1>5, <1>6, <1>7 DEF RunThread

\* What they leave of the observer.
LEMMA RunReplayKeeps ==
    ASSUME ReplayTypeOK, NEW r \in Clients, ObserverInv(r), RunReplay(r) \/ EndReplay(r)
    PROVE  ObserverInv(r)'
<1>0. /\ UNCHANGED <<control, game, info, lost, repeated, multi_threaded>>
      /\ phase[r] \in {"none", "begun", "ended"} /\ orphan[r] \in BOOLEAN
  BY DEF RunReplay, EndReplay, client, history, coordinator, settings, events, ReplayTypeOK
<1>1. LeftInv(r)' /\ AppInv(r)' /\ PendingInv(r)'
  BY <1>0 DEF ObserverInv, LeftInv, AppInv, PendingInv
<1>2. CASE RunReplay(r)
  <2>1. stage[r] = "run" /\ UNCHANGED <<phase, orphan>>
    BY <1>2 DEF RunReplay, At, history, events
  <2>2. stage'[r] = IF control[r].app # "normal" THEN "done"
                    ELSE IF ~HasResponsePending(control[r]) THEN Playing(control[r])
                    ELSE IF replay_observers_ > 1 /\ ~control[r].answered THEN "done"
                    ELSE "wait"
    BY <1>2 DEF RunReplay, Goto, ReplayTypeOK
  <2>3. StartInv(r)'
    <3>1. CASE phase[r] # "none" \/ control[r].errors
      BY <1>0, <2>1, <3>1 DEF StartInv
    <3>2. CASE ~(phase[r] # "none" \/ control[r].errors)
      <4>1. /\ control[r].status # "in_replay" /\ control[r].observed = "none"
            /\ game[r].status = "in_replay" => control[r].pending = "start_replay"
        BY <2>1, <3>2 DEF ObserverInv, StartInv
      <4>2. stage'[r] \in {"done", "wait"}
            /\ (stage'[r] = "wait" => HasResponsePending(control[r]))
        BY <2>2, <4>1 DEF Playing, IsInGame
      <4>3. HasResponsePending(control[r]) => control[r].pending = "start_replay"
        BY <3>2 DEF HasResponsePending, ObserverInv, AppInv, ReplayTypeOK, ControlStates
      <4>4. QED
        BY <1>0, <4>1, <4>2, <4>3 DEF StartInv
    <3>3. QED
      BY <3>1, <3>2
  <2>4. NewInv(r)' /\ ReportedInv(r)'
    BY <1>0, <2>1, <2>2 DEF ObserverInv, NewInv, ReportedInv, Playing
  <2>5. QED
    BY <1>1, <2>3, <2>4 DEF ObserverInv
<1>3. CASE EndReplay(r)
  <2>1. stage[r] = "end" /\ stage'[r] = "done"
    BY <1>3 DEF EndReplay, At, Goto, ReplayTypeOK
  <2>2. phase[r] # "none" \/ control[r].errors
    BY <2>1 DEF ObserverInv, StartInv
  <2>3. /\ phase'[r] = phase[r] \/ phase'[r] = "ended"
        /\ orphan'[r] => orphan[r] \/ phase[r] = "none"
    <3>1. CASE UNCHANGED <<phase, orphan>>
      BY <3>1
    <3>2. CASE Event(r, "ended")
      BY <3>2 DEF Event, ReplayTypeOK
    <3>3. QED
      BY <1>3, <3>1, <3>2 DEF EndReplay
  <2>4. StartInv(r)'
    BY <1>0, <2>2, <2>3 DEF StartInv
  <2>5. NewInv(r)' /\ ReportedInv(r)'
    BY <1>0, <2>1, <2>2, <2>3 DEF ObserverInv, NewInv, ReportedInv
  <2>6. QED
    BY <1>1, <2>4, <2>5 DEF ObserverInv
<1>4. QED
  BY <1>2, <1>3

LEMMA WaitForReplayKeeps ==
    ASSUME ReplayTypeOK, NEW r \in Clients, ObserverInv(r), WaitForReplay(r),
           UNCHANGED settings
    PROVE  ObserverInv(r)'
<1>0. /\ UNCHANGED <<info, lost, phase, orphan, repeated>> /\ stage[r] = "wait"
      /\ control[r] \in ControlStates /\ game[r] \in GameStates /\ Loaded(game[r]) \in GameStates
      /\ LeftInv(r) /\ AppInv(r) /\ PendingInv(r) /\ StartInv(r) /\ NewInv(r) /\ ReportedInv(r)
  BY ObserverGame DEF WaitForReplay, At, history, events, ObserverInv
<1>1. PICK o \in Responses(r) :
        /\ Takes(r, o)
        /\ Goto(r, IF o.result = "good" /\ IsInGame(o.control) /\ info[r] # NoFile
                     THEN "begin" ELSE Playing(o.control))
  BY DEF WaitForReplay
<1>2. stage'[r] = IF o.result = "good" /\ IsInGame(o.control) /\ info[r] # NoFile
                    THEN "begin" ELSE Playing(o.control)
  BY <1>1 DEF Goto, ReplayTypeOK
<1>3. control'[r] = o.control /\ game'[r] = o.game
  BY <1>1 DEF Takes, ReplayTypeOK
<1>4. /\ LeftInv(r)' /\ AppInv(r)' /\ PendingInv(r)' /\ ReportedInv(r)'
      /\ \/ control'[r].errors
         \/ /\ o.result = "good" /\ control'[r].app = control[r].app
            /\ control'[r].status = game'[r].status
            /\ control'[r].observed = control[r].observed
            /\ ~control[r].errors
  <2>1. CASE control[r].answered
    <3>1. o.result = "good" /\ o.control = Answered(control[r], game[r]) /\ o.game = game[r]
      BY <1>1, <2>1 DEF Responses
    <3>2. /\ control'[r].app = control[r].app /\ control'[r].errors = control[r].errors
          /\ control'[r].pending = "not_set" /\ control'[r].status = game[r].status
          /\ control'[r].observed = control[r].observed /\ game'[r] = game[r]
      <4> DEFINE c == Answered(control[r], game[r])
      <4>1. /\ c.app = control[r].app /\ c.errors = control[r].errors
            /\ c.pending = "not_set" /\ c.status = game[r].status
            /\ c.observed = control[r].observed
        BY <1>0, AnsweredFields
      <4>2. control'[r] = c /\ game'[r] = game[r]
        BY <1>3, <3>1
      <4> HIDE DEF c
      <4>3. QED
        BY <4>1, <4>2
    <3>3. game[r].status # "unknown"
      BY <1>0 DEF GameStates
    <3>4. LeftInv(r)' /\ AppInv(r)' /\ PendingInv(r)' /\ ReportedInv(r)'
      BY <1>0, <3>2, <3>3 DEF LeftInv, AppInv, PendingInv, ReportedInv, settings
    <3>5. control'[r].errors \in BOOLEAN
      BY <1>0, <3>2 DEF ControlStates
    <3>6. QED
      BY <3>1, <3>2, <3>4
  <2>2. CASE ~control[r].answered
    <3> DEFINE g == Loaded(game[r])
    <3>1. o \in Outcomes(r, g) /\ g \in GameStates /\ g.left # 0
      BY <1>0, <1>1, <2>2, GameType DEF Responses, LeftInv
    <3> HIDE DEF g
    <3>2. /\ LeftInv(r)' /\ AppInv(r)' /\ PendingInv(r)' /\ ReportedInv(r)'
          /\ control[r].errors => control'[r].errors
          /\ \/ control'[r].errors
             \/ /\ o.result = "good" /\ control'[r].app = control[r].app
                /\ control'[r].status = g.status /\ game'[r].status = g.status
      BY <1>0, <1>3, <3>1, RequestKeeps
    <3>3. \/ o.control.errors
          \/ o.control = Answered(control[r], g)
      BY <3>1, OutcomeFacts
    <3>4. Answered(control[r], g).observed = control[r].observed
      BY <1>0, <3>1, AnsweredFields
    <3>5. QED
      BY <1>3, <3>2, <3>3, <3>4
  <2>3. QED
    BY <2>1, <2>2
<1>5. NewInv(r)'
  BY <1>2 DEF NewInv, Playing
<1>6. StartInv(r)'
  <2>1. CASE phase[r] # "none" \/ control'[r].errors
    BY <1>0, <2>1 DEF StartInv
  <2>2. CASE ~(phase[r] # "none" \/ control'[r].errors)
    <3>1. /\ o.result = "good" /\ control'[r].app = control[r].app
          /\ control'[r].status = game'[r].status
          /\ control'[r].observed = control[r].observed /\ ~control[r].errors
      BY <1>4, <2>2
    <3>2. control[r].pending = "start_replay" /\ control[r].observed = "none"
      BY <1>0, <2>2, <3>1 DEF StartInv
    <3>3. info[r] # NoFile /\ control'[r].app = "normal"
      BY <1>0, <3>1, <3>2 DEF PendingInv
    <3>4. CASE control'[r].status = "in_replay"
      BY <1>2, <1>3, <3>1, <3>3, <3>4 DEF IsInGame, StartInv
    <3>5. CASE control'[r].status # "in_replay"
      <4>1. stage'[r] = "done"
        BY <1>2, <1>3, <3>5 DEF IsInGame, Playing
      <4>2. QED
        BY <3>1, <3>2, <3>5, <4>1 DEF StartInv
    <3>6. QED
      BY <3>4, <3>5
  <2>3. QED
    BY <2>1, <2>2
<1>7. QED
  BY <1>4, <1>5, <1>6 DEF ObserverInv

LEMMA PlayKeeps ==
    ASSUME ReplayTypeOK, NEW r \in Clients, ObserverInv(r),
           GameStarts(r) \/ StepReplay(r) \/ Observe(r),
           UNCHANGED settings
    PROVE  ObserverInv(r)'
<1>0. /\ control[r] \in ControlStates /\ game[r] \in GameStates
      /\ Advanced(game[r]) \in GameStates
      /\ LeftInv(r)
  BY ObserverGame DEF ObserverInv
<1>1. UNCHANGED <<info, lost, repeated>> /\ stage[r] \in {"begin", "step", "observe"}
  BY DEF GameStarts, StepReplay, Observe, At, history, events
<1> DEFINE Played(o) ==
        \/ /\ StepReplay(r) /\ Takes(r, o)
           /\ Goto(r, IF o.result = "good" THEN "observe" ELSE "stepped")
        \/ /\ GameStarts(r) /\ Takes(r, Observed(o))
           /\ IF IsNull(o) THEN UNCHANGED <<stage, phase, orphan>>
              ELSE Goto(r, Playing(o.control)) /\ Event(r, "begun")
        \/ /\ Observe(r) /\ Takes(r, Observed(o))
           /\ IF IsNull(o) THEN UNCHANGED stage ELSE Goto(r, "stepped")
<1>a. \E g \in {game[r], Advanced(game[r])} : \E o \in Outcomes(r, g) : Played(o)
  BY DEF GameStarts, StepReplay, Observe
<1>b. PICK g \in {game[r], Advanced(game[r])} : \E o \in Outcomes(r, g) : Played(o)
  BY <1>a
<1>2. PICK o \in Outcomes(r, g) : Played(o)
  BY <1>b
<1>3. g \in GameStates /\ (g.status = "in_replay" => g.left # 0)
  BY <1>0, <1>b, GameType DEF LeftInv
<1>4. o \in OutcomeStates /\ (o.result # "good" => o.control.errors)
      /\ (o.result = "good" => Observed(o).control.observed # "old")
      /\ (Observed(o).control.errors = o.control.errors)
  BY <1>2, <1>3, OutcomeType, OutcomeFacts, ObservedType
<1>5. \/ control'[r] = o.control /\ game'[r] = o.game
      \/ control'[r] = Observed(o).control /\ game'[r] = Observed(o).game
  BY <1>2 DEF Takes, ReplayTypeOK
<1>6. orphan'[r] => orphan[r]
  BY <1>2 DEF Event, ReplayTypeOK, StepReplay, Observe, history, events
<1>7. /\ LeftInv(r)' /\ AppInv(r)' /\ PendingInv(r)' /\ ReportedInv(r)'
      /\ control[r].errors => control'[r].errors
  BY <1>1, <1>2, <1>3, <1>5, <1>6, RequestKeeps
<1>8. CASE GameStarts(r) /\ IsNull(o)
  <2>1. stage'[r] = stage[r] /\ stage[r] = "begin"
    BY <1>2, <1>8 DEF GameStarts, StepReplay, Observe, At
  <2>2. QED
    BY <1>7, <2>1 DEF ObserverInv, StartInv, NewInv
<1>9. CASE GameStarts(r) /\ ~IsNull(o)
  <2>1. phase'[r] = "begun" /\ stage'[r] = Playing(o.control)
    BY <1>2, <1>9 DEF GameStarts, StepReplay, Observe, At, Goto, Event, ReplayTypeOK
  <2>2. QED
    BY <1>7, <2>1 DEF ObserverInv, StartInv, NewInv, Playing
<1>10. CASE StepReplay(r) \/ Observe(r)
  <2>1. phase'[r] = phase[r] /\ stage[r] \in {"step", "observe"}
    BY <1>10 DEF StepReplay, Observe, At, history, events
  <2>2. StartInv(r)'
    BY <1>7, <2>1 DEF ObserverInv, StartInv
  <2>3. NewInv(r)'
    <3>1. CASE StepReplay(r)
      <4>1. stage[r] = "step" /\ stage'[r] = IF o.result = "good" THEN "observe" ELSE "stepped"
        BY <1>2, <3>1 DEF GameStarts, StepReplay, Observe, At, Goto, ReplayTypeOK
      <4>2. control'[r] = o.control
        BY <1>2, <3>1, <4>1 DEF Takes, GameStarts, Observe, At, ReplayTypeOK
      <4>3. QED
        BY <1>4, <4>1, <4>2 DEF NewInv
    <3>2. CASE Observe(r)
      <4>1. /\ stage[r] = "observe" /\ control'[r] = Observed(o).control
            /\ stage'[r] \in {"observe", "stepped"}
        BY <1>2, <3>2 DEF GameStarts, StepReplay, Observe, At, Goto, Takes, ReplayTypeOK
      <4>2. Observed(o).control.errors \/ Observed(o).control.observed # "old"
        BY <1>4
      <4>3. QED
        BY <4>1, <4>2 DEF NewInv
    <3>3. QED
      BY <1>10, <3>1, <3>2
  <2>4. QED
    BY <1>7, <2>2, <2>3 DEF ObserverInv
<1>11. QED
  BY <1>8, <1>9, <1>10

LEMMA SteppedKeeps ==
    ASSUME ReplayTypeOK, NEW r \in Clients, ObserverInv(r), Stepped(r), UNCHANGED settings
    PROVE  ObserverInv(r)'
<1>1. /\ stage[r] = "stepped" /\ stage'[r] = "end" /\ UNCHANGED <<info, lost>>
  BY DEF Stepped, At, Goto, ReplayTypeOK
<1>2. CASE multi_threaded
  BY <1>1, <1>2, SendKeeps DEF Stepped
<1>3. CASE ~multi_threaded
  <2>1. UNCHANGED <<control, game, phase, orphan, repeated>>
    BY <1>3 DEF Stepped, events
  <2>2. QED
    BY <1>1, <2>1 DEF ObserverInv, LeftInv, AppInv, PendingInv, StartInv, NewInv, ReportedInv,
       settings
<1>4. QED
  BY <1>2, <1>3

LEMMA ThreadKeeps ==
    ASSUME ReplayTypeOK, NEW r \in Clients, \A q \in Clients : ObserverInv(q), RunThread(r),
           UNCHANGED settings, NEW q \in Clients
    PROVE  ObserverInv(q)'
<1>1. CASE q # r
  BY <1>1, ThreadSame, SameKeeps
<1>2. CASE q = r
  BY <1>2, RunReplayKeeps, WaitForReplayKeeps, PlayKeeps, SteppedKeeps DEF RunThread
<1>3. QED
  BY <1>1, <1>2

\* The steps of a game.
LEMMA GameKeeps ==
    ASSUME ReplayTypeOK, NEW r \in Clients, \A q \in Clients : ObserverInv(q), GameStep(r),
           UNCHANGED settings, NEW q \in Clients
    PROVE  ObserverInv(q)'
<1>0. /\ control \in [Clients -> ControlStates] /\ game \in [Clients -> GameStates]
      /\ UNCHANGED <<info, stage, lost, phase, orphan, repeated>>
      /\ ObserverInv(r) /\ ObserverInv(q) /\ control[r] \in ControlStates /\ game[r] \in GameStates
  BY DEF GameStep, GameAnswers, GamePlays, GameFails, SocketCloses, client, history, events,
     ReplayTypeOK
<1>1. CASE q # r
  <2>1. control'[q] = control[q] /\ game'[q] = game[q]
    BY <1>0, <1>1 DEF GameStep, GameAnswers, GamePlays, GameFails, SocketCloses, client
  <2>2. QED
    BY <1>0, <2>1, SameKeeps DEF Same
<1>2. CASE GameAnswers(r) /\ q = r
  <2>1. /\ control'[r].app = control[r].app /\ control'[r].errors = control[r].errors
        /\ control'[r].pending = control[r].pending /\ control'[r].status = control[r].status
        /\ control'[r].observed = control[r].observed
    BY <1>0, <1>2 DEF GameAnswers, ControlStates
  <2>2. /\ game'[r] = game[r] \/ game'[r] = Loaded(game[r])
        /\ control[r].pending = "start_replay"
    BY <1>0, <1>2 DEF GameAnswers
  <2>3. /\ game'[r].process = game[r].process
        /\ game'[r].status = "in_replay" => game'[r].left # 0
    BY <1>0, <2>2, GameType DEF ObserverInv, LeftInv
  <2>4. QED
    BY <1>0, <1>2, <2>1, <2>2, <2>3
       DEF ObserverInv, LeftInv, AppInv, PendingInv, StartInv, NewInv, ReportedInv, settings
<1>3. CASE GamePlays(r) /\ q = r
  <2>1. control'[r] = control[r] /\ game'[r] = Advanced(game[r]) /\ stage[r] = "observe"
    BY <1>0, <1>3 DEF GamePlays, At, client
  <2>2. /\ game'[r].process = game[r].process
        /\ game'[r].status = "in_replay" => game'[r].left # 0
    BY <1>0, <2>1, GameType DEF ObserverInv, LeftInv
  <2>3. phase[r] # "none" \/ control[r].errors
    BY <1>0, <2>1 DEF ObserverInv, StartInv
  <2>4. QED
    BY <1>0, <1>3, <2>1, <2>2, <2>3
       DEF ObserverInv, LeftInv, AppInv, PendingInv, StartInv, NewInv, ReportedInv, settings
<1>4. ASSUME NEW how \in {"hung", "dead"}, GameFails(r, how), q = r
      PROVE  ObserverInv(q)'
  <2>1. /\ control'[r] = control[r] /\ game[r].process = "running"
        /\ game'[r].status = game[r].status /\ game'[r].left = game[r].left
    BY <1>0, <1>4 DEF GameFails, client, GameStates
  <2>2. QED
    BY <1>0, <1>4, <2>1
       DEF ObserverInv, LeftInv, AppInv, PendingInv, StartInv, NewInv, ReportedInv, settings
<1>5. CASE SocketCloses(r) /\ q = r
  <2>1. /\ control'[r].app = control[r].app /\ control'[r].pending = control[r].pending
        /\ control'[r].errors = TRUE /\ game'[r] = game[r]
    BY <1>0, <1>5 DEF SocketCloses, ControlStates
  <2>2. control'[r].errors
    BY <2>1
  <2>3. QED
    BY <1>0, <1>5, <2>1, <2>2, ErrorKeeps
<1>6. QED
  BY <1>1, <1>2, <1>3, <1>4, <1>5 DEF GameStep

\* The steps of Update outside its loops over the replays and over the errors.
LEMMA UpdateKeeps ==
    ASSUME ReplayInv, UNCHANGED settings, NEW q \in Clients,
           \/ UpdateBegins \/ Joined \/ SecondLoop \/ SecondLoopEnds \/ Available
           \/ LaunchProcesses \/ Assign \/ AssignEnds
           \/ NoErrors \/ NotRelaunched \/ UpdateReturns \/ UNCHANGED vars
    PROVE  ObserverInv(q)'
<1>0. ReplayTypeOK /\ ObserverInv(q) /\ TurnInv
  BY DEF ReplayInv
<1>1. CASE \/ Joined \/ SecondLoopEnds \/ Available \/ Assign \/ AssignEnds
           \/ NoErrors \/ NotRelaunched \/ UpdateReturns \/ UNCHANGED vars
  <2>1. UNCHANGED <<stage, client, game, history>>
    BY <1>1 DEF Joined, SecondLoopEnds, Available, Assign, AssignEnds, NoErrors, NotRelaunched,
       UpdateReturns, vars
  <2>2. QED
    BY <1>0, <2>1, SameKeeps DEF Same, client, history, events
<1>2. CASE UpdateBegins
  <2>1. stage[q] = "done"
    BY <1>0, <1>2 DEF UpdateBegins, TurnInv
  <2>2. stage'[q] \in {"done", "run"}
    BY <1>2, <2>1 DEF UpdateBegins
  <2>3. UNCHANGED <<client, game, history>>
    BY <1>2 DEF UpdateBegins
  <2>4. QED
    BY <1>0, <2>1, <2>2, <2>3
       DEF ObserverInv, LeftInv, AppInv, PendingInv, StartInv, NewInv, ReportedInv, settings,
           client, history, events
<1>3. CASE SecondLoop
  <2>1. /\ turn \in Clients /\ stage[turn] = "done" /\ ~multi_threaded
        /\ UNCHANGED <<stage, info, lost>>
    BY <1>0, <1>3, ObserversAreClients DEF SecondLoop, TurnInv
  <2>2. CASE IssueAndSend(turn)
    <3>1. CASE q = turn
      BY <1>0, <2>1, <2>2, <3>1, SendKeeps
    <3>2. CASE q # turn
      <4>1. Same(q)
        BY <1>0, <2>1, <2>2, <3>2, SendFacts, EventsType DEF IssueAndSend, Same
      <4>2. QED
        BY <1>0, <4>1, SameKeeps
    <3>3. QED
      BY <3>1, <3>2
  <2>3. CASE UNCHANGED <<control, game, events>>
    BY <1>0, <2>1, <2>3, SameKeeps DEF Same, events
  <2>4. QED
    BY <1>3, <2>2, <2>3 DEF SecondLoop
<1>4. CASE LaunchProcesses
  <2>1. stage[q] = "done" /\ UNCHANGED <<stage, info, lost, phase, orphan, repeated>>
    BY <1>0, <1>4 DEF LaunchProcesses, TurnInv, history, events
  <2>2. /\ control'[q].app = control[q].app /\ control'[q].errors = control[q].errors
        /\ control'[q].pending = control[q].pending
        /\ control'[q].observed = control[q].observed
        /\ \/ control'[q].status = "launched"
           \/ control'[q].status = control[q].status /\ game'[q].process = "none"
        /\ game'[q].status = "launched"
    BY <1>0, <1>4, LaunchFacts
  <2>3. QED
    BY <1>0, <2>1, <2>2
       DEF ObserverInv, LeftInv, AppInv, PendingInv, StartInv, NewInv, ReportedInv, settings
<1>5. QED
  BY <1>1, <1>2, <1>3, <1>4

\* The steps of its loop over the replays.
LEMMA AssignKeeps ==
    ASSUME ReplayInv, UNCHANGED settings, NEW q \in Clients,
           GatherReplayInfo \/ SkipReplay \/ AskRelaunch \/ LoadReplay \/ LoadReplayRefused
    PROVE  ObserverInv(q)'
<1>0. /\ ReplayTypeOK /\ ObserverInv(q) /\ ObserverInv(turn) /\ TurnInv
      /\ turn \in Clients /\ stage[turn] = "done" /\ File \in Files /\ NoFile \notin Files
      /\ control \in [Clients -> ControlStates] /\ control[turn] \in ControlStates
      /\ game[turn] \in GameStates
      /\ UNCHANGED <<stage, phase, orphan, repeated>>
  <2>1. pc \in {"gather", "judge"} /\ UNCHANGED <<stage, phase, orphan, repeated>>
    BY DEF GatherReplayInfo, SkipReplay, AskRelaunch, LoadReplay, LoadReplayRefused, history,
       events
  <2>2. /\ ReplayTypeOK /\ TurnInv /\ (\A p \in Clients : ObserverInv(p))
        /\ turn \in Clients /\ File \in Files
    BY <2>1, ObserversAreClients, PopFacts DEF ReplayInv, TurnInv
  <2>3. NoFile \notin Files
    BY DEF Files, NoFile
  <2>4. QED
    BY <2>1, <2>2, <2>3 DEF ReplayTypeOK, TurnInv
<1>1. CASE GatherReplayInfo
  <2>1. UNCHANGED lost /\ pc = "gather"
    BY <1>1 DEF GatherReplayInfo, history
  <2>2. CASE control[turn].app # "normal"
    <3>1. UNCHANGED <<control, game, info>>
      BY <1>1, <2>2 DEF GatherReplayInfo
    <3>2. QED
      BY <1>0, <2>1, <3>1, SameKeeps DEF Same
  <2>3. CASE control[turn].app = "normal"
    <3>1. PICK o \in Outcomes(turn, game[turn]) :
            /\ Takes(turn, o)
            /\ info' = [info EXCEPT ![turn] = IF o.result = "good" THEN File ELSE @]
      BY <1>1, <2>3 DEF GatherReplayInfo
    <3>2. CASE q # turn
      <4>1. Same(q)
        BY <1>0, <2>1, <3>1, <3>2 DEF Same, Takes, ReplayTypeOK
      <4>2. QED
        BY <1>0, <4>1, SameKeeps
    <3>3. CASE q = turn
      <4>1. /\ control'[q] = o.control /\ game'[q] = o.game
            /\ info'[q] = info[q] \/ info'[q] # NoFile
        BY <1>0, <3>1, <3>3 DEF Takes, ReplayTypeOK
      <4>2. /\ LeftInv(q)' /\ AppInv(q)' /\ PendingInv(q)' /\ ReportedInv(q)'
            /\ control[q].errors => control'[q].errors
            /\ \/ control'[q].errors
               \/ /\ o.result = "good"
                  /\ control'[q].status = game[q].status
                  /\ game'[q].status = game[q].status
        BY <1>0, <2>1, <3>3, <4>1, RequestKeeps DEF ObserverInv, LeftInv
      <4>3. o.control.errors \/ o.control = Answered(control[q], game[q])
        BY <1>0, <3>3, OutcomeFacts
      <4>4. Answered(control[q], game[q]).observed = control[q].observed
        BY <1>0, <3>3, AnsweredFields
      <4>5. control[q].pending = "not_set" \/ control[q].errors
        BY <1>0, <2>1, <3>3 DEF TurnInv
      <4>6. StartInv(q)'
        <5>1. CASE phase[q] # "none" \/ control'[q].errors
          BY <1>0, <3>3, <5>1 DEF StartInv
        <5>2. CASE ~(phase[q] # "none" \/ control'[q].errors)
          <6>1. control'[q].observed = control[q].observed
            BY <4>1, <4>3, <4>4, <5>2
          <6>2. QED
            BY <1>0, <3>3, <4>2, <4>5, <5>2, <6>1 DEF ObserverInv, StartInv
        <5>3. QED
          BY <5>1, <5>2
      <4>7. QED
        BY <1>0, <3>3, <4>2, <4>6 DEF ObserverInv, NewInv
    <3>4. QED
      BY <3>2, <3>3
  <2>4. QED
    BY <2>2, <2>3
<1>2. CASE SkipReplay \/ LoadReplayRefused
  <2>1. /\ UNCHANGED <<control, game, info>> /\ pc = "judge"
        /\ lost' = [lost EXCEPT ![turn] = IF Replays[File].short THEN @ ELSE @ \cup {File}]
    BY <1>2 DEF SkipReplay, LoadReplayRefused, Skip, client
  <2>2. Replays[File].short \/ control[turn].errors
    <3>1. info[turn] = File \/ control[turn].errors
      BY <1>0, <2>1 DEF TurnInv
    <3>2. QED
      BY <1>0, <1>2, <3>1 DEF SkipReplay, ShouldIgnore, LoadReplayRefused, ObserverInv, AppInv
  <2>3. lost'[q] = lost[q] \/ control[q].errors
    BY <1>0, <2>1, <2>2 DEF ReplayTypeOK
  <2>4. QED
    BY <1>0, <2>1, <2>3
       DEF ObserverInv, LeftInv, AppInv, PendingInv, StartInv, NewInv, ReportedInv, settings
<1>3. CASE AskRelaunch
  <2>1. /\ UNCHANGED <<game, info, lost>>
        /\ control' = [control EXCEPT ![turn].errors = TRUE]
    BY <1>3 DEF AskRelaunch, history
  <2>2. CASE q # turn
    <3>1. Same(q)
      BY <1>0, <2>1, <2>2 DEF Same
    <3>2. QED
      BY <1>0, <3>1, SameKeeps
  <2>3. CASE q = turn
    <3>1. /\ control'[q].app = control[q].app /\ control'[q].pending = control[q].pending
          /\ control'[q].errors = TRUE
      BY <1>0, <2>1, <2>3 DEF ControlStates
    <3>2. control'[q].errors
      BY <3>1
    <3>3. QED
      BY <1>0, <2>1, <3>1, <3>2, ErrorKeeps
  <2>4. QED
    BY <2>2, <2>3
<1>4. CASE LoadReplay
  <2>1. /\ UNCHANGED <<game, info, lost>>
        /\ control' = [control EXCEPT ![turn].pending = "start_replay"]
        /\ control[turn].app = "normal" /\ info[turn] # NoFile
    BY <1>4 DEF LoadReplay, ShouldIgnore
  <2>2. CASE q # turn
    <3>1. Same(q)
      BY <1>0, <2>1, <2>2 DEF Same
    <3>2. QED
      BY <1>0, <3>1, SameKeeps
  <2>3. CASE q = turn
    <3>1. /\ control'[q].app = control[q].app /\ control'[q].pending = "start_replay"
          /\ control'[q].errors = control[q].errors /\ control'[q].status = control[q].status
          /\ control'[q].observed = control[q].observed
      BY <1>0, <2>1, <2>3 DEF ControlStates
    <3>2. QED
      BY <1>0, <2>1, <2>3, <3>1
         DEF ObserverInv, LeftInv, AppInv, PendingInv, StartInv, NewInv, ReportedInv, settings
  <2>4. QED
    BY <2>2, <2>3
<1>5. QED
  BY <1>1, <1>2, <1>3, <1>4

\* The relaunch.
LEMMA RelaunchKeeps ==
    ASSUME ReplayInv, UNCHANGED settings, NEW q \in Clients, Recovered \/ NotRecovered
    PROVE  ObserverInv(q)'
<1>0. ReplayTypeOK /\ ObserverInv(q) /\ TurnInv
  BY DEF ReplayInv
<1>1. PICK connected \in BOOLEAN : Relaunch(connected)
  BY DEF Recovered, NotRecovered
<1>2. /\ turn \in Clients
      /\ control'[turn].app = "normal" /\ control'[turn].errors = FALSE
      /\ control'[turn].pending = "not_set" /\ control'[turn].observed = "none"
      /\ \/ control'[turn].status = "launched"
         \/ control'[turn].status = "unknown" /\ game'[turn].process = "none"
      /\ game'[turn].status = "launched"
      /\ \A p \in Clients \ {turn} : control'[p] = control[p] /\ game'[p] = game[p]
  BY <1>0, <1>1, RelaunchFacts
<1>3. CASE q # turn
  <2>1. Same(q)
    BY <1>0, <1>1, <1>2, <1>3 DEF Same, Relaunch, ReplayTypeOK
  <2>2. QED
    BY <1>0, <2>1, SameKeeps
<1>4. CASE q = turn
  <2>1. /\ stage[turn] = "done" /\ UNCHANGED stage
        /\ lost'[turn] = {} /\ orphan'[turn] = FALSE /\ repeated'[turn] = FALSE
    BY <1>0, <1>1, <1>2 DEF Relaunch, TurnInv, ReplayTypeOK
  <2>2. ~orphan'[turn] /\ ~repeated'[turn]
    BY <2>1
  <2>3. QED
    BY <1>2, <1>4, <2>1, <2>2
       DEF ObserverInv, LeftInv, AppInv, PendingInv, StartInv, NewInv, ReportedInv
<1>5. QED
  BY <1>3, <1>4

LEMMA ObserverStep ==
    ASSUME ReplayInv, [Next]_vars, NEW q \in Clients
    PROVE  ObserverInv(q)'
<1>1. UNCHANGED settings
  BY ReplayTypeStep
<1>2. ReplayTypeOK /\ (\A p \in Clients : ObserverInv(p)) /\ Observers \subseteq Clients
  BY ObserversAreClients DEF ReplayInv
<1>3. ASSUME NEW r \in Observers, RunThread(r) \/ GameStep(r)
      PROVE  ObserverInv(q)'
  BY <1>1, <1>2, <1>3, ThreadKeeps, GameKeeps
<1>4. CASE Update
  BY <1>1, <1>4, UpdateKeeps, AssignKeeps, RelaunchKeeps DEF Update
<1>5. QED
  BY <1>1, <1>3, <1>4, UpdateKeeps DEF Next, Ended

-----------------------------------------------------------------------------
(* Update.                                                                 *)

\* What a step of a game leaves of Update, and of what Update looks at.
LEMMA GameStepFacts ==
    ASSUME ReplayTypeOK, NEW r \in Clients, GameStep(r), NEW q \in Clients
    PROVE  /\ UNCHANGED <<pc, turn, stage, replay_file, starcraft_started_, info, locals, loads>>
           /\ control'[q].app = control[q].app /\ control'[q].pending = control[q].pending
           /\ control'[q].status = control[q].status
           /\ control[q].errors => control'[q].errors
           /\ game[q].process = "none" => game'[q].process = "none"
<1>0. /\ control \in [Clients -> ControlStates] /\ game \in [Clients -> GameStates]
      /\ control[q] \in ControlStates /\ game[q] \in GameStates
      /\ control[r] \in ControlStates /\ game[r] \in GameStates
  BY DEF ReplayTypeOK
<1>1. UNCHANGED <<pc, turn, stage, replay_file, starcraft_started_, info, locals, loads>>
  BY DEF GameStep, GameAnswers, GamePlays, GameFails, SocketCloses, coordinator, client, history
<1>2. game[q].process = "none" => game'[q].process = "none"
  BY <1>0 DEF GameStep, GameAnswers, GamePlays, GameFails, SocketCloses, Loaded, Advanced,
     GameStates
<1>3. \/ control' = control
      \/ control' = [control EXCEPT ![r].errors = TRUE]
      \/ control' = [control EXCEPT ![r].answered = TRUE]
  BY DEF GameStep, GameAnswers, GamePlays, GameFails, SocketCloses, client
<1>4. /\ control'[q].app = control[q].app /\ control'[q].pending = control[q].pending
      /\ control'[q].status = control[q].status
      /\ control'[q].errors = control[q].errors \/ control'[q].errors = TRUE
  BY <1>0, <1>3 DEF ControlStates
<1>5. control[q].errors => control'[q].errors
  BY <1>4
<1>6. QED
  BY <1>1, <1>2, <1>4, <1>5

LEMMA ThreadFacts ==
    ASSUME ReplayTypeOK, NEW r \in Clients, RunThread(r)
    PROVE  /\ pc = "stepping" /\ pc' \in {"stepping", "segfault"}
           /\ \A q \in Clients \ {r} : stage'[q] = stage[q]
           /\ UNCHANGED <<turn, replay_file, loads>>
<1>1. /\ pc = "stepping" /\ UNCHANGED <<turn, replay_file, loads>>
      /\ \A q \in Clients \ {r} : stage'[q] = stage[q]
  BY ThreadSame DEF RunThread, RunReplay, WaitForReplay, GameStarts, StepReplay, Observe, Stepped,
     EndReplay, At, coordinator, history, Same
<1>2. pc' \in {"stepping", "segfault"}
  <2>1. CASE Stepped(r)
    BY <1>1, <2>1, SendFacts DEF Stepped
  <2>2. QED
    BY <1>1, <2>1 DEF RunThread, RunReplay, WaitForReplay, GameStarts, StepReplay, Observe,
       EndReplay
<1>3. QED
  BY <1>1, <1>2

LEMMA TurnStep ==
    ASSUME ReplayInv, [Next]_vars
    PROVE  TurnInv'
<1>0. /\ ReplayTypeOK /\ TurnInv /\ Observers \subseteq Clients
      /\ \A r \in Clients : ObserverInv(r)
  BY ObserversAreClients DEF ReplayInv
<1>a. Observers' = Observers /\ UNCHANGED settings
  BY ReplayTypeStep DEF settings, Observers
<1>1. CASE UNCHANGED vars
  <2>1. UNCHANGED <<pc, turn, stage, replay_file, control, info>>
    BY <1>1 DEF vars, coordinator, client
  <2>2. QED
    BY <1>0, <1>a, <2>1 DEF TurnInv, File, settings
<1>2. ASSUME NEW r \in Observers, GameStep(r)
      PROVE  TurnInv'
  <2>1. r \in Clients /\ UNCHANGED <<pc, turn, stage, replay_file, info>>
    BY <1>0, <1>2, GameStepFacts
  <2>2. pc \in {"gather", "judge"} =>
          /\ turn \in Observers
          /\ control'[turn].pending = control[turn].pending
          /\ control[turn].errors => control'[turn].errors
    BY <1>0, <1>2, <2>1, GameStepFacts DEF TurnInv
  <2>3. QED
    BY <1>0, <1>a, <2>1, <2>2 DEF TurnInv, File, settings
<1>3. ASSUME NEW r \in Observers, RunThread(r)
      PROVE  TurnInv'
  BY <1>0, <1>a, <1>3, ThreadFacts DEF TurnInv, settings
<1>4. CASE UpdateBegins
  BY <1>0, <1>a, <1>4 DEF UpdateBegins, TurnInv, settings
<1>5. CASE Joined
  BY <1>0, <1>a, <1>5 DEF Joined, TurnInv, settings, coordinator
<1>6. CASE SecondLoop
  <2>1. pc' \in {"events", "segfault"} /\ pc = "events" /\ UNCHANGED stage
    BY <1>0, <1>6, SendFacts DEF SecondLoop
  <2>2. QED
    BY <1>0, <1>a, <2>1 DEF TurnInv, settings
<1>7. CASE SecondLoopEnds \/ AssignEnds \/ UpdateReturns
  <2>1. pc' \in {"available", "errors", "stopped", "update"} /\ UNCHANGED stage
        /\ pc \notin {"stepping", "segfault"}
    BY <1>7 DEF SecondLoopEnds, AssignEnds, UpdateReturns
  <2>2. QED
    BY <1>0, <1>a, <2>1 DEF TurnInv
<1>8. CASE Available
  <2>1. pc' \in {"errors", "assign", "launch"} /\ turn' = 1 /\ UNCHANGED stage
        /\ pc = "available"
    BY <1>8 DEF Available
  <2>2. QED
    BY <1>0, <1>a, <2>1 DEF TurnInv
<1>9. CASE LaunchProcesses \/ AskRelaunch \/ LoadReplay
  <2>1. pc' = "assign" /\ UNCHANGED stage /\ pc \notin {"stepping", "segfault"}
    BY <1>9 DEF LaunchProcesses, AskRelaunch, LoadReplay
  <2>2. QED
    BY <1>0, <1>a, <2>1 DEF TurnInv
<1>10. CASE Assign
  <2>1. UNCHANGED <<stage, replay_file, control>> /\ pc = "assign" /\ pc' \in {"assign", "gather"}
    BY <1>10 DEF Assign, coordinator, client
  <2>2. pc' = "gather" => /\ turn' = turn /\ turn \in Observers /\ replay_file # <<>>
                          /\ control[turn].pending = "not_set"
    BY <1>10 DEF Assign, IsReadyForCreateGame, HasResponsePending
  <2>3. QED
    BY <1>0, <1>a, <2>1, <2>2 DEF TurnInv
<1>11. CASE GatherReplayInfo
  <2>1. /\ UNCHANGED <<stage, replay_file, turn>> /\ pc' = "judge" /\ pc = "gather"
        /\ turn \in Observers /\ turn \in Clients /\ replay_file # <<>>
        /\ control[turn].pending = "not_set" \/ control[turn].errors
    BY <1>0, <1>11 DEF GatherReplayInfo, coordinator, TurnInv
  <2>2. /\ control'[turn].pending = "not_set" \/ control'[turn].errors
        /\ info'[turn] = File \/ control'[turn].errors
    <3>1. CASE control[turn].app = "normal"
      <4>1. PICK o \in Outcomes(turn, game[turn]) :
              /\ Takes(turn, o)
              /\ info' = [info EXCEPT ![turn] = IF o.result = "good" THEN File ELSE @]
        BY <1>11, <3>1 DEF GatherReplayInfo
      <4>2. control'[turn] = o.control /\ (o.result = "good" => info'[turn] = File)
        BY <1>0, <2>1, <4>1 DEF Takes, ReplayTypeOK
      <4>3. game[turn] \in GameStates
        BY <1>0, <2>1 DEF ReplayTypeOK
      <4>4. /\ o.control.pending = "not_set" \/ o.control.errors
            /\ o.result = "good" \/ o.control.errors
        BY <1>0, <2>1, <4>3, OutcomeFacts
      <4>5. QED
        BY <4>2, <4>4
    <3>2. CASE control[turn].app # "normal"
      <4>1. control[turn].errors /\ control' = control
        BY <1>0, <1>11, <2>1, <3>2 DEF GatherReplayInfo, ObserverInv, AppInv
      <4>2. QED
        BY <4>1
    <3>3. QED
      BY <3>1, <3>2
  <2>3. QED
    BY <1>0, <1>a, <2>1, <2>2 DEF TurnInv, File
<1>12. CASE SkipReplay \/ LoadReplayRefused
  <2>1. /\ UNCHANGED <<stage, control>> /\ pc = "judge" /\ Skip
    BY <1>12 DEF SkipReplay, LoadReplayRefused, client
  <2>2. /\ turn \in Observers /\ replay_file # <<>>
        /\ control[turn].pending = "not_set" \/ control[turn].errors
    BY <1>0, <2>1 DEF TurnInv
  <2>3. pc' \in {"assign", "gather"} /\ (pc' = "gather" => turn' = turn /\ replay_file' # <<>>)
    BY <1>0, <2>1, <2>2, PopFacts DEF Skip
  <2>4. QED
    BY <1>0, <1>a, <2>1, <2>2, <2>3 DEF TurnInv
<1>13. CASE NoErrors \/ Recovered \/ NotRecovered \/ NotRelaunched
  <2>1. pc' = pc /\ UNCHANGED stage /\ pc = "errors"
    BY <1>13 DEF NoErrors, Recovered, NotRecovered, NotRelaunched, Relaunch
  <2>2. QED
    BY <1>0, <1>a, <2>1 DEF TurnInv
<1>14. QED
  BY <1>1, <1>2, <1>3, <1>4, <1>5, <1>6, <1>7, <1>8, <1>9, <1>10, <1>11, <1>12, <1>13
     DEF Next, Update, Ended

\* The steps that take the last replay from the list.
LEMMA ListKept ==
    ASSUME ReplayInv, [Next]_vars, ~SkipReplay, ~LoadReplayRefused, ~LoadReplay
    PROVE  UNCHANGED <<replay_file, loads>>
<1>0. ReplayTypeOK /\ Observers \subseteq Clients
  BY ObserversAreClients DEF ReplayInv
<1>1. ASSUME NEW r \in Observers, RunThread(r) \/ GameStep(r)
      PROVE  UNCHANGED <<replay_file, loads>>
  BY <1>0, <1>1, ThreadFacts, GameStepFacts
<1>2. CASE UNCHANGED vars
  BY <1>2 DEF vars, coordinator, history
<1>3. CASE Update
  BY <1>3 DEF Update, UpdateBegins, Joined, SecondLoop, SecondLoopEnds, Available,
     LaunchProcesses, Assign, AssignEnds, GatherReplayInfo, AskRelaunch, NoErrors, Recovered,
     NotRecovered, NotRelaunched, Relaunch, UpdateReturns, coordinator, history
<1>4. QED
  BY <1>1, <1>2, <1>3 DEF Next, Ended

LEMMA ListStep ==
    ASSUME ReplayInv, [Next]_vars
    PROVE  ListInv'
<1>0. /\ ReplayTypeOK /\ TurnInv /\ ListInv /\ Observers' = Observers
      /\ Observers \subseteq Clients
  BY ReplayTypeStep, ObserversAreClients DEF ReplayInv, settings, Observers
<1>1. CASE UNCHANGED <<replay_file, loads>>
  BY <1>0, <1>1 DEF ListInv
<1>2. CASE SkipReplay \/ LoadReplayRefused \/ LoadReplay
  <2> DEFINE n == Len(replay_file)
  <2>1. pc = "judge" /\ PopBack
    BY <1>2 DEF SkipReplay, LoadReplayRefused, LoadReplay, Skip
  <2>2. replay_file # <<>> /\ turn \in Observers
    BY <1>0, <2>1 DEF TurnInv
  <2>3. /\ n \in Nat \ {0} /\ DOMAIN replay_file = 1..n /\ DOMAIN replay_file' = 1..n - 1
        /\ \A p \in 1..n - 1 : replay_file'[p] = replay_file[p]
        /\ File \in Files /\ File = replay_file[n]
    <3>1. /\ n \in Nat \ {0} /\ File \in Files /\ replay_file' \in Seq(Files)
          /\ Len(replay_file') = n - 1
          /\ \A p \in 1..n - 1 : replay_file'[p] = replay_file[p]
      BY <1>0, <2>1, <2>2, PopFacts
    <3>2. DOMAIN replay_file = 1..n
      BY <1>0 DEF ReplayTypeOK
    <3>3. DOMAIN replay_file' = 1..n - 1
      BY <3>1
    <3>4. QED
      BY <3>1, <3>2, <3>3 DEF File
  <2> HIDE DEF n
  <2>4. \A p \in 1..n - 1 : p \in 1..n /\ p # n
    BY <2>3
  <2>5. \A p, q \in DOMAIN replay_file' : replay_file'[p] = replay_file'[q] => p = q
    BY <1>0, <2>3, <2>4 DEF ListInv
  <2>6. \A p \in DOMAIN replay_file' : replay_file'[p] # File
    BY <1>0, <2>3, <2>4 DEF ListInv
  <2>7. n \in DOMAIN replay_file
    BY <2>3
  <2>8. loads[File] = {}
    BY <1>0, <2>3, <2>7 DEF ListInv
  <2>9. /\ \A f \in Files : f # File => loads'[f] = loads[f]
        /\ loads'[File] \in {{}, {turn}}
    <3>1. loads' = loads \/ loads' = [loads EXCEPT ![File] = @ \cup {turn}]
      BY <1>2 DEF SkipReplay, LoadReplayRefused, LoadReplay
    <3>2. QED
      BY <1>0, <2>3, <2>8, <3>1 DEF ReplayTypeOK
  <2>10. Files' = Files
    BY DEF Files
  <2>11. ASSUME NEW f \in Files, loads'[f] # {}
         PROVE  /\ \E r \in Observers : loads'[f] = {r}
                /\ \A p \in DOMAIN replay_file' : replay_file'[p] # f
    <3>1. CASE f = File
      BY <2>2, <2>6, <2>9, <2>11, <3>1
    <3>2. CASE f # File
      BY <1>0, <2>3, <2>4, <2>9, <2>11, <3>2 DEF ListInv
    <3>3. QED
      BY <3>1, <3>2
  <2>12. QED
    BY <1>0, <2>5, <2>11 DEF ListInv
<1>3. QED
  BY <1>1, <1>2, ListKept

\* An observer that StartReplay passes over needs no replay, or has errors.
LEMMA NotReady ==
    ASSUME ReplayTypeOK, NEW r \in Clients, ObserverInv(r), ~IsReadyForCreateGame(control[r])
    PROVE  Occupied(r) \/ control[r].errors
<1>1. control[r].status \in {"unknown", "launched", "in_replay", "ended"}
  BY DEF ReplayTypeOK, ControlStates
<1>2. QED
  BY <1>1 DEF IsReadyForCreateGame, Occupied, IsInGame, ObserverInv, AppInv

LEMMA DoneStep ==
    ASSUME ReplayInv, [Next]_vars
    PROVE  DoneInv'
<1>0. /\ ReplayTypeOK /\ TurnInv /\ DoneInv /\ Observers' = Observers
      /\ Observers \subseteq Clients /\ turn \in Nat
      /\ \A r \in Clients : ObserverInv(r)
  BY ReplayTypeStep, ObserversAreClients DEF ReplayInv, settings, Observers
<1>a. \A r \in Observers : r \in Nat
  BY DEF Observers
<1>1. CASE UNCHANGED vars
  <2>1. UNCHANGED <<pc, turn, replay_file, control, game, error_occurred, relaunched>>
    BY <1>1 DEF vars, coordinator, client, locals
  <2>2. QED
    BY <1>0, <2>1 DEF DoneInv, Occupied, HasResponsePending, IsInGame
<1>2. ASSUME NEW r \in Observers, GameStep(r)
      PROVE  DoneInv'
  <2>1. r \in Clients /\ UNCHANGED <<pc, turn, replay_file, error_occurred, relaunched>>
    BY <1>0, <1>2, GameStepFacts DEF locals
  <2>2. \A q \in Observers : /\ Occupied(q) => Occupied(q)'
                             /\ control[q].errors => control'[q].errors
    BY <1>0, <1>2, <2>1, GameStepFacts DEF Occupied, HasResponsePending, IsInGame
  <2>3. QED
    BY <1>0, <2>1, <2>2 DEF DoneInv
<1>3. ASSUME pc' \notin {"assign", "gather", "judge", "errors"}
      PROVE  DoneInv'
  BY <1>3 DEF DoneInv
<1>4. ASSUME NEW r \in Observers, RunThread(r)
      PROVE  DoneInv'
  BY <1>0, <1>3, <1>4, ThreadFacts
<1>5. CASE UpdateBegins \/ Joined \/ SecondLoop \/ SecondLoopEnds \/ UpdateReturns
  <2>1. pc' \notin {"assign", "gather", "judge", "errors"}
    <3>1. CASE SecondLoop
      BY <1>0, <3>1, SendFacts DEF SecondLoop
    <3>2. CASE UpdateBegins \/ Joined \/ SecondLoopEnds \/ UpdateReturns
      BY <3>2 DEF UpdateBegins, Joined, SecondLoopEnds, UpdateReturns
    <3>3. QED
      BY <1>5, <3>1, <3>2
  <2>2. QED
    BY <1>3, <2>1
<1>6. CASE Available
  <2>1. /\ turn' = 1 /\ UNCHANGED <<replay_file, control, game>>
        /\ \/ pc' \in {"assign", "launch"}
           \/ pc' = "errors" /\ (replay_file = <<>> \/ \A r \in Observers : IsInGame(control[r]))
    BY <1>6 DEF Available, coordinator, client
  <2>2. QED
    <3>1. \A r \in Observers : 1 <= r /\ ~(r < 1)
      BY <1>a DEF Observers
    <3>2. (\A r \in Observers : IsInGame(control[r])) => \A r \in Observers : Occupied(r)'
      BY <2>1 DEF Occupied
    <3>3. QED
      BY <1>0, <2>1, <3>1, <3>2 DEF DoneInv
<1>7. CASE LaunchProcesses
  <2>1. turn' = 1 /\ pc' = "assign"
    BY <1>0, <1>7 DEF LaunchProcesses, TurnInv
  <2>2. QED
    BY <1>0, <1>a, <2>1 DEF DoneInv, Observers
<1>8. CASE Assign
  <2>1. pc = "assign" /\ turn \in Observers /\ UNCHANGED <<replay_file, control, game>>
        /\ pc' \in {"assign", "gather"}
    BY <1>8 DEF Assign, coordinator, client
  <2>2. \/ turn' = turn
        \/ /\ turn' = turn + 1
           /\ replay_file = <<>> \/ ~IsReadyForCreateGame(control[turn])
    BY <1>8 DEF Assign
  <2>3. replay_file # <<>> => \A r \in Observers : r < turn => Occupied(r) \/ control[r].errors
    BY <1>0, <2>1 DEF DoneInv
  <2>4. replay_file # <<>> =>
          \A r \in Observers : r < turn' => Occupied(r) \/ control[r].errors
    <3>1. CASE turn' = turn
      BY <2>3, <3>1
    <3>2. CASE turn' = turn + 1 /\ replay_file # <<>> /\ ~IsReadyForCreateGame(control[turn])
      <4>1. Occupied(turn) \/ control[turn].errors
        BY <1>0, <2>1, <3>2, NotReady
      <4>2. \A r \in Observers : r < turn' => r < turn \/ r = turn
        BY <1>0, <1>a, <3>2
      <4>3. QED
        BY <2>3, <4>1, <4>2
    <3>3. QED
      BY <2>2, <3>1, <3>2
  <2>5. \A r \in Observers : Occupied(r)' = Occupied(r)
    BY <2>1 DEF Occupied, HasResponsePending, IsInGame
  <2>6. QED
    BY <1>0, <2>1, <2>4, <2>5 DEF DoneInv
<1>9. CASE AssignEnds
  <2>1. /\ pc = "assign" /\ turn \notin Observers /\ pc' = "errors" /\ turn' = 1
        /\ UNCHANGED <<replay_file, control, game>>
    BY <1>9 DEF AssignEnds, coordinator, client
  <2>2. \A r \in Observers : r < turn /\ 1 <= r
    BY <1>0, <1>a, <2>1 DEF Observers, ReplayTypeOK
  <2>3. \A r \in Observers : Occupied(r)' = Occupied(r)
    BY <2>1 DEF Occupied, HasResponsePending, IsInGame
  <2>4. QED
    BY <1>0, <2>1, <2>2, <2>3 DEF DoneInv
<1>10. CASE GatherReplayInfo
  <2>1. pc = "gather" /\ pc' = "judge" /\ UNCHANGED <<turn, replay_file>> /\ turn \in Clients
    BY <1>0, <1>10 DEF GatherReplayInfo, coordinator, TurnInv
  <2>2. \A r \in Observers : r < turn => control'[r] = control[r] /\ game'[r] = game[r]
    BY <1>0, <1>a, <1>10 DEF GatherReplayInfo, Takes, ReplayTypeOK
  <2>3. \A r \in Observers : r < turn => Occupied(r)' = Occupied(r)
    BY <2>2 DEF Occupied, HasResponsePending, IsInGame
  <2>4. QED
    BY <1>0, <2>1, <2>2, <2>3 DEF DoneInv
<1>11. CASE SkipReplay \/ LoadReplayRefused
  <2>1. pc = "judge" /\ Skip /\ UNCHANGED <<control, game>>
    BY <1>11 DEF SkipReplay, LoadReplayRefused, client
  <2>2. replay_file # <<>>
    BY <1>0, <2>1 DEF TurnInv
  <2>3. \/ replay_file' = <<>> /\ pc' = "assign"
        \/ pc' = "gather" /\ turn' = turn
    BY <1>0, <2>1, <2>2, PopFacts DEF Skip
  <2>4. \A r \in Observers : Occupied(r)' = Occupied(r)
    BY <2>1 DEF Occupied, HasResponsePending, IsInGame
  <2>5. QED
    BY <1>0, <2>1, <2>2, <2>3, <2>4 DEF DoneInv
<1>12. CASE AskRelaunch \/ LoadReplay
  <2>1. /\ pc = "judge" /\ pc' = "assign" /\ turn' = turn + 1 /\ UNCHANGED game
        /\ \/ control' = [control EXCEPT ![turn].errors = TRUE]
           \/ control' = [control EXCEPT ![turn].pending = "start_replay"]
    BY <1>12 DEF AskRelaunch, LoadReplay
  <2>2. turn \in Clients /\ replay_file # <<>> /\ control \in [Clients -> ControlStates]
    BY <1>0, <2>1 DEF TurnInv, ReplayTypeOK
  <2>3. \A r \in Observers : r # turn => control'[r] = control[r] /\ game'[r] = game[r]
    BY <1>0, <2>1, <2>2
  <2>4. control'[turn].errors = TRUE \/ control'[turn].pending = "start_replay"
    BY <2>1, <2>2 DEF ControlStates
  <2>5. \A r \in Observers : r < turn' => r < turn \/ r = turn
    BY <1>0, <1>a, <2>1
  <2>6. \A r \in Observers : r < turn => (Occupied(r) \/ control[r].errors) /\ r # turn
    BY <1>0, <1>a, <2>1, <2>2 DEF DoneInv
  <2>7. \A r \in Observers : r < turn => Occupied(r)' \/ control'[r].errors
    BY <2>3, <2>6 DEF Occupied, HasResponsePending, IsInGame
  <2>8. \A r \in Observers : r = turn => Occupied(r)' \/ control'[r].errors
    <3>1. ASSUME NEW r \in Observers, r = turn
          PROVE  Occupied(r)' \/ control'[r].errors
      <4>1. control'[r].errors = TRUE \/ control'[r].pending = "start_replay"
        BY <2>4, <3>1
      <4>2. QED
        BY <4>1 DEF Occupied, HasResponsePending
    <3>2. QED
      BY <3>1
  <2>9. QED
    BY <1>0, <2>1, <2>5, <2>7, <2>8 DEF DoneInv
<1>13. CASE NoErrors
  <2>1. /\ pc = "errors" /\ pc' = "errors" /\ ~control[turn].errors /\ turn' = turn + 1
        /\ UNCHANGED <<replay_file, control, game, error_occurred, relaunched>>
    BY <1>13 DEF NoErrors, coordinator, client, locals
  <2>2. \A r \in Observers : control[r].errors /\ turn <= r => turn' <= r
    BY <1>0, <1>a, <2>1
  <2>3. \A r \in Observers : Occupied(r)' = Occupied(r)
    BY <2>1 DEF Occupied, HasResponsePending, IsInGame
  <2>4. QED
    BY <1>0, <2>1, <2>2, <2>3 DEF DoneInv
<1>14. CASE Recovered \/ NotRecovered \/ NotRelaunched
  <2>1. pc' = "errors" /\ (error_occurred' = TRUE \/ relaunched' = TRUE)
    BY <1>14 DEF Recovered, NotRecovered, NotRelaunched, Relaunch
  <2>2. error_occurred' \/ relaunched'
    BY <2>1
  <2>3. QED
    BY <2>1, <2>2 DEF DoneInv
<1>15. QED
  BY <1>1, <1>2, <1>4, <1>5, <1>6, <1>7, <1>8, <1>9, <1>10, <1>11, <1>12, <1>13, <1>14
     DEF Next, Update, Ended

LEMMA ListIsDoneStep ==
    ASSUME ReplayInv, [Next]_vars
    PROVE  ListIsDone'
<1>0. /\ ReplayTypeOK /\ DoneInv /\ ListIsDone /\ Observers' = Observers
      /\ Observers \subseteq Clients
      /\ \A r \in Observers : r \in Nat
  BY ReplayTypeStep, ObserversAreClients DEF ReplayInv, settings, Observers
<1>1. CASE UNCHANGED vars
  <2>1. UNCHANGED <<pc, replay_file, error_occurred, game>>
    BY <1>1 DEF vars, coordinator, locals
  <2>2. QED
    BY <1>0, <2>1 DEF ListIsDone
<1>2. CASE UpdateReturns
  <2>1. /\ pc = "errors" /\ turn \notin Observers
        /\ pc' = "stopped" => error_occurred \/ (AllGamesEnded /\ ~relaunched)
        /\ UNCHANGED <<replay_file, error_occurred, game>>
    BY <1>2 DEF UpdateReturns, coordinator, locals
  <2>2. \A r \in Observers : ~(turn <= r)
    BY <1>0, <2>1 DEF Observers, ReplayTypeOK
  <2>3. ASSUME replay_file # <<>>, ~error_occurred, AllGamesEnded, ~relaunched,
               NEW r \in Observers
        PROVE  game[r].process = "none"
    BY <1>0, <2>1, <2>2, <2>3 DEF DoneInv, AllGamesEnded, Occupied
  <2>4. QED
    BY <1>0, <2>1, <2>3 DEF ListIsDone
<1>3. ASSUME pc' # "stopped"
      PROVE  ListIsDone'
  BY <1>3 DEF ListIsDone
<1>4. ASSUME NEW r \in Observers, RunThread(r) \/ (~Over /\ GameStep(r))
      PROVE  pc' # "stopped"
  BY <1>0, <1>4, ThreadFacts, GameStepFacts DEF Over
<1>5. CASE Update /\ ~UpdateReturns
  <2>1. CASE SecondLoop
    BY <1>0, <1>3, <2>1, SendFacts DEF SecondLoop
  <2>2. CASE ~SecondLoop
    BY <1>3, <1>5, <2>2 DEF Update, UpdateBegins, Joined, SecondLoopEnds, Available,
       LaunchProcesses, Assign, AssignEnds, GatherReplayInfo, SkipReplay, AskRelaunch, LoadReplay,
       LoadReplayRefused, Skip, NoErrors, Recovered, NotRecovered, NotRelaunched, Relaunch
  <2>3. QED
    BY <2>1, <2>2
<1>6. QED
  BY <1>1, <1>2, <1>3, <1>4, <1>5 DEF Next, Ended

-----------------------------------------------------------------------------
(* The theorems.                                                           *)

LEMMA ReplayInitInv ==
    ASSUME Init
    PROVE  ReplayInv
<1>1. NewControl \in ControlStates /\ NewControl.app = "normal" /\ NewControl.errors = FALSE
      /\ NewControl.pending = "not_set" /\ NewControl.status = "unknown"
      /\ NewControl.observed = "none"
  BY DEF NewControl, ControlStates
<1>2. NoGame \in GameStates /\ NoGame.status = "launched" /\ NoGame.process = "none"
  BY NewGameFacts
<1>3. replay_file \in Seq(Files) /\ DOMAIN replay_file = Files
      /\ \A f \in Files : replay_file[f] = f
  <2>1. Len(Replays) \in Nat
    BY ReplaysAssumption
  <2>2. QED
    BY <2>1 DEF Init, Files
<1>4. ReplayTypeOK
  <2>1. 1 \in 1..replay_observers_ + 1 /\ 0 \in 0..MaxFailures
    BY ReplaysAssumption, ObserversAssumption DEF Init
  <2>2. QED
    BY <1>1, <1>2, <1>3, <2>1 DEF Init, ReplayTypeOK
<1>5. \A r \in Clients : ObserverInv(r)
  BY <1>1, <1>2 DEF Init, ObserverInv, LeftInv, AppInv, PendingInv, StartInv, NewInv, ReportedInv
<1>6. TurnInv /\ DoneInv /\ ListIsDone
  BY DEF Init, TurnInv, DoneInv, ListIsDone
<1>7. ListInv
  BY <1>3 DEF Init, ListInv
<1>8. QED
  BY <1>4, <1>5, <1>6, <1>7 DEF ReplayInv

LEMMA ReplayStepInv ==
    ASSUME ReplayInv, [Next]_vars
    PROVE  ReplayInv'
<1>1. \A r \in Clients : ObserverInv(r)'
  BY ObserverStep
<1>2. ReplayTypeOK' /\ TurnInv' /\ ListInv' /\ DoneInv' /\ ListIsDone'
  BY ReplayTypeStep, TurnStep, ListStep, DoneStep, ListIsDoneStep
<1>3. QED
  BY <1>1, <1>2 DEF ReplayInv, Clients

\* The inductive invariant: what the fields of every observer, its game, the list of replays
\* and the place in Update have to do with each other, at every step of the coordinator,
\* the threads of run_replay and the games.
THEOREM ReplayInvariant == Spec => []ReplayInv
<1>1. Init => ReplayInv
  BY ReplayInitInv
<1>2. ReplayInv /\ [Next]_vars => ReplayInv'
  BY ReplayStepInv
<1>3. QED
  BY <1>1, <1>2, PTL DEF Spec

\* The types of the fields of the coordinator, its observers and their games.
THEOREM ReplayTypes == Spec => []ReplayTypeOK
<1>1. ReplayInv => ReplayTypeOK
  BY DEF ReplayInv
<1>2. QED
  BY <1>1, ReplayInvariant, PTL

\* Each replay of the list is sent to one game at most, whatever fails and is relaunched.
THEOREM EachOnce == Spec => []EachReplayOnce
<1>1. ASSUME ReplayInv, NEW f \in Files
      PROVE  /\ Cardinality(loads[f]) <= 1
             /\ loads[f] # {} => \A p \in DOMAIN replay_file : replay_file[p] # f
  <2>1. CASE loads[f] = {}
    BY <2>1, FS_EmptySet
  <2>2. CASE loads[f] # {}
    BY <1>1, <2>2, FS_Singleton DEF ReplayInv, ListInv
  <2>3. QED
    BY <2>1, <2>2
<1>2. ReplayInv => EachReplayOnce
  BY <1>1 DEF EachReplayOnce
<1>3. QED
  BY <1>2, ReplayInvariant, PTL

\* An observer that takes a replay from the list without playing it has errors, which
\* the coordinator reports by OnError.
THEOREM LostReported == Spec => []LostReplayIsReported
<1>1. ReplayInv => LostReplayIsReported
  BY ObserversAreClients DEF ReplayInv, ObserverInv, ReportedInv, LostReplayIsReported
<1>2. QED
  BY <1>1, ReplayInvariant, PTL

\* The events of a game that has no errors are in order: OnGameStart first, and with
\* multi_threaded each OnStep with an observation of its own.
THEOREM EventsInOrder == Spec => []EventsAreInOrder
<1>1. ReplayInv => EventsAreInOrder
  BY ObserversAreClients DEF ReplayInv, ObserverInv, ReportedInv, EventsAreInOrder
<1>2. QED
  BY <1>1, ReplayInvariant, PTL

\* Update does not return false for good with replays left, unless no observer has a game.
THEOREM ListDone == Spec => []ListIsDone
<1>1. ReplayInv => ListIsDone
  BY DEF ReplayInv
<1>2. QED
  BY <1>1, ReplayInvariant, PTL
=============================================================================
