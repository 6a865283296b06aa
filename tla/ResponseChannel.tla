-------------------------- MODULE ResponseChannel --------------------------
(***************************************************************************)
(* What a user of sc2::Connection may rely on, without its threads, its    *)
(* lock and its queue.  A connection is a session: answers come back in    *)
(* the order of the requests, each at most once, any of them may get lost, *)
(* and with the end of the session everything outstanding is lost.  What   *)
(* is handed out after that belongs to a later session.                    *)
(***************************************************************************)
EXTENDS Integers, Sequences

CONSTANT MaxRequests   \* bound: requests sent in a behaviour

VARIABLES
    open,         \* there is a session
    sent,         \* number of requests sent so far
    outstanding,  \* requests of this session that may still be answered, in order
    delivered     \* the answers handed out, in order

vars == <<open, sent, outstanding, delivered>>

Init ==
    /\ open = FALSE
    /\ sent = 0
    /\ outstanding = <<>>
    /\ delivered = <<>>

Open ==
    /\ ~open
    /\ open' = TRUE
    /\ UNCHANGED <<sent, outstanding, delivered>>

\* The request may be lost at once: the other end may be gone already.
Send ==
    /\ open
    /\ sent < MaxRequests
    /\ sent' = sent + 1
    /\ outstanding' \in {outstanding, Append(outstanding, sent + 1)}
    /\ UNCHANGED <<open, delivered>>

\* A run of the outstanding requests is lost: an answer that does not parse, or
\* everything from some request on when the other end goes.
Lose ==
    /\ \E i \in 0 .. Len(outstanding) : \E j \in i .. Len(outstanding) :
         outstanding' = SubSeq(outstanding, 1, i)
                          \o SubSeq(outstanding, j + 1, Len(outstanding))
    /\ UNCHANGED <<open, sent, delivered>>

Deliver ==
    /\ open
    /\ outstanding # <<>>
    /\ delivered' = Append(delivered, Head(outstanding))
    /\ outstanding' = Tail(outstanding)
    /\ UNCHANGED <<open, sent>>

Close ==
    /\ open
    /\ open' = FALSE
    /\ outstanding' = <<>>
    /\ UNCHANGED <<sent, delivered>>

Next == Open \/ Send \/ Lose \/ Deliver \/ Close

Spec == Init /\ [][Next]_vars
=============================================================================
