----------------------------- MODULE Connection -----------------------------
(***************************************************************************)
(* sc2::Connection: the websocket connection to one StarCraft II process   *)
(* and the queue of responses behind it.                                   *)
(*                                                                         *)
(* Two kinds of threads meet here.  The client thread (a bot's or the      *)
(* coordinator's) calls Connect, Send, Receive and Disconnect, one call at *)
(* a time.  Every websocket connection has a civetweb worker thread of its *)
(* own, which reads frames off the socket and calls DataHandler and, when  *)
(* the socket is done, ConnectionClosedHandler.  They share queue_,        *)
(* has_response_ and mutex_.  The game at the other end and civetweb are   *)
(* not part of the repository and are modelled from their use.             *)
(*                                                                         *)
(* A request is its position among all requests ever sent; the response to *)
(* a request carries the same number.  0 stands for a null pointer.        *)
(***************************************************************************)
EXTENDS Integers, Sequences

CONSTANTS
    MaxConnections,  \* bound: websocket connections opened in a behaviour
    MaxRequests      \* bound: requests sent in a behaviour

ASSUME BoundsAssumption == /\ MaxConnections \in Nat
                           /\ MaxRequests \in Nat

Conns == 1 .. MaxConnections
Requests == 1 .. MaxRequests

NULL == 0      \* no mg_connection, no Response
Free == 0      \* mutex_ is not held
Client == -1   \* mutex_ is held by the client thread (else: by worker c)

VARIABLES
    \* fields of sc2::Connection
    connection_,     \* the mg_connection in use, or NULL
    queue_,          \* responses received off the socket
    has_response_,   \* the atomic flag PollResponse reads
    mutex_,          \* who holds mutex_
    callback,        \* connection_closed_callback_ has been set
    \* the client thread
    clientPc,        \* where the client thread is
    response,        \* the out parameter of its Receive
    \* the civetweb threads, one per connection
    workerPc,        \* where worker c is
    inHand,          \* the response worker c has parsed and not queued yet
    stopping,        \* connections whose worker mg_close_connection asked to stop
    \* the sockets and the game at the other end
    requests,        \* requests written to c and not handled by the game
    responses,       \* responses the game wrote to c and worker c has not read
    peerOpen,        \* the game still holds its end of c
    \* history
    via,             \* via[r]: the connection request r was written to
    delivered,       \* what Receive handed out, in order
    cleared,         \* the responses a timed out Receive threw away
    notified         \* connections whose closed callback has run

fields  == <<connection_, queue_, has_response_, mutex_, callback>>
client  == <<clientPc, response>>
workers == <<workerPc, inHand, stopping>>
sockets == <<requests, responses, peerOpen>>
history == <<via, delivered, cleared, notified>>
vars    == <<fields, client, workers, sockets, history>>

Live(c) == workerPc[c] \notin {"none", "exited"}

-----------------------------------------------------------------------------
Init ==
    /\ connection_ = NULL
    /\ queue_ = <<>>
    /\ has_response_ = FALSE
    /\ mutex_ = Free
    /\ callback = FALSE
    /\ clientPc = "idle"
    /\ response = NULL
    /\ workerPc = [c \in Conns |-> "none"]
    /\ inHand = [c \in Conns |-> NULL]
    /\ stopping = {}
    /\ requests = [c \in Conns |-> <<>>]
    /\ responses = [c \in Conns |-> <<>>]
    /\ peerOpen = [c \in Conns |-> FALSE]
    /\ via = <<>>
    /\ delivered = <<>>
    /\ cleared = {}
    /\ notified = {}

-----------------------------------------------------------------------------
(* The client thread.                                                      *)

\* Connect: civetweb opens the socket and starts its worker.  The callers
\* connect only without a connection (SendRequest tests HasConnection, and
\* ConnectToGame runs on a fresh object or after a timed out ping).  A
\* connection that cannot be opened changes nothing.
Connect(c) ==
    /\ clientPc = "idle"
    /\ connection_ = NULL
    /\ workerPc[c] = "none"
    /\ \A b \in Conns : b < c => workerPc[b] # "none"
    /\ connection_' = c
    /\ workerPc' = [workerPc EXCEPT ![c] = "reading"]
    /\ peerOpen' = [peerOpen EXCEPT ![c] = TRUE]
    /\ UNCHANGED <<queue_, has_response_, mutex_, callback, client, inHand,
                   stopping, requests, responses, history>>

\* ConnectToGame sets the callback after its Connect has returned: a worker
\* that meets the end of the socket before that finds no callback.
SetConnectionClosedCallback ==
    /\ clientPc = "idle"
    /\ connection_ # NULL
    /\ callback' = TRUE
    /\ UNCHANGED <<connection_, queue_, has_response_, mutex_, client, workers,
                   sockets, history>>

\* A write of request r to the connection in use.  A write to a socket the game
\* has closed goes nowhere, and nothing reports it.
Write(r) ==
    requests' = IF peerOpen[connection_]
                  THEN [requests EXCEPT ![connection_] = Append(@, r)]
                  ELSE requests

CanSend ==
    /\ clientPc = "idle"
    /\ connection_ # NULL
    /\ Len(via) < MaxRequests

\* Faulty variant: the request carries the number of the one before it.
SendStaleNumber ==
    /\ CanSend
    /\ via' = Append(via, connection_)
    /\ Write(Len(via))
    /\ UNCHANGED <<fields, client, workers, responses, peerOpen, delivered,
                   cleared, notified>>

\* Send: the early return without a connection, then the write.
Send ==
    /\ CanSend
    /\ via' = Append(via, connection_)
    /\ Write(Len(via) + 1)
    /\ UNCHANGED <<fields, client, workers, responses, peerOpen, delivered,
                   cleared, notified>>

\* Receive takes the lock and evaluates the predicate; the wait releases it.
Receive ==
    /\ clientPc = "idle"
    /\ clientPc' = "waiting"
    /\ UNCHANGED <<fields, response, workers, sockets, history>>

\* Faulty variant: a wait without its predicate, ended by a spurious wakeup.
ReceiveWakeup ==
    /\ clientPc = "waiting"
    /\ mutex_ = Free
    /\ mutex_' = Client
    /\ clientPc' = "ready"
    /\ UNCHANGED <<connection_, queue_, has_response_, callback, response, workers,
                   sockets, history>>

\* wait_until returns true: it has the lock again and the queue is not empty.
ReceiveReady ==
    /\ clientPc = "waiting"
    /\ mutex_ = Free
    /\ queue_ # <<>>
    /\ mutex_' = Client
    /\ clientPc' = "ready"
    /\ UNCHANGED <<connection_, queue_, has_response_, callback, response, workers,
                   sockets, history>>

\* wait_until returns false: it reached its deadline, and with the lock again
\* the queue is still empty.
ReceiveTimeout ==
    /\ clientPc = "waiting"
    /\ mutex_ = Free
    /\ queue_ = <<>>
    /\ mutex_' = Client
    /\ clientPc' = "timedOut"
    /\ UNCHANGED <<connection_, queue_, has_response_, callback, response, workers,
                   sockets, history>>

\* Faulty variant: lock.unlock() forgotten on the way to Disconnect.
UnlockOnlyWhenReady ==
    /\ clientPc \in {"ready", "timedOut"}
    /\ mutex_' = IF clientPc = "ready" THEN Free ELSE mutex_
    /\ clientPc' = IF clientPc = "ready" THEN "popping" ELSE "disconnecting"
    /\ UNCHANGED <<connection_, queue_, has_response_, callback, response, workers,
                   sockets, history>>

\* lock.unlock(), in both branches, before PopResponse or Disconnect.
ReceiveUnlock ==
    /\ clientPc \in {"ready", "timedOut"}
    /\ mutex_' = Free
    /\ clientPc' = IF clientPc = "ready" THEN "popping" ELSE "disconnecting"
    /\ response' = IF clientPc = "timedOut" THEN NULL ELSE response
    /\ UNCHANGED <<connection_, queue_, has_response_, callback, workers, sockets,
                   history>>

\* PopResponse: the test without the lock, then the pop under it.  flag is the
\* value has_response_ gets when a response is popped.
PopWith(flag) ==
    /\ clientPc = "popping"
    /\ mutex_ = Free
    /\ clientPc' = "returned"
    /\ IF queue_ = <<>>
         THEN UNCHANGED <<queue_, has_response_, response, delivered>>
         ELSE /\ response' = Head(queue_)
              /\ queue_' = Tail(queue_)
              /\ has_response_' = flag
              /\ delivered' = Append(delivered, Head(queue_))
    /\ UNCHANGED <<connection_, mutex_, callback, workers, sockets, via, cleared,
                   notified>>

\* Faulty variants: the flag is reset at every pop, or never.
PopResetsFlag == PopWith(FALSE)
PopKeepsFlag  == PopWith(has_response_)

\* The flag is reset only by the pop that empties the queue.
PopResponse == PopWith(has_response_ /\ Len(queue_) # 1)

\* Disconnect, first half: mg_close_connection asks the worker to stop and
\* starts to wait for its thread.  It ignores a null connection.
Disconnect ==
    /\ clientPc \in {"disconnecting", "quitting"}
    /\ connection_ # NULL
    /\ stopping' = stopping \cup {connection_}
    /\ clientPc' = IF clientPc = "quitting" THEN "quitJoining" ELSE "joining"
    /\ UNCHANGED <<fields, response, workerPc, inHand, sockets, history>>

\* The end of mg_close_connection: the socket is gone, connection_ is null.
SocketGone ==
    /\ connection_' = NULL
    /\ requests' = [requests EXCEPT ![connection_] = <<>>]
    /\ responses' = [responses EXCEPT ![connection_] = <<>>]
    /\ peerOpen' = [peerOpen EXCEPT ![connection_] = FALSE]
    /\ clientPc' = IF clientPc = "quitJoining" THEN "destroyed" ELSE "clearing"
    /\ UNCHANGED <<queue_, has_response_, mutex_, callback, response, workers,
                   history>>

\* Faulty variant: the worker thread is not joined.
DisconnectedNoJoin ==
    /\ clientPc \in {"joining", "quitJoining"}
    /\ SocketGone

\* Disconnect, second half: the worker thread has ended.
Disconnected ==
    /\ clientPc \in {"joining", "quitJoining"}
    /\ workerPc[connection_] = "exited"
    /\ SocketGone

\* Disconnect without a connection.
DisconnectNull ==
    /\ clientPc \in {"disconnecting", "quitting"}
    /\ connection_ = NULL
    /\ clientPc' = IF clientPc = "quitting" THEN "destroyed" ELSE "clearing"
    /\ UNCHANGED <<fields, response, workers, sockets, history>>

\* The rest of a timed out Receive: queue_.clear(), without the lock and
\* without has_response_.  Nobody sets the timeout callback.
ReceiveClear ==
    /\ clientPc = "clearing"
    /\ queue_' = <<>>
    /\ cleared' = cleared \cup {queue_[i] : i \in 1 .. Len(queue_)}
    /\ clientPc' = "returned"
    /\ UNCHANGED <<connection_, has_response_, mutex_, callback, response, workers,
                   sockets, via, delivered, notified>>

\* The caller of Receive takes the response.
ReceiveReturn ==
    /\ clientPc = "returned"
    /\ clientPc' = "idle"
    /\ response' = NULL
    /\ UNCHANGED <<fields, workers, sockets, history>>

\* ProtoInterface::Quit, run by ~ControlImp: Disconnect, and the object goes.
Quit ==
    /\ clientPc = "idle"
    /\ clientPc' = "quitting"
    /\ UNCHANGED <<fields, response, workers, sockets, history>>

-----------------------------------------------------------------------------
(* The civetweb worker of connection c.                                    *)

\* A frame arrives and DataHandler parses it; unread is what is left to read.
TakeFrame(c, unread) ==
    /\ workerPc[c] = "reading"
    /\ responses[c] # <<>>
    /\ responses' = [responses EXCEPT ![c] = unread]
    /\ inHand' = [inHand EXCEPT ![c] = Head(responses[c])]
    /\ workerPc' = [workerPc EXCEPT ![c] = "pushing"]
    /\ UNCHANGED <<fields, client, stopping, requests, peerOpen, history>>

\* Faulty variant: the frame is handled again.
DataHandlerTwice(c) == TakeFrame(c, responses[c])

DataHandler(c) == TakeFrame(c, Tail(responses[c]))

\* A frame arrives that does not parse: DataHandler returns without queueing.
DataHandlerParseError(c) ==
    /\ workerPc[c] = "reading"
    /\ responses[c] # <<>>
    /\ responses' = [responses EXCEPT ![c] = Tail(@)]
    /\ UNCHANGED <<fields, client, workers, requests, peerOpen, history>>

\* PushResponse under the lock, up to the flag; queue is the new queue_.
PushTo(c, queue) ==
    /\ workerPc[c] = "pushing"
    /\ mutex_ = Free
    /\ mutex_' = c
    /\ queue_' = queue
    /\ inHand' = [inHand EXCEPT ![c] = NULL]
    /\ workerPc' = [workerPc EXCEPT ![c] = "flagging"]
    /\ UNCHANGED <<connection_, has_response_, callback, client, stopping,
                   sockets, history>>

\* Faulty variant: push_front.
PushFront(c) == PushTo(c, <<inHand[c]>> \o queue_)

\* push_back and notify_one ...
PushResponse(c) == PushTo(c, Append(queue_, inHand[c]))

\* ... then the flag, which PollResponse reads without the lock.
PushResponseFlag(c) ==
    /\ workerPc[c] = "flagging"
    /\ has_response_' = TRUE
    /\ mutex_' = Free
    /\ workerPc' = [workerPc EXCEPT ![c] = "reading"]
    /\ UNCHANGED <<connection_, queue_, callback, client, inHand, stopping,
                   sockets, history>>

\* The worker leaves its read loop: it was told to stop, or the game closed
\* the socket and every frame of it has been read.
ReadLoopEnds(c) ==
    /\ workerPc[c] = "reading"
    /\ \/ c \in stopping
       \/ ~peerOpen[c] /\ responses[c] = <<>>
    /\ workerPc' = [workerPc EXCEPT ![c] = "closing"]
    /\ UNCHANGED <<fields, client, inHand, stopping, sockets, history>>

\* ConnectionClosedHandler on the worker thread, which then ends.
ConnectionClosedHandler(c) ==
    /\ workerPc[c] = "closing"
    /\ workerPc' = [workerPc EXCEPT ![c] = "exited"]
    /\ notified' = IF callback THEN notified \cup {c} ELSE notified
    /\ UNCHANGED <<fields, client, inHand, stopping, sockets, via, delivered, cleared>>

-----------------------------------------------------------------------------
(* The game.                                                               *)

\* The game answers the oldest request of a connection.
GameResponds(c) ==
    /\ peerOpen[c]
    /\ requests[c] # <<>>
    /\ requests' = [requests EXCEPT ![c] = Tail(@)]
    /\ responses' = [responses EXCEPT ![c] = Append(@, Head(requests[c]))]
    /\ UNCHANGED <<fields, client, workers, peerOpen, history>>

\* The game ends or crashes: some of what it wrote may still arrive.
GameCloses(c) ==
    /\ peerOpen[c]
    /\ peerOpen' = [peerOpen EXCEPT ![c] = FALSE]
    /\ requests' = [requests EXCEPT ![c] = <<>>]
    /\ \E n \in 0 .. Len(responses[c]) :
         responses' = [responses EXCEPT ![c] = SubSeq(@, 1, n)]
    /\ UNCHANGED <<fields, client, workers, history>>

-----------------------------------------------------------------------------
ClientStep ==
    \/ ReceiveReady \/ ReceiveTimeout \/ ReceiveUnlock \/ PopResponse
    \/ Disconnect \/ Disconnected \/ DisconnectNull
    \/ ReceiveClear \/ ReceiveReturn

ClientCall ==
    \/ \E c \in Conns : Connect(c)
    \/ SetConnectionClosedCallback \/ Send \/ Receive \/ Quit

WorkerStep(c) ==
    \/ DataHandler(c) \/ DataHandlerParseError(c)
    \/ PushResponse(c) \/ PushResponseFlag(c)
    \/ ReadLoopEnds(c) \/ ConnectionClosedHandler(c)

GameStep(c) == GameResponds(c) \/ GameCloses(c)

\* The object is gone; nothing is left to do.
Destroyed == clientPc = "destroyed" /\ UNCHANGED vars

Next ==
    \/ ClientCall \/ ClientStep \/ Destroyed
    \/ \E c \in Conns : WorkerStep(c) \/ GameStep(c)

Spec == Init /\ [][Next]_vars

\* The client thread runs, wait_until has a deadline, and civetweb's worker
\* loop tests its stop flag between reads.  The game promises nothing.
Fairness ==
    /\ WF_vars(ClientStep)
    /\ \A c \in Conns : WF_vars(WorkerStep(c))

FairSpec == Spec /\ Fairness
-----------------------------------------------------------------------------
(* Properties.                                                             *)

ClientPcs == {"idle", "waiting", "ready", "timedOut", "popping", "disconnecting",
              "joining", "clearing", "returned", "quitting", "quitJoining", "destroyed"}
WorkerPcs == {"none", "reading", "pushing", "flagging", "closing", "exited"}

\* The type invariant of the connection.
TypeOK ==
    /\ connection_ \in Conns \cup {NULL}
    /\ queue_ \in Seq(Requests)
    /\ has_response_ \in BOOLEAN
    /\ mutex_ \in Conns \cup {Free, Client}
    /\ callback \in BOOLEAN
    /\ clientPc \in ClientPcs
    /\ response \in Requests \cup {NULL}
    /\ workerPc \in [Conns -> WorkerPcs]
    /\ inHand \in [Conns -> Requests \cup {NULL}]
    /\ stopping \in SUBSET Conns
    /\ requests \in [Conns -> Seq(Requests)]
    /\ responses \in [Conns -> Seq(Requests)]
    /\ peerOpen \in [Conns -> BOOLEAN]
    /\ via \in Seq(Conns) /\ Len(via) <= MaxRequests
    /\ delivered \in Seq(Requests)
    /\ cleared \in SUBSET Requests
    /\ notified \in SUBSET Conns

\* A response is never handed out on a later connection than the one its request
\* was written to: after a timeout nothing old answers a new request.  It rests on
\* Disconnect joining the worker before Receive clears the queue.
NoStaleResponse ==
    clientPc = "returned" /\ response # NULL => via[response] = connection_

\* Receive hands responses out in the order of their requests, none twice, over
\* any number of timeouts and reconnections.
DeliveredInOrder ==
    \A i, j \in 1 .. Len(delivered) : i < j => delivered[i] < delivered[j]

\* A poller misses nothing: whatever is in the queue while no thread is inside
\* PushResponse is announced by has_response_, the flag PollResponse returns.
QueuedIsAnnounced ==
    mutex_ = Free /\ queue_ # <<>> => has_response_

\* PollResponse announces a response that is not there only after a Receive that
\* timed out has thrown one away.
FalseAnnouncementNeedsTimeout ==
    has_response_ /\ queue_ = <<>> => cleared # {}

\* PopResponse tests queue_.empty() without the lock; called from Receive the test
\* never fails, so Receive returns true only with a response.
PopFindsResponse ==
    clientPc = "popping" => queue_ # <<>>

\* queue_.clear() runs without the lock; no civetweb thread that could be inside
\* PushResponse is left by then.
ClearRunsAlone ==
    clientPc = "clearing" => \A c \in Conns : ~Live(c)

\* "Immediately tear down connection. The callbacks may try to call into objects
\* who are in the process of being destroyed" (ProtoInterface::Quit): no worker
\* that could call back is left when the object goes.
NoCallbackAfterQuit ==
    clientPc = "destroyed" => \A c \in Conns : ~Live(c)

\* Every Receive returns, and every Quit ends: the join in Disconnect never waits
\* for a worker that waits for the client.
CallsReturn ==
    /\ clientPc = "waiting" ~> clientPc = "returned"
    /\ clientPc = "quitting" ~> clientPc = "destroyed"

\* sc2_connection.h of PollResponse: "true if there is a response in the queue,
\* false otherwise".  The half of it that a late response of a timed out Receive
\* breaks: the flag outlives the queue that Receive clears.
PollResponseMeansQueued ==
    clientPc = "idle" /\ has_response_ => queue_ # <<>>

-----------------------------------------------------------------------------
(* The channel a user of the connection sees.                              *)

\* Requests of connection c that may still be answered, oldest first: in the hands of
\* the worker, on the socket, with the game.
Hand(c) == IF inHand[c] = NULL THEN <<>> ELSE <<inHand[c]>>
UnderWay(c) == Hand(c) \o (responses[c] \o requests[c])

\* Those of the connection in use; the oldest are in the queue.
Outstanding == IF connection_ = NULL THEN <<>> ELSE queue_ \o UnderWay(connection_)

Channel == INSTANCE ResponseChannel
             WITH open <- connection_ # NULL, sent <- Len(via),
                  outstanding <- Outstanding, delivered <- delivered

\* The connection, with its threads, its lock and its timeouts, implements the
\* channel its users see.
ImplementsChannel == Channel!Spec

-----------------------------------------------------------------------------
(* The inductive invariant behind the safety properties.                   *)

\* The only worker alive is that of the connection in use.
WorkersInv == \A c \in Conns : Live(c) => connection_ = c

\* mutex_ is held exactly by the thread inside a critical section.
LockInv ==
    /\ \A c \in Conns : mutex_ = c <=> workerPc[c] = "flagging"
    /\ mutex_ = Client <=> clientPc \in {"ready", "timedOut"}

\* Where the client thread is and what it may rely on there.
ClientInv ==
    /\ clientPc \in {"ready", "popping"} => queue_ # <<>>
    /\ clientPc \in {"joining", "quitJoining"} => connection_ # NULL
    /\ clientPc \in {"clearing", "destroyed"} => connection_ = NULL
    /\ response # NULL => clientPc = "returned"
    /\ clientPc = "returned" /\ response = NULL => connection_ = NULL

\* A worker holds a response exactly between DataHandler and PushResponse.
HandInv == \A c \in Conns : inHand[c] # NULL <=> workerPc[c] = "pushing"

\* The queue and its flag.
FlagInv ==
    /\ \A c \in Conns : workerPc[c] = "flagging" => queue_ # <<>>
    /\ queue_ # <<>> /\ mutex_ \notin Conns => has_response_
    /\ has_response_ /\ queue_ = <<>> => cleared # {}

\* By the record v of connections, request r (every request of s) was written to c.
On(r, c, v) == r \in 1 .. Len(v) /\ v[r] = c
AllOn(s, c, v) == \A i \in 1 .. Len(s) : On(s[i], c, v)

\* Every response on its way to the client is on the connection of its request.
OriginInv ==
    /\ \A c \in Conns : AllOn(requests[c], c, via)
    /\ \A c \in Conns : AllOn(responses[c], c, via)
    /\ \A c \in Conns : workerPc[c] = "pushing" => On(inHand[c], c, via)
    /\ clientPc \notin {"clearing", "destroyed"} => AllOn(queue_, connection_, via)
    /\ response # NULL => On(response, connection_, via)

\* Nothing is left on a socket that is not in use.
SocketInv ==
    \A c \in Conns : c # connection_ =>
        ~peerOpen[c] /\ requests[c] = <<>> /\ responses[c] = <<>>

Increasing(s) == \A i, j \in 1 .. Len(s) : i < j => s[i] < s[j]
Before(s, t) == \A i \in 1 .. Len(s), j \in 1 .. Len(t) : s[i] < t[j]
UpTo(s, n) == \A i \in 1 .. Len(s) : s[i] <= n

\* What has been handed out, then the queue: no later than sent, in order.
QueueOrderInv ==
    /\ UpTo(delivered, Len(via)) /\ UpTo(queue_, Len(via))
    /\ Increasing(delivered) /\ Increasing(queue_)
    /\ Before(delivered, queue_)

\* The rest of the way, from the game over the socket to the worker's hands, is in
\* order too, and behind the queue.
SocketOrderInv ==
    \A c \in Conns :
        /\ Increasing(responses[c]) /\ Increasing(requests[c])
        /\ Before(responses[c], requests[c])
        /\ Before(delivered, responses[c]) /\ Before(delivered, requests[c])
        /\ Before(queue_, responses[c]) /\ Before(queue_, requests[c])

HandOrderInv ==
    \A c \in Conns : workerPc[c] = "pushing" =>
        /\ Before(delivered, <<inHand[c]>>) /\ Before(queue_, <<inHand[c]>>)
        /\ Before(<<inHand[c]>>, responses[c]) /\ Before(<<inHand[c]>>, requests[c])

IndInv ==
    /\ TypeOK
    /\ WorkersInv
    /\ LockInv
    /\ ClientInv
    /\ HandInv
    /\ FlagInv
    /\ OriginInv
    /\ SocketInv
    /\ QueueOrderInv
    /\ SocketOrderInv
    /\ HandOrderInv
=============================================================================
