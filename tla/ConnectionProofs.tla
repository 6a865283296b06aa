-------------------------- MODULE ConnectionProofs --------------------------
(***************************************************************************)
(* Proofs about Connection.                                                *)
(*                                                                         *)
(* Invariance shows IndInv, conjunct by conjunct: one lemma per conjunct   *)
(* (WorkersStep, LockStep, ...), one step of its proof per action that can *)
(* disturb it.  The properties of the module follow from IndInv in a line  *)
(* or two.  The first part is about sequences and the three ways           *)
(* Connection orders them.                                                 *)
(***************************************************************************)
EXTENDS Connection, SequenceTheorems, TLAPS

\* What Append does to the length and the elements of a sequence.
LEMMA AppendFacts ==
    ASSUME NEW S, NEW s \in Seq(S), NEW e \in S
    PROVE  /\ Append(s, e) \in Seq(S)
           /\ Len(Append(s, e)) = Len(s) + 1
           /\ Append(s, e) # <<>>
           /\ \A i \in 1 .. Len(s) : Append(s, e)[i] = s[i]
           /\ Append(s, e)[Len(s) + 1] = e
  OBVIOUS

\* A nonempty sequence is its head before its tail.
LEMMA HeadTailFacts ==
    ASSUME NEW S, NEW s \in Seq(S), s # <<>>
    PROVE  /\ Len(s) \in Nat \ {0}
           /\ Head(s) = s[1] /\ Head(s) \in S
           /\ Tail(s) \in Seq(S)
           /\ Len(Tail(s)) = Len(s) - 1
           /\ \A i \in 1 .. Len(Tail(s)) : Tail(s)[i] = s[i + 1]
           /\ Tail(s) # <<>> <=> Len(s) # 1
<1>1. Len(s) \in Nat \ {0}
  BY EmptySeq
<1>2. Head(s) = s[1] /\ Head(s) \in S
  BY <1>1
<1>3. /\ Tail(s) \in Seq(S)
      /\ Len(Tail(s)) = Len(s) - 1
      /\ \A i \in 1 .. Len(Tail(s)) : Tail(s)[i] = s[i + 1]
  BY HeadTailProperties
<1>4. Tail(s) # <<>> <=> Len(Tail(s)) # 0
  BY <1>3, EmptySeq
<1>5. QED
  BY <1>1, <1>2, <1>3, <1>4

\* A prefix of a sequence, its length and its elements.
LEMMA PrefixFacts ==
    ASSUME NEW S, NEW s \in Seq(S), NEW n \in 0 .. Len(s)
    PROVE  /\ SubSeq(s, 1, n) \in Seq(S)
           /\ Len(SubSeq(s, 1, n)) = n
           /\ \A i \in 1 .. n : SubSeq(s, 1, n)[i] = s[i]
  OBVIOUS

\* Nothing is out of place in an empty sequence.
LEMMA AllOnEmpty ==
    ASSUME NEW c, NEW v
    PROVE  AllOn(<<>>, c, v)
  BY DEF AllOn

\* No request was ever written to a null connection, so a sequence of such
\* requests is empty.
LEMMA AllOnNobody ==
    ASSUME NEW s \in Seq(Requests), NEW v \in Seq(Conns), AllOn(s, NULL, v)
    PROVE  s = <<>>
<1>1. SUFFICES ASSUME s # <<>> PROVE FALSE
  OBVIOUS
<1>2. On(s[1], NULL, v)
  BY <1>1, EmptySeq DEF AllOn
<1>3. v[s[1]] \in Conns
  BY <1>2, ElementOfSeq DEF On
<1>4. QED
  BY <1>2, <1>3, BoundsAssumption DEF On, NULL, Conns

\* AllOn is kept by appending a request of the same connection ...
LEMMA AllOnAppend ==
    ASSUME NEW s \in Seq(Requests), NEW r \in Requests, NEW c, NEW v,
           AllOn(s, c, v), On(r, c, v)
    PROVE  AllOn(Append(s, r), c, v)
<1>1. \A i \in 1 .. Len(s) + 1 : Append(s, r)[i] = IF i <= Len(s) THEN s[i] ELSE r
  BY LenProperties, AppendFacts
<1>2. QED
  BY <1>1, AppendFacts, LenProperties DEF AllOn

\* ... holds for the two parts a nonempty sequence is taken apart into ...
LEMMA AllOnHeadTail ==
    ASSUME NEW s \in Seq(Requests), NEW c, NEW v, AllOn(s, c, v), s # <<>>
    PROVE  On(Head(s), c, v) /\ AllOn(Tail(s), c, v)
<1>1. On(Head(s), c, v)
  BY HeadTailFacts DEF AllOn
<1>2. ASSUME NEW i \in 1 .. Len(Tail(s)) PROVE On(Tail(s)[i], c, v)
  BY HeadTailFacts DEF AllOn
<1>3. QED
  BY <1>1, <1>2 DEF AllOn

\* ... and for a prefix.
LEMMA AllOnPrefix ==
    ASSUME NEW s \in Seq(Requests), NEW c, NEW v, AllOn(s, c, v), NEW n \in 0 .. Len(s)
    PROVE  AllOn(SubSeq(s, 1, n), c, v)
<1>1. ASSUME NEW i \in 1 .. n PROVE On(SubSeq(s, 1, n)[i], c, v)
  BY PrefixFacts, LenProperties DEF AllOn
<1>2. QED
  BY <1>1, PrefixFacts DEF AllOn

\* A request keeps its connection when the record of requests grows ...
LEMMA OnLongerRecord ==
    ASSUME NEW r, NEW c, NEW d \in Conns, NEW v \in Seq(Conns), On(r, c, v)
    PROVE  On(r, c, Append(v, d))
  BY AppendFacts, LenProperties DEF On

\* ... and so does a sequence of requests.
LEMMA AllOnLongerRecord ==
    ASSUME NEW s, NEW c, NEW d \in Conns, NEW v \in Seq(Conns), AllOn(s, c, v)
    PROVE  AllOn(s, c, Append(v, d))
  BY OnLongerRecord DEF AllOn

\* The request Send has just made was written to the connection in use.
LEMMA OnNewRecord ==
    ASSUME NEW d \in Conns, NEW v \in Seq(Conns)
    PROVE  On(Len(v) + 1, d, Append(v, d))
  BY AppendFacts, LenProperties DEF On


\* No step moves a response to another connection than that of its request.
\* The queue of a closed connection is no exception: ReceiveClear empties it.
LEMMA OriginStep ==
    ASSUME TypeOK, WorkersInv, ClientInv, OriginInv, [Next]_vars
    PROVE  OriginInv'
<1> USE BoundsAssumption DEF vars, fields, client, workers, sockets, history
<1> USE DEF NULL, Conns, Live, TypeOK, Requests, ClientInv, WorkersInv, OriginInv
<1>1. ASSUME NEW c \in Conns, Connect(c) PROVE OriginInv'
  <2>1. queue_ = <<>>
    BY <1>1, AllOnNobody DEF Connect
  <2>2. AllOn(queue_', connection_', via')
    BY <1>1, <2>1, AllOnEmpty DEF Connect
  <2>3. response' = NULL
    BY <1>1 DEF Connect
  <2>4. \A d \in Conns : workerPc'[d] = "pushing" => On(inHand'[d], d, via')
    BY <1>1 DEF Connect
  <2>5. QED
    BY <1>1, <2>2, <2>3, <2>4 DEF Connect
<1>2. CASE SetConnectionClosedCallback
  BY <1>2 DEF SetConnectionClosedCallback
<1>3. CASE Send
  <2>1. connection_ \in Conns /\ via' = Append(via, connection_)
    BY <1>3 DEF Send, CanSend, Write
  <2>2. Len(via) + 1 \in Requests
    BY <1>3, LenProperties DEF Send, CanSend, Write
  <2>3. ASSUME NEW c \in Conns PROVE AllOn(requests'[c], c, via')
    <3>1. AllOn(requests[c], c, via')
      BY <2>1, AllOnLongerRecord
    <3>2. CASE c = connection_ /\ peerOpen[connection_]
      <4>1. requests'[c] = Append(requests[c], Len(via) + 1)
        BY <1>3, <3>2 DEF Send, CanSend, Write
      <4>2. QED
        BY <4>1, <3>1, <3>2, <2>1, <2>2, OnNewRecord, AllOnAppend
    <3>3. CASE ~(c = connection_ /\ peerOpen[connection_])
      BY <1>3, <3>1, <3>3 DEF Send, CanSend, Write
    <3>4. QED
      BY <3>2, <3>3
  <2>4. ASSUME NEW c \in Conns PROVE AllOn(responses'[c], c, via')
    BY <1>3, <2>1, AllOnLongerRecord DEF Send
  <2>5. ASSUME NEW c \in Conns, workerPc'[c] = "pushing" PROVE On(inHand'[c], c, via')
    BY <1>3, <2>1, <2>5, OnLongerRecord DEF Send
  <2>6. AllOn(queue_', connection_', via')
    BY <1>3, <2>1, AllOnLongerRecord DEF Send, CanSend
  <2>7. response' = NULL
    BY <1>3 DEF Send, CanSend
  <2>8. QED
    BY <2>3, <2>4, <2>5, <2>6, <2>7
<1>4. CASE Receive
  BY <1>4 DEF Receive
<1>5. CASE Quit
  BY <1>5 DEF Quit
<1>6. CASE ReceiveReady
  BY <1>6 DEF ReceiveReady
<1>7. CASE ReceiveTimeout
  BY <1>7 DEF ReceiveTimeout
<1>8. CASE ReceiveUnlock
  BY <1>8 DEF ReceiveUnlock
<1>9. CASE PopResponse
  <2>1. CASE queue_ = <<>>
    BY <1>9, <2>1 DEF PopResponse, PopWith
  <2>2. CASE queue_ # <<>>
    <3>1. On(Head(queue_), connection_, via) /\ AllOn(Tail(queue_), connection_, via)
      BY <1>9, <2>2, AllOnHeadTail DEF PopResponse, PopWith
    <3>2. response' = Head(queue_) /\ queue_' = Tail(queue_)
      BY <1>9, <2>2 DEF PopResponse, PopWith
    <3>3. UNCHANGED <<requests, responses, workerPc, inHand, connection_, via>>
      BY <1>9 DEF PopResponse, PopWith
    <3>4. QED
      BY <3>1, <3>2, <3>3
  <2>3. QED
    BY <2>1, <2>2
<1>10. CASE Disconnect
  BY <1>10 DEF Disconnect
<1>11. CASE Disconnected
  BY <1>11, AllOnEmpty DEF Disconnected, SocketGone
<1>12. CASE DisconnectNull
  BY <1>12 DEF DisconnectNull
<1>13. CASE ReceiveClear
  BY <1>13, AllOnEmpty DEF ReceiveClear
<1>14. CASE ReceiveReturn
  BY <1>14 DEF ReceiveReturn
<1>15. CASE Destroyed
  BY <1>15 DEF Destroyed
<1>16. ASSUME NEW c \in Conns, DataHandler(c) PROVE OriginInv'
  BY <1>16, AllOnHeadTail DEF DataHandler, TakeFrame
<1>17. ASSUME NEW c \in Conns, DataHandlerParseError(c) PROVE OriginInv'
  BY <1>17, AllOnHeadTail DEF DataHandlerParseError
<1>18. ASSUME NEW c \in Conns, PushResponse(c) PROVE OriginInv'
  <2>1. c = connection_
    BY <1>18 DEF PushResponse, PushTo
  <2>2. On(inHand[c], c, via) /\ inHand[c] \in Requests
    BY <1>18, LenProperties DEF PushResponse, PushTo, On
  <2>3. clientPc \notin {"clearing", "destroyed"}
    BY <1>18, <2>1
  <2>4. AllOn(queue_', connection_', via')
    BY <1>18, <2>1, <2>2, <2>3, AllOnAppend DEF PushResponse, PushTo
  <2>5. QED
    BY <1>18, <2>4 DEF PushResponse, PushTo
<1>19. ASSUME NEW c \in Conns, PushResponseFlag(c) PROVE OriginInv'
  BY <1>19 DEF PushResponseFlag
<1>20. ASSUME NEW c \in Conns, ReadLoopEnds(c) PROVE OriginInv'
  BY <1>20 DEF ReadLoopEnds
<1>21. ASSUME NEW c \in Conns, ConnectionClosedHandler(c) PROVE OriginInv'
  BY <1>21 DEF ConnectionClosedHandler
<1>22. ASSUME NEW c \in Conns, GameResponds(c) PROVE OriginInv'
  <2>1. AllOn(Tail(requests[c]), c, via) /\ On(Head(requests[c]), c, via)
    BY <1>22, AllOnHeadTail DEF GameResponds
  <2>2. Head(requests[c]) \in Requests
    BY <1>22, HeadTailFacts DEF GameResponds
  <2>3. AllOn(Append(responses[c], Head(requests[c])), c, via)
    BY <2>1, <2>2, AllOnAppend
  <2>4. QED
    BY <1>22, <2>1, <2>3 DEF GameResponds
<1>23. ASSUME NEW c \in Conns, GameCloses(c) PROVE OriginInv'
  <2>1. PICK n \in 0 .. Len(responses[c]) :
           responses' = [responses EXCEPT ![c] = SubSeq(@, 1, n)]
    BY <1>23 DEF GameCloses
  <2>2. AllOn(SubSeq(responses[c], 1, n), c, via)
    BY <1>23, AllOnPrefix
  <2>3. QED
    BY <1>23, <2>1, <2>2, AllOnEmpty DEF GameCloses
<1>24. CASE UNCHANGED vars
  BY <1>24
<1>25. QED
  BY <1>1, <1>2, <1>3, <1>4, <1>5, <1>6, <1>7, <1>8, <1>9, <1>10, <1>11,
     <1>12, <1>13, <1>14, <1>15, <1>16, <1>17, <1>18, <1>19, <1>20, <1>21,
     <1>22, <1>23, <1>24   DEF Next, ClientCall, ClientStep, WorkerStep,
     GameStep

\* What a worker is about to queue is a request, not NULL.
LEMMA HandIsRequest ==
    ASSUME TypeOK, OriginInv, NEW c \in Conns, workerPc[c] = "pushing"
    PROVE  inHand[c] \in Requests
  BY DEF TypeOK, OriginInv, On, NULL

\* Without a connection in use no worker is alive: the join has ended the last.
LEMMA NoWorkerWithoutConnection ==
    ASSUME WorkersInv, connection_ = NULL
    PROVE  \A c \in Conns : ~Live(c)
  BY BoundsAssumption DEF WorkersInv, NULL, Conns

\* PushResponse leaves a queue that is not empty.
LEMMA AppendNotEmpty ==
    ASSUME NEW S, NEW s \in Seq(S), NEW e \in S
    PROVE  Append(s, e) # <<>>
  BY AppendFacts


\* A step leaves no live worker but that of the connection in use.
LEMMA WorkersStep ==
    ASSUME TypeOK, WorkersInv, ClientInv, [Next]_vars
    PROVE  WorkersInv'
<1> USE BoundsAssumption DEF vars, fields, client, workers, sockets, history
<1> USE DEF NULL, Conns, Live, TypeOK, WorkersInv, ClientInv
<1>1. ASSUME NEW c \in Conns, Connect(c) PROVE WorkersInv'
  BY <1>1 DEF Connect
<1>2. CASE SetConnectionClosedCallback
  BY <1>2 DEF SetConnectionClosedCallback
<1>3. CASE Send
  BY <1>3 DEF Send, CanSend, Write
<1>4. CASE Receive
  BY <1>4 DEF Receive
<1>5. CASE Quit
  BY <1>5 DEF Quit
<1>6. CASE ReceiveReady
  BY <1>6 DEF ReceiveReady
<1>7. CASE ReceiveTimeout
  BY <1>7 DEF ReceiveTimeout
<1>8. CASE ReceiveUnlock
  BY <1>8 DEF ReceiveUnlock
<1>9. CASE PopResponse
  BY <1>9 DEF PopResponse, PopWith
<1>10. CASE Disconnect
  BY <1>10 DEF Disconnect
<1>11. CASE Disconnected
  BY <1>11 DEF Disconnected, SocketGone
<1>12. CASE DisconnectNull
  BY <1>12 DEF DisconnectNull
<1>13. CASE ReceiveClear
  BY <1>13 DEF ReceiveClear
<1>14. CASE ReceiveReturn
  BY <1>14 DEF ReceiveReturn
<1>15. CASE Destroyed
  BY <1>15 DEF Destroyed
<1>16. ASSUME NEW c \in Conns, DataHandler(c) PROVE WorkersInv'
  BY <1>16 DEF DataHandler, TakeFrame
<1>17. ASSUME NEW c \in Conns, DataHandlerParseError(c) PROVE WorkersInv'
  BY <1>17 DEF DataHandlerParseError
<1>18. ASSUME NEW c \in Conns, PushResponse(c) PROVE WorkersInv'
  BY <1>18 DEF PushResponse, PushTo
<1>19. ASSUME NEW c \in Conns, PushResponseFlag(c) PROVE WorkersInv'
  BY <1>19 DEF PushResponseFlag
<1>20. ASSUME NEW c \in Conns, ReadLoopEnds(c) PROVE WorkersInv'
  BY <1>20 DEF ReadLoopEnds
<1>21. ASSUME NEW c \in Conns, ConnectionClosedHandler(c) PROVE WorkersInv'
  BY <1>21 DEF ConnectionClosedHandler
<1>22. ASSUME NEW c \in Conns, GameResponds(c) PROVE WorkersInv'
  BY <1>22 DEF GameResponds
<1>23. ASSUME NEW c \in Conns, GameCloses(c) PROVE WorkersInv'
  BY <1>23 DEF GameCloses
<1>24. CASE UNCHANGED vars
  BY <1>24
<1>25. QED
  BY <1>1, <1>2, <1>3, <1>4, <1>5, <1>6, <1>7, <1>8, <1>9, <1>10, <1>11,
     <1>12, <1>13, <1>14, <1>15, <1>16, <1>17, <1>18, <1>19, <1>20, <1>21,
     <1>22, <1>23, <1>24   DEF Next, ClientCall, ClientStep, WorkerStep,
     GameStep


\* A step keeps mutex_ with the one thread inside a critical section.
LEMMA LockStep ==
    ASSUME TypeOK, LockInv, [Next]_vars
    PROVE  LockInv'
<1> USE BoundsAssumption DEF vars, fields, client, workers, sockets, history
<1> USE DEF NULL, Free, Client, Conns, TypeOK, LockInv
<1>1. ASSUME NEW c \in Conns, Connect(c) PROVE LockInv'
  BY <1>1 DEF Connect
<1>2. CASE SetConnectionClosedCallback
  BY <1>2 DEF SetConnectionClosedCallback
<1>3. CASE Send
  BY <1>3 DEF Send, CanSend, Write
<1>4. CASE Receive
  BY <1>4 DEF Receive
<1>5. CASE Quit
  BY <1>5 DEF Quit
<1>6. CASE ReceiveReady
  BY <1>6 DEF ReceiveReady
<1>7. CASE ReceiveTimeout
  BY <1>7 DEF ReceiveTimeout
<1>8. CASE ReceiveUnlock
  BY <1>8 DEF ReceiveUnlock
<1>9. CASE PopResponse
  BY <1>9 DEF PopResponse, PopWith
<1>10. CASE Disconnect
  BY <1>10 DEF Disconnect
<1>11. CASE Disconnected
  BY <1>11 DEF Disconnected, SocketGone
<1>12. CASE DisconnectNull
  BY <1>12 DEF DisconnectNull
<1>13. CASE ReceiveClear
  BY <1>13 DEF ReceiveClear
<1>14. CASE ReceiveReturn
  BY <1>14 DEF ReceiveReturn
<1>15. CASE Destroyed
  BY <1>15 DEF Destroyed
<1>16. ASSUME NEW c \in Conns, DataHandler(c) PROVE LockInv'
  BY <1>16 DEF DataHandler, TakeFrame
<1>17. ASSUME NEW c \in Conns, DataHandlerParseError(c) PROVE LockInv'
  BY <1>17 DEF DataHandlerParseError
<1>18. ASSUME NEW c \in Conns, PushResponse(c) PROVE LockInv'
  BY <1>18 DEF PushResponse, PushTo
<1>19. ASSUME NEW c \in Conns, PushResponseFlag(c) PROVE LockInv'
  BY <1>19 DEF PushResponseFlag
<1>20. ASSUME NEW c \in Conns, ReadLoopEnds(c) PROVE LockInv'
  BY <1>20 DEF ReadLoopEnds
<1>21. ASSUME NEW c \in Conns, ConnectionClosedHandler(c) PROVE LockInv'
  BY <1>21 DEF ConnectionClosedHandler
<1>22. ASSUME NEW c \in Conns, GameResponds(c) PROVE LockInv'
  BY <1>22 DEF GameResponds
<1>23. ASSUME NEW c \in Conns, GameCloses(c) PROVE LockInv'
  BY <1>23 DEF GameCloses
<1>24. CASE UNCHANGED vars
  BY <1>24
<1>25. QED
  BY <1>1, <1>2, <1>3, <1>4, <1>5, <1>6, <1>7, <1>8, <1>9, <1>10, <1>11,
     <1>12, <1>13, <1>14, <1>15, <1>16, <1>17, <1>18, <1>19, <1>20, <1>21,
     <1>22, <1>23, <1>24   DEF Next, ClientCall, ClientStep, WorkerStep,
     GameStep


\* A step keeps what the client thread relies on: no other thread empties the
\* queue between the wait and the pop.
LEMMA ClientInvStep ==
    ASSUME TypeOK, WorkersInv, LockInv, ClientInv, OriginInv, [Next]_vars
    PROVE  ClientInv'
<1> USE BoundsAssumption DEF vars, fields, client, workers, sockets, history
<1> USE DEF NULL, Free, Client, Conns, Live, TypeOK, WorkersInv, LockInv, ClientInv
<1>1. ASSUME NEW c \in Conns, Connect(c) PROVE ClientInv'
  BY <1>1 DEF Connect
<1>2. CASE SetConnectionClosedCallback
  BY <1>2 DEF SetConnectionClosedCallback
<1>3. CASE Send
  BY <1>3 DEF Send, CanSend, Write
<1>4. CASE Receive
  BY <1>4 DEF Receive
<1>5. CASE Quit
  BY <1>5 DEF Quit
<1>6. CASE ReceiveReady
  BY <1>6 DEF ReceiveReady
<1>7. CASE ReceiveTimeout
  BY <1>7 DEF ReceiveTimeout
<1>8. CASE ReceiveUnlock
  BY <1>8 DEF ReceiveUnlock
<1>9. CASE PopResponse
  <2>1. queue_ # <<>>
    BY <1>9 DEF PopResponse, PopWith
  <2>2. Head(queue_) \in Requests
    BY <2>1, HeadTailFacts
  <2>3. clientPc' = "returned" /\ response' = Head(queue_)
    BY <1>9, <2>1 DEF PopResponse, PopWith
  <2>4. QED
    BY <2>2, <2>3 DEF Requests
<1>10. CASE Disconnect
  BY <1>10 DEF Disconnect
<1>11. CASE Disconnected
  BY <1>11 DEF Disconnected, SocketGone
<1>12. CASE DisconnectNull
  BY <1>12 DEF DisconnectNull
<1>13. CASE ReceiveClear
  BY <1>13 DEF ReceiveClear
<1>14. CASE ReceiveReturn
  BY <1>14 DEF ReceiveReturn
<1>15. CASE Destroyed
  BY <1>15 DEF Destroyed
<1>16. ASSUME NEW c \in Conns, DataHandler(c) PROVE ClientInv'
  BY <1>16 DEF DataHandler, TakeFrame
<1>17. ASSUME NEW c \in Conns, DataHandlerParseError(c) PROVE ClientInv'
  BY <1>17 DEF DataHandlerParseError
<1>18. ASSUME NEW c \in Conns, PushResponse(c) PROVE ClientInv'
  <2>1. queue_' # <<>>
    BY <1>18, HandIsRequest, AppendNotEmpty DEF PushResponse, PushTo
  <2>2. QED
    BY <1>18, <2>1 DEF PushResponse, PushTo
<1>19. ASSUME NEW c \in Conns, PushResponseFlag(c) PROVE ClientInv'
  BY <1>19 DEF PushResponseFlag
<1>20. ASSUME NEW c \in Conns, ReadLoopEnds(c) PROVE ClientInv'
  BY <1>20 DEF ReadLoopEnds
<1>21. ASSUME NEW c \in Conns, ConnectionClosedHandler(c) PROVE ClientInv'
  BY <1>21 DEF ConnectionClosedHandler
<1>22. ASSUME NEW c \in Conns, GameResponds(c) PROVE ClientInv'
  BY <1>22 DEF GameResponds
<1>23. ASSUME NEW c \in Conns, GameCloses(c) PROVE ClientInv'
  BY <1>23 DEF GameCloses
<1>24. CASE UNCHANGED vars
  BY <1>24
<1>25. QED
  BY <1>1, <1>2, <1>3, <1>4, <1>5, <1>6, <1>7, <1>8, <1>9, <1>10, <1>11,
     <1>12, <1>13, <1>14, <1>15, <1>16, <1>17, <1>18, <1>19, <1>20, <1>21,
     <1>22, <1>23, <1>24   DEF Next, ClientCall, ClientStep, WorkerStep,
     GameStep


\* A step keeps has_response_ set for a queue that holds something.
LEMMA FlagStep ==
    ASSUME TypeOK, WorkersInv, LockInv, ClientInv, FlagInv, OriginInv, [Next]_vars
    PROVE  FlagInv'
<1> USE BoundsAssumption DEF vars, fields, client, workers, sockets, history
<1> USE DEF NULL, Free, Client, Conns, Live, TypeOK, WorkersInv, LockInv, ClientInv, FlagInv
<1>1. ASSUME NEW c \in Conns, Connect(c) PROVE FlagInv'
  BY <1>1 DEF Connect
<1>2. CASE SetConnectionClosedCallback
  BY <1>2 DEF SetConnectionClosedCallback
<1>3. CASE Send
  BY <1>3 DEF Send, CanSend, Write
<1>4. CASE Receive
  BY <1>4 DEF Receive
<1>5. CASE Quit
  BY <1>5 DEF Quit
<1>6. CASE ReceiveReady
  BY <1>6 DEF ReceiveReady
<1>7. CASE ReceiveTimeout
  BY <1>7 DEF ReceiveTimeout
<1>8. CASE ReceiveUnlock
  BY <1>8 DEF ReceiveUnlock
<1>9. CASE PopResponse
  <2>1. queue_ # <<>> /\ has_response_
    BY <1>9 DEF PopResponse, PopWith
  <2>2. has_response_' = (Len(queue_) # 1) /\ queue_' = Tail(queue_)
    BY <1>9, <2>1 DEF PopResponse, PopWith
  <2>3. queue_' # <<>> <=> has_response_'
    BY <2>1, <2>2, HeadTailFacts
  <2>4. \A c \in Conns : workerPc[c] # "flagging"
    BY <1>9 DEF PopResponse, PopWith
  <2>5. UNCHANGED <<workerPc, mutex_, cleared>>
    BY <1>9 DEF PopResponse, PopWith
  <2>6. QED
    BY <2>3, <2>4, <2>5
<1>10. CASE Disconnect
  BY <1>10 DEF Disconnect
<1>11. CASE Disconnected
  BY <1>11 DEF Disconnected, SocketGone
<1>12. CASE DisconnectNull
  BY <1>12 DEF DisconnectNull
<1>13. CASE ReceiveClear
  <2>1. \A c \in Conns : workerPc[c] # "flagging"
    BY <1>13, NoWorkerWithoutConnection DEF ReceiveClear
  <2>2. CASE queue_ = <<>>
    BY <1>13, <2>1, <2>2 DEF ReceiveClear
  <2>3. CASE queue_ # <<>>
    <3>1. 1 \in 1 .. Len(queue_)
      BY <2>3, EmptySeq
    <3>2. queue_[1] \in cleared'
      BY <1>13, <3>1 DEF ReceiveClear
    <3>3. QED
      BY <1>13, <2>1, <3>2 DEF ReceiveClear
  <2>4. QED
    BY <2>2, <2>3
<1>14. CASE ReceiveReturn
  BY <1>14 DEF ReceiveReturn
<1>15. CASE Destroyed
  BY <1>15 DEF Destroyed
<1>16. ASSUME NEW c \in Conns, DataHandler(c) PROVE FlagInv'
  BY <1>16 DEF DataHandler, TakeFrame
<1>17. ASSUME NEW c \in Conns, DataHandlerParseError(c) PROVE FlagInv'
  BY <1>17 DEF DataHandlerParseError
<1>18. ASSUME NEW c \in Conns, PushResponse(c) PROVE FlagInv'
  <2>1. queue_' # <<>>
    BY <1>18, HandIsRequest, AppendNotEmpty DEF PushResponse, PushTo
  <2>2. QED
    BY <1>18, <2>1 DEF PushResponse, PushTo
<1>19. ASSUME NEW c \in Conns, PushResponseFlag(c) PROVE FlagInv'
  BY <1>19 DEF PushResponseFlag
<1>20. ASSUME NEW c \in Conns, ReadLoopEnds(c) PROVE FlagInv'
  BY <1>20 DEF ReadLoopEnds
<1>21. ASSUME NEW c \in Conns, ConnectionClosedHandler(c) PROVE FlagInv'
  BY <1>21 DEF ConnectionClosedHandler
<1>22. ASSUME NEW c \in Conns, GameResponds(c) PROVE FlagInv'
  BY <1>22 DEF GameResponds
<1>23. ASSUME NEW c \in Conns, GameCloses(c) PROVE FlagInv'
  BY <1>23 DEF GameCloses
<1>24. CASE UNCHANGED vars
  BY <1>24
<1>25. QED
  BY <1>1, <1>2, <1>3, <1>4, <1>5, <1>6, <1>7, <1>8, <1>9, <1>10, <1>11,
     <1>12, <1>13, <1>14, <1>15, <1>16, <1>17, <1>18, <1>19, <1>20, <1>21,
     <1>22, <1>23, <1>24   DEF Next, ClientCall, ClientStep, WorkerStep,
     GameStep

\* The empty sequence is in order and before and behind everything.
LEMMA OrderOfEmpty ==
    /\ Increasing(<<>>)
    /\ \A s : Before(<<>>, s) /\ Before(s, <<>>)
    /\ \A n : UpTo(<<>>, n)
  BY DEF Increasing, Before, UpTo

\* Taking a sequence apart keeps its order, and puts the head before the tail.
LEMMA OrderOfHeadTail ==
    ASSUME NEW s \in Seq(Requests), s # <<>>
    PROVE  /\ Increasing(s) => Increasing(Tail(s)) /\ Before(<<Head(s)>>, Tail(s))
           /\ \A t : Before(t, s) => Before(t, Tail(s)) /\ Before(t, <<Head(s)>>)
           /\ \A t : Before(s, t) => Before(Tail(s), t) /\ Before(<<Head(s)>>, t)
           /\ \A n : UpTo(s, n) => UpTo(Tail(s), n) /\ Head(s) <= n
<1>1. /\ 1 \in 1 .. Len(s)
      /\ Head(s) = s[1]
      /\ Len(<<Head(s)>>) = 1 /\ <<Head(s)>>[1] = s[1]
      /\ Len(Tail(s)) = Len(s) - 1
      /\ \A i \in 1 .. Len(Tail(s)) : Tail(s)[i] = s[i + 1] /\ i + 1 \in 1 .. Len(s)
  BY HeadTailFacts
<1>2. ASSUME Increasing(s) PROVE Increasing(Tail(s)) /\ Before(<<Head(s)>>, Tail(s))
  BY <1>1, <1>2, HeadTailFacts DEF Increasing, Before
<1>3. ASSUME NEW t, Before(t, s) PROVE Before(t, Tail(s)) /\ Before(t, <<Head(s)>>)
  BY <1>1, <1>3 DEF Before
<1>4. ASSUME NEW t, Before(s, t) PROVE Before(Tail(s), t) /\ Before(<<Head(s)>>, t)
  BY <1>1, <1>4 DEF Before
<1>5. ASSUME NEW n, UpTo(s, n) PROVE UpTo(Tail(s), n) /\ Head(s) <= n
  BY <1>1, <1>5 DEF UpTo
<1>6. QED
  BY <1>2, <1>3, <1>4, <1>5

\* Appending what is behind a sequence keeps its order.
LEMMA OrderOfAppend ==
    ASSUME NEW s \in Seq(Requests), NEW r \in Requests
    PROVE  /\ Increasing(s) /\ Before(s, <<r>>) => Increasing(Append(s, r))
           /\ \A t : Before(t, s) /\ Before(t, <<r>>) => Before(t, Append(s, r))
           /\ \A t : Before(s, t) /\ Before(<<r>>, t) => Before(Append(s, r), t)
           /\ \A n : UpTo(s, n) /\ r <= n => UpTo(Append(s, r), n)
<1>1. /\ Len(s) \in Nat
      /\ Len(Append(s, r)) = Len(s) + 1
      /\ \A i \in 1 .. Len(s) + 1 :
           Append(s, r)[i] = IF i \in 1 .. Len(s) THEN s[i] ELSE r
      /\ Len(<<r>>) = 1 /\ <<r>>[1] = r
  BY LenProperties, AppendFacts
<1>2. ASSUME Increasing(s), Before(s, <<r>>) PROVE Increasing(Append(s, r))
  BY <1>1, <1>2 DEF Increasing, Before
<1>3. ASSUME NEW t, Before(t, s), Before(t, <<r>>) PROVE Before(t, Append(s, r))
  BY <1>1, <1>3 DEF Before
<1>4. ASSUME NEW t, Before(s, t), Before(<<r>>, t) PROVE Before(Append(s, r), t)
  BY <1>1, <1>4 DEF Before
<1>5. ASSUME NEW n, UpTo(s, n), r <= n PROVE UpTo(Append(s, r), n)
  BY <1>1, <1>5 DEF UpTo
<1>6. QED
  BY <1>2, <1>3, <1>4, <1>5

\* A prefix of a sequence is ordered as the sequence is.
LEMMA OrderOfPrefix ==
    ASSUME NEW s \in Seq(Requests), NEW n \in 0 .. Len(s)
    PROVE  /\ Increasing(s) => Increasing(SubSeq(s, 1, n))
           /\ \A t : Before(t, s) => Before(t, SubSeq(s, 1, n))
<1>1. /\ Len(SubSeq(s, 1, n)) = n
      /\ \A i \in 1 .. n : SubSeq(s, 1, n)[i] = s[i] /\ i \in 1 .. Len(s)
  BY PrefixFacts, LenProperties
<1>2. QED
  BY <1>1 DEF Increasing, Before

\* Whatever was sent so far comes before the next request.
LEMMA UpToIsBeforeNew ==
    ASSUME NEW s \in Seq(Requests), NEW n \in Nat, UpTo(s, n)
    PROVE  Before(s, <<n + 1>>)
<1>1. \A i \in 1 .. Len(s) : s[i] \in Requests
  BY ElementOfSeq
<1>2. Len(<<n + 1>>) = 1 /\ <<n + 1>>[1] = n + 1
  OBVIOUS
<1>3. QED
  BY <1>1, <1>2 DEF UpTo, Before, Requests

\* Requests that were written to a connection have been sent.
LEMMA AllOnIsUpTo ==
    ASSUME NEW s, NEW c, NEW v \in Seq(Conns), AllOn(s, c, v)
    PROVE  UpTo(s, Len(v))
  BY LenProperties DEF AllOn, On, UpTo

\* A bound on the requests of a sequence may grow.
LEMMA UpToWeaken ==
    ASSUME NEW s \in Seq(Requests), NEW n \in Nat, UpTo(s, n)
    PROVE  UpTo(s, n + 1)
<1>1. \A i \in 1 .. Len(s) : s[i] \in Requests
  BY ElementOfSeq
<1>2. QED
  BY <1>1 DEF UpTo, Requests


\* A step keeps what was handed out, and then the queue, in the order of sending.
LEMMA QueueOrderStep ==
    ASSUME TypeOK, OriginInv, QueueOrderInv, HandOrderInv, [Next]_vars
    PROVE  QueueOrderInv'
<1> USE BoundsAssumption DEF vars, fields, client, workers, sockets, history
<1> USE DEF TypeOK, Conns, QueueOrderInv
<1>1. ASSUME NEW c \in Conns, Connect(c) PROVE QueueOrderInv'
  BY <1>1 DEF Connect
<1>2. CASE SetConnectionClosedCallback
  BY <1>2 DEF SetConnectionClosedCallback
<1>3. CASE Send
  <2>1. via' = Append(via, connection_) /\ connection_ \in Conns
    BY <1>3 DEF Send, CanSend, Write
  <2>2. Len(via) \in Nat /\ Len(via') = Len(via) + 1
    BY <2>1, AppendFacts, LenProperties
  <2>3. UpTo(delivered, Len(via')) /\ UpTo(queue_, Len(via'))
    BY <2>2, UpToWeaken
  <2>4. QED
    BY <1>3, <2>3 DEF Send
<1>4. CASE Receive
  BY <1>4 DEF Receive
<1>5. CASE Quit
  BY <1>5 DEF Quit
<1>6. CASE ReceiveReady
  BY <1>6 DEF ReceiveReady
<1>7. CASE ReceiveTimeout
  BY <1>7 DEF ReceiveTimeout
<1>8. CASE ReceiveUnlock
  BY <1>8 DEF ReceiveUnlock
<1>9. CASE PopResponse
  <2>1. CASE queue_ = <<>>
    BY <1>9, <2>1 DEF PopResponse, PopWith
  <2>2. CASE queue_ # <<>>
    <3> DEFINE r == Head(queue_)
    <3>1. r \in Requests
      BY <2>2, HeadTailFacts
    <3>2. delivered' = Append(delivered, r) /\ queue_' = Tail(queue_) /\ via' = via
      BY <1>9, <2>2 DEF PopResponse, PopWith
    <3>3. /\ Increasing(Tail(queue_)) /\ Before(<<r>>, Tail(queue_))
          /\ Before(delivered, Tail(queue_)) /\ Before(delivered, <<r>>)
          /\ UpTo(Tail(queue_), Len(via)) /\ r <= Len(via)
      BY <2>2, OrderOfHeadTail
    <3> HIDE DEF r
    <3>4. /\ Increasing(Append(delivered, r))
          /\ Before(Append(delivered, r), Tail(queue_))
          /\ UpTo(Append(delivered, r), Len(via))
      BY <3>1, <3>3, OrderOfAppend
    <3>5. QED
      BY <3>2, <3>3, <3>4
  <2>3. QED
    BY <2>1, <2>2
<1>10. CASE Disconnect
  BY <1>10 DEF Disconnect
<1>11. CASE Disconnected
  BY <1>11 DEF Disconnected, SocketGone
<1>12. CASE DisconnectNull
  BY <1>12 DEF DisconnectNull
<1>13. CASE ReceiveClear
  BY <1>13, OrderOfEmpty DEF ReceiveClear
<1>14. CASE ReceiveReturn
  BY <1>14 DEF ReceiveReturn
<1>15. CASE Destroyed
  BY <1>15 DEF Destroyed
<1>16. ASSUME NEW c \in Conns, DataHandler(c) PROVE QueueOrderInv'
  BY <1>16 DEF DataHandler, TakeFrame
<1>17. ASSUME NEW c \in Conns, DataHandlerParseError(c) PROVE QueueOrderInv'
  BY <1>17 DEF DataHandlerParseError
<1>18. ASSUME NEW c \in Conns, PushResponse(c) PROVE QueueOrderInv'
  <2>1. inHand[c] \in Requests
    BY <1>18, HandIsRequest DEF PushResponse, PushTo
  <2>2. inHand[c] <= Len(via)
    BY <1>18, LenProperties DEF PushResponse, PushTo, OriginInv, On
  <2>3. Before(delivered, <<inHand[c]>>) /\ Before(queue_, <<inHand[c]>>)
    BY <1>18 DEF PushResponse, PushTo, HandOrderInv
  <2>4. queue_' = Append(queue_, inHand[c]) /\ delivered' = delivered /\ via' = via
    BY <1>18 DEF PushResponse, PushTo
  <2>5. /\ Increasing(queue_') /\ Before(delivered, queue_')
        /\ UpTo(queue_', Len(via))
    BY <2>1, <2>2, <2>3, <2>4, OrderOfAppend
  <2>6. QED
    BY <2>4, <2>5
<1>19. ASSUME NEW c \in Conns, PushResponseFlag(c) PROVE QueueOrderInv'
  BY <1>19 DEF PushResponseFlag
<1>20. ASSUME NEW c \in Conns, ReadLoopEnds(c) PROVE QueueOrderInv'
  BY <1>20 DEF ReadLoopEnds
<1>21. ASSUME NEW c \in Conns, ConnectionClosedHandler(c) PROVE QueueOrderInv'
  BY <1>21 DEF ConnectionClosedHandler
<1>22. ASSUME NEW c \in Conns, GameResponds(c) PROVE QueueOrderInv'
  BY <1>22 DEF GameResponds
<1>23. ASSUME NEW c \in Conns, GameCloses(c) PROVE QueueOrderInv'
  BY <1>23 DEF GameCloses
<1>24. CASE UNCHANGED vars
  BY <1>24
<1>25. QED
  BY <1>1, <1>2, <1>3, <1>4, <1>5, <1>6, <1>7, <1>8, <1>9, <1>10, <1>11,
     <1>12, <1>13, <1>14, <1>15, <1>16, <1>17, <1>18, <1>19, <1>20, <1>21,
     <1>22, <1>23, <1>24   DEF Next, ClientCall, ClientStep, WorkerStep,
     GameStep


\* A step keeps the socket in order, behind the queue.
LEMMA SocketOrderStep ==
    ASSUME TypeOK, WorkersInv, OriginInv, SocketInv,
           QueueOrderInv, SocketOrderInv, HandOrderInv, [Next]_vars
    PROVE  SocketOrderInv'
<1> USE BoundsAssumption DEF vars, fields, client, workers, sockets, history
<1> USE DEF TypeOK, Conns, SocketOrderInv
<1>1. ASSUME NEW c \in Conns, Connect(c) PROVE SocketOrderInv'
  BY <1>1 DEF Connect
<1>2. CASE SetConnectionClosedCallback
  BY <1>2 DEF SetConnectionClosedCallback
<1>3. CASE Send
  <2> DEFINE r == Len(via) + 1
  <2>1. connection_ \in Conns /\ r \in Requests /\ Len(via) \in Nat
    BY <1>3, LenProperties DEF Send, CanSend, Write, Requests, NULL
  <2>2. /\ UpTo(responses[connection_], Len(via)) /\ UpTo(requests[connection_], Len(via))
        /\ UpTo(delivered, Len(via)) /\ UpTo(queue_, Len(via))
    BY <2>1, AllOnIsUpTo DEF OriginInv, QueueOrderInv
  <2>3. /\ Before(responses[connection_], <<r>>) /\ Before(requests[connection_], <<r>>)
        /\ Before(delivered, <<r>>) /\ Before(queue_, <<r>>)
    BY <2>1, <2>2, UpToIsBeforeNew
  <2>4. UNCHANGED <<responses, delivered, queue_>>
    BY <1>3 DEF Send
  <2>5. \/ requests' = requests
        \/ requests' = [requests EXCEPT ![connection_] = Append(@, r)]
    BY <1>3 DEF Send, Write
  <2> HIDE DEF r
  <2>6. /\ Increasing(Append(requests[connection_], r))
        /\ Before(responses[connection_], Append(requests[connection_], r))
        /\ Before(delivered, Append(requests[connection_], r))
        /\ Before(queue_, Append(requests[connection_], r))
    BY <2>1, <2>3, OrderOfAppend
  <2>7. QED
    BY <2>1, <2>4, <2>5, <2>6
<1>4. CASE Receive
  BY <1>4 DEF Receive
<1>5. CASE Quit
  BY <1>5 DEF Quit
<1>6. CASE ReceiveReady
  BY <1>6 DEF ReceiveReady
<1>7. CASE ReceiveTimeout
  BY <1>7 DEF ReceiveTimeout
<1>8. CASE ReceiveUnlock
  BY <1>8 DEF ReceiveUnlock
<1>9. CASE PopResponse
  <2>1. CASE queue_ = <<>>
    BY <1>9, <2>1 DEF PopResponse, PopWith
  <2>2. CASE queue_ # <<>>
    <3> DEFINE r == Head(queue_)
    <3>1. r \in Requests
      BY <2>2, HeadTailFacts
    <3>2. /\ delivered' = Append(delivered, r) /\ queue_' = Tail(queue_)
          /\ UNCHANGED <<requests, responses>>
      BY <1>9, <2>2 DEF PopResponse, PopWith
    <3>3. \A t : Before(queue_, t) => Before(Tail(queue_), t) /\ Before(<<r>>, t)
      BY <2>2, OrderOfHeadTail
    <3> HIDE DEF r
    <3>4. \A t : Before(queue_, t) /\ Before(delivered, t) => Before(Append(delivered, r), t)
      BY <3>1, <3>3, OrderOfAppend
    <3>5. QED
      BY <3>2, <3>3, <3>4
  <2>3. QED
    BY <2>1, <2>2
<1>10. CASE Disconnect
  BY <1>10 DEF Disconnect
<1>11. CASE Disconnected
  BY <1>11, OrderOfEmpty DEF Disconnected, SocketGone
<1>12. CASE DisconnectNull
  BY <1>12 DEF DisconnectNull
<1>13. CASE ReceiveClear
  BY <1>13, OrderOfEmpty DEF ReceiveClear
<1>14. CASE ReceiveReturn
  BY <1>14 DEF ReceiveReturn
<1>15. CASE Destroyed
  BY <1>15 DEF Destroyed
<1>16. ASSUME NEW c \in Conns, DataHandler(c) PROVE SocketOrderInv'
  BY <1>16, OrderOfHeadTail DEF DataHandler, TakeFrame
<1>17. ASSUME NEW c \in Conns, DataHandlerParseError(c) PROVE SocketOrderInv'
  BY <1>17, OrderOfHeadTail DEF DataHandlerParseError
<1>18. ASSUME NEW c \in Conns, PushResponse(c) PROVE SocketOrderInv'
  <2>1. inHand[c] \in Requests
    BY <1>18, HandIsRequest DEF PushResponse, PushTo
  <2>2. Before(<<inHand[c]>>, responses[c]) /\ Before(<<inHand[c]>>, requests[c])
    BY <1>18 DEF PushResponse, PushTo, HandOrderInv
  <2>3. /\ queue_' = Append(queue_, inHand[c])
        /\ UNCHANGED <<delivered, requests, responses>>
    BY <1>18 DEF PushResponse, PushTo
  <2>4. c = connection_
    BY <1>18 DEF PushResponse, PushTo, WorkersInv, Live
  <2>5. ASSUME NEW d \in Conns
        PROVE  Before(queue_', responses[d]) /\ Before(queue_', requests[d])
    <3>1. CASE d = c
      BY <2>1, <2>2, <2>3, <3>1, OrderOfAppend
    <3>2. CASE d # c
      BY <2>4, <3>2, OrderOfEmpty DEF SocketInv
    <3>3. QED
      BY <3>1, <3>2
  <2>6. QED
    BY <2>3, <2>5
<1>19. ASSUME NEW c \in Conns, PushResponseFlag(c) PROVE SocketOrderInv'
  BY <1>19 DEF PushResponseFlag
<1>20. ASSUME NEW c \in Conns, ReadLoopEnds(c) PROVE SocketOrderInv'
  BY <1>20 DEF ReadLoopEnds
<1>21. ASSUME NEW c \in Conns, ConnectionClosedHandler(c) PROVE SocketOrderInv'
  BY <1>21 DEF ConnectionClosedHandler
<1>22. ASSUME NEW c \in Conns, GameResponds(c) PROVE SocketOrderInv'
  <2> DEFINE r == Head(requests[c])
  <2>1. r \in Requests
    BY <1>22, HeadTailFacts DEF GameResponds
  <2>2. /\ requests' = [requests EXCEPT ![c] = Tail(@)]
        /\ responses' = [responses EXCEPT ![c] = Append(@, r)]
        /\ UNCHANGED <<delivered, queue_>>
    BY <1>22 DEF GameResponds
  <2>3. /\ Increasing(Tail(requests[c])) /\ Before(<<r>>, Tail(requests[c]))
        /\ \A t : Before(t, requests[c]) => Before(t, Tail(requests[c])) /\ Before(t, <<r>>)
    BY <1>22, OrderOfHeadTail DEF GameResponds
  <2> HIDE DEF r
  <2>4. /\ Increasing(Append(responses[c], r))
        /\ Before(Append(responses[c], r), Tail(requests[c]))
        /\ Before(delivered, Append(responses[c], r))
        /\ Before(queue_, Append(responses[c], r))
    BY <2>1, <2>3, <1>22, OrderOfAppend
  <2>5. QED
    BY <1>22, <2>2, <2>3, <2>4
<1>23. ASSUME NEW c \in Conns, GameCloses(c) PROVE SocketOrderInv'
  <2>1. PICK n \in 0 .. Len(responses[c]) :
           responses' = [responses EXCEPT ![c] = SubSeq(@, 1, n)]
    BY <1>23 DEF GameCloses
  <2>2. /\ requests' = [requests EXCEPT ![c] = <<>>]
        /\ UNCHANGED <<delivered, queue_>>
    BY <1>23 DEF GameCloses
  <2>3. /\ Increasing(SubSeq(responses[c], 1, n))
        /\ Before(delivered, SubSeq(responses[c], 1, n))
        /\ Before(queue_, SubSeq(responses[c], 1, n))
    BY <1>23, OrderOfPrefix
  <2>4. QED
    BY <1>23, <2>1, <2>2, <2>3, OrderOfEmpty
<1>24. CASE UNCHANGED vars
  BY <1>24
<1>25. QED
  BY <1>1, <1>2, <1>3, <1>4, <1>5, <1>6, <1>7, <1>8, <1>9, <1>10, <1>11,
     <1>12, <1>13, <1>14, <1>15, <1>16, <1>17, <1>18, <1>19, <1>20, <1>21,
     <1>22, <1>23, <1>24   DEF Next, ClientCall, ClientStep, WorkerStep,
     GameStep


\* A step keeps the response in a worker's hands between the queue and the socket.
LEMMA HandOrderStep ==
    ASSUME TypeOK, WorkersInv, OriginInv,
           SocketOrderInv, HandOrderInv, [Next]_vars
    PROVE  HandOrderInv'
<1> USE BoundsAssumption DEF vars, fields, client, workers, sockets, history
<1> USE DEF TypeOK, Conns, HandOrderInv
<1>1. ASSUME NEW c \in Conns, Connect(c) PROVE HandOrderInv'
  BY <1>1 DEF Connect
<1>2. CASE SetConnectionClosedCallback
  BY <1>2 DEF SetConnectionClosedCallback
<1>3. CASE Send
  <2> DEFINE r == Len(via) + 1
  <2>1. connection_ \in Conns /\ r \in Requests /\ Len(via) \in Nat
    BY <1>3, LenProperties DEF Send, CanSend, Write, Requests, NULL
  <2>2. UNCHANGED <<workerPc, inHand, responses, delivered, queue_>>
    BY <1>3 DEF Send
  <2>3. \/ requests' = requests
        \/ requests' = [requests EXCEPT ![connection_] = Append(@, r)]
    BY <1>3 DEF Send, Write
  <2>4. ASSUME NEW c \in Conns, workerPc[c] = "pushing"
        PROVE  Before(<<inHand[c]>>, <<r>>)
    <3>1. inHand[c] \in 1 .. Len(via)
      BY <2>4 DEF OriginInv, On
    <3>2. inHand[c] < r
      BY <2>1, <3>1
    <3>3. Len(<<inHand[c]>>) = 1 /\ <<inHand[c]>>[1] = inHand[c] /\ Len(<<r>>) = 1 /\ <<r>>[1] = r
      OBVIOUS
    <3>4. QED
      BY <3>2, <3>3 DEF Before
  <2> HIDE DEF r
  <2>5. ASSUME NEW c \in Conns, workerPc[c] = "pushing"
        PROVE  Before(<<inHand[c]>>, requests'[c])
    <3>1. Before(<<inHand[c]>>, requests[c])
      BY <2>5
    <3>2. Before(<<inHand[c]>>, Append(requests[c], r))
      BY <3>1, <2>1, <2>4, <2>5, OrderOfAppend
    <3>3. QED
      BY <2>1, <2>3, <3>1, <3>2
  <2>6. QED
    BY <2>2, <2>5
<1>4. CASE Receive
  BY <1>4 DEF Receive
<1>5. CASE Quit
  BY <1>5 DEF Quit
<1>6. CASE ReceiveReady
  BY <1>6 DEF ReceiveReady
<1>7. CASE ReceiveTimeout
  BY <1>7 DEF ReceiveTimeout
<1>8. CASE ReceiveUnlock
  BY <1>8 DEF ReceiveUnlock
<1>9. CASE PopResponse
  <2>1. CASE queue_ = <<>>
    BY <1>9, <2>1 DEF PopResponse, PopWith
  <2>2. CASE queue_ # <<>>
    <3> DEFINE r == Head(queue_)
    <3>1. r \in Requests
      BY <2>2, HeadTailFacts
    <3>2. /\ delivered' = Append(delivered, r) /\ queue_' = Tail(queue_)
          /\ UNCHANGED <<workerPc, inHand, requests, responses>>
      BY <1>9, <2>2 DEF PopResponse, PopWith
    <3>3. \A t : Before(queue_, t) => Before(Tail(queue_), t) /\ Before(<<r>>, t)
      BY <2>2, OrderOfHeadTail
    <3> HIDE DEF r
    <3>4. \A t : Before(queue_, t) /\ Before(delivered, t) => Before(Append(delivered, r), t)
      BY <3>1, <3>3, OrderOfAppend
    <3>5. QED
      BY <3>2, <3>3, <3>4
  <2>3. QED
    BY <2>1, <2>2
<1>10. CASE Disconnect
  BY <1>10 DEF Disconnect
<1>11. CASE Disconnected
  BY <1>11, OrderOfEmpty DEF Disconnected, SocketGone
<1>12. CASE DisconnectNull
  BY <1>12 DEF DisconnectNull
<1>13. CASE ReceiveClear
  BY <1>13, OrderOfEmpty DEF ReceiveClear
<1>14. CASE ReceiveReturn
  BY <1>14 DEF ReceiveReturn
<1>15. CASE Destroyed
  BY <1>15 DEF Destroyed
<1>16. ASSUME NEW c \in Conns, DataHandler(c) PROVE HandOrderInv'
  <2>1. /\ workerPc' = [workerPc EXCEPT ![c] = "pushing"]
        /\ inHand' = [inHand EXCEPT ![c] = Head(responses[c])]
        /\ responses' = [responses EXCEPT ![c] = Tail(@)]
        /\ UNCHANGED <<delivered, queue_, requests>>
    BY <1>16 DEF DataHandler, TakeFrame
  <2>2. /\ Before(delivered, <<Head(responses[c])>>)
        /\ Before(queue_, <<Head(responses[c])>>)
        /\ Before(<<Head(responses[c])>>, Tail(responses[c]))
        /\ Before(<<Head(responses[c])>>, requests[c])
    BY <1>16, OrderOfHeadTail DEF DataHandler, TakeFrame, SocketOrderInv
  <2>3. QED
    BY <2>1, <2>2
<1>17. ASSUME NEW c \in Conns, DataHandlerParseError(c) PROVE HandOrderInv'
  BY <1>17, OrderOfHeadTail DEF DataHandlerParseError
<1>18. ASSUME NEW c \in Conns, PushResponse(c) PROVE HandOrderInv'
  <2>1. \A d \in Conns : d # c => workerPc[d] # "pushing"
    BY <1>18 DEF PushResponse, PushTo, WorkersInv, Live
  <2>2. workerPc' = [workerPc EXCEPT ![c] = "flagging"]
    BY <1>18 DEF PushResponse, PushTo
  <2>3. \A d \in Conns : workerPc'[d] # "pushing"
    BY <2>1, <2>2
  <2>4. QED
    BY <2>3
<1>19. ASSUME NEW c \in Conns, PushResponseFlag(c) PROVE HandOrderInv'
  BY <1>19 DEF PushResponseFlag
<1>20. ASSUME NEW c \in Conns, ReadLoopEnds(c) PROVE HandOrderInv'
  BY <1>20 DEF ReadLoopEnds
<1>21. ASSUME NEW c \in Conns, ConnectionClosedHandler(c) PROVE HandOrderInv'
  BY <1>21 DEF ConnectionClosedHandler
<1>22. ASSUME NEW c \in Conns, GameResponds(c) PROVE HandOrderInv'
  <2> DEFINE r == Head(requests[c])
  <2>1. r \in Requests
    BY <1>22, HeadTailFacts DEF GameResponds
  <2>2. /\ requests' = [requests EXCEPT ![c] = Tail(@)]
        /\ responses' = [responses EXCEPT ![c] = Append(@, r)]
        /\ UNCHANGED <<workerPc, inHand, delivered, queue_>>
    BY <1>22 DEF GameResponds
  <2>3. \A t : Before(t, requests[c]) => Before(t, Tail(requests[c])) /\ Before(t, <<r>>)
    BY <1>22, OrderOfHeadTail DEF GameResponds
  <2> HIDE DEF r
  <2>4. \A t : Before(t, responses[c]) /\ Before(t, requests[c])
                => Before(t, Append(responses[c], r))
    BY <2>1, <2>3, <1>22, OrderOfAppend
  <2>5. QED
    BY <1>22, <2>2, <2>3, <2>4
<1>23. ASSUME NEW c \in Conns, GameCloses(c) PROVE HandOrderInv'
  <2>1. PICK n \in 0 .. Len(responses[c]) :
           responses' = [responses EXCEPT ![c] = SubSeq(@, 1, n)]
    BY <1>23 DEF GameCloses
  <2>2. /\ requests' = [requests EXCEPT ![c] = <<>>]
        /\ UNCHANGED <<workerPc, inHand, delivered, queue_>>
    BY <1>23 DEF GameCloses
  <2>3. \A t : Before(t, responses[c]) => Before(t, SubSeq(responses[c], 1, n))
    BY <1>23, OrderOfPrefix
  <2>4. QED
    BY <1>23, <2>1, <2>2, <2>3, OrderOfEmpty
<1>24. CASE UNCHANGED vars
  BY <1>24
<1>25. QED
  BY <1>1, <1>2, <1>3, <1>4, <1>5, <1>6, <1>7, <1>8, <1>9, <1>10, <1>11,
     <1>12, <1>13, <1>14, <1>15, <1>16, <1>17, <1>18, <1>19, <1>20, <1>21,
     <1>22, <1>23, <1>24   DEF Next, ClientCall, ClientStep, WorkerStep,
     GameStep


\* A step keeps the types.
LEMMA TypeStep ==
    ASSUME TypeOK, OriginInv, ClientInv, [Next]_vars
    PROVE  TypeOK'
<1> USE BoundsAssumption DEF vars, fields, client, workers, sockets, history
<1> USE DEF NULL, Free, Client, Conns, Live, TypeOK, ClientPcs, WorkerPcs, Requests, ClientInv
<1>1. ASSUME NEW c \in Conns, Connect(c) PROVE TypeOK'
  BY <1>1 DEF Connect
<1>2. CASE SetConnectionClosedCallback
  BY <1>2 DEF SetConnectionClosedCallback
<1>3. CASE Send
  <2>1. Len(via) \in Nat /\ Len(via) + 1 \in Requests
    BY <1>3, LenProperties DEF Send, CanSend, Write
  <2>2. connection_ \in Conns
    BY <1>3 DEF Send, CanSend, Write
  <2>3. via' \in Seq(Conns) /\ Len(via') <= MaxRequests
    <3>1. via' = Append(via, connection_)
      BY <1>3 DEF Send
    <3>2. Len(via') = Len(via) + 1 /\ via' \in Seq(Conns)
      BY <3>1, <2>2, AppendFacts
    <3>3. QED
      BY <3>2, <2>1
  <2>4. requests' \in [Conns -> Seq(Requests)]
    <3>1. Append(requests[connection_], Len(via) + 1) \in Seq(Requests)
      BY <2>1, <2>2, AppendFacts
    <3>2. QED
      BY <1>3, <2>2, <3>1 DEF Send, Write
  <2>5. QED
    BY <1>3, <2>3, <2>4 DEF Send
<1>4. CASE Receive
  BY <1>4 DEF Receive
<1>5. CASE Quit
  BY <1>5 DEF Quit
<1>6. CASE ReceiveReady
  BY <1>6 DEF ReceiveReady
<1>7. CASE ReceiveTimeout
  BY <1>7 DEF ReceiveTimeout
<1>8. CASE ReceiveUnlock
  BY <1>8 DEF ReceiveUnlock
<1>9. CASE PopResponse
  <2>1. CASE queue_ = <<>>
    BY <1>9, <2>1 DEF PopResponse, PopWith
  <2>2. CASE queue_ # <<>>
    <3>1. Head(queue_) \in Requests /\ Tail(queue_) \in Seq(Requests)
      BY <2>2, HeadTailFacts
    <3>2. delivered' \in Seq(Requests)
      <4>1. Append(delivered, Head(queue_)) \in Seq(Requests)
        BY <3>1, AppendFacts
      <4>2. QED
        BY <1>9, <2>2, <4>1 DEF PopResponse, PopWith
    <3>3. QED
      BY <1>9, <2>2, <3>1, <3>2 DEF PopResponse, PopWith
  <2>3. QED
    BY <2>1, <2>2
<1>10. CASE Disconnect
  BY <1>10 DEF Disconnect
<1>11. CASE Disconnected
  <2>1. <<>> \in Seq(Requests)
    BY EmptySeq
  <2>2. /\ requests' \in [Conns -> Seq(Requests)]
        /\ responses' \in [Conns -> Seq(Requests)]
    BY <1>11, <2>1 DEF Disconnected, SocketGone
  <2>3. peerOpen' \in [Conns -> BOOLEAN]
    BY <1>11 DEF Disconnected, SocketGone
  <2>4. connection_' \in Conns \cup {NULL} /\ clientPc' \in ClientPcs
    BY <1>11 DEF Disconnected, SocketGone
  <2>5. QED
    BY <1>11, <2>2, <2>3, <2>4 DEF Disconnected, SocketGone
<1>12. CASE DisconnectNull
  BY <1>12 DEF DisconnectNull
<1>13. CASE ReceiveClear
  <2>1. {queue_[i] : i \in 1 .. Len(queue_)} \subseteq Requests
    BY ElementOfSeq
  <2>2. queue_' \in Seq(Requests)
    BY <1>13, EmptySeq DEF ReceiveClear
  <2>3. cleared' \in SUBSET Requests
    BY <1>13, <2>1 DEF ReceiveClear
  <2>4. QED
    BY <1>13, <2>2, <2>3 DEF ReceiveClear
<1>14. CASE ReceiveReturn
  BY <1>14 DEF ReceiveReturn
<1>15. CASE Destroyed
  BY <1>15 DEF Destroyed
<1>16. ASSUME NEW c \in Conns, DataHandler(c) PROVE TypeOK'
  BY <1>16, HeadTailFacts DEF DataHandler, TakeFrame
<1>17. ASSUME NEW c \in Conns, DataHandlerParseError(c) PROVE TypeOK'
  BY <1>17, HeadTailFacts DEF DataHandlerParseError
<1>18. ASSUME NEW c \in Conns, PushResponse(c) PROVE TypeOK'
  <2>1. inHand[c] \in Requests
    BY <1>18 DEF PushResponse, PushTo, OriginInv, On
  <2>2. queue_' \in Seq(Requests)
    BY <1>18, <2>1, AppendFacts DEF PushResponse, PushTo
  <2>3. QED
    BY <1>18, <2>2 DEF PushResponse, PushTo
<1>19. ASSUME NEW c \in Conns, PushResponseFlag(c) PROVE TypeOK'
  BY <1>19 DEF PushResponseFlag
<1>20. ASSUME NEW c \in Conns, ReadLoopEnds(c) PROVE TypeOK'
  BY <1>20 DEF ReadLoopEnds
<1>21. ASSUME NEW c \in Conns, ConnectionClosedHandler(c) PROVE TypeOK'
  BY <1>21 DEF ConnectionClosedHandler
<1>22. ASSUME NEW c \in Conns, GameResponds(c) PROVE TypeOK'
  <2>1. Head(requests[c]) \in Requests /\ Tail(requests[c]) \in Seq(Requests)
    BY <1>22, HeadTailFacts DEF GameResponds
  <2>2. Append(responses[c], Head(requests[c])) \in Seq(Requests)
    BY <2>1, <1>22, AppendFacts
  <2>3. QED
    BY <1>22, <2>1, <2>2 DEF GameResponds
<1>23. ASSUME NEW c \in Conns, GameCloses(c) PROVE TypeOK'
  <2>1. PICK n \in 0 .. Len(responses[c]) :
           responses' = [responses EXCEPT ![c] = SubSeq(@, 1, n)]
    BY <1>23 DEF GameCloses
  <2>2. SubSeq(responses[c], 1, n) \in Seq(Requests)
    BY <1>23, PrefixFacts
  <2>3. responses' \in [Conns -> Seq(Requests)]
    BY <1>23, <2>1, <2>2
  <2>4. requests' \in [Conns -> Seq(Requests)]
    BY <1>23, EmptySeq DEF GameCloses
  <2>5. QED
    BY <1>23, <2>3, <2>4 DEF GameCloses
<1>24. CASE UNCHANGED vars
  BY <1>24
<1>25. QED
  BY <1>1, <1>2, <1>3, <1>4, <1>5, <1>6, <1>7, <1>8, <1>9, <1>10, <1>11,
     <1>12, <1>13, <1>14, <1>15, <1>16, <1>17, <1>18, <1>19, <1>20, <1>21,
     <1>22, <1>23, <1>24   DEF Next, ClientCall, ClientStep, WorkerStep,
     GameStep


\* A step leaves nothing on a socket that is not in use.
LEMMA SocketStep ==
    ASSUME TypeOK, WorkersInv, ClientInv, SocketInv, [Next]_vars
    PROVE  SocketInv'
<1> USE BoundsAssumption DEF vars, fields, client, workers, sockets, history
<1> USE DEF NULL, Conns, Live, TypeOK, ClientInv, SocketInv
<1>1. ASSUME NEW c \in Conns, Connect(c) PROVE SocketInv'
  <2>1. SUFFICES ASSUME NEW d \in Conns, d # c
                 PROVE  ~peerOpen'[d] /\ requests'[d] = <<>> /\ responses'[d] = <<>>
    BY <1>1 DEF Connect
  <2>2. d # connection_
    BY <1>1 DEF Connect
  <2>3. ~peerOpen'[d]
    BY <1>1, <2>1, <2>2 DEF Connect
  <2>4. requests'[d] = <<>> /\ responses'[d] = <<>>
    BY <1>1, <2>2 DEF Connect
  <2>5. QED
    BY <2>3, <2>4
<1>2. CASE SetConnectionClosedCallback
  BY <1>2 DEF SetConnectionClosedCallback
<1>3. CASE Send
  BY <1>3 DEF Send, CanSend, Write
<1>4. CASE Receive
  BY <1>4 DEF Receive
<1>5. CASE Quit
  BY <1>5 DEF Quit
<1>6. CASE ReceiveReady
  BY <1>6 DEF ReceiveReady
<1>7. CASE ReceiveTimeout
  BY <1>7 DEF ReceiveTimeout
<1>8. CASE ReceiveUnlock
  BY <1>8 DEF ReceiveUnlock
<1>9. CASE PopResponse
  BY <1>9 DEF PopResponse, PopWith
<1>10. CASE Disconnect
  BY <1>10 DEF Disconnect
<1>11. CASE Disconnected
  BY <1>11 DEF Disconnected, SocketGone
<1>12. CASE DisconnectNull
  BY <1>12 DEF DisconnectNull
<1>13. CASE ReceiveClear
  BY <1>13 DEF ReceiveClear
<1>14. CASE ReceiveReturn
  BY <1>14 DEF ReceiveReturn
<1>15. CASE Destroyed
  BY <1>15 DEF Destroyed
<1>16. ASSUME NEW c \in Conns, DataHandler(c) PROVE SocketInv'
  BY <1>16 DEF DataHandler, TakeFrame
<1>17. ASSUME NEW c \in Conns, DataHandlerParseError(c) PROVE SocketInv'
  BY <1>17 DEF DataHandlerParseError
<1>18. ASSUME NEW c \in Conns, PushResponse(c) PROVE SocketInv'
  BY <1>18 DEF PushResponse, PushTo
<1>19. ASSUME NEW c \in Conns, PushResponseFlag(c) PROVE SocketInv'
  BY <1>19 DEF PushResponseFlag
<1>20. ASSUME NEW c \in Conns, ReadLoopEnds(c) PROVE SocketInv'
  BY <1>20 DEF ReadLoopEnds
<1>21. ASSUME NEW c \in Conns, ConnectionClosedHandler(c) PROVE SocketInv'
  BY <1>21 DEF ConnectionClosedHandler
<1>22. ASSUME NEW c \in Conns, GameResponds(c) PROVE SocketInv'
  BY <1>22 DEF GameResponds
<1>23. ASSUME NEW c \in Conns, GameCloses(c) PROVE SocketInv'
  BY <1>23 DEF GameCloses
<1>24. CASE UNCHANGED vars
  BY <1>24
<1>25. QED
  BY <1>1, <1>2, <1>3, <1>4, <1>5, <1>6, <1>7, <1>8, <1>9, <1>10, <1>11,
     <1>12, <1>13, <1>14, <1>15, <1>16, <1>17, <1>18, <1>19, <1>20, <1>21,
     <1>22, <1>23, <1>24   DEF Next, ClientCall, ClientStep, WorkerStep,
     GameStep

\* A step leaves a worker with a response in hand only if it is about to queue it.
LEMMA HandStep ==
    ASSUME TypeOK, HandInv, [Next]_vars
    PROVE  HandInv'
<1> USE BoundsAssumption DEF vars, fields, client, workers, sockets, history
<1> USE DEF NULL, Conns, TypeOK, Requests, HandInv
<1>1. ASSUME NEW c \in Conns, Connect(c) PROVE HandInv'
  BY <1>1 DEF Connect
<1>2. CASE SetConnectionClosedCallback
  BY <1>2 DEF SetConnectionClosedCallback
<1>3. CASE Send
  BY <1>3 DEF Send, CanSend, Write
<1>4. CASE Receive
  BY <1>4 DEF Receive
<1>5. CASE Quit
  BY <1>5 DEF Quit
<1>6. CASE ReceiveReady
  BY <1>6 DEF ReceiveReady
<1>7. CASE ReceiveTimeout
  BY <1>7 DEF ReceiveTimeout
<1>8. CASE ReceiveUnlock
  BY <1>8 DEF ReceiveUnlock
<1>9. CASE PopResponse
  BY <1>9 DEF PopResponse, PopWith
<1>10. CASE Disconnect
  BY <1>10 DEF Disconnect
<1>11. CASE Disconnected
  BY <1>11 DEF Disconnected, SocketGone
<1>12. CASE DisconnectNull
  BY <1>12 DEF DisconnectNull
<1>13. CASE ReceiveClear
  BY <1>13 DEF ReceiveClear
<1>14. CASE ReceiveReturn
  BY <1>14 DEF ReceiveReturn
<1>15. CASE Destroyed
  BY <1>15 DEF Destroyed
<1>16. ASSUME NEW c \in Conns, DataHandler(c) PROVE HandInv'
  BY <1>16, HeadTailFacts DEF DataHandler, TakeFrame
<1>17. ASSUME NEW c \in Conns, DataHandlerParseError(c) PROVE HandInv'
  BY <1>17 DEF DataHandlerParseError
<1>18. ASSUME NEW c \in Conns, PushResponse(c) PROVE HandInv'
  BY <1>18 DEF PushResponse, PushTo
<1>19. ASSUME NEW c \in Conns, PushResponseFlag(c) PROVE HandInv'
  BY <1>19 DEF PushResponseFlag
<1>20. ASSUME NEW c \in Conns, ReadLoopEnds(c) PROVE HandInv'
  BY <1>20 DEF ReadLoopEnds
<1>21. ASSUME NEW c \in Conns, ConnectionClosedHandler(c) PROVE HandInv'
  BY <1>21 DEF ConnectionClosedHandler
<1>22. ASSUME NEW c \in Conns, GameResponds(c) PROVE HandInv'
  BY <1>22 DEF GameResponds
<1>23. ASSUME NEW c \in Conns, GameCloses(c) PROVE HandInv'
  BY <1>23 DEF GameCloses
<1>24. CASE UNCHANGED vars
  BY <1>24
<1>25. QED
  BY <1>1, <1>2, <1>3, <1>4, <1>5, <1>6, <1>7, <1>8, <1>9, <1>10, <1>11,
     <1>12, <1>13, <1>14, <1>15, <1>16, <1>17, <1>18, <1>19, <1>20, <1>21,
     <1>22, <1>23, <1>24   DEF Next, ClientCall, ClientStep, WorkerStep,
     GameStep

\* The inductive invariant holds initially ...
LEMMA InitIndInv == Init => IndInv
<1> SUFFICES ASSUME Init PROVE IndInv
  OBVIOUS
<1> USE BoundsAssumption DEF Init, NULL, Free, Client, Conns
<1>1. <<>> \in Seq(Requests) /\ <<>> \in Seq(Conns) /\ Len(via) = 0
  BY EmptySeq
<1>2. TypeOK
  <2>1. /\ requests \in [Conns -> Seq(Requests)]
        /\ responses \in [Conns -> Seq(Requests)]
    BY <1>1
  <2>2. /\ queue_ \in Seq(Requests) /\ delivered \in Seq(Requests)
        /\ via \in Seq(Conns) /\ Len(via) <= MaxRequests
    BY <1>1
  <2>3. /\ workerPc \in [Conns -> WorkerPcs]
        /\ inHand \in [Conns -> Requests \cup {NULL}]
        /\ peerOpen \in [Conns -> BOOLEAN]
    BY DEF WorkerPcs
  <2>4. QED
    BY <2>1, <2>2, <2>3 DEF TypeOK, ClientPcs
<1>3. WorkersInv /\ LockInv /\ ClientInv /\ HandInv /\ FlagInv /\ SocketInv
  BY DEF WorkersInv, LockInv, ClientInv, HandInv, FlagInv, SocketInv, Live
<1>4. OriginInv
  BY AllOnEmpty DEF OriginInv
<1>5. QueueOrderInv /\ SocketOrderInv /\ HandOrderInv
  BY OrderOfEmpty DEF QueueOrderInv, SocketOrderInv, HandOrderInv
<1>6. QED
  BY <1>2, <1>3, <1>4, <1>5 DEF IndInv

\* ... and every step keeps it.
LEMMA NextIndInv == IndInv /\ [Next]_vars => IndInv'
<1> SUFFICES ASSUME IndInv, [Next]_vars PROVE IndInv'
  OBVIOUS
<1> USE DEF IndInv
<1>1. TypeOK'
  BY TypeStep
<1>2. WorkersInv' /\ LockInv' /\ ClientInv' /\ HandInv'
  BY WorkersStep, LockStep, ClientInvStep, HandStep
<1>3. FlagInv' /\ OriginInv' /\ SocketInv'
  BY FlagStep, OriginStep, SocketStep
<1>4. QueueOrderInv' /\ SocketOrderInv' /\ HandOrderInv'
  BY QueueOrderStep, SocketOrderStep, HandOrderStep
<1>5. QED
  BY <1>1, <1>2, <1>3, <1>4

\* The inductive invariant holds for any number of connections and requests.
THEOREM Invariance == Spec => []IndInv
  BY InitIndInv, NextIndInv, PTL DEF Spec

\* Every variable of the connection keeps its type.
THEOREM TypeCorrect == Spec => []TypeOK
  BY Invariance, PTL DEF IndInv

\* Receive never hands out a response on a later connection than the one its
\* request was written to, however many timeouts and reconnections there were: the
\* join in Disconnect comes before queue_.clear().
THEOREM Fresh == Spec => []NoStaleResponse
<1>1. IndInv => NoStaleResponse
  BY DEF IndInv, OriginInv, On, NoStaleResponse
<1>2. QED
  BY <1>1, Invariance, PTL

\* Receive hands responses out in the order of their requests, none twice, from
\* DataHandler through PushResponse and PopResponse, over all reconnections.
THEOREM InOrder == Spec => []DeliveredInOrder
<1>1. IndInv => DeliveredInOrder
  BY DEF IndInv, QueueOrderInv, Increasing, DeliveredInOrder
<1>2. QED
  BY <1>1, Invariance, PTL

\* has_response_ is set whenever a response is queued and no PushResponse is under
\* way.
THEOREM Announced == Spec => []QueuedIsAnnounced
<1>1. IndInv => QueuedIsAnnounced
  BY BoundsAssumption DEF IndInv, FlagInv, QueuedIsAnnounced, Free, Conns
<1>2. QED
  BY <1>1, Invariance, PTL

\* has_response_ is set without a response in the queue only after a Receive that timed
\* out has cleared one away.
THEOREM FalseAnnouncement == Spec => []FalseAnnouncementNeedsTimeout
<1>1. IndInv => FalseAnnouncementNeedsTimeout
  BY BoundsAssumption DEF IndInv, FlagInv, FalseAnnouncementNeedsTimeout, Free, Conns
<1>2. QED
  BY <1>1, Invariance, PTL

\* queue_.clear() and the end of the object, which hold no lock, meet no civetweb thread.
THEOREM Alone == Spec => [](ClearRunsAlone /\ NoCallbackAfterQuit)
<1>1. IndInv => ClearRunsAlone /\ NoCallbackAfterQuit
  BY NoWorkerWithoutConnection
     DEF IndInv, ClientInv, ClearRunsAlone, NoCallbackAfterQuit
<1>2. QED
  BY <1>1, Invariance, PTL

\* The unlocked queue_.empty() of PopResponse never sees an empty queue: no other thread
\* takes from it between the wait of Receive and the pop.
THEOREM PopNeverFails == Spec => []PopFindsResponse
<1>1. IndInv => PopFindsResponse
  BY DEF IndInv, ClientInv, PopFindsResponse
<1>2. QED
  BY <1>1, Invariance, PTL

=============================================================================
