---------------------------- MODULE ChannelProofs ----------------------------
(***************************************************************************)
(* Connection implements ResponseChannel.                                  *)
(*                                                                         *)
(* What may still be answered is the concatenation of the queue, the       *)
(* worker's hand and the two directions of the socket (Outstanding).  Most *)
(* steps move a response along it and leave the concatenation as it is;    *)
(* the lemmas of the second part say what each step does to it, those of   *)
(* the first part why the moves do nothing.                                *)
(***************************************************************************)
EXTENDS ConnectionProofs

\* The head of a concatenation is that of its first part.
LEMMA ConcatHeadTail ==
    ASSUME NEW s \in Seq(Requests), NEW t \in Seq(Requests), s # <<>>
    PROVE  /\ s \o t # <<>>
           /\ Head(s \o t) = Head(s)
           /\ Tail(s \o t) = Tail(s) \o t
<1>1. /\ s \o t \in Seq(Requests) /\ Len(s \o t) = Len(s) + Len(t)
      /\ \A i \in 1 .. Len(s) + Len(t) :
           (s \o t)[i] = IF i <= Len(s) THEN s[i] ELSE t[i - Len(s)]
  BY ConcatProperties
<1>2. Len(s) \in Nat \ {0} /\ Len(t) \in Nat
  BY EmptySeq, LenProperties
<1>3. s \o t # <<>>
  BY <1>1, <1>2, EmptySeq
<1>4. Head(s \o t) = Head(s)
  BY <1>1, <1>2, <1>3, HeadTailFacts
<1>5. /\ Tail(s \o t) \in Seq(Requests) /\ Len(Tail(s \o t)) = Len(s) + Len(t) - 1
      /\ \A i \in 1 .. Len(s) + Len(t) - 1 : Tail(s \o t)[i] = (s \o t)[i + 1]
  BY <1>1, <1>3, HeadTailFacts
<1>6. /\ Tail(s) \in Seq(Requests) /\ Len(Tail(s)) = Len(s) - 1
      /\ \A i \in 1 .. Len(s) - 1 : Tail(s)[i] = s[i + 1]
  BY HeadTailFacts
<1>7. /\ Tail(s) \o t \in Seq(Requests) /\ Len(Tail(s) \o t) = Len(s) - 1 + Len(t)
      /\ \A i \in 1 .. Len(s) - 1 + Len(t) :
           (Tail(s) \o t)[i] = IF i <= Len(s) - 1 THEN Tail(s)[i]
                                                  ELSE t[i - (Len(s) - 1)]
  BY <1>6, ConcatProperties
<1>8. ASSUME NEW i \in 1 .. Len(s) + Len(t) - 1
      PROVE  Tail(s \o t)[i] = (Tail(s) \o t)[i]
  BY <1>1, <1>2, <1>5, <1>6, <1>7
<1>9. Tail(s \o t) = Tail(s) \o t
  BY <1>2, <1>5, <1>7, <1>8, SeqEqual
<1>10. QED
  BY <1>3, <1>4, <1>9

\* Appending to the last part appends to the concatenation.
LEMMA ConcatAppend ==
    ASSUME NEW s \in Seq(Requests), NEW t \in Seq(Requests), NEW e \in Requests
    PROVE  s \o Append(t, e) = Append(s \o t, e)
<1>1. <<e>> \in Seq(Requests) /\ s \o t \in Seq(Requests)
  BY ConcatProperties
<1>2. s \o Append(t, e) = s \o (t \o <<e>>)
  BY AppendIsConcat
<1>3. s \o (t \o <<e>>) = (s \o t) \o <<e>>
  BY <1>1, ConcatAssociative
<1>4. QED
  BY <1>1, <1>2, <1>3, AppendIsConcat

LEMMA ConcatThree ==
    ASSUME NEW s \in Seq(Requests), NEW t \in Seq(Requests), NEW u \in Seq(Requests)
    PROVE  (s \o t) \o u = s \o (t \o u)
  BY ConcatAssociative

\* A sequence is a prefix and the rest.
LEMMA PrefixAndRest ==
    ASSUME NEW s \in Seq(Requests), NEW n \in 0 .. Len(s)
    PROVE  \E p, q \in Seq(Requests) : p = SubSeq(s, 1, n) /\ s = p \o q
<1>1. Len(s) \in Nat
  BY LenProperties
<1>2. SubSeq(s, 1, n) \in Seq(Requests)
  BY PrefixFacts
<1>3. SubSeq(s, n + 1, Len(s)) \in Seq(Requests)
  BY <1>1, ElementOfSeq, SubSeqProperties
<1>4. SubSeq(s, 1, n) \o SubSeq(s, n + 1, Len(s)) = SubSeq(s, 1, Len(s))
  <2>1. 1 \in 1 .. Len(s) + 1 /\ n \in 1 - 1 .. Len(s) /\ Len(s) \in n .. Len(s)
    BY <1>1
  <2>2. QED
    BY <2>1, ConcatAdjacentSubSeq, Zenon
<1>5. SubSeq(s, 1, Len(s)) = s
  BY SubSeqFull
<1>6. QED
  BY <1>2, <1>3, <1>4, <1>5

\* An element that goes from the head of one part to the end of the part before it
\* stays where it is.
LEMMA MoveHead ==
    ASSUME NEW s \in Seq(Requests), NEW t \in Seq(Requests), t # <<>>
    PROVE  Append(s, Head(t)) \o Tail(t) = s \o t
<1>1. Head(t) \in Requests /\ Tail(t) \in Seq(Requests) /\ <<Head(t)>> \in Seq(Requests)
  BY HeadTailProperties
<1>2. Append(s, Head(t)) \o Tail(t) = (s \o <<Head(t)>>) \o Tail(t)
  BY <1>1, AppendIsConcat
<1>3. (s \o <<Head(t)>>) \o Tail(t) = s \o (<<Head(t)>> \o Tail(t))
  BY <1>1, ConcatAssociative
<1>4. <<Head(t)>> \o Tail(t) = t
  BY HeadTailProperties
<1>5. QED
  BY <1>2, <1>3, <1>4

\* Taking a run out of the middle of a sequence: what ResponseChannel calls Lose.
Lost(s, t) ==
    \E i \in 0 .. Len(s) : \E j \in i .. Len(s) :
      t = SubSeq(s, 1, i) \o SubSeq(s, j + 1, Len(s))

LEMMA LoseMiddle ==
    ASSUME NEW a \in Seq(Requests), NEW m \in Seq(Requests), NEW b \in Seq(Requests)
    PROVE  Lost(a \o (m \o b), a \o b)
<1> DEFINE s == a \o (m \o b)
<1>1. Len(a) \in Nat /\ Len(m) \in Nat /\ Len(b) \in Nat
  BY LenProperties
<1>2. /\ m \o b \in Seq(Requests) /\ Len(m \o b) = Len(m) + Len(b)
      /\ \A i \in 1 .. Len(m) + Len(b) :
           (m \o b)[i] = IF i <= Len(m) THEN m[i] ELSE b[i - Len(m)]
  BY ConcatProperties
<1>3. /\ s \in Seq(Requests) /\ Len(s) = Len(a) + (Len(m) + Len(b))
      /\ \A i \in 1 .. Len(a) + (Len(m) + Len(b)) :
           s[i] = IF i <= Len(a) THEN a[i] ELSE (m \o b)[i - Len(a)]
  BY <1>2, ConcatProperties
<1>4. SubSeq(s, 1, Len(a)) = a
  <2>1. Len(a) \in 0 .. Len(s)
    BY <1>1, <1>3
  <2>2. /\ SubSeq(s, 1, Len(a)) \in Seq(Requests) /\ Len(SubSeq(s, 1, Len(a))) = Len(a)
        /\ \A i \in 1 .. Len(a) : SubSeq(s, 1, Len(a))[i] = s[i]
    BY <1>3, <2>1, PrefixFacts
  <2>3. \A i \in 1 .. Len(a) : SubSeq(s, 1, Len(a))[i] = a[i]
    BY <1>1, <1>3, <2>2
  <2>4. QED
    BY <2>2, <2>3, SeqEqual
<1>5. SubSeq(s, (Len(a) + Len(m)) + 1, Len(s)) = b
  <2> DEFINE n == (Len(a) + Len(m)) + 1
             u == SubSeq(s, n, Len(s))
  <2>1. \A i \in n .. Len(s) : s[i] \in Requests
    BY <1>1, <1>3, ElementOfSeq
  <2>2. n \in Int /\ Len(s) \in Int
    BY <1>1, <1>3
  <2>3. u \in Seq(Requests) /\ Len(u) = Len(b)
    <3> HIDE DEF s
    <3>1. u \in Seq(Requests) /\ Len(u) = IF n <= Len(s) THEN Len(s) - n + 1 ELSE 0
      BY <2>1, <2>2, SubSeqProperties
    <3>2. QED
      BY <3>1, <1>1, <1>3
  <2>4. ASSUME NEW i \in 1 .. Len(b) PROVE u[i] = b[i]
    <3>1. u[i] = s[n + i - 1]
      <4> HIDE DEF s
      <4> QED
        BY <1>1, <1>3, <2>1, <2>2
    <3>2. s[n + i - 1] = (m \o b)[Len(m) + i]
      BY <1>1, <1>3
    <3>3. (m \o b)[Len(m) + i] = b[i]
      BY <1>1, <1>2
    <3>4. QED
      BY <3>1, <3>2, <3>3
  <2>5. QED
    BY <2>3, <2>4, SeqEqual
<1>6. Len(a) \in 0 .. Len(s) /\ Len(a) + Len(m) \in Len(a) .. Len(s)
  BY <1>1, <1>3
<1>7. QED
  BY <1>4, <1>5, <1>6 DEF Lost

\* Losing the end of it.
LEMMA LoseEnd ==
    ASSUME NEW a \in Seq(Requests), NEW m \in Seq(Requests)
    PROVE  Lost(a \o m, a)
<1>1. <<>> \in Seq(Requests) /\ m \o <<>> = m /\ a \o <<>> = a
  BY EmptySeq, ConcatEmptySeq
<1>2. Lost(a \o (m \o <<>>), a \o <<>>)
  BY <1>1, LoseMiddle
<1>3. QED
  BY <1>1, <1>2

\* Losing everything behind p.
LEMMA LoseBehind ==
    ASSUME NEW w \in Seq(Requests), NEW h \in Seq(Requests), NEW p \in Seq(Requests),
           NEW m \in Seq(Requests)
    PROVE  Lost(w \o (h \o (p \o m)), w \o (h \o p))
<1>1. h \o p \in Seq(Requests) /\ w \o (h \o p) \in Seq(Requests)
  BY ConcatProperties
<1>2. (h \o p) \o m = h \o (p \o m)
  BY ConcatThree
<1>3. (w \o (h \o p)) \o m = w \o ((h \o p) \o m)
  BY <1>1, ConcatThree
<1>4. Lost((w \o (h \o p)) \o m, w \o (h \o p))
  BY <1>1, LoseEnd
<1>5. QED
  BY <1>2, <1>3, <1>4

-----------------------------------------------------------------------------
(* What the steps of Connection do to Outstanding.                         *)

\* The parts of the way are sequences of requests.
LEMMA WayTypes ==
    ASSUME TypeOK, NEW c \in Conns
    PROVE  /\ Hand(c) \in Seq(Requests)
           /\ responses[c] \o requests[c] \in Seq(Requests)
           /\ UnderWay(c) \in Seq(Requests)
           /\ queue_ \o UnderWay(c) \in Seq(Requests)
<1>1. Hand(c) \in Seq(Requests)
  BY EmptySeq DEF TypeOK, Hand
<1>2. responses[c] \o requests[c] \in Seq(Requests)
  BY ConcatProperties DEF TypeOK
<1>3. UnderWay(c) \in Seq(Requests)
  BY <1>1, <1>2, ConcatProperties DEF UnderWay
<1>4. QED
  BY <1>1, <1>2, <1>3, ConcatProperties DEF TypeOK

LEMMA OutstandingType == TypeOK => Outstanding \in Seq(Requests)
  BY WayTypes, EmptySeq DEF TypeOK, Outstanding

\* The way of a connection is that of its worker and its socket.
LEMMA WayUnchanged ==
    ASSUME NEW c \in Conns, inHand'[c] = inHand[c], responses'[c] = responses[c],
           requests'[c] = requests[c]
    PROVE  UnderWay(c)' = UnderWay(c)
  BY DEF UnderWay, Hand

LEMMA OutstandingUnchanged ==
    ASSUME TypeOK, UNCHANGED <<connection_, queue_, inHand, responses, requests>>
    PROVE  Outstanding' = Outstanding
  BY DEF Outstanding, UnderWay, Hand

\* Connect starts with nothing outstanding: whatever a closed connection has left
\* behind has been cleared.
LEMMA ConnectOutstanding ==
    ASSUME IndInv, NEW c \in Conns, Connect(c)
    PROVE  Outstanding = <<>> /\ Outstanding' = <<>>
<1> USE DEF IndInv
<1>1. connection_ = NULL /\ workerPc[c] = "none" /\ c # NULL
  BY BoundsAssumption DEF Connect, Conns, NULL
<1>2. queue_ = <<>>
  <2>1. AllOn(queue_, NULL, via)
    BY <1>1 DEF Connect, OriginInv
  <2>2. QED
    BY <2>1, AllOnNobody DEF TypeOK
<1>3. responses[c] = <<>> /\ requests[c] = <<>> /\ inHand[c] = NULL
  BY <1>1 DEF SocketInv, HandInv
<1>4. Outstanding' = queue_ \o (<<>> \o (responses[c] \o requests[c]))
  BY <1>1, <1>3 DEF Connect, Outstanding, UnderWay, Hand, client
<1>5. queue_ \o (<<>> \o (responses[c] \o requests[c])) = <<>>
  BY <1>2, <1>3, ConcatEmptySeq, EmptySeq
<1>6. QED
  BY <1>1, <1>4, <1>5 DEF Outstanding

\* A request that is sent is outstanding behind all others, or lost at once.
LEMMA SendOutstanding ==
    ASSUME IndInv, Send
    PROVE  Outstanding' \in {Outstanding, Append(Outstanding, Len(via) + 1)}
<1> USE DEF IndInv
<1> DEFINE r == Len(via) + 1
<1>0. PICK c \in Conns : c = connection_ /\ c # NULL
  BY DEF Send, CanSend, TypeOK
<1>1. c \in Conns /\ c # NULL /\ r \in Requests
  <2>1. Len(via) \in Nat /\ Len(via) < MaxRequests
    BY LenProperties DEF Send, CanSend, TypeOK
  <2>2. QED
    BY <1>0, <2>1, BoundsAssumption DEF Send, CanSend, TypeOK, Requests
<1>2. UNCHANGED <<connection_, queue_, inHand, responses>>
  BY DEF Send, fields, workers
<1>3. CASE ~peerOpen[c]
  <2>1. UNCHANGED requests
    BY <1>0, <1>3 DEF Send, Write
  <2>2. QED
    BY <1>2, <2>1, OutstandingUnchanged
<1>4. CASE peerOpen[c]
  <2>1. requests'[c] = Append(requests[c], r)
    BY <1>0, <1>1, <1>4 DEF Send, Write, TypeOK
  <2> HIDE DEF r
  <2>2. /\ queue_ \in Seq(Requests) /\ Hand(c) \in Seq(Requests)
        /\ responses[c] \in Seq(Requests) /\ requests[c] \in Seq(Requests)
        /\ responses[c] \o requests[c] \in Seq(Requests)
        /\ UnderWay(c) \in Seq(Requests)
    BY <1>1, WayTypes DEF TypeOK
  <2>3. Outstanding' = queue_ \o (Hand(c) \o (responses[c] \o Append(requests[c], r)))
    BY <1>0, <1>1, <1>2, <2>1 DEF Outstanding, UnderWay, Hand
  <2>4. Outstanding = queue_ \o (Hand(c) \o (responses[c] \o requests[c]))
    BY <1>0, <1>1 DEF Outstanding, UnderWay
  <2>5. responses[c] \o Append(requests[c], r) = Append(responses[c] \o requests[c], r)
    BY <1>1, <2>2, ConcatAppend, Zenon
  <2>6. Hand(c) \o Append(responses[c] \o requests[c], r)
          = Append(Hand(c) \o (responses[c] \o requests[c]), r)
    BY <1>1, <2>2, ConcatAppend, Zenon
  <2>7. queue_ \o Append(UnderWay(c), r) = Append(queue_ \o UnderWay(c), r)
    BY <1>1, <2>2, ConcatAppend, Zenon
  <2>8. QED
    BY <2>3, <2>4, <2>5, <2>6, <2>7 DEF r, UnderWay
<1>5. QED
  BY <1>3, <1>4

\* PopResponse hands out the oldest outstanding request's response.
LEMMA PopOutstanding ==
    ASSUME IndInv, PopResponse
    PROVE  /\ connection_ # NULL /\ queue_ # <<>> /\ Outstanding # <<>>
           /\ response' = Head(Outstanding)
           /\ Outstanding' = Tail(Outstanding)
           /\ delivered' = Append(delivered, Head(Outstanding))
           /\ response' \in Requests
<1> USE DEF IndInv
<1>1. queue_ # <<>>
  BY DEF PopResponse, PopWith, ClientInv
<1>2. connection_ # NULL
  <2>1. SUFFICES ASSUME connection_ = NULL PROVE FALSE
    OBVIOUS
  <2>2. AllOn(queue_, NULL, via)
    BY <2>1 DEF PopResponse, PopWith, OriginInv
  <2>3. QED
    BY <1>1, <2>2, AllOnNobody DEF TypeOK
<1>3. /\ response' = Head(queue_) /\ queue_' = Tail(queue_)
      /\ delivered' = Append(delivered, Head(queue_))
      /\ UNCHANGED <<connection_, inHand, responses, requests>>
  BY <1>1 DEF PopResponse, PopWith, workers, sockets
<1>4. connection_ \in Conns /\ UnderWay(connection_)' = UnderWay(connection_)
  BY <1>2, <1>3, WayUnchanged DEF TypeOK
<1>5. Outstanding = queue_ \o UnderWay(connection_)
  BY <1>2 DEF Outstanding
<1>6. Outstanding' = Tail(queue_) \o UnderWay(connection_)
  BY <1>2, <1>3 DEF Outstanding, UnderWay, Hand
<1>7. /\ Outstanding # <<>> /\ Head(Outstanding) = Head(queue_)
      /\ Tail(Outstanding) = Tail(queue_) \o UnderWay(connection_)
  BY <1>1, <1>4, <1>5, WayTypes, ConcatHeadTail DEF TypeOK
<1>8. Head(queue_) \in Requests
  BY <1>1, HeadTailFacts DEF TypeOK
<1>9. QED
  BY <1>1, <1>2, <1>3, <1>6, <1>7, <1>8

\* The end of a connection loses everything outstanding.
LEMMA DisconnectedOutstanding ==
    ASSUME Disconnected
    PROVE  Outstanding' = <<>>
  BY DEF Disconnected, SocketGone, Outstanding

\* queue_.clear() throws away only what the closed connection has left.
LEMMA ClearOutstanding ==
    ASSUME IndInv, ReceiveClear
    PROVE  Outstanding = <<>> /\ Outstanding' = <<>>
  BY DEF IndInv, ClientInv, ReceiveClear, Outstanding

\* A frame that DataHandler parses goes from the socket into the worker's hand.
LEMMA DataHandlerOutstanding ==
    ASSUME IndInv, NEW c \in Conns, DataHandler(c)
    PROVE  Outstanding' = Outstanding
<1> USE DEF IndInv
<1>1. c = connection_ /\ c # NULL
  BY BoundsAssumption DEF DataHandler, TakeFrame, WorkersInv, Live, Conns, NULL
<1>2. inHand[c] = NULL /\ responses[c] # <<>>
  BY DEF DataHandler, TakeFrame, HandInv
<1>3. /\ inHand'[c] = Head(responses[c]) /\ responses'[c] = Tail(responses[c])
      /\ UNCHANGED <<connection_, queue_, requests>>
  BY DEF DataHandler, TakeFrame, TypeOK, fields
<1>4. /\ Head(responses[c]) \in Requests /\ <<Head(responses[c])>> \in Seq(Requests)
      /\ Tail(responses[c]) \in Seq(Requests) /\ Head(responses[c]) # NULL
  <2>1. Head(responses[c]) \in Requests /\ Tail(responses[c]) \in Seq(Requests)
    BY <1>2, HeadTailFacts DEF TypeOK
  <2>2. QED
    BY <2>1 DEF Requests, NULL
<1>5. UnderWay(c) = responses[c] \o requests[c]
  BY <1>2, WayTypes, ConcatEmptySeq DEF UnderWay, Hand
<1>6. UnderWay(c)' = <<Head(responses[c])>> \o (Tail(responses[c]) \o requests[c])
  BY <1>3, <1>4 DEF UnderWay, Hand
<1>7. <<Head(responses[c])>> \o (Tail(responses[c]) \o requests[c])
        = (<<Head(responses[c])>> \o Tail(responses[c])) \o requests[c]
  <2>1. requests[c] \in Seq(Requests)
    BY DEF TypeOK
  <2>2. QED
    BY <1>4, <2>1, ConcatThree, Zenon
<1>8. <<Head(responses[c])>> \o Tail(responses[c]) = responses[c]
  BY <1>2, HeadTailProperties DEF TypeOK
<1>9. UnderWay(c)' = UnderWay(c)
  BY <1>5, <1>6, <1>7, <1>8
<1>10. QED
  BY <1>1, <1>3, <1>9 DEF Outstanding, UnderWay, Hand

\* A frame that does not parse is lost.
LEMMA ParseErrorOutstanding ==
    ASSUME IndInv, NEW c \in Conns, DataHandlerParseError(c)
    PROVE  Lost(Outstanding, Outstanding')
<1> USE DEF IndInv
<1>1. c = connection_ /\ c # NULL
  BY BoundsAssumption DEF DataHandlerParseError, WorkersInv, Live, Conns, NULL
<1>2. inHand[c] = NULL /\ responses[c] # <<>>
  BY DEF DataHandlerParseError, HandInv
<1>3. /\ responses'[c] = Tail(responses[c])
      /\ UNCHANGED <<connection_, queue_, inHand, requests>>
  BY DEF DataHandlerParseError, TypeOK, fields, workers
<1> DEFINE m == <<Head(responses[c])>>
           b == Tail(responses[c]) \o requests[c]
<1>4. /\ m \in Seq(Requests) /\ b \in Seq(Requests) /\ queue_ \in Seq(Requests)
      /\ Tail(responses[c]) \in Seq(Requests) /\ requests[c] \in Seq(Requests)
  BY <1>2, HeadTailFacts, ConcatProperties DEF TypeOK
<1>5. m \o Tail(responses[c]) = responses[c]
  BY <1>2, HeadTailProperties DEF TypeOK
<1>6. m \o b = (m \o Tail(responses[c])) \o requests[c]
  BY <1>4, ConcatThree, Zenon
<1>7. UnderWay(c) = m \o b
  BY <1>2, <1>5, <1>6, WayTypes, ConcatEmptySeq DEF UnderWay, Hand
<1>8. UnderWay(c)' = b
  BY <1>2, <1>3, <1>4, ConcatEmptySeq DEF UnderWay, Hand
<1>9. Outstanding = queue_ \o (m \o b) /\ Outstanding' = queue_ \o b
  BY <1>1, <1>3, <1>7, <1>8 DEF Outstanding
<1> HIDE DEF m, b
<1>10. Lost(queue_ \o (m \o b), queue_ \o b)
  BY <1>4, LoseMiddle
<1>11. QED
  BY <1>9, <1>10

\* PushResponse moves the response from the worker's hand to the end of the queue.
LEMMA PushOutstanding ==
    ASSUME IndInv, NEW c \in Conns, PushResponse(c)
    PROVE  Outstanding' = Outstanding
<1> USE DEF IndInv
<1>1. c = connection_ /\ c # NULL
  BY BoundsAssumption DEF PushResponse, PushTo, WorkersInv, Live, Conns, NULL
<1>2. inHand[c] \in Requests /\ inHand[c] # NULL
  BY HandIsRequest DEF PushResponse, PushTo, HandInv
<1>3. /\ queue_' = Append(queue_, inHand[c]) /\ inHand'[c] = NULL
      /\ UNCHANGED <<connection_, responses, requests>>
  BY DEF PushResponse, PushTo, TypeOK, sockets
<1> DEFINE b == responses[c] \o requests[c]
<1>4. /\ queue_ \in Seq(Requests) /\ b \in Seq(Requests)
      /\ <<inHand[c]>> \in Seq(Requests)
  BY <1>2, WayTypes DEF TypeOK
<1>5. UnderWay(c) = <<inHand[c]>> \o b
  BY <1>2 DEF UnderWay, Hand
<1>6. UnderWay(c)' = b
  BY <1>3, <1>4, ConcatEmptySeq DEF UnderWay, Hand
<1>7. Outstanding = queue_ \o (<<inHand[c]>> \o b)
  BY <1>1, <1>5 DEF Outstanding
<1>8. Outstanding' = Append(queue_, inHand[c]) \o b
  BY <1>1, <1>3, <1>6 DEF Outstanding
<1> HIDE DEF b
<1>9. Append(queue_, inHand[c]) = queue_ \o <<inHand[c]>>
  BY <1>2, <1>4, AppendIsConcat
<1>10. (queue_ \o <<inHand[c]>>) \o b = queue_ \o (<<inHand[c]>> \o b)
  BY <1>4, ConcatAssociative
<1>11. QED
  BY <1>7, <1>8, <1>9, <1>10

\* The game's answer goes from its end of the socket to the worker's.
LEMMA RespondsOutstanding ==
    ASSUME IndInv, NEW c \in Conns, GameResponds(c)
    PROVE  Outstanding' = Outstanding
<1> USE DEF IndInv
<1>1. c = connection_ /\ c # NULL
  BY BoundsAssumption DEF GameResponds, SocketInv, Conns, NULL
<1>2. /\ requests[c] # <<>>
      /\ requests'[c] = Tail(requests[c])
      /\ responses'[c] = Append(responses[c], Head(requests[c]))
      /\ UNCHANGED <<connection_, queue_, inHand>>
  BY DEF GameResponds, TypeOK, fields, workers
<1>3. responses[c] \in Seq(Requests) /\ requests[c] \in Seq(Requests)
  BY DEF TypeOK
<1>4. Append(responses[c], Head(requests[c])) \o Tail(requests[c])
        = responses[c] \o requests[c]
  BY <1>2, <1>3, MoveHead, Zenon
<1>5. UnderWay(c)' = UnderWay(c)
  BY <1>2, <1>4 DEF UnderWay, Hand
<1>6. QED
  BY <1>1, <1>2, <1>5 DEF Outstanding

\* A game that goes takes the requests it has not answered with it and loses the
\* end of what it has written.
LEMMA ClosesOutstanding ==
    ASSUME IndInv, NEW c \in Conns, GameCloses(c)
    PROVE  Lost(Outstanding, Outstanding')
<1> USE DEF IndInv
<1>1. c = connection_ /\ c # NULL
  BY BoundsAssumption DEF GameCloses, SocketInv, Conns, NULL
<1>2. PICK n \in 0 .. Len(responses[c]) :
        responses' = [responses EXCEPT ![c] = SubSeq(@, 1, n)]
  BY DEF GameCloses
<1>3. /\ responses'[c] = SubSeq(responses[c], 1, n) /\ requests'[c] = <<>>
      /\ UNCHANGED <<connection_, queue_, inHand>>
  BY <1>2 DEF GameCloses, TypeOK, fields, workers
<1>4. PICK p, q \in Seq(Requests) :
        p = SubSeq(responses[c], 1, n) /\ responses[c] = p \o q
  BY PrefixAndRest DEF TypeOK
<1>5. PICK m \in Seq(Requests) : responses[c] \o requests[c] = p \o m
  <2>1. requests[c] \in Seq(Requests) /\ q \o requests[c] \in Seq(Requests)
    BY ConcatProperties DEF TypeOK
  <2>2. (p \o q) \o requests[c] = p \o (q \o requests[c])
    BY <2>1, ConcatThree, Zenon
  <2>3. QED
    BY <1>4, <2>1, <2>2
<1>6. Outstanding = queue_ \o (Hand(c) \o (p \o m)) /\ Outstanding' = queue_ \o (Hand(c) \o p)
  <2>1. UnderWay(c)' = Hand(c) \o p
    BY <1>3, <1>4, ConcatEmptySeq DEF UnderWay, Hand
  <2>2. QED
    BY <1>1, <1>3, <1>5, <2>1 DEF Outstanding, UnderWay
<1>7. queue_ \in Seq(Requests) /\ Hand(c) \in Seq(Requests)
  BY WayTypes DEF TypeOK
<1>8. Lost(queue_ \o (Hand(c) \o (p \o m)), queue_ \o (Hand(c) \o p))
  BY <1>7, LoseBehind
<1>9. QED
  BY <1>6, <1>8

\* A connection starts as a closed channel, and each of its steps is one of the channel
\* or leaves it as it is.
LEMMA ChannelInit == Init => Channel!Init
  BY DEF Init, Channel!Init, Outstanding

LEMMA ChannelStep ==
    ASSUME IndInv, [Next]_vars
    PROVE  [Channel!Next]_(Channel!vars)
<1> SUFFICES ASSUME Next PROVE Channel!Next \/ UNCHANGED Channel!vars
  BY OutstandingUnchanged
     DEF vars, fields, client, workers, sockets, history, Channel!vars, IndInv
<1> USE DEF IndInv, Channel!Next, Channel!vars
<1>1. ASSUME NEW c \in Conns, Connect(c) PROVE Channel!Open
  <2>1. Outstanding = <<>> /\ Outstanding' = <<>>
    BY <1>1, ConnectOutstanding
  <2>2. connection_ = NULL /\ connection_' = c /\ c # NULL /\ UNCHANGED <<via, delivered>>
    BY <1>1, BoundsAssumption DEF Connect, history, Conns, NULL
  <2>3. QED
    BY <2>1, <2>2 DEF Channel!Open
<1>2. CASE Send
  BY <1>2, SendOutstanding, AppendFacts
     DEF Send, CanSend, fields, TypeOK, Channel!Send
<1>3. CASE PopResponse
  BY <1>3, PopOutstanding DEF PopResponse, PopWith, Channel!Deliver
<1>4. CASE Disconnected
  BY <1>4, DisconnectedOutstanding
     DEF Disconnected, SocketGone, history, Channel!Close, ClientInv
<1>5. CASE ReceiveClear
  BY <1>5, ClearOutstanding DEF ReceiveClear
<1>6. ASSUME NEW c \in Conns, DataHandlerParseError(c) \/ GameCloses(c) PROVE Channel!Lose
  BY <1>6, ParseErrorOutstanding, ClosesOutstanding
     DEF DataHandlerParseError, GameCloses, Lost, Channel!Lose, fields, history
<1>7. ASSUME NEW c \in Conns, DataHandler(c) \/ PushResponse(c) \/ GameResponds(c)
      PROVE  UNCHANGED Channel!vars
  BY <1>7, DataHandlerOutstanding, PushOutstanding, RespondsOutstanding
     DEF DataHandler, TakeFrame, PushResponse, PushTo, GameResponds, fields, history
<1>8. ASSUME NEW c \in Conns,
             PushResponseFlag(c) \/ ReadLoopEnds(c) \/ ConnectionClosedHandler(c)
      PROVE  UNCHANGED Channel!vars
  BY <1>8, OutstandingUnchanged
     DEF PushResponseFlag, ReadLoopEnds, ConnectionClosedHandler, fields, sockets, history
<1>9. CASE SetConnectionClosedCallback \/ Receive \/ Quit
  BY <1>9, OutstandingUnchanged
     DEF SetConnectionClosedCallback, Receive, Quit, fields, workers, sockets, history
<1>10. CASE ReceiveReady \/ ReceiveTimeout \/ ReceiveUnlock \/ ReceiveReturn
  BY <1>10, OutstandingUnchanged
     DEF ReceiveReady, ReceiveTimeout, ReceiveUnlock, ReceiveReturn, fields, workers,
         sockets, history
<1>11. CASE Disconnect \/ DisconnectNull \/ Destroyed
  BY <1>11, OutstandingUnchanged
     DEF Disconnect, DisconnectNull, Destroyed, vars, fields, workers, sockets, history
<1>12. QED
  BY <1>1, <1>2, <1>3, <1>4, <1>5, <1>6, <1>7, <1>8, <1>9, <1>10, <1>11
     DEF Next, ClientCall, ClientStep, WorkerStep, GameStep

\* Every behaviour of the connection, with its threads, its lock and its timeouts, is one
\* of the channel: sessions in which answers come in order, at most once, or get lost.
THEOREM Refinement == Spec => ImplementsChannel
  BY ChannelInit, ChannelStep, Invariance, PTL DEF Spec, ImplementsChannel, Channel!Spec
=============================================================================
