------------------------ MODULE ProcConnector_proofs ------------------------
(***************************************************************************)
(* Proofs about ProcConnector, for every set of threads, number of events  *)
(* and callbacks, and length of the socket's queue.                        *)
(***************************************************************************)
EXTENDS ProcConnector, SequenceTheorems, TLAPS

LEMMA SeqIsArray ==
  ASSUME NEW S, NEW n \in Nat, NEW s \in Seq(S), Len(s) = n
  PROVE  s \in [1 .. n -> S]
BY LenProperties

\* What push_back() does to a vector of n elements: n + 1 elements, the old
\* ones where they were.
LEMMA AppendToArray ==
  ASSUME NEW S, NEW n \in Nat, NEW s \in [1 .. n -> S], NEW e \in S
  PROVE  /\ Append(s, e) \in [1 .. n + 1 -> S]
         /\ \A i \in 1 .. n : Append(s, e)[i] = s[i]
         /\ Append(s, e)[n + 1] = e
<1>1. s \in Seq(S) /\ Len(s) = n
  OBVIOUS
<1>2. /\ \A i \in 1 .. n : Append(s, e)[i] = s[i]
      /\ Append(s, e)[n + 1] = e
  BY <1>1
<1>3. PICK a : a = Append(s, e)
  OBVIOUS
<1>4. a \in Seq(S) /\ Len(a) = n + 1
  BY <1>1, <1>3
<1>5. PICK k \in Nat : k = n + 1
  OBVIOUS
<1>6. a \in [1 .. k -> S]
  BY ONLY <1>4, <1>5, SeqIsArray
<1> QED BY <1>2, <1>3, <1>5, <1>6

\* ... and what the socket's queue loses to recv().
LEMMA TakeFirst ==
  ASSUME NEW S, NEW s \in Seq(S), s # <<>>
  PROVE  /\ Tail(s) \in Seq(S)
         /\ Len(Tail(s)) = Len(s) - 1
         /\ \A i \in 1 .. Len(s) - 1 : Tail(s)[i] = s[i + 1]
         /\ Head(s) = s[1] /\ Head(s) \in S
         /\ Len(s) \in Nat /\ Len(s) > 0
OBVIOUS

-----------------------------------------------------------------------------
\* Types.

\* What TypeOK needs to be inductive: what has been received and what waits
\* are different events sent, and the for of processEvent() stays within the
\* callbacks it began with.
Counted == Len(received) + Len(queue) <= sent

ForInRange ==
  \A t \in Thread :
    /\ last[t] <= m_subscribers /\ next[t] <= last[t] + 1
    /\ pc[t] = "for" => got[t] \in Event

TypeInv == TypeOK /\ Counted /\ ForInRange

\* What the order of events, callbacks and loops depends on.
coreVars == <<queue, sent, subscriberVars, loopVars, overlapped>>

LEMMA TypeInit == Init => TypeInv
<1> SUFFICES ASSUME Init PROVE TypeInv
  OBVIOUS
<1>1. /\ queue \in Seq(Event) /\ received \in Seq(Event)
      /\ Len(queue) = 0 /\ Len(received) = 0
  BY DEF Init
<1>2. /\ handed \in [1 .. m_subscribers -> Seq(Event)]
      /\ since \in [1 .. m_subscribers -> 0 .. MaxEvents]
  BY DEF Init
<1>3. /\ pc \in [Thread -> {"out", "recv", "for"}]
      /\ got \in [Thread -> Event \cup {0}]
      /\ next \in [Thread -> 1 .. MaxSubs + 1]
      /\ last \in [Thread -> 0 .. MaxSubs]
  BY ConnectorAssumption DEF Init
<1>5. /\ stage \in {"none", "bound", "ready", "closed", "gone"}
      /\ {leaked, overrun, lost, thrown, overlapped, m_thread_listen} \subseteq BOOLEAN
      /\ status \in {"up", "aborted", "undefined"}
  BY DEF Init
<1>6. sent \in 0 .. MaxEvents /\ m_subscribers \in 0 .. MaxSubs /\ Len(queue) <= Backlog
  BY <1>1, ConnectorAssumption DEF Init
<1>7. TypeOK
  BY <1>1, <1>2, <1>3, <1>5, <1>6 DEF TypeOK
<1>4. Counted /\ ForInRange
  BY <1>1, ConnectorAssumption DEF Init, Counted, ForInRange
<1> QED BY <1>7, <1>4 DEF TypeInv

LEMMA TypeNext == TypeInv /\ [Next]_vars => TypeInv'
<1> SUFFICES ASSUME TypeInv, [Next]_vars PROVE TypeInv'
  OBVIOUS
<1> USE ConnectorAssumption
<1> USE DEF TypeInv, TypeOK, Counted, ForInRange
<1>a. /\ Len(queue) \in Nat /\ Len(received) \in Nat
      /\ Len(received) \in 0 .. MaxEvents
  <2>1. queue \in Seq(Event) /\ received \in Seq(Event)
    OBVIOUS
  <2>2. Len(queue) \in Nat /\ Len(received) \in Nat
    BY ONLY <2>1, LenProperties
  <2> QED BY <2>2
<1> DEFINE Still == /\ stage' \in {"none", "bound", "ready", "closed", "gone"}
                    /\ {leaked, overrun, lost, thrown, m_thread_listen}' \subseteq BOOLEAN
                    /\ status' \in {"up", "aborted", "undefined"}
                    /\ UNCHANGED coreVars
<1>0. Still => TypeInv'
  BY DEF coreVars, subscriberVars, loopVars, Event
<1>1. CASE UNCHANGED vars
  BY <1>1 DEF vars, coreVars, socketVars, subscriberVars, loopVars
<1>2. CASE connect \/ subscribe \/ CloseSocket \/ DeleteThread
  <2>1. Still
    BY <1>2 DEF connect, subscribe, CloseSocket, DeleteThread, Up, Free, coreVars,
                socketVars, subscriberVars, loopVars
  <2> QED BY <2>1, <1>0
<1>3. CASE Notify
  <2> USE <1>3 DEF Notify, Up, Event, subscriberVars, loopVars
  <2>1. CASE Len(queue) < Backlog
    <3>1. queue' = Append(queue, sent + 1) /\ sent + 1 \in Event
      BY <2>1
    <3>2. queue' \in Seq(Event) /\ Len(queue') = Len(queue) + 1
      BY <3>1
    <3>3. Counted'
      BY <2>1, <3>2, <1>a
    <3>4. Len(queue') <= Backlog /\ sent' \in 0 .. MaxEvents
      BY <2>1, <3>2, <1>a
    <3>5. UNCHANGED <<stage, leaked, overrun, lost, m_thread_listen, m_subscribers, pc, got,
                      next, last, status, received, handed, since, thrown, overlapped>>
      BY <2>1
    <3>6. TypeOK'
      BY ONLY TypeOK, <3>2, <3>4, <3>5 DEF TypeOK, Event
    <3> QED BY <3>3, <3>5, <3>6
  <2>2. CASE ~(Len(queue) < Backlog)
    <3>1. {overrun, lost}' \subseteq BOOLEAN /\ sent' = sent + 1 /\ sent' \in 0 .. MaxEvents
      BY <2>2
    <3>2. UNCHANGED <<queue, stage, leaked, m_thread_listen, m_subscribers, pc, got, next,
                      last, status, received, handed, since, thrown, overlapped>>
      BY <2>2
    <3>3. TypeOK'
      BY ONLY TypeOK, <3>1, <3>2 DEF TypeOK
    <3>4. Counted'
      BY ONLY <1>a, <3>1, <3>2, Counted, TypeOK DEF TypeOK
    <3>5. ForInRange'
      BY ONLY <3>2, ForInRange DEF ForInRange
    <3> QED BY ONLY <3>3, <3>4, <3>5
  <2> QED BY <2>1, <2>2
<1>4. CASE addCallback
  <2> USE <1>4 DEF addCallback, Free, Up, socketVars
  <2>1. m_subscribers \in Nat /\ m_subscribers' = m_subscribers + 1
    OBVIOUS
  <2>2. since' \in [1 .. m_subscribers' -> 0 .. MaxEvents]
    <3>1. since \in [1 .. m_subscribers -> 0 .. MaxEvents] /\ Len(received) \in 0 .. MaxEvents
      BY <1>a
    <3>2. since' = Append(since, Len(received))
      OBVIOUS
    <3> QED BY ONLY <2>1, <3>1, <3>2, AppendToArray
  <2>3. handed' \in [1 .. m_subscribers' -> Seq(Event)]
    <3>1. handed \in [1 .. m_subscribers -> Seq(Event)] /\ <<>> \in Seq(Event)
      OBVIOUS
    <3>2. handed' = Append(handed, <<>>)
      OBVIOUS
    <3> QED BY ONLY <2>1, <3>1, <3>2, AppendToArray
  <2>6. m_subscribers' \in 0 .. MaxSubs /\ status' \in {"up", "aborted", "undefined"}
    BY <2>1
  <2>7. UNCHANGED <<stage, leaked, queue, overrun, sent, lost, m_thread_listen, pc, got,
                    next, last, received, thrown, overlapped>>
    OBVIOUS
  <2>4. TypeOK'
    BY ONLY TypeOK, <2>2, <2>3, <2>6, <2>7 DEF TypeOK, Event
  <2>5. Counted' /\ ForInRange'
    BY <2>1 DEF Event
  <2> QED BY <2>4, <2>5
<1>5. CASE (\E w \in Worker : listenThread(w)) \/ listenBlock
  <2>1. PICK t \in Thread : Enter(t) /\ m_thread_listen' \in BOOLEAN
    BY <1>5 DEF listenThread, listenBlock, Thread
  <2>2. /\ pc' \in [Thread -> {"out", "recv", "for"}]
        /\ \A u \in Thread : pc'[u] = "for" => pc[u] = "for"
        /\ overlapped' \in BOOLEAN
    BY <2>1 DEF Enter
  <2>3. UNCHANGED <<stage, leaked, queue, overrun, sent, lost, m_subscribers, got, next,
                    last, received, handed, since, status, thrown>>
    BY <2>1 DEF Enter, socketVars, subscriberVars
  <2>4. TypeOK'
    BY ONLY TypeOK, <2>1, <2>2, <2>3 DEF TypeOK, Event
  <2>5. Counted' /\ ForInRange'
    BY ONLY Counted, ForInRange, <2>2, <2>3 DEF Counted, ForInRange, Event
  <2> QED BY <2>4, <2>5
<1>6. ASSUME NEW t \in Thread, Receive(t) PROVE TypeInv'
  <2> USE <1>6 DEF Receive, Up, subscriberVars
  <2>1. queue \in Seq(Event) /\ queue # <<>> /\ queue' = Tail(queue)
    OBVIOUS
  <2>2. /\ Head(queue) \in Event
        /\ queue' \in Seq(Event)
        /\ Len(queue') = Len(queue) - 1
    BY ONLY <2>1, TakeFirst
  <2>3. received' \in Seq(Event) /\ Len(received') = Len(received) + 1
    BY <2>2
  <2>4. Counted'
    BY <2>2, <2>3, <1>a
  <2>5. ForInRange'
    BY <2>2
  <2>7. /\ got' \in [Thread -> Event \cup {0}] /\ pc' \in [Thread -> {"out", "recv", "for"}]
        /\ next' \in [Thread -> 1 .. MaxSubs + 1] /\ last' \in [Thread -> 0 .. MaxSubs]
    BY <2>2
  <2>8. Len(queue') <= Backlog
    BY <2>2, <1>a
  <2>9. UNCHANGED <<stage, leaked, overrun, sent, lost, m_thread_listen, m_subscribers,
                    since, handed, status, thrown, overlapped>>
    OBVIOUS
  <2>6. TypeOK'
    BY ONLY TypeOK, <2>2, <2>3, <2>7, <2>8, <2>9 DEF TypeOK, Event
  <2> QED BY <2>4, <2>5, <2>6
<1>7. ASSUME NEW t \in Thread, ReceiveFails(t) PROVE TypeInv'
  BY <1>7 DEF ReceiveFails, Up, subscriberVars, Event
<1>8. ASSUME NEW t \in Thread, Call(t) PROVE TypeInv'
  <2> USE <1>8 DEF Call, Up, subscriberVars, socketVars
  <2>1. next[t] \in 1 .. m_subscribers
    OBVIOUS
  <2>2. Append(handed[next[t]], got[t]) \in Seq(Event)
    BY <2>1
  <2>3. handed' \in [1 .. m_subscribers' -> Seq(Event)]
    BY <2>1, <2>2
  <2>7. next[t] \in Nat /\ last[t] \in 0 .. MaxSubs /\ next[t] <= last[t] /\ next[t] >= 1
    OBVIOUS
  <2>8. next[t] + 1 \in 1 .. MaxSubs + 1 /\ next[t] + 1 <= last[t] + 1
    BY ONLY <2>7, ConnectorAssumption
  <2>4. next' \in [Thread -> 1 .. MaxSubs + 1]
    BY <2>8
  <2>5. ForInRange'
    <3> SUFFICES ASSUME NEW u \in Thread
                 PROVE  (last[u] <= m_subscribers /\ next[u] <= last[u] + 1
                         /\ (pc[u] = "for" => got[u] \in Event))'
      OBVIOUS
    <3>1. CASE u = t
      BY <3>1, <2>8
    <3>2. CASE u # t
      BY <3>2
    <3> QED BY <3>1, <3>2
  <2>9. /\ UNCHANGED <<stage, leaked, queue, overrun, sent, lost, m_thread_listen,
                       m_subscribers, got, last, received, since, overlapped>>
        /\ thrown' \in BOOLEAN /\ status' \in {"up", "aborted", "undefined"}
        /\ pc' \in [Thread -> {"out", "recv", "for"}]
    OBVIOUS
  <2>6. TypeOK'
    BY ONLY TypeOK, <2>3, <2>4, <2>9 DEF TypeOK, Event
  <2>10. Counted'
    BY ONLY Counted, <2>9 DEF Counted
  <2> QED BY <2>5, <2>6, <2>10
<1>9. ASSUME NEW t \in Thread, Again(t) PROVE TypeInv'
  BY <1>9 DEF Again, Up, subscriberVars, socketVars, Event
<1> QED BY <1>1, <1>2, <1>3, <1>4, <1>5, <1>6, <1>7, <1>8, <1>9 DEF Next, Owner, Loop

\* No queue, index or list of callbacks of the connector leaves its range,
\* and the for of processEvent() calls no callback beyond those it began with.
THEOREM ConnectorTypes == Spec => []TypeOK
<1>1. TypeInv => TypeOK
  BY DEF TypeInv
<1> QED BY <1>1, TypeInit, TypeNext, PTL DEF Spec

-----------------------------------------------------------------------------
\* Order.

\* Events are received in the order in which the kernel sent them.
Rising ==
  /\ \A j, k \in 1 .. Len(received) : j < k => received[j] < received[k]
  /\ \A j, k \in 1 .. Len(queue) : j < k => queue[j] < queue[k]
  /\ \A j \in 1 .. Len(received), k \in 1 .. Len(queue) : received[j] < queue[k]
  /\ \A j \in 1 .. Len(received) : received[j] <= sent
  /\ \A k \in 1 .. Len(queue) : queue[k] <= sent

\* A callback is only called with events received since it was added.
FromLog ==
  \A i \in 1 .. m_subscribers :
    /\ since[i] <= Len(received)
    /\ \A j \in 1 .. Len(handed[i]) :
         \E k \in since[i] + 1 .. Len(received) : handed[i][j] = received[k]

\* Until two loops have overlapped, at most one thread is in the loop.
Solo ==
  ~overlapped => \A t, u \in Thread : pc[t] # "out" /\ pc[u] # "out" => t = u

\* Thread t holds the event received as the k-th, and the callbacks it has
\* yet to call wait for it.
Holds(t, k) ==
  /\ got[t] = received[k]
  /\ ~overlapped => k = Len(received)
  /\ \A i \in next[t] .. last[t] :
       /\ since[i] < k
       /\ \A j \in 1 .. Len(handed[i]) : handed[i][j] # received[k]

LoopsHold ==
  \A t \in Thread : pc[t] = "for" => \E k \in 1 .. Len(received) : Holds(t, k)

\* Two threads never hold the same event.
DistinctGot ==
  \A t, u \in Thread : t # u /\ pc[t] = "for" /\ pc[u] = "for" => got[t] # got[u]

\* How many events received callback i has yet to be called with.
Owed(i) == IF Pending(i) THEN 1 ELSE 0

\* HandedInOrder, element by element, and whatever ends the program.
InOrder ==
  ~overlapped =>
    \A i \in 1 .. m_subscribers :
      /\ Len(handed[i]) = Len(received) - since[i] - Owed(i)
      /\ \A j \in 1 .. Len(handed[i]) : handed[i][j] = received[since[i] + j]

OrderInv ==
  TypeInv /\ Rising /\ FromLog /\ Solo /\ LoopsHold /\ DistinctGot /\ InOrder /\ HandedOnce

\* What the types say of each index.
Indices ==
  /\ m_subscribers \in Nat
  /\ Len(received) \in Nat /\ Len(queue) \in Nat
  /\ \A k \in 1 .. Len(received) : received[k] \in Int
  /\ \A k \in 1 .. Len(queue) : queue[k] \in Int
  /\ sent \in Int
  /\ DOMAIN handed = 1 .. m_subscribers
  /\ \A i \in 1 .. m_subscribers :
       /\ since[i] \in Nat /\ Len(handed[i]) \in Nat
       /\ DOMAIN handed[i] = 1 .. Len(handed[i])
       /\ \A j \in 1 .. Len(handed[i]) : handed[i][j] \in Int
  /\ \A t \in Thread :
       next[t] \in Nat \ {0} /\ last[t] \in 0 .. m_subscribers /\ got[t] \in Int

LEMMA TypeIndices == TypeInv => Indices
<1> SUFFICES ASSUME TypeInv PROVE Indices
  OBVIOUS
<1>1. received \in Seq(Event) /\ queue \in Seq(Event) /\ Event \subseteq Int
  BY ConnectorAssumption DEF TypeInv, TypeOK, Event
<1>2. /\ Len(received) \in Nat /\ Len(queue) \in Nat
      /\ \A k \in 1 .. Len(received) : received[k] \in Int
      /\ \A k \in 1 .. Len(queue) : queue[k] \in Int
  <2>1. /\ Len(received) \in Nat
        /\ \A k \in 1 .. Len(received) : received[k] \in Event
    BY ONLY <1>1
  <2>2. /\ Len(queue) \in Nat
        /\ \A k \in 1 .. Len(queue) : queue[k] \in Event
    BY ONLY <1>1
  <2> QED BY <2>1, <2>2, <1>1
<1>3. /\ m_subscribers \in Nat /\ sent \in Int
      /\ handed \in [1 .. m_subscribers -> Seq(Event)]
      /\ since \in [1 .. m_subscribers -> 0 .. MaxEvents]
  BY ConnectorAssumption DEF TypeInv, TypeOK
<1>4. ASSUME NEW i \in 1 .. m_subscribers
      PROVE  /\ since[i] \in Nat /\ Len(handed[i]) \in Nat
             /\ DOMAIN handed[i] = 1 .. Len(handed[i])
             /\ \A j \in 1 .. Len(handed[i]) : handed[i][j] \in Int
  <2>1. handed[i] \in Seq(Event) /\ since[i] \in 0 .. MaxEvents
    BY <1>3
  <2>2. since[i] \in Nat
    BY <2>1, ConnectorAssumption
  <2>3. Len(handed[i]) \in Nat /\ DOMAIN handed[i] = 1 .. Len(handed[i])
    BY <2>1, LenProperties
  <2>4. \A j \in 1 .. Len(handed[i]) : handed[i][j] \in Event
    BY <2>1
  <2> QED BY <2>2, <2>3, <2>4, <1>1
<1>5. ASSUME NEW t \in Thread
      PROVE  next[t] \in Nat \ {0} /\ last[t] \in 0 .. m_subscribers /\ got[t] \in Int
  <2>1. /\ next \in [Thread -> 1 .. MaxSubs + 1] /\ last \in [Thread -> 0 .. MaxSubs]
        /\ got \in [Thread -> Event \cup {0}] /\ last[t] <= m_subscribers
    BY DEF TypeInv, TypeOK, ForInRange
  <2>2. next[t] \in Nat \ {0} /\ last[t] \in 0 .. m_subscribers
    BY ONLY <2>1, <1>3, ConnectorAssumption
  <2>3. got[t] \in Int
    <3>1. got[t] \in Event \/ got[t] = 0
      BY <2>1
    <3>2. Event \subseteq Int
      BY <1>1
    <3>3. CASE got[t] \in Event
      BY <3>2, <3>3
    <3>4. CASE got[t] = 0
      BY ONLY <3>4
    <3> QED BY <3>1, <3>3, <3>4
  <2> QED BY <2>2, <2>3
<1> QED BY <1>2, <1>3, <1>4, <1>5 DEF Indices

LEMMA OrderInit == Init => OrderInv
<1> SUFFICES ASSUME Init PROVE OrderInv
  OBVIOUS
<1>1. Len(received) = 0 /\ Len(queue) = 0 /\ m_subscribers = 0 /\ DOMAIN handed = {}
  BY DEF Init
<1>2. \A t \in Thread : pc[t] = "out"
  BY DEF Init
<1> QED BY <1>1, <1>2, TypeInit DEF OrderInv, Rising, FromLog, Solo, LoopsHold, DistinctGot,
           InOrder, HandedOnce

LEMMA OrderFrame == OrderInv /\ TypeInv' /\ UNCHANGED coreVars => OrderInv'
BY DEF OrderInv, coreVars, subscriberVars, loopVars, Rising, FromLog, Solo, LoopsHold, Holds,
       DistinctGot, InOrder, Owed, Pending, HandedOnce

\* A new event is younger than all before it.
LEMMA OrderNotify ==
  ASSUME OrderInv, TypeInv', Notify
  PROVE  OrderInv'
<1> USE DEF OrderInv
<1>1. /\ UNCHANGED <<subscriberVars, loopVars, overlapped>>
      /\ sent' = sent + 1
      /\ queue' = queue \/ queue' = Append(queue, sent + 1)
  BY DEF Notify
<1>2. FromLog' /\ Solo' /\ LoopsHold' /\ DistinctGot' /\ InOrder' /\ HandedOnce'
  <2>1. UNCHANGED <<m_subscribers, since, pc, got, next, last, received, handed, overlapped>>
    BY <1>1 DEF subscriberVars, loopVars
  <2>2. FromLog' /\ Solo' /\ DistinctGot' /\ HandedOnce'
    BY <2>1 DEF FromLog, Solo, DistinctGot, HandedOnce
  <2>3. LoopsHold'
    BY <2>1 DEF LoopsHold, Holds
  <2>4. InOrder'
    BY <2>1 DEF InOrder, Owed, Pending
  <2> QED BY <2>2, <2>3, <2>4
<1>3. Indices
  BY TypeIndices
<1>4. UNCHANGED received
  BY <1>1 DEF loopVars
<1>5. Rising'
  <2>1. CASE queue' = queue
    BY ONLY <1>1, <1>3, <1>4, <2>1, Rising DEF Rising, Indices
  <2>2. CASE queue' = Append(queue, sent + 1)
    <3>1. queue \in Seq(Event)
      BY DEF TypeInv, TypeOK
    <3>2. /\ Len(queue') = Len(queue) + 1
          /\ \A k \in 1 .. Len(queue) : queue'[k] = queue[k]
          /\ queue'[Len(queue) + 1] = sent + 1
      BY ONLY <3>1, <2>2
    <3>3. \A k \in 1 .. Len(queue) : queue'[k] = queue[k] /\ queue[k] <= sent /\ queue[k] \in Int
      BY ONLY <3>2, <1>3, Rising DEF Rising, Indices
    <3>4. \A j \in 1 .. Len(received) : received[j] <= sent /\ received[j] \in Int
      BY ONLY <1>3, Rising DEF Rising, Indices
    <3>5. Len(queue) \in Nat /\ Len(received) \in Nat /\ sent \in Int /\ sent' = sent + 1
      BY ONLY <1>1, <1>3 DEF Indices
    <3>6. \A j, k \in 1 .. Len(queue)' : j < k => queue'[j] < queue'[k]
      BY ONLY <3>2, <3>3, <3>5, Rising DEF Rising
    <3>7. \A j \in 1 .. Len(received)', k \in 1 .. Len(queue)' : received'[j] < queue'[k]
      <4>1. \A j \in 1 .. Len(received), k \in 1 .. Len(queue) : received[j] < queue'[k]
        BY ONLY <3>3, Rising DEF Rising
      <4>2. \A j \in 1 .. Len(received) : received[j] < queue'[Len(queue) + 1]
        BY ONLY <3>2, <3>4, <3>5
      <4>3. \A k \in 1 .. Len(queue) + 1 : k \in 1 .. Len(queue) \/ k = Len(queue) + 1
        BY ONLY <3>5
      <4> QED BY ONLY <1>4, <3>2, <4>1, <4>2, <4>3
    <3>8. \A j \in 1 .. Len(received)' : received'[j] <= sent'
      BY ONLY <1>4, <3>4, <3>5
    <3>9. \A k \in 1 .. Len(queue)' : queue'[k] <= sent'
      BY ONLY <3>2, <3>3, <3>5
    <3> QED BY ONLY <1>4, <3>6, <3>7, <3>8, <3>9, Rising DEF Rising
  <2> QED BY <1>1, <2>1, <2>2
<1> QED BY <1>2, <1>5

\* recv() in one thread: what it returns is younger than what anyone holds.
LEMMA OrderReceive ==
  ASSUME OrderInv, TypeInv', NEW t \in Thread, Receive(t)
  PROVE  OrderInv'
<1>1. Indices
  BY TypeIndices DEF OrderInv
<1>2. /\ queue # <<>> /\ queue' = Tail(queue) /\ received' = Append(received, Head(queue))
      /\ got' = [got EXCEPT ![t] = Head(queue)]
      /\ next' = [next EXCEPT ![t] = 1]
      /\ last' = [last EXCEPT ![t] = m_subscribers]
      /\ pc' = [pc EXCEPT ![t] = "for"]
      /\ pc[t] = "recv"
      /\ UNCHANGED <<sent, m_subscribers, since, handed, overlapped>>
  BY DEF Receive, subscriberVars
<1>3. /\ queue \in Seq(Event) /\ received \in Seq(Event)
      /\ pc \in [Thread -> {"out", "recv", "for"}]
      /\ got \in [Thread -> Event \cup {0}]
      /\ next \in [Thread -> 1 .. MaxSubs + 1]
      /\ last \in [Thread -> 0 .. MaxSubs]
  BY DEF OrderInv, TypeInv, TypeOK
<1>4. PICK n \in Nat : n = Len(received)
  BY <1>1 DEF Indices
<1>5. PICK e \in Event : e = Head(queue)
  BY ONLY <1>2, <1>3, TakeFirst
<1>6. PICK q \in Nat : q = Len(queue)
  BY <1>1 DEF Indices
<1>7. e = queue[1] /\ q > 0 /\ Len(queue') = q - 1
      /\ \A k \in 1 .. q - 1 : queue'[k] = queue[k + 1]
  BY ONLY <1>2, <1>3, <1>5, <1>6, TakeFirst
<1>8. /\ Len(received') = n + 1
      /\ \A k \in 1 .. n : received'[k] = received[k]
      /\ received'[n + 1] = e
  BY ONLY <1>2, <1>3, <1>4, <1>5
<1>9. \A u \in Thread : u # t => /\ pc'[u] = pc[u] /\ got'[u] = got[u]
                                 /\ next'[u] = next[u] /\ last'[u] = last[u]
  BY <1>2, <1>3
<1>10. pc'[t] = "for" /\ got'[t] = e /\ next'[t] = 1 /\ last'[t] = m_subscribers
  BY <1>2, <1>3, <1>5
<1>11. /\ \A j, k \in 1 .. n : j < k => received[j] < received[k]
       /\ \A j, k \in 1 .. q : j < k => queue[j] < queue[k]
       /\ \A j \in 1 .. n, k \in 1 .. q : received[j] < queue[k]
       /\ \A j \in 1 .. n : received[j] <= sent
       /\ \A k \in 1 .. q : queue[k] <= sent
  BY <1>4, <1>6 DEF OrderInv, Rising
<1>12. /\ \A k \in 1 .. n : received[k] \in Int
       /\ \A k \in 1 .. q : queue[k] \in Int
       /\ sent \in Int /\ e \in Int
  BY <1>1, <1>4, <1>6, <1>7 DEF Indices
<1>13. \A k \in 1 .. n : received[k] < e
  BY ONLY <1>7, <1>11, q \in Nat
<1>14. Rising'
  <2>1. \A j, k \in 1 .. n + 1 : j < k => received'[j] < received'[k]
    BY ONLY <1>8, <1>11, <1>13, n \in Nat
  <2>2. \A k \in 1 .. q - 1 : k + 1 \in 1 .. q /\ 1 < k + 1
    BY ONLY q \in Nat
  <2>3. \A j, k \in 1 .. q - 1 : j < k => queue'[j] < queue'[k]
    <3> SUFFICES ASSUME NEW j \in 1 .. q - 1, NEW k \in 1 .. q - 1, j < k
                 PROVE  queue'[j] < queue'[k]
      OBVIOUS
    <3>1. j + 1 < k + 1
      OBVIOUS
    <3> QED BY <3>1, <2>2, <1>7, <1>11
  <2>4. \A j \in 1 .. n, k \in 1 .. q - 1 : received[j] < queue'[k]
    BY ONLY <2>2, <1>7, <1>11
  <2>5. 1 \in 1 .. q
    BY ONLY <1>7, q \in Nat
  <2>6. \A k \in 1 .. q - 1 : e < queue'[k]
    BY <2>2, <2>5, <1>7, <1>11
  <2>7. \A j \in 1 .. n + 1 : j \in 1 .. n \/ j = n + 1
    BY ONLY n \in Nat
  <2>8. \A j \in 1 .. n + 1, k \in 1 .. q - 1 : received'[j] < queue'[k]
    BY ONLY <2>4, <2>6, <2>7, <1>8
  <2>9. \A j \in 1 .. n + 1 : received'[j] <= sent
    BY ONLY <2>5, <2>7, <1>7, <1>8, <1>11
  <2>10. \A k \in 1 .. q - 1 : queue'[k] <= sent
    BY ONLY <2>2, <1>7, <1>11
  <2> QED BY ONLY <2>1, <2>3, <2>8, <2>9, <2>10, <1>7, <1>8, <1>2 DEF Rising
<1>15. /\ \A i \in 1 .. m_subscribers : since[i] \in Nat /\ since[i] <= n
       /\ \A i \in 1 .. m_subscribers : \A j \in 1 .. Len(handed[i]) :
            \E k \in 1 .. n : k \in since[i] + 1 .. n /\ handed[i][j] = received[k]
  <2>1. \A i \in 1 .. m_subscribers : since[i] \in Nat /\ since[i] <= n
    BY <1>1, <1>4 DEF OrderInv, FromLog, Indices
  <2>2. \A i \in 1 .. m_subscribers : \A j \in 1 .. Len(handed[i]) :
          \E k \in since[i] + 1 .. n : handed[i][j] = received[k]
    BY <1>4 DEF OrderInv, FromLog
  <2>3. \A i \in 1 .. m_subscribers : \A k \in since[i] + 1 .. n : k \in 1 .. n
    BY <2>1
  <2> QED BY <2>1, <2>2, <2>3
<1>a. /\ m_subscribers' = m_subscribers /\ since' = since /\ handed' = handed
      /\ overlapped' = overlapped
  BY <1>2
<1>16. FromLog'
  <2> SUFFICES ASSUME NEW i \in 1 .. m_subscribers
               PROVE  /\ since[i] <= n + 1
                      /\ \A j \in 1 .. Len(handed[i]) :
                           \E k \in since[i] + 1 .. n + 1 : handed[i][j] = received'[k]
    BY <1>a, <1>8 DEF FromLog
  <2> QED BY <1>15, <1>8
<1>17. Solo'
  BY ONLY <1>2, <1>9, <1>10, OrderInv DEF OrderInv, Solo
<1>18. LoopsHold'
  <2> SUFFICES ASSUME NEW u \in Thread, pc'[u] = "for"
               PROVE  \E k \in 1 .. n + 1 : Holds(u, k)'
    BY <1>8 DEF LoopsHold
  <2>1. CASE u = t
    <3>1. \A i \in 1 .. m_subscribers : since[i] < n + 1
      BY ONLY <1>15, n \in Nat
    <3>2. \A i \in 1 .. m_subscribers : \A j \in 1 .. Len(handed[i]) : handed[i][j] # e
      BY ONLY <1>12, <1>13, <1>15
    <3>3. /\ got'[u] = received'[n + 1]
          /\ \A i \in next'[u] .. last'[u] :
               /\ since'[i] < n + 1
               /\ \A j \in 1 .. Len(handed'[i]) : handed'[i][j] # received'[n + 1]
      BY ONLY <2>1, <3>1, <3>2, <1>2, <1>8, <1>10
    <3>4. Holds(u, n + 1)'
      BY ONLY <3>3, <1>8 DEF Holds
    <3> QED BY <3>4
  <2>2. CASE u # t
    <3>1. PICK k \in 1 .. n : Holds(u, k)
      BY <2>2, <1>9, <1>4 DEF OrderInv, LoopsHold
    <3>2. overlapped /\ overlapped'
      BY <2>2, <1>2, <1>9 DEF OrderInv, Solo
    <3>3. /\ got'[u] = received'[k]
          /\ \A i \in next'[u] .. last'[u] :
               /\ since'[i] < k
               /\ \A j \in 1 .. Len(handed'[i]) : handed'[i][j] # received'[k]
      BY <2>2, <3>1, <1>2, <1>8, <1>9 DEF Holds
    <3>4. Holds(u, k)'
      BY ONLY <3>2, <3>3 DEF Holds
    <3> QED BY <3>4
  <2> QED BY <2>1, <2>2
<1>19. DistinctGot'
  <2>1. \A u \in Thread : u # t /\ pc[u] = "for" => got[u] # e
    BY <1>4, <1>12, <1>13 DEF OrderInv, LoopsHold, Holds
  <2> QED BY <2>1, <1>9, <1>10 DEF OrderInv, DistinctGot
<1>20. InOrder'
  <2>1. CASE overlapped
    BY <2>1, <1>a DEF InOrder
  <2>2. CASE ~overlapped
    <3>1. ASSUME NEW i \in 1 .. m_subscribers
          PROVE  /\ Pending(i)'
                 /\ Len(handed[i]) = n - since[i]
                 /\ \A j \in 1 .. Len(handed[i]) : handed[i][j] = received'[since[i] + j]
      <4>1. \A u \in Thread : pc[u] # "for"
        BY <2>2, <1>2 DEF OrderInv, Solo
      <4>2. ~Pending(i)
        BY ONLY <4>1 DEF Pending
      <4>3. Pending(i)'
        BY <1>10 DEF Pending
      <4>4. since[i] \in Nat /\ since[i] <= n
        BY <1>15
      <4>5. /\ Len(handed[i]) = n - since[i]
            /\ \A j \in 1 .. Len(handed[i]) : handed[i][j] = received[since[i] + j]
        BY <2>2, <4>2, <4>4, <1>4 DEF OrderInv, InOrder, Owed
      <4>6. \A j \in 1 .. Len(handed[i]) : since[i] + j \in 1 .. n
        BY ONLY <4>4, <4>5, n \in Nat
      <4> QED BY <4>3, <4>5, <4>6, <1>8
    <3>2. ASSUME NEW i \in 1 .. m_subscribers
          PROVE  Len(handed[i]) = n + 1 - since[i] - Owed(i)' /\ Owed(i)' = 1 /\ since[i] \in Nat
      <4>1. since[i] \in Nat
        BY <1>15
      <4>2. Owed(i)' = 1
        BY <3>1 DEF Owed
      <4> QED BY <3>1, <4>1, <4>2
    <3>3. \A i \in 1 .. m_subscribers' : Len(handed'[i]) = Len(received') - since'[i] - Owed(i)'
      BY <3>2, <1>a, <1>8
    <3>4. \A i \in 1 .. m_subscribers' : \A j \in 1 .. Len(handed'[i]) :
            handed'[i][j] = received'[since'[i] + j]
      BY <3>1, <1>a
    <3> QED BY <3>3, <3>4 DEF InOrder
  <2> QED BY <2>1, <2>2
<1>21. HandedOnce'
  BY <1>2 DEF OrderInv, HandedOnce
<1> QED BY ONLY TypeInv', <1>14, <1>16, <1>17, <1>18, <1>19, <1>20, <1>21 DEF OrderInv

\* A new callback is owed nothing.
LEMMA OrderAdd ==
  ASSUME OrderInv, TypeInv', addCallback
  PROVE  OrderInv'
<1>1. Indices
  BY TypeIndices DEF OrderInv
<1>2. PICK m \in Nat : m = m_subscribers
  BY <1>1 DEF Indices
<1>3. PICK n \in Nat : n = Len(received)
  BY <1>1 DEF Indices
<1>4. /\ m_subscribers' = m + 1
      /\ since' = Append(since, n) /\ handed' = Append(handed, <<>>)
      /\ UNCHANGED <<queue, sent, pc, got, next, last, received, overlapped>>
  BY <1>2, <1>3 DEF addCallback, socketVars
<1>5. /\ \A i \in 1 .. m : since'[i] = since[i]
      /\ since'[m + 1] = n
  <2>1. since \in [1 .. m -> 0 .. MaxEvents]
    BY <1>2 DEF OrderInv, TypeInv, TypeOK
  <2>2. n \in 0 .. MaxEvents
    <3>1. Len(received) + Len(queue) <= sent /\ sent \in 0 .. MaxEvents
      BY DEF OrderInv, TypeInv, TypeOK, Counted
    <3> QED BY <1>1, <1>3, <3>1, ConnectorAssumption DEF Indices
  <2> QED BY ONLY <2>1, <2>2, <1>4, m \in Nat, AppendToArray
<1>6. /\ \A i \in 1 .. m : handed'[i] = handed[i]
      /\ handed'[m + 1] = <<>> /\ DOMAIN handed' = 1 .. m + 1
  <2>1. handed \in [1 .. m -> Seq(Event)] /\ <<>> \in Seq(Event)
    BY <1>2 DEF OrderInv, TypeInv, TypeOK
  <2>2. handed' \in [1 .. m + 1 -> Seq(Event)]
    BY ONLY <2>1, <1>4, m \in Nat, AppendToArray
  <2> QED BY ONLY <2>1, <2>2, <1>4, m \in Nat, AppendToArray
<1>7. Len(<<>>) = 0 /\ DOMAIN <<>> = {} /\ 1 .. 0 = {}
  OBVIOUS
<1>8. \A i \in 1 .. m + 1 : i \in 1 .. m \/ i = m + 1
  OBVIOUS
<1>9. \A t \in Thread : /\ last[t] <= m /\ last[t] \in Nat /\ next[t] \in Nat
                        /\ \A i \in next[t] .. last[t] : i \in 1 .. m
  BY <1>1, <1>2 DEF Indices
<1>10. Rising' /\ Solo' /\ DistinctGot'
  BY <1>4 DEF OrderInv, Rising, Solo, DistinctGot
<1>11. FromLog'
  <2>1. ASSUME NEW i \in 1 .. m
        PROVE  /\ since[i] <= n
               /\ \A j \in 1 .. Len(handed[i]) :
                    \E k \in since[i] + 1 .. n : handed[i][j] = received[k]
    BY <1>2, <1>3 DEF OrderInv, FromLog
  <2>2. ASSUME NEW i \in 1 .. m + 1
        PROVE  /\ since'[i] <= n
               /\ \A j \in 1 .. Len(handed'[i]) :
                    \E k \in since'[i] + 1 .. n : handed'[i][j] = received[k]
    <3>1. CASE i \in 1 .. m
      BY <3>1, <2>1, <1>5, <1>6
    <3>2. CASE i = m + 1
      BY <3>2, <1>5, <1>6, <1>7
    <3> QED BY <3>1, <3>2, <1>8
  <2> QED BY <2>2, <1>3, <1>4 DEF FromLog
<1>12. LoopsHold'
  <2> SUFFICES ASSUME NEW t \in Thread, pc[t] = "for"
               PROVE  \E k \in 1 .. n : Holds(t, k)'
    BY <1>3, <1>4 DEF LoopsHold
  <2>1. PICK k \in 1 .. n : Holds(t, k)
    BY <1>3 DEF OrderInv, LoopsHold
  <2>2. \A i \in next[t] .. last[t] :
          /\ since'[i] < k
          /\ \A j \in 1 .. Len(handed'[i]) : handed'[i][j] # received[k]
    BY <2>1, <1>5, <1>6, <1>9 DEF Holds
  <2>3. Holds(t, k)'
    BY <2>1, <2>2, <1>4 DEF Holds
  <2> QED BY <2>3
<1>13. InOrder'
  <2>1. CASE overlapped
    BY <2>1, <1>4 DEF InOrder
  <2>2. CASE ~overlapped
    <3>1. \A i \in 1 .. m + 1 : Owed(i)' = Owed(i) /\ Owed(i) \in Nat
      BY <1>4 DEF Owed, Pending
    <3>2. Owed(m + 1) = 0
      BY <1>9 DEF Owed, Pending
    <3>3. ASSUME NEW i \in 1 .. m + 1
          PROVE  /\ Len(handed'[i]) = n - since'[i] - Owed(i)' /\ since'[i] \in Nat
                 /\ \A j \in 1 .. Len(handed'[i]) : handed'[i][j] = received[since'[i] + j]
      <4>1. CASE i \in 1 .. m
        <5>1. since[i] \in Nat
          BY <1>1, <1>2, <4>1 DEF Indices
        <5>2. /\ Len(handed[i]) = n - since[i] - Owed(i)
              /\ \A j \in 1 .. Len(handed[i]) : handed[i][j] = received[since[i] + j]
          BY <2>2, <4>1, <1>2, <1>3 DEF OrderInv, InOrder
        <5> QED BY <4>1, <5>1, <5>2, <3>1, <1>5, <1>6
      <4>2. CASE i = m + 1
        BY <4>2, <3>1, <3>2, <1>5, <1>6, <1>7
      <4> QED BY <4>1, <4>2, <1>8
    <3> QED BY <3>3, <1>3, <1>4 DEF InOrder
  <2> QED BY <2>1, <2>2
<1>14. HandedOnce'
  <2>1. \A i \in 1 .. m : \A j, k \in DOMAIN handed[i] : handed[i][j] = handed[i][k] => j = k
    BY <1>1, <1>2 DEF OrderInv, HandedOnce, Indices
  <2> QED BY <2>1, <1>6, <1>7, <1>8 DEF HandedOnce
<1> QED BY ONLY TypeInv', <1>10, <1>11, <1>12, <1>13, <1>14 DEF OrderInv

\* A thread enters the loop holding nothing: at worst it overlaps.
LEMMA OrderEnter ==
  ASSUME OrderInv, TypeInv', NEW t \in Thread, Enter(t), UNCHANGED socketVars
  PROVE  OrderInv'
<1>1. /\ pc[t] = "out" /\ pc' = [pc EXCEPT ![t] = "recv"]
      /\ pc \in [Thread -> {"out", "recv", "for"}]
      /\ overlapped' = (overlapped \/ \E u \in Thread : pc[u] # "out")
      /\ UNCHANGED <<queue, sent, m_subscribers, since, got, next, last, received, handed>>
  BY DEF Enter, OrderInv, TypeInv, TypeOK, socketVars, subscriberVars
<1>2. \A u \in Thread : (pc'[u] = "for") = (pc[u] = "for")
  BY <1>1
<1>3. ~overlapped' => ~overlapped /\ \A u \in Thread : pc[u] = "out"
  BY <1>1
<1>4. Rising' /\ FromLog' /\ DistinctGot' /\ HandedOnce'
  BY <1>1, <1>2 DEF OrderInv, Rising, FromLog, DistinctGot, HandedOnce
<1>5. Solo'
  BY <1>1, <1>3 DEF Solo
<1>6. LoopsHold'
  BY <1>1, <1>2, <1>3 DEF OrderInv, LoopsHold, Holds
<1>7. InOrder'
  <2>1. \A i : Owed(i)' = Owed(i)
    BY <1>1, <1>2 DEF Owed, Pending
  <2> QED BY <2>1, <1>1, <1>3 DEF OrderInv, InOrder
<1> QED BY ONLY TypeInv', <1>4, <1>5, <1>6, <1>7 DEF OrderInv

\* A thread that leaves recv() without an event, or the for when it is
\* through, takes nothing with it.
LEMMA OrderLeave ==
  ASSUME OrderInv, TypeInv', NEW t \in Thread, ReceiveFails(t) \/ Again(t)
  PROVE  OrderInv'
<1>1. /\ pc' = pc \/ pc' = [pc EXCEPT ![t] = "out"] \/ pc' = [pc EXCEPT ![t] = "recv"]
      /\ pc[t] # "out" /\ (pc[t] = "for" => next[t] > last[t])
      /\ pc \in [Thread -> {"out", "recv", "for"}]
      /\ UNCHANGED <<queue, sent, m_subscribers, since, got, next, last, received, handed,
                     overlapped>>
  BY DEF ReceiveFails, Again, OrderInv, TypeInv, TypeOK, socketVars, subscriberVars
<1>2. \A u \in Thread : /\ pc'[u] = "for" => pc[u] = "for"
                        /\ pc'[u] # "out" => pc[u] # "out"
  BY <1>1
<1>3. Rising' /\ FromLog' /\ DistinctGot' /\ HandedOnce'
  BY <1>1, <1>2 DEF OrderInv, Rising, FromLog, DistinctGot, HandedOnce
<1>4. Solo'
  BY <1>1, <1>2 DEF OrderInv, Solo
<1>5. LoopsHold'
  BY <1>1, <1>2 DEF OrderInv, LoopsHold, Holds
<1>6. InOrder'
  <2>1. \A i \in 1 .. m_subscribers : Pending(i)' <=> Pending(i)
    <3>1. Indices
      BY TypeIndices DEF OrderInv
    <3>2. TAKE i \in 1 .. m_subscribers
    <3>3. \A u \in Thread : pc[u] = "for" /\ next[u] <= i /\ i <= last[u] => pc'[u] = "for"
      BY <3>1, <1>1 DEF Indices
    <3> QED BY <3>3, <1>1, <1>2 DEF Pending
  <2>2. \A i \in 1 .. m_subscribers : Owed(i)' = Owed(i)
    BY <2>1 DEF Owed
  <2> QED BY <2>2, <1>1 DEF OrderInv, InOrder
<1> QED BY ONLY TypeInv', <1>3, <1>4, <1>5, <1>6 DEF OrderInv

\* One call of one callback, and what it changes.
LEMMA CallEffect ==
  ASSUME OrderInv, NEW t \in Thread, Call(t)
  PROVE  LET c == next[t] IN
         /\ c \in 1 .. m_subscribers /\ c <= last[t] /\ pc[t] = "for"
         /\ Len(handed'[c]) = Len(handed[c]) + 1
         /\ \A j \in 1 .. Len(handed[c]) : handed'[c][j] = handed[c][j]
         /\ handed'[c][Len(handed[c]) + 1] = got[t]
         /\ DOMAIN handed' = 1 .. m_subscribers
         /\ DOMAIN handed'[c] = 1 .. Len(handed[c]) + 1
         /\ \A i \in 1 .. m_subscribers : i # c => handed'[i] = handed[i]
         /\ next'[t] = c + 1
         /\ \A u \in Thread : u # t => next'[u] = next[u]
         /\ UNCHANGED <<queue, sent, m_subscribers, since, pc, got, last, received, overlapped>>
<1>1. Indices
  BY TypeIndices DEF OrderInv
<1>2. PICK c \in Nat : c = next[t]
  BY <1>1 DEF Indices
<1>3. c \in 1 .. m_subscribers /\ c <= last[t] /\ pc[t] = "for"
  BY <1>1, <1>2 DEF Call, Indices
<1>4. handed[c] \in Seq(Event) /\ got[t] \in Event
      /\ handed \in [1 .. m_subscribers -> Seq(Event)]
      /\ next \in [Thread -> 1 .. MaxSubs + 1]
  BY <1>3 DEF OrderInv, TypeInv, TypeOK, ForInRange
<1>5. /\ handed' = [handed EXCEPT ![c] = Append(handed[c], got[t])]
      /\ next' = [next EXCEPT ![t] = c + 1]
      /\ UNCHANGED <<queue, sent, m_subscribers, since, pc, got, last, received, overlapped>>
  BY <1>2 DEF Call, socketVars, subscriberVars
<1>6. handed'[c] = Append(handed[c], got[t])
  BY <1>3, <1>4, <1>5
<1>7. /\ Len(handed'[c]) = Len(handed[c]) + 1
      /\ \A j \in 1 .. Len(handed[c]) : handed'[c][j] = handed[c][j]
      /\ handed'[c][Len(handed[c]) + 1] = got[t]
  BY ONLY <1>4, <1>6
<1>8. DOMAIN handed'[c] = 1 .. Len(handed[c]) + 1
  BY ONLY <1>4, <1>6
<1>9. /\ DOMAIN handed' = 1 .. m_subscribers
      /\ \A i \in 1 .. m_subscribers : i # c => handed'[i] = handed[i]
  BY ONLY <1>4, <1>5
<1>10. next'[t] = c + 1 /\ \A u \in Thread : u # t => next'[u] = next[u]
  BY <1>4, <1>5
<1> QED BY <1>2, <1>3, <1>5, <1>7, <1>8, <1>9, <1>10

LEMMA OrderCall ==
  ASSUME OrderInv, TypeInv', NEW t \in Thread, Call(t)
  PROVE  OrderInv'
<1>1. Indices
  BY TypeIndices DEF OrderInv
<1>2. PICK c \in Nat : c = next[t]
  BY <1>1 DEF Indices
<1>3. /\ c \in 1 .. m_subscribers /\ c <= last[t] /\ pc[t] = "for"
      /\ Len(handed'[c]) = Len(handed[c]) + 1
      /\ \A j \in 1 .. Len(handed[c]) : handed'[c][j] = handed[c][j]
      /\ handed'[c][Len(handed[c]) + 1] = got[t]
      /\ DOMAIN handed' = 1 .. m_subscribers
      /\ DOMAIN handed'[c] = 1 .. Len(handed[c]) + 1
      /\ \A i \in 1 .. m_subscribers : i # c => handed'[i] = handed[i]
      /\ next'[t] = c + 1
      /\ \A u \in Thread : u # t => next'[u] = next[u]
      /\ UNCHANGED <<queue, sent, m_subscribers, since, pc, got, last, received, overlapped>>
  BY <1>2, CallEffect
<1>4. PICK n \in Nat : n = Len(received)
  BY <1>1 DEF Indices
<1>5. PICK k \in 1 .. n : Holds(t, k)
  BY <1>3, <1>4 DEF OrderInv, LoopsHold
<1>6. PICK h \in Nat : h = Len(handed[c])
  BY <1>1, <1>3 DEF Indices
<1>7. /\ got[t] = received[k] /\ since[c] < k /\ since[c] \in Nat
      /\ \A j \in 1 .. h : handed[c][j] # received[k]
  <2>1. c \in next[t] .. last[t]
    BY <1>1, <1>2, <1>3 DEF Indices
  <2>2. since[c] \in Nat
    BY <1>1, <1>3 DEF Indices
  <2> QED BY <1>5, <1>6, <2>1, <2>2 DEF Holds
<1>8. \A j \in 1 .. h + 1 : j \in 1 .. h \/ j = h + 1
  OBVIOUS
<1>9. Rising' /\ Solo' /\ DistinctGot'
  BY <1>3 DEF OrderInv, Rising, Solo, DistinctGot
<1>10. FromLog'
  <2>1. ASSUME NEW i \in 1 .. m_subscribers
        PROVE  /\ since[i] <= n
               /\ \A j \in 1 .. Len(handed[i]) :
                    \E l \in since[i] + 1 .. n : handed[i][j] = received[l]
    BY <1>4 DEF OrderInv, FromLog
  <2>2. ASSUME NEW i \in 1 .. m_subscribers
        PROVE  \A j \in 1 .. Len(handed'[i]) :
                 \E l \in since[i] + 1 .. n : handed'[i][j] = received[l]
    <3>1. CASE i = c
      <4>1. k \in since[c] + 1 .. n
        BY <1>7
      <4>2. \A j \in 1 .. h : \E l \in since[c] + 1 .. n : handed'[c][j] = received[l]
        BY ONLY <2>1, <1>3, <1>6
      <4>3. handed'[c][h + 1] = received[k] /\ Len(handed'[c]) = h + 1
        BY ONLY <1>3, <1>6, <1>7
      <4> QED BY <3>1, <4>1, <4>2, <4>3, <1>8
    <3>2. CASE i # c
      BY ONLY <3>2, <2>1, <1>3
    <3> QED BY <3>1, <3>2
  <2> QED BY <2>1, <2>2, <1>3, <1>4 DEF FromLog
<1>11. LoopsHold'
  <2> SUFFICES ASSUME NEW u \in Thread, pc[u] = "for"
               PROVE  \E l \in 1 .. n : Holds(u, l)'
    BY <1>3, <1>4 DEF LoopsHold
  <2>1. PICK l \in 1 .. n : Holds(u, l) /\ (u = t => l = k)
    BY <1>4, <1>5 DEF OrderInv, LoopsHold
  <2>2. \A i \in next[u] .. last[u] : i \in 1 .. m_subscribers
    BY <1>1 DEF Indices
  <2>3. \A i \in next'[u] .. last[u] : i \in next[u] .. last[u] /\ (i = c => u # t)
    <3>1. next[u] \in Nat /\ last[u] \in Nat
      BY <1>1 DEF Indices
    <3> QED BY <3>1, <1>2, <1>3
  <2>4. u # t => received[l] # received[k]
    BY <2>1, <1>3, <1>7 DEF OrderInv, DistinctGot, Holds
  <2>5. \A i \in next'[u] .. last[u] :
          /\ since[i] < l
          /\ \A j \in 1 .. Len(handed'[i]) : handed'[i][j] # received[l]
    <3> TAKE i \in next'[u] .. last[u]
    <3>1. since[i] < l /\ \A j \in 1 .. Len(handed[i]) : handed[i][j] # received[l]
      BY <2>1, <2>3 DEF Holds
    <3>2. CASE i = c
      BY <3>1, <3>2, <2>3, <2>4, <1>3, <1>6, <1>7, <1>8
    <3>3. CASE i # c
      BY <3>1, <3>3, <2>2, <2>3, <1>3
    <3> QED BY <3>2, <3>3
  <2>6. Holds(u, l)'
    BY <2>1, <2>5, <1>3 DEF Holds
  <2> QED BY <2>6
<1>12. InOrder'
  <2>1. CASE overlapped
    BY <2>1, <1>3 DEF InOrder
  <2>2. CASE ~overlapped
    <3>1. \A u \in Thread : pc[u] = "for" => u = t
      BY <2>2, <1>3 DEF OrderInv, Solo
    <3>2. Owed(c) = 1 /\ Owed(c)' = 0
      <4>1. Pending(c)
        BY <1>2, <1>3 DEF Pending
      <4>2. ~Pending(c)'
        BY <3>1, <1>3 DEF Pending
      <4> QED BY <4>1, <4>2 DEF Owed
    <3>3. \A i \in 1 .. m_subscribers : i # c => Owed(i)' = Owed(i)
      <4> TAKE i \in 1 .. m_subscribers
      <4> HAVE i # c
      <4>1. next[t] <= i <=> next'[t] <= i
        BY <1>2, <1>3
      <4>2. Pending(i) <=> next[t] <= i /\ i <= last[t]
        BY <3>1, <1>3 DEF Pending
      <4>3. Pending(i)' <=> next'[t] <= i /\ i <= last[t]
        BY <3>1, <1>3 DEF Pending
      <4> QED BY <4>1, <4>2, <4>3 DEF Owed
    <3>4. k = n
      BY <2>2, <1>4, <1>5 DEF Holds
    <3>5. ASSUME NEW i \in 1 .. m_subscribers
          PROVE  /\ Len(handed[i]) = n - since[i] - Owed(i) /\ since[i] \in Nat
                 /\ \A j \in 1 .. Len(handed[i]) : handed[i][j] = received[since[i] + j]
      BY <2>2, <1>1, <1>4 DEF OrderInv, InOrder, Indices
    <3>6. ASSUME NEW i \in 1 .. m_subscribers
          PROVE  /\ Len(handed'[i]) = n - since[i] - Owed(i)'
                 /\ \A j \in 1 .. Len(handed'[i]) : handed'[i][j] = received[since[i] + j]
      <4>1. CASE i = c
        <5>1. h = n - since[c] - 1
          BY <4>1, <3>2, <3>5, <1>6
        <5>2. since[c] + (h + 1) = k
          BY <5>1, <3>4, <1>7
        <5>3. Len(handed'[c]) = n - since[c] - Owed(c)'
          BY <5>1, <3>2, <1>3, <1>6, <1>7
        <5>4. \A j \in 1 .. h : handed'[c][j] = received[since[c] + j]
          BY <4>1, <3>5, <1>3, <1>6
        <5>5. handed'[c][h + 1] = received[since[c] + (h + 1)]
          BY <5>2, <1>3, <1>6, <1>7
        <5> QED BY <4>1, <5>3, <5>4, <5>5, <1>3, <1>6, <1>8
      <4>2. CASE i # c
        BY <4>2, <3>3, <3>5, <1>3
      <4> QED BY <4>1, <4>2
    <3> QED BY <3>6, <1>3, <1>4 DEF InOrder
  <2> QED BY <2>1, <2>2
<1>13. HandedOnce'
  <2>1. \A i \in 1 .. m_subscribers :
          \A j, l \in DOMAIN handed[i] : handed[i][j] = handed[i][l] => j = l
    BY <1>1 DEF OrderInv, HandedOnce, Indices
  <2>2. ASSUME NEW i \in 1 .. m_subscribers
        PROVE  \A j, l \in DOMAIN handed'[i] : handed'[i][j] = handed'[i][l] => j = l
    <3>1. CASE i = c
      <4>1. DOMAIN handed[c] = 1 .. h
        BY <1>1, <1>3, <1>6 DEF Indices
      <4>2. \A j \in 1 .. h : handed'[c][j] = handed[c][j] /\ handed'[c][j] # received[k]
        BY <1>3, <1>6, <1>7
      <4>3. handed'[c][h + 1] = received[k]
        BY <1>3, <1>6, <1>7
      <4> QED BY <3>1, <4>1, <4>2, <4>3, <2>1, <1>3, <1>6, <1>8
    <3>2. CASE i # c
      BY <3>2, <2>1, <1>3
    <3> QED BY <3>1, <3>2
  <2> QED BY <2>2, <1>3 DEF HandedOnce
<1> QED BY ONLY TypeInv', <1>9, <1>10, <1>11, <1>12, <1>13 DEF OrderInv

LEMMA OrderNext == OrderInv /\ [Next]_vars => OrderInv'
<1> SUFFICES ASSUME OrderInv, [Next]_vars PROVE OrderInv'
  OBVIOUS
<1>1. TypeInv'
  BY TypeNext DEF OrderInv
<1>2. CASE UNCHANGED coreVars
  BY <1>1, <1>2, OrderFrame
<1>3. UNCHANGED vars \/ connect \/ subscribe \/ CloseSocket \/ DeleteThread => UNCHANGED coreVars
  BY DEF vars, connect, subscribe, CloseSocket, DeleteThread, coreVars, socketVars,
         subscriberVars, loopVars
<1>4. CASE Notify
  BY <1>1, <1>4, OrderNotify
<1>5. CASE addCallback
  BY <1>1, <1>5, OrderAdd
<1>6. ASSUME NEW t \in Thread, Enter(t) PROVE OrderInv'
  <2>1. UNCHANGED socketVars
    BY <1>6 DEF Enter
  <2> QED BY <2>1, <1>1, <1>6, OrderEnter
<1>7. ASSUME NEW t \in Thread, Loop(t) PROVE OrderInv'
  BY <1>1, <1>7, OrderReceive, OrderLeave, OrderCall DEF Loop
<1> QED BY <1>2, <1>3, <1>4, <1>5, <1>6, <1>7
        DEF Next, Owner, listenThread, listenBlock, Thread

LEMMA OrderAlways == Spec => []OrderInv
<1> QED BY OrderInit, OrderNext, PTL DEF Spec

\* No event is handed to a callback twice, however many loops there are.
THEOREM CallbackSeesEventOnce == Spec => []HandedOnce
<1>1. OrderInv => HandedOnce
  BY DEF OrderInv
<1> QED BY <1>1, OrderAlways, PTL

\* Every callback sees exactly the events received since it was added, in
\* order, as long as no two loops have run at once: whatever callbacks are
\* added, loops ended and begun again, and events lost in the meantime.
THEOREM CallbacksSeeAllInOrder == Spec => []HandedInOrder
<1>1. OrderInv => HandedInOrder
  <2> SUFFICES ASSUME OrderInv, ~overlapped, NEW i \in 1 .. m_subscribers
               PROVE  handed[i] = SubSeq(received, since[i] + 1,
                                         Len(received) - (IF Pending(i) THEN 1 ELSE 0))
    BY DEF HandedInOrder
  <2>1. Indices
    BY TypeIndices DEF OrderInv
  <2>2. received \in Seq(Event) /\ handed[i] \in Seq(Event)
    BY DEF OrderInv, TypeInv, TypeOK
  <2>3. PICK n \in Nat : n = Len(received)
    BY <2>1 DEF Indices
  <2>4. PICK a \in Nat : a = since[i]
    BY <2>1 DEF Indices
  <2>5. PICK h \in Nat : h = Len(handed[i])
    BY <2>1 DEF Indices
  <2>6. Owed(i) \in {0, 1}
    BY DEF Owed
  <2>7. /\ h = n - a - Owed(i)
        /\ \A j \in 1 .. h : handed[i][j] = received[a + j]
    BY <2>3, <2>4, <2>5 DEF OrderInv, InOrder
  <2>8. n - Owed(i) = a + h
    BY <2>6, <2>7
  <2>9. SubSeq(received, a + 1, a + h) = handed[i]
    <3>1. a + h <= n
      BY <2>6, <2>7
    <3> DEFINE s == SubSeq(received, a + 1, a + h)
    <3>2. s \in Seq(Event) /\ Len(s) = h /\ \A j \in 1 .. h : s[j] = received[a + j]
      BY <2>2, <2>3, <3>1
    <3> HIDE DEF s
    <3>3. Len(s) = Len(handed[i]) /\ \A j \in 1 .. Len(s) : s[j] = handed[i][j]
      BY ONLY <3>2, <2>5, <2>7
    <3>4. s = handed[i]
      BY ONLY <3>2, <3>3, <2>2, SeqEqual
    <3> QED BY <3>4 DEF s
  <2> QED BY <2>3, <2>4, <2>8, <2>9 DEF Owed
<1> QED BY <1>1, OrderAlways, PTL

\* No loss goes unnoticed: the error the kernel has recorded is still to come,
\* or has ended a loop, or the object is gone.
THEOREM LossesAreReported == Spec => []LossIsReported
<1>1. Init => LossIsReported
  BY DEF Init, LossIsReported
<1>2. TypeInv /\ LossIsReported /\ [Next]_vars => LossIsReported'
  <2> SUFFICES ASSUME TypeInv, LossIsReported, [Next]_vars PROVE LossIsReported'
    OBVIOUS
  <2> USE DEF LossIsReported, Up, socketVars
  <2>1. CASE UNCHANGED vars
    BY <2>1 DEF vars
  <2>2. CASE connect \/ subscribe \/ CloseSocket \/ DeleteThread
    BY <2>2 DEF connect, subscribe, CloseSocket, DeleteThread, Free
  <2>3. CASE Notify
    BY <2>3 DEF Notify
  <2>4. CASE addCallback
    <3>1. status = "up" /\ UNCHANGED <<stage, lost, overrun, thrown>>
      BY <2>4 DEF addCallback, Free
    <3> QED BY ONLY <3>1, LossIsReported DEF LossIsReported, Up
  <2>5. ASSUME NEW t \in Thread, Enter(t) PROVE LossIsReported'
    BY <2>5 DEF Enter
  <2>6. ASSUME NEW t \in Thread, Receive(t) \/ Call(t) \/ Again(t) PROVE LossIsReported'
    BY <2>6 DEF Receive, Call, Again
  <2>7. ASSUME NEW t \in Thread, ReceiveFails(t) PROVE LossIsReported'
    BY <2>7 DEF ReceiveFails
  <2> QED BY <2>1, <2>2, <2>3, <2>4, <2>5, <2>6, <2>7
          DEF Next, Owner, Loop, listenThread, listenBlock, Thread
<1>3. Spec => []TypeInv
  BY TypeInit, TypeNext, PTL DEF Spec
<1> QED BY <1>1, <1>2, <1>3, PTL DEF Spec

-----------------------------------------------------------------------------
\* The connector is a feed.

LEMMA FeedInit == Init => Feed!Init
BY DEF Init, Feed!Init

\* recv() publishes, if every callback has had the event before.
LEMMA FeedPublish ==
  ASSUME OrderInv, NEW t \in Thread, Receive(t)
  PROVE  Feed!Next
<1>1. Indices
  BY TypeIndices DEF OrderInv
<1>2. queue \in Seq(Event) /\ queue # <<>>
  BY DEF Receive, OrderInv, TypeInv, TypeOK
<1>3. PICK e \in Event : e = Head(queue) /\ e = queue[1] /\ 1 \in 1 .. Len(queue)
  <2>1. Head(queue) \in Event /\ Head(queue) = queue[1] /\ Len(queue) \in Nat /\ Len(queue) > 0
    BY ONLY <1>2, TakeFirst
  <2> QED BY <2>1
<1>4. \A k \in 1 .. Len(received) : received[k] < e
  BY <1>3 DEF OrderInv, Rising
<1>5. Len(since) = m_subscribers
  BY <1>1 DEF OrderInv, TypeInv, TypeOK, Indices
<1>6. ~overlapped => \A i \in 1 .. m_subscribers : since[i] + Len(handed[i]) = Len(received)
  <2> SUFFICES ASSUME ~overlapped, NEW i \in 1 .. m_subscribers
               PROVE  since[i] + Len(handed[i]) = Len(received)
    OBVIOUS
  <2>1. \A u \in Thread : pc[u] # "for"
    BY DEF OrderInv, Solo, Receive
  <2>2. Owed(i) = 0
    BY <2>1 DEF Owed, Pending
  <2>3. Len(handed[i]) = Len(received) - since[i] - Owed(i)
    BY DEF OrderInv, InOrder
  <2> QED BY <2>2, <2>3, <1>1 DEF Indices
<1>7. received' = Append(received, e) /\ UNCHANGED <<since, handed, overlapped>>
  BY <1>3 DEF Receive, subscriberVars
<1>8. Feed!Publish(e)
  BY <1>4, <1>5, <1>6, <1>7 DEF Feed!Publish
<1> QED BY <1>8 DEF Feed!Next

\* The for gives, and in order if no other loop has run beside it.
LEMMA FeedGive ==
  ASSUME OrderInv, NEW t \in Thread, Call(t)
  PROVE  Feed!Next
<1>1. Indices
  BY TypeIndices DEF OrderInv
<1>2. PICK c \in 1 .. m_subscribers : c = next[t] /\ c <= last[t] /\ pc[t] = "for"
  BY CallEffect
<1>3. PICK k \in 1 .. Len(received) : Holds(t, k)
  BY <1>2 DEF OrderInv, LoopsHold
<1>4. c \in next[t] .. last[t]
  BY <1>1, <1>2 DEF Indices
<1>5. /\ since[c] < k /\ \A j \in 1 .. Len(handed[c]) : handed[c][j] # received[k]
      /\ got[t] = received[k]
      /\ ~overlapped => k = Len(received)
  BY <1>3, <1>4 DEF Holds
<1>6. ~overlapped => k = since[c] + Len(handed[c]) + 1
  <2> SUFFICES ASSUME ~overlapped PROVE k = since[c] + Len(handed[c]) + 1
    OBVIOUS
  <2>1. Owed(c) = 1
    BY <1>2 DEF Owed, Pending
  <2>2. Len(handed[c]) = Len(received) - since[c] - Owed(c)
    BY DEF OrderInv, InOrder
  <2> QED BY <2>1, <2>2, <1>1, <1>5 DEF Indices
<1>7. /\ handed' = [handed EXCEPT ![c] = Append(@, received[k])]
      /\ UNCHANGED <<received, since, overlapped>>
  BY <1>2, <1>5 DEF Call, subscriberVars
<1>8. Feed!Give(c, k)
  BY <1>5, <1>6, <1>7 DEF Feed!Give
<1>9. Len(since) = m_subscribers
  BY <1>1 DEF OrderInv, TypeInv, TypeOK, Indices
<1> QED BY <1>8, <1>9 DEF Feed!Next

LEMMA FeedNext == OrderInv /\ [Next]_vars => [Feed!Next]_(Feed!feedVars)
<1> SUFFICES ASSUME OrderInv, [Next]_vars PROVE [Feed!Next]_(Feed!feedVars)
  OBVIOUS
<1>1. CASE UNCHANGED <<received, since, handed, overlapped>>
  BY <1>1 DEF Feed!feedVars
<1>2. \/ UNCHANGED vars
      \/ connect \/ subscribe \/ CloseSocket \/ DeleteThread \/ Notify
      \/ \E t \in Thread : ReceiveFails(t) \/ Again(t)
      => UNCHANGED <<received, since, handed, overlapped>>
  BY DEF vars, connect, subscribe, CloseSocket, DeleteThread, Notify, ReceiveFails, Again,
         subscriberVars, loopVars
<1>3. CASE addCallback
  <2>1. Feed!Subscribe
    BY <1>3 DEF addCallback, Feed!Subscribe
  <2> QED BY <2>1 DEF Feed!Next
<1>4. ASSUME NEW t \in Thread, Enter(t) PROVE [Feed!Next]_(Feed!feedVars)
  <2>1. overlapped' \in BOOLEAN /\ UNCHANGED <<received, since, handed>>
    BY <1>4 DEF Enter, subscriberVars
  <2>2. overlapped \in BOOLEAN /\ (overlapped => overlapped')
    BY <1>4 DEF Enter, OrderInv, TypeInv, TypeOK
  <2>3. CASE overlapped'
    <3>1. Feed!Disturb
      BY <2>1, <2>3 DEF Feed!Disturb
    <3> QED BY <3>1 DEF Feed!Next
  <2>4. CASE ~overlapped'
    <3>1. overlapped' = overlapped
      BY <2>1, <2>2, <2>4
    <3> QED BY <2>1, <3>1, <1>1
  <2> QED BY <2>3, <2>4
<1>5. ASSUME NEW t \in Thread, Receive(t) \/ Call(t) PROVE [Feed!Next]_(Feed!feedVars)
  BY <1>5, FeedPublish, FeedGive
<1> QED BY <1>1, <1>2, <1>3, <1>4, <1>5
        DEF Next, Owner, Loop, listenThread, listenBlock, Thread

\* Nothing a connector does shows a callback what a feed would not.
THEOREM ConnectorIsAFeed == Spec => FeedSpec
<1>1. Spec => []OrderInv
  BY OrderAlways
<1>2. Init => Feed!Init
  BY FeedInit
<1>3. OrderInv /\ [Next]_vars => [Feed!Next]_(Feed!feedVars)
  BY FeedNext
<1> QED BY <1>1, <1>2, <1>3, PTL DEF Spec, FeedSpec, Feed!Spec

=============================================================================
