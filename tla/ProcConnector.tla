--------------------------- MODULE ProcConnector ---------------------------
(***************************************************************************)
(* class ProcConnector (src/procconnector.h, src/procconnector.cpp): a     *)
(* netlink socket on which the kernel reports forks, execs and exits, and  *)
(* the callbacks that receive them, called from the loop of listen().      *)
(*                                                                         *)
(* The loop runs in the caller (listen(true)) or in a thread of its own    *)
(* (listen(false)), beside the caller, which may meanwhile add callbacks,  *)
(* listen again or destroy the object.  The socket's queue is external.    *)
(* Events are numbered in the order in which the kernel sends them.        *)
(*                                                                         *)
(* A definition f_Variant is a faulty form of f that no specification      *)
(* uses: it is there to see which property would notice the fault.         *)
(***************************************************************************)
EXTENDS Integers, Sequences

CONSTANTS
  Main,         \* the thread that owns the object
  Worker,       \* the threads listen(false) may start
  MaxEvents,    \* bound: events the kernel sends
  Backlog,      \* events the socket's receive queue holds
  MaxSubs,      \* bound: callbacks added
  SendMayFail   \* may bind() and send() fail

ASSUME ConnectorAssumption ==
  /\ Main \notin Worker
  /\ MaxEvents \in Nat /\ Backlog \in Nat /\ MaxSubs \in Nat
  /\ SendMayFail \in BOOLEAN

Thread == Worker \cup {Main}

VARIABLES
  stage,      \* where the object is in its life
  leaked,     \* kernel: a socket nobody can close holds this process's address
  queue,      \* kernel: the events the socket holds
  overrun,    \* kernel: the next recv() will fail with ENOBUFS
  sent,       \* kernel: events sent so far
  m_thread_listen,  \* has listen(false) been called
  m_subscribers,    \* how many callbacks there are; each has its index
  pc,         \* per thread: outside the loop, before recv(), or in the for
  got,        \* per thread: the event it received last
  next,       \* per thread: the callback the for is at
  last,       \* per thread: the last one, fixed when the for begins
  status,     \* "up", "aborted" by std::terminate, or "undefined" behaviour
  received,   \* history: the events recv() returned
  handed,     \* history: per callback, the events it was called with
  since,      \* history: per callback, how many were received before it
  lost,       \* history: an event found the queue full
  thrown,     \* history: listen(true) has thrown
  overlapped  \* history: two loops have been running at once

socketVars == <<leaked, queue, overrun, sent, lost>>
subscriberVars == <<m_subscribers, since>>
loopVars == <<pc, got, next, last, received, handed>>
vars == <<stage, socketVars, m_thread_listen, subscriberVars, loopVars,
          status, thrown, overlapped>>

-----------------------------------------------------------------------------
Up == status = "up"

\* The thread that owns the object is not inside one of its calls.
Free == Up /\ stage = "ready" /\ pc[Main] = "out"

\* connect(): the address is the pid, so bind() fails while another socket
\* of this process has it; the socket is then closed.  socket() itself may
\* fail and leaves no trace.
connect ==
  /\ Up /\ stage = "none"
  /\ ~leaked
  /\ stage' = "bound"
  /\ UNCHANGED <<socketVars, m_thread_listen, subscriberVars, loopVars, status,
                 thrown, overlapped>>

\* subscribe(), the end of the constructor.  When it throws, the destructor
\* does not run and m_nl_sock stays open and bound.
subscribe ==
  /\ Up /\ stage = "bound"
  /\ \/ stage' = "ready" /\ leaked' = leaked
     \/ SendMayFail /\ stage' = "none" /\ leaked' = TRUE
  /\ UNCHANGED <<queue, overrun, sent, lost, m_thread_listen, subscriberVars,
                 loopVars, status, thrown, overlapped>>

\* The kernel sends an event; a full queue drops it and records the error.
Notify ==
  /\ Up /\ stage \in {"bound", "ready", "closed"}
  /\ sent < MaxEvents
  /\ sent' = sent + 1
  /\ IF Len(queue) < Backlog
     THEN queue' = Append(queue, sent + 1) /\ UNCHANGED <<overrun, lost>>
     ELSE queue' = queue /\ overrun' = TRUE /\ lost' = TRUE
  /\ UNCHANGED <<stage, leaked, m_thread_listen, subscriberVars, loopVars, status,
                 thrown, overlapped>>

\* push_back on the vector that a loop may be iterating over: if it moves the
\* elements the iterators dangle.
addCallback ==
  /\ Free
  /\ m_subscribers < MaxSubs
  /\ m_subscribers' = m_subscribers + 1
  /\ since' = Append(since, Len(received))
  /\ handed' = Append(handed, <<>>)
  /\ status' \in {"up"} \cup (IF \E t \in Thread : pc[t] = "for"
                              THEN {"undefined"} ELSE {})
  /\ UNCHANGED <<stage, socketVars, m_thread_listen, pc, got, next, last, received,
                 thrown, overlapped>>

Enter(t) ==
  /\ pc[t] = "out"
  /\ pc' = [pc EXCEPT ![t] = "recv"]
  /\ overlapped' = (overlapped \/ \E u \in Thread : pc[u] # "out")
  /\ UNCHANGED <<stage, socketVars, subscriberVars, got, next, last, received,
                 handed, status, thrown>>

\* listen(false).  A second call forgets the first thread, which goes on.
listenThread(w) ==
  /\ Free
  /\ Enter(w)
  /\ m_thread_listen' = TRUE

\* listen(true)
listenBlock ==
  /\ Free
  /\ Enter(Main)
  /\ UNCHANGED m_thread_listen

\* processEvent() with an event there; after EINTR it is just called again.
Receive_SkipsOne(t) ==
  /\ Up /\ pc[t] = "recv"
  /\ ~overrun /\ queue # <<>>
  /\ got' = [got EXCEPT ![t] = Head(queue)]
  /\ queue' = Tail(queue)
  /\ received' = Append(received, Head(queue))
  /\ next' = [next EXCEPT ![t] = 2]
  /\ last' = [last EXCEPT ![t] = m_subscribers]
  /\ pc' = [pc EXCEPT ![t] = "for"]
  /\ UNCHANGED <<stage, leaked, overrun, sent, lost, m_thread_listen,
                 subscriberVars, handed, status, thrown, overlapped>>

Receive_Peeks(t) ==
  /\ Up /\ pc[t] = "recv"
  /\ ~overrun /\ queue # <<>>
  /\ got' = [got EXCEPT ![t] = Head(queue)]
  /\ received' = Append(received, Head(queue))
  /\ next' = [next EXCEPT ![t] = 1]
  /\ last' = [last EXCEPT ![t] = m_subscribers]
  /\ pc' = [pc EXCEPT ![t] = "for"]
  /\ UNCHANGED <<stage, socketVars, m_thread_listen, subscriberVars, handed,
                 status, thrown, overlapped>>

Receive(t) ==
  /\ Up /\ pc[t] = "recv"
  /\ ~overrun /\ queue # <<>>
  /\ got' = [got EXCEPT ![t] = Head(queue)]
  /\ queue' = Tail(queue)
  /\ received' = Append(received, Head(queue))
  /\ next' = [next EXCEPT ![t] = 1]
  /\ last' = [last EXCEPT ![t] = m_subscribers]
  /\ pc' = [pc EXCEPT ![t] = "for"]
  /\ UNCHANGED <<stage, leaked, overrun, sent, lost, m_thread_listen,
                 subscriberVars, handed, status, thrown, overlapped>>

\* processEvent() when recv() fails: ENOBUFS after a loss, EBADF once the
\* destructor has closed the socket.  The exception ends listen(true); in a
\* thread nothing catches it.
ReceiveFails_Ignored(t) ==
  /\ Up /\ pc[t] = "recv"
  /\ overrun \/ stage = "closed"
  /\ overrun' = FALSE
  /\ UNCHANGED <<stage, leaked, queue, sent, lost, m_thread_listen,
                 subscriberVars, loopVars, status, thrown, overlapped>>

ReceiveFails(t) ==
  /\ Up /\ pc[t] = "recv"
  /\ overrun \/ stage = "closed"
  /\ overrun' = FALSE
  /\ IF t = Main
     THEN pc' = [pc EXCEPT ![t] = "out"] /\ thrown' = TRUE /\ status' = status
     ELSE status' = "aborted" /\ UNCHANGED <<pc, thrown>>
  /\ UNCHANGED <<stage, leaked, queue, sent, lost, m_thread_listen,
                 subscriberVars, got, next, last, received, handed, overlapped>>

\* One round of the for of processEvent().
Call_OnceMore(t) ==
  /\ Up /\ pc[t] = "for"
  /\ next[t] <= last[t] + 1
  /\ handed' = [handed EXCEPT ![next[t]] = Append(@, got[t])]
  /\ next' = [next EXCEPT ![t] = @ + 1]
  /\ UNCHANGED <<stage, socketVars, m_thread_listen, subscriberVars, pc, got, last,
                 received, status, thrown, overlapped>>

Call(t) ==
  /\ Up /\ pc[t] = "for"
  /\ next[t] <= last[t]
  /\ handed' = [handed EXCEPT ![next[t]] = Append(@, got[t])]
  /\ next' = [next EXCEPT ![t] = @ + 1]
  /\ UNCHANGED <<stage, socketVars, m_thread_listen, subscriberVars, pc, got, last,
                 received, status, thrown, overlapped>>

\* The for is through, and listenBlock() calls processEvent() again.
Again_Returns(t) ==
  /\ Up /\ pc[t] = "for"
  /\ next[t] > last[t]
  /\ pc' = [pc EXCEPT ![t] = "out"]
  /\ UNCHANGED <<stage, socketVars, m_thread_listen, subscriberVars, got, next, last,
                 received, handed, status, thrown, overlapped>>

Again(t) ==
  /\ Up /\ pc[t] = "for"
  /\ next[t] > last[t]
  /\ pc' = [pc EXCEPT ![t] = "recv"]
  /\ UNCHANGED <<stage, socketVars, m_thread_listen, subscriberVars, got, next, last,
                 received, handed, status, thrown, overlapped>>

\* The destructor: close() first.  A recv() that is under way keeps the
\* socket until it returns; the next one fails...
CloseSocket ==
  /\ Free
  /\ stage' = "closed"
  /\ UNCHANGED <<socketVars, m_thread_listen, subscriberVars, loopVars, status,
                 thrown, overlapped>>

\* ... then the std::thread, which is still joinable: nothing has joined it.
DeleteThread ==
  /\ Up /\ stage = "closed"
  /\ IF m_thread_listen THEN status' = "aborted" /\ stage' = stage
     ELSE stage' = "gone" /\ status' = status
  /\ UNCHANGED <<socketVars, m_thread_listen, subscriberVars, loopVars, thrown,
                 overlapped>>

-----------------------------------------------------------------------------
Init ==
  /\ stage = "none"
  /\ leaked = FALSE
  /\ queue = <<>>
  /\ overrun = FALSE
  /\ sent = 0
  /\ m_thread_listen = FALSE
  /\ m_subscribers = 0
  /\ pc = [t \in Thread |-> "out"]
  /\ got = [t \in Thread |-> 0]
  /\ next = [t \in Thread |-> 1]
  /\ last = [t \in Thread |-> 0]
  /\ status = "up"
  /\ received = <<>>
  /\ handed = <<>>
  /\ since = <<>>
  /\ lost = FALSE
  /\ thrown = FALSE
  /\ overlapped = FALSE

Loop(t) == Receive(t) \/ ReceiveFails(t) \/ Call(t) \/ Again(t)

Owner ==
  \/ connect
  \/ subscribe
  \/ addCallback
  \/ \E w \in Worker : listenThread(w)
  \/ listenBlock
  \/ CloseSocket
  \/ DeleteThread

Next ==
  \/ Owner
  \/ Notify
  \/ \E t \in Thread : Loop(t)

Spec == Init /\ [][Next]_vars

\* The scheduler runs every thread, and recv() blocks only on an empty queue.
FairSpec == Spec /\ \A t \in Thread : WF_vars(Loop(t))

-----------------------------------------------------------------------------
Event == 1 .. MaxEvents

\* No queue, index or callback list leaves its range: in particular the for
\* of processEvent() never calls beyond the callbacks it began with.
TypeOK ==
  /\ stage \in {"none", "bound", "ready", "closed", "gone"}
  /\ {leaked, overrun, lost, thrown, overlapped, m_thread_listen} \subseteq BOOLEAN
  /\ queue \in Seq(Event) /\ Len(queue) <= Backlog
  /\ sent \in 0 .. MaxEvents
  /\ m_subscribers \in 0 .. MaxSubs
  /\ pc \in [Thread -> {"out", "recv", "for"}]
  /\ got \in [Thread -> Event \cup {0}]
  /\ next \in [Thread -> 1 .. MaxSubs + 1]
  /\ last \in [Thread -> 0 .. MaxSubs]
  /\ status \in {"up", "aborted", "undefined"}
  /\ received \in Seq(Event)
  /\ handed \in [1 .. m_subscribers -> Seq(Event)]
  /\ since \in [1 .. m_subscribers -> 0 .. MaxEvents]

\* Callback i is still to be called with the event received last.
Pending(i) == \E t \in Thread : pc[t] = "for" /\ next[t] <= i /\ i <= last[t]

\* Every callback is called with every event received since it was added,
\* once, in the order of reception - also one that is added while the loop
\* runs, and across a listen(true) that threw and was called again - as long
\* as no two loops run at once.
HandedInOrder ==
  Up /\ ~overlapped =>
    \A i \in 1 .. m_subscribers :
      handed[i] = SubSeq(received, since[i] + 1,
                         Len(received) - (IF Pending(i) THEN 1 ELSE 0))

\* Even two loops together call a callback with no event twice.
HandedOnce ==
  \A i \in DOMAIN handed : \A j, k \in DOMAIN handed[i] :
    handed[i][j] = handed[i][k] => j = k

\* An event the kernel had to drop never goes unnoticed: the error is
\* waiting, or has ended a loop, or the object was destroyed first.
LossIsReported ==
  lost => overrun \/ thrown \/ ~Up \/ stage \in {"closed", "gone"}

\* An event that is in the socket while a thread listens reaches every
\* callback there is, unless the program dies.
Handed(n, i) == i \in DOMAIN handed /\ \E j \in DOMAIN handed[i] : handed[i][j] = n

EventuallyHanded ==
  \A n \in Event, i \in 1 .. MaxSubs :
    ( /\ Up /\ i <= m_subscribers
      /\ \E k \in DOMAIN queue : queue[k] = n
      /\ \E w \in Worker : pc[w] # "out" ) ~> (Handed(n, i) \/ ~Up)

\* The connector is a feed: reception is the publishing of an event, a loop
\* that goes through the callbacks gives it to them, and two loops at once
\* disturb the feed.
Feed == INSTANCE ProcFeed WITH
          Event   <- Event,
          log     <- received,
          start   <- since,
          given   <- handed,
          orderly <- ~overlapped

\* No order of receptions, subscriptions, failures and loops shows a callback
\* anything a feed would not.
FeedSpec == Feed!Spec

\* A program that makes a connector, adds a callback, listens and returns,
\* as the test does, ends in good order.
EndsInGoodOrder == status # "aborted"
=============================================================================
