------------------------------ MODULE ProcFeed ------------------------------
(***************************************************************************)
(* What class ProcConnector promises to the callbacks of                   *)
(* src/procconnector.h, without sockets, threads and loops: a log of       *)
(* events, and for every subscriber the part of the log it has been given. *)
(*                                                                         *)
(* While the feed is orderly a subscriber is given the events in the       *)
(* order of the log, from the one after its subscription on, and no event  *)
(* enters the log before every subscriber has had the one before.  Once    *)
(* disturbed (two loops listen) the order is lost, but no subscriber is    *)
(* ever given an event twice, or one from before its subscription.         *)
(***************************************************************************)
EXTENDS Integers, Sequences

CONSTANT Event   \* the events there are, a set of integers

VARIABLES
  log,      \* the events in the order of reception
  start,    \* per subscriber, the length of the log when it subscribed
  given,    \* per subscriber, the events it has been given
  orderly   \* has one loop listened at a time so far

feedVars == <<log, start, given, orderly>>

Init ==
  /\ log = <<>>
  /\ start = <<>>
  /\ given = <<>>
  /\ orderly = TRUE

\* An event newer than all before it.
Publish(e) ==
  /\ \A k \in 1 .. Len(log) : log[k] < e
  /\ orderly => \A i \in 1 .. Len(start) : start[i] + Len(given[i]) = Len(log)
  /\ log' = Append(log, e)
  /\ UNCHANGED <<start, given, orderly>>

Subscribe ==
  /\ start' = Append(start, Len(log))
  /\ given' = Append(given, <<>>)
  /\ UNCHANGED <<log, orderly>>

\* Subscriber i is given the event at position k of the log.
Give(i, k) ==
  /\ start[i] < k
  /\ \A j \in 1 .. Len(given[i]) : given[i][j] # log[k]
  /\ orderly => k = start[i] + Len(given[i]) + 1
  /\ given' = [given EXCEPT ![i] = Append(@, log[k])]
  /\ UNCHANGED <<log, start, orderly>>

Disturb ==
  /\ orderly' = FALSE
  /\ UNCHANGED <<log, start, given>>

Next ==
  \/ \E e \in Event : Publish(e)
  \/ Subscribe
  \/ \E i \in 1 .. Len(start), k \in 1 .. Len(log) : Give(i, k)
  \/ Disturb

Spec == Init /\ [][Next]_feedVars
=============================================================================
