----------------------------- MODULE ChangeLog -----------------------------
(***************************************************************************)
(* What the capture change feed promises its subscribers: a log in which   *)
(* every change has its place, read by each subscriber one by one from the *)
(* place where it subscribed.  A subscriber that falls behind by more than *)
(* the feed retains is told so; it never skips a change silently.          *)
(***************************************************************************)
EXTENDS Integers, Sequences

CONSTANTS Changes, Subscribers, Retained

VARIABLES log,    \* every change ever published
          place,  \* the next epoch each subscriber reads, 0 without one
          lost    \* the subscribers that were told of a gap

logVars == <<log, place, lost>>

logInit ==
  /\ log = <<>>
  /\ place = [s \in Subscribers |-> 0]
  /\ lost = {}

Record(c) == log' = Append(log, c) /\ UNCHANGED <<place, lost>>

\* A subscription starts at the first change after the one that was the last
\* when it began.
Join(s) ==
  /\ place[s] = 0
  /\ place' = [place EXCEPT ![s] = Len(log) + 1]
  /\ UNCHANGED <<log, lost>>

Deliver(s) ==
  /\ place[s] \in 1..Len(log) /\ s \notin lost
  /\ place' = [place EXCEPT ![s] = @ + 1]
  /\ UNCHANGED <<log, lost>>

Overrun(s) ==
  /\ place[s] # 0 /\ place[s] + Retained <= Len(log)
  /\ lost' = lost \union {s}
  /\ UNCHANGED <<log, place>>

Leave(s) ==
  /\ place' = [place EXCEPT ![s] = 0]
  /\ lost' = lost \ {s}
  /\ UNCHANGED log

logNext ==
  \/ \E c \in Changes : Record(c)
  \/ \E s \in Subscribers : Join(s) \/ Deliver(s) \/ Overrun(s) \/ Leave(s)

logSpec == logInit /\ [][logNext]_logVars
=============================================================================
