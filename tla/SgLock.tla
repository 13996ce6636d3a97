------------------------------- MODULE SgLock -------------------------------
(***************************************************************************)
(* The SG-Ready lock-time ledger of rules_engine.py, as operators on one   *)
(* rule's list of periods.  A period is [start, end]; `end' is None while  *)
(* the period is open.  The list is kept as a set: the code never looks at *)
(* positions except to find the last open period, and two equal entries    *)
(* can only be periods of length zero.  Time is in whole minutes.          *)
(***************************************************************************)
EXTENDS Integers, FiniteSetsExt

CONSTANTS None,     \* Python's None
          Window,   \* the sliding window: 24 h
          Cap       \* sg_ready_lock_cap_minutes; 0 disables the cap

Period == [start : Nat, end : Nat \cup {None}]

OpenPeriods(periods) == {q \in periods : q.end = None}

EndOf(q, t) == IF q.end = None THEN t ELSE q.end

(* Periods that ended before the window are dropped; an open one is kept.  *)
PruneByStart(periods, t) == {q \in periods : q.start > t - Window}  \* mutant
Prune(periods, t) == {q \in periods : EndOf(q, t) > t - Window}

(* Minutes of one period inside the window, max(0.0, end - window_start).  *)
Minutes(q, t) ==
  LET from == IF q.start > t - Window THEN q.start ELSE t - Window
  IN  IF EndOf(q, t) > from THEN EndOf(q, t) - from ELSE 0

Used(periods, t) == MapThenSumSet(LAMBDA q : Minutes(q, t), Prune(periods, t))

CapPassed(periods, t) == Cap > 0 /\ Used(periods, t) > Cap           \* mutant
CapReached(periods, t) == Cap > 0 /\ Used(periods, t) >= Cap

LastOpen(periods) ==
  CHOOSE q \in OpenPeriods(periods) : \A r \in OpenPeriods(periods) : r.start <= q.start

(* After a successful write: a lock opens a period unless one is open, any *)
(* other value closes the last open one.                                   *)
RecordAlways(periods, t, isLock) ==  \* mutant: a second open period
  IF isLock THEN periods \cup {[start |-> t, end |-> None]} ELSE periods
Record(periods, t, isLock) ==
  IF isLock = (OpenPeriods(periods) # {})
  THEN periods
  ELSE IF isLock
       THEN periods \cup {[start |-> t, end |-> None]}
       ELSE (periods \ {LastOpen(periods)})
              \cup {[start |-> LastOpen(periods).start, end |-> t]}
=============================================================================
