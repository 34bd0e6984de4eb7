----------------------------- MODULE Ownership ------------------------------
(***************************************************************************)
(* What daemon/src/main.rs promises of every devnode, whatever the events, *)
(* timers and tasks behind it: one reader, or one retry, or nothing looks  *)
(* after it, and the count of its consecutive failures goes with it.       *)
(* Supervisor and Retrying both implement this module.                     *)
(***************************************************************************)
EXTENDS Naturals

CONSTANTS
  Devnodes,     \* hidraw device nodes
  MaxFailures   \* a count of failures may stop here

VARIABLE
  own           \* who looks after each devnode, after how many failures

Owned(by, failures) == [by |-> by, failures |-> failures]
Nobody == Owned("nobody", 0)

\* The count may go on, begin again or stop at its limit.
Counted(failures, next) ==
  next \in {1, failures + 1} \/ (failures = MaxFailures /\ next = failures)

\* Fresh evidence: a reader with a clean record, instead of whatever was.
Adopted(d) == own'[d] = Owned("reader", 0)

\* The device has gone.
Forgotten(d) == own'[d] = Nobody

\* A reader fails: only what was being read is ever tried again.
Failed(d) ==
  /\ own[d].by = "reader"
  /\ own'[d] = Owned("retry", own'[d].failures)
  /\ Counted(own[d].failures, own'[d].failures)

\* Its retry comes due and takes the record over.
Retried(d) ==
  /\ own[d].by = "retry"
  /\ own'[d] = Owned("reader", own[d].failures)

Init == own = [d \in Devnodes |-> Nobody]

Next ==
  \A d \in Devnodes :
    \/ own'[d] = own[d]
    \/ Adopted(d) \/ Forgotten(d) \/ Failed(d) \/ Retried(d)

Spec == Init /\ [][Next]_own
=============================================================================
