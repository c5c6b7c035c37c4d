----------------------------- MODULE RetryQueue -----------------------------
(***************************************************************************)
(* What a durable queue with retries promises, with no word of workers,    *)
(* claims, leases or crashes: each job is worked on by one attempt after   *)
(* another, at most MaxTries of them, each counted once, until one of      *)
(* them settles it; a settled job may be forgotten and never comes back.   *)
(***************************************************************************)
EXTENDS Naturals

CONSTANTS Jobs, MaxTries

VARIABLES state,  \* where each job is
          tries   \* the attempts recorded for it

qvars == <<state, tries>>

Settled == {"DELIVERED", "FAILED"}

Init ==
  /\ state = [j \in Jobs |-> "ABSENT"]
  /\ tries = [j \in Jobs |-> 0]

\* Jobs are put on the queue.
Add(S) ==
  /\ S # {} /\ \A j \in S : state[j] = "ABSENT"
  /\ state' = [j \in Jobs |-> IF j \in S THEN "WAITING" ELSE state[j]]
  /\ UNCHANGED tries

Attempt(j, after) ==
  /\ state[j] = "WAITING"
  /\ state' = [state EXCEPT ![j] = after]
  /\ tries' = [tries EXCEPT ![j] = @ + 1]

\* An attempt that settles nothing leaves at least one more.
Retry(j) == tries[j] + 1 < MaxTries /\ Attempt(j, "WAITING")

Settle(j) == tries[j] < MaxTries /\ \E after \in Settled : Attempt(j, after)

Forget(j) ==
  /\ state[j] \in Settled
  /\ state' = [state EXCEPT ![j] = "GONE"]
  /\ UNCHANGED tries

Next ==
  \/ \E S \in SUBSET Jobs : Add(S)
  \/ \E j \in Jobs : Retry(j) \/ Settle(j) \/ Forget(j)

Spec == Init /\ [][Next]_qvars
=============================================================================
