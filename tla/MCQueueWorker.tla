--------------------------- MODULE MCQueueWorker ---------------------------
(***************************************************************************)
(* Instances of QueueWorker for TLC.                                       *)
(***************************************************************************)
EXTENDS QueueWorker, TLC

Text(code, evidence) ==
  [code |-> code, prefix |-> {}, reply |-> evidence]
LocalError(evidence) ==
  [code |-> "none", prefix |-> evidence, reply |-> {}]

\* "421 try again", "550 5.1.1 user unknown" and a provider that timed out.
MCReplyErrors == {Text("4xx", {"hard"}), Text("5xx", {"hard"}), LocalError({"transient"})}

OneReply == {Text("4xx", {"hard"})}

\* A database that does not answer.
MCPassErrors == {LocalError({"transient"})}

\* A database that answers "relation ... does not exist".
MissingObjectErrors == {LocalError({"hard"})}

OneRetry == <<1>>

Symmetry == Permutations(Recipients) \cup Permutations(Instances)
=============================================================================
