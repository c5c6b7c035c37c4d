------------------------------ MODULE SentCopy ------------------------------
(***************************************************************************)
(* Sent copies: the jobs a send leaves behind                              *)
(* (sent_copy/repositories/stores/postgres/store.go), the workers of every *)
(* instance that file them (usecases/worker.go), and the tenant's setting  *)
(* they obey (usecases/settings.go, entities/settings.go).                 *)
(*                                                                         *)
(* A worker claims a batch at once and files it one job after another.  A  *)
(* claim is a random token and the time it was made; a claim older than    *)
(* the lease may be taken over.  Time is counted in ticks, and an append   *)
(* takes at most AppendLimit of them (imapTimeout).                        *)
(***************************************************************************)
EXTENDS Naturals, Sequences, FiniteSets

CONSTANTS Jobs,          \* messages that asked for a copy
          Instances,     \* processes, one worker each
          BatchSize,     \* workerBatchSize
          Lease,         \* claimLease
          AppendLimit,   \* imapTimeout
          MaxAttempts,   \* maxAttempts
          MaxNow         \* bound: ticks

VARIABLES jobs,          \* the table; a job's row is gone when .at is "gone", and was
                         \* never written when it is "unqueued"
          batch,         \* each worker's claimed jobs, the first being filed
          setting,       \* the tenant's mode, and whether its login is stored
          edit,          \* an Update of the setting between its read and save
          now,
          outcome        \* history: what became of each job's copies

cvars == <<jobs, batch, setting, edit, now, outcome>>

Modes == {"none", "bcc", "shared", "peruser"}
NoToken == <<>>
NoEdit == [pc |-> "idle", password |-> FALSE]

Init ==
    /\ jobs = [j \in Jobs |-> [at |-> "absent", token |-> NoToken,
                               claimedAt |-> 0, attempts |-> 0, next |-> 0]]
    /\ batch = [i \in Instances |-> <<>>]
    /\ setting \in [mode : Modes, login : {TRUE}]
    /\ edit = NoEdit
    /\ now = 0
    /\ outcome = [j \in Jobs |-> [tries |-> 0, ended |-> "no"]]

-----------------------------------------------------------------------------
(* The queue *)

\* Queue.Enqueue, after the message was accepted; the worker is woken, and a
\* worker here may always run.  A tenant that makes no copies queues none, and a
\* setting that cannot be read or a row that cannot be written is logged and no
\* more (queueSentCopy).
Enqueue(j) ==
    /\ jobs[j].at = "absent"
    /\ \/ /\ jobs' = [jobs EXCEPT ![j].at = IF setting.mode = "none" THEN "gone" ELSE "queued",
                                  ![j].next = now]
          /\ outcome' = IF setting.mode = "none"
                        THEN [outcome EXCEPT ![j].ended = "off"] ELSE outcome
       \/ /\ jobs' = [jobs EXCEPT ![j].at = "unqueued"]
          /\ UNCHANGED outcome
    /\ UNCHANGED <<batch, setting, edit, now>>

DueAnyToken(j) == jobs[j].at = "queued" /\ jobs[j].next <= now

\* dueJobsQuery
Due(j) ==
    /\ jobs[j].at = "queued" /\ jobs[j].next <= now
    /\ jobs[j].token = NoToken \/ jobs[j].claimedAt + Lease < now

\* ClaimJobs: the candidates are read, then each is claimed by a compare and
\* set on the token that was read.  Two instances that read one candidate get
\* it once, so claiming the jobs that are due is one step.  A claim that fails
\* half way hands over what it has: any part of the batch.
ClaimJobs(i) ==
    \E S \in SUBSET {j \in Jobs : Due(j)} :
        /\ batch[i] = <<>>
        /\ S # {} /\ Cardinality(S) <= BatchSize
        /\ \E order \in [1 .. Cardinality(S) -> S] :
             /\ \A m, n \in DOMAIN order : m # n => order[m] # order[n]
             /\ jobs' = [j \in Jobs |->
                  IF j \in S THEN [jobs[j] EXCEPT !.token = <<i, now>>, !.claimedAt = now]
                  ELSE jobs[j]]
             /\ batch' = [batch EXCEPT ![i] = [n \in DOMAIN order |->
                  [job |-> order[n], attempts |-> jobs[order[n]].attempts,
                   token |-> <<i, now>>, since |-> now, filing |-> FALSE]]]
        /\ UNCHANGED <<setting, edit, now, outcome>>

Current(i) == Head(batch[i])

\* completeJobQuery and rescheduleJobQuery act on the worker's own claim only, and
\* a write that fails is logged: the job stays claimed until its lease is over.
CompleteJob(c) ==
    \/ /\ jobs[c.job].token = c.token /\ jobs[c.job].at = "queued"
       /\ jobs' = [jobs EXCEPT ![c.job].at = "gone"]
    \/ UNCHANGED jobs

RescheduleJob(c, attempts, next) ==
    \/ /\ jobs[c.job].token = c.token /\ jobs[c.job].at = "queued"
       /\ jobs' = [jobs EXCEPT ![c.job].token = NoToken, ![c.job].claimedAt = 0,
                               ![c.job].attempts = attempts, ![c.job].next = next]
    \/ UNCHANGED jobs

\* retryDelay: doubled from the first, capped.
retryDelay(attempts) == IF attempts > 2 THEN 2 ELSE attempts

-----------------------------------------------------------------------------
(* The worker *)

\* process begins the first of the batch: file reads the setting as it is now.
\* With copies switched off there is nothing to make, which counts as made.
Begin(i) ==
    /\ batch[i] # <<>> /\ ~Current(i).filing
    /\ IF setting.mode = "none"
       THEN /\ CompleteJob(Current(i))
            /\ outcome' = [outcome EXCEPT ![Current(i).job].ended =
                 IF jobs' # jobs THEN "off" ELSE @]
            /\ batch' = [batch EXCEPT ![i] = Tail(@)]
       ELSE /\ batch' = [batch EXCEPT ![i][1].filing = TRUE, ![i][1].since = now]
            /\ outcome' = [outcome EXCEPT ![Current(i).job].tries =
                 IF @ > MaxAttempts THEN @ ELSE @ + 1]
            /\ UNCHANGED jobs
    /\ UNCHANGED <<setting, edit, now>>

Give(i, why) ==
    /\ CompleteJob(Current(i))
    /\ outcome' = [outcome EXCEPT ![Current(i).job].ended =
         IF jobs' # jobs /\ @ # "filed" THEN why ELSE @]

\* file succeeded: IMAPAppender.Append, or the mail to the sender.
Filed(i) ==
    /\ batch[i] # <<>> /\ Current(i).filing
    /\ CompleteJob(Current(i))
    /\ outcome' = [outcome EXCEPT ![Current(i).job].ended = "filed"]
    /\ batch' = [batch EXCEPT ![i] = Tail(@)]
    /\ UNCHANGED <<setting, edit, now>>

ExhaustedEarly(c) == c.attempts + 1 >= MaxAttempts - 1

Exhausted(c) == c.attempts + 1 >= MaxAttempts

\* file failed, for good (no login for the sender, a provider that is gone, a
\* request that cannot be read or rendered, whatever the mode) or for now.
Failed(i, permanent) ==
    LET c == Current(i)
    IN  /\ batch[i] # <<>> /\ c.filing
        /\ IF permanent THEN Give(i, "refused")
           ELSE IF Exhausted(c) THEN Give(i, "exhausted")
           ELSE /\ RescheduleJob(c, c.attempts + 1, now + retryDelay(c.attempts + 1))
                /\ UNCHANGED outcome
        /\ batch' = [batch EXCEPT ![i] = Tail(@)]
        /\ UNCHANGED <<setting, edit, now>>

\* The process dies, or is told to stop between two jobs of a batch.
Crash(i) ==
    /\ batch[i] # <<>>
    /\ batch' = [batch EXCEPT ![i] = <<>>]
    /\ UNCHANGED <<jobs, setting, edit, now, outcome>>

Tick ==
    /\ now < MaxNow
    /\ \A i \in Instances :
         batch[i] # <<>> /\ Current(i).filing => now < Current(i).since + AppendLimit
    /\ now' = now + 1
    /\ UNCHANGED <<jobs, batch, setting, edit, outcome>>

-----------------------------------------------------------------------------
(* The setting *)

\* Settings.Update reads the stored password when the form for the shared
\* login brings none ...
BeginUpdate ==
    /\ edit.pc = "idle"
    /\ edit' = [pc |-> "read", password |-> setting.mode = "shared" /\ setting.login]
    /\ UNCHANGED <<jobs, batch, setting, now, outcome>>

\* ... and saves.  Normalise drops the master password of every other mode,
\* and Validate refuses a shared login without one.
Update(mode, supplied) ==
    LET login == mode = "shared" /\ (supplied \/ edit.password)
    IN  /\ edit.pc = "read"
        /\ IF mode = "shared" /\ ~login THEN UNCHANGED setting
           ELSE setting' = [mode |-> mode, login |-> login \/ mode # "shared"]
        /\ edit' = NoEdit
        /\ UNCHANGED <<jobs, batch, now, outcome>>

Next ==
    \/ \E j \in Jobs : Enqueue(j)
    \/ \E i \in Instances : \/ ClaimJobs(i) \/ Begin(i) \/ Filed(i) \/ Crash(i)
                            \/ \E p \in BOOLEAN : Failed(i, p)
    \/ Tick
    \/ BeginUpdate \/ \E m \in Modes, b \in BOOLEAN : Update(m, b)

Spec == Init /\ [][Next]_cvars

-----------------------------------------------------------------------------
(* Properties *)

Filing(i) == batch[i] # <<>> /\ Current(i).filing

\* A copy that was queued leaves the queue for a reason: it was filed, the tenant
\* makes none any more, nothing could ever file it, or as many tries as the code
\* allows were really made, whichever workers made them and whichever of them
\* died (worker.go:151-179).  A copy that could not be queued is not among them: the
\* send goes on without it, and only the log says so (queueSentCopy).
CopyAccounted ==
    \A j \in Jobs :
        /\ jobs[j].at = "gone" => outcome[j].ended # "no"
        /\ outcome[j].ended = "exhausted" => outcome[j].tries >= MaxAttempts

\* Two workers file one copy at once only when one of them has outlived its
\* claim (store.go:215-262).
OneFilerPerClaim ==
    \A i, k \in Instances :
        i # k /\ Filing(i) /\ Filing(k) /\ Current(i).job = Current(k).job
          => \E n \in {i, k} : Current(n).token[2] + Lease < now

\* A worker whose append stays within its limit keeps its job to itself, so "a slow
\* server is not mistaken for a dead worker" (worker.go:25-28).  It fails: one lease
\* is taken for a whole batch, and the last of its jobs begin when it is over.
SlowIsNotDead ==
    \A i, k \in Instances :
        i # k /\ Filing(i) /\ Filing(k) => Current(i).job # Current(k).job
-----------------------------------------------------------------------------
(* What the proofs of these properties rest on.                            *)

\* What the proof assumes of the constants.
CopiesOK == IsFiniteSet(Jobs) /\ Lease \in Nat /\ MaxAttempts \in Nat

Tokens == Instances \X Nat

JobRows == [at : {"absent", "queued", "gone", "unqueued"}, token : {NoToken} \cup Tokens, claimedAt : Nat,
            attempts : Nat, next : Nat]

Claimed == [job : Jobs, attempts : Nat, token : Tokens, since : Nat, filing : BOOLEAN]

Outcomes == [tries : Nat, ended : {"no", "off", "filed", "refused", "exhausted"}]

CopyTypes ==
    /\ jobs \in [Jobs -> JobRows]
    /\ batch \in [Instances -> Seq(Claimed)]
    /\ now \in Nat
    /\ outcome \in [Jobs -> Outcomes]

Late(c, t) == c.token[2] + Lease < t

Places(b) == 1 .. Len(b)

\* A worker holds its own claims, one per job; while a claim is in its lease
\* the row carries it, or is gone.
ClaimsOwn ==
    \A i \in Instances : \A n \in Places(batch[i]) :
        /\ batch[i][n].token[1] = i
        /\ \A m \in Places(batch[i]) : m # n => batch[i][m].job # batch[i][n].job

ClaimsHeld ==
    \A i \in Instances : \A n \in Places(batch[i]) :
        \/ Late(batch[i][n], now)
        \/ jobs[batch[i][n].job].at = "gone"
        \/ /\ jobs[batch[i][n].job].token = batch[i][n].token
           /\ jobs[batch[i][n].job].claimedAt = batch[i][n].token[2]

\* Of two workers that hold one job, one is late.
OneInLease ==
    \A i, k \in Instances : i # k =>
        \A m \in Places(batch[i]), n \in Places(batch[k]) :
            batch[i][m].job = batch[k][n].job => Late(batch[i][m], now) \/ Late(batch[k][n], now)

\* The attempts a row and a claim count were made, the one being made included.
Made(tries, attempts) == tries > MaxAttempts \/ attempts <= tries

TriesMade ==
    /\ \A j \in Jobs : Made(outcome[j].tries, jobs[j].attempts)
    /\ \A i \in Instances : \A n \in Places(batch[i]) :
         /\ Made(outcome[batch[i][n].job].tries, batch[i][n].attempts)
         /\ batch[i][n].filing => Made(outcome[batch[i][n].job].tries, batch[i][n].attempts + 1)

CopyInv == CopyTypes /\ ClaimsOwn /\ ClaimsHeld /\ OneInLease /\ TriesMade /\ CopyAccounted

\* A batch that only loses its first job, or all of them, or begins the first.
Shrinks ==
    \A k \in Instances : \E d \in 0 .. 1 : \A n \in Places(batch'[k]) :
        /\ n + d \in Places(batch[k])
        /\ batch'[k][n].job = batch[k][n + d].job
        /\ batch'[k][n].token = batch[k][n + d].token
        /\ batch'[k][n].attempts = batch[k][n + d].attempts
=============================================================================
