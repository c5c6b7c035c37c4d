# panmail: a TLA+ model of the mail gateway

panmail accepts mail over an API and over SMTP, queues it in a database, delivers
it through the tenant's providers, records what became of every recipient, takes
in mail and delivery reports, and tells the tenant's webhook subscribers. This
directory holds TLA+ modules for the parts of it where several processes, crashes,
timeouts, stale reads and partial failures meet, the TLC configurations that check
them, and TLAPS proofs of the properties that matter most. `PROJECT.json` maps
every definition to the lines it models, and lists components, runs, mutants,
findings, hazards and theorems.

## The system

Several gateway instances run the same binary against one database. Each keeps its
own in-memory state and, unless `-shared-events` is set, its own event store.

| Component | State | Operations | Hard part | Module |
|---|---|---|---|---|
| Admission (`send_email_usecase.go`, `send_idempotency.go`) | idempotency keys, outbox rows, the trail of a message | check, screen, store a send | two sends with one key, a key that expires, a client that is cut off | `Admission` |
| Send rates and pacing (`ratelimit`, `send_rate_limit.go`) | token buckets, a cached backlog | allow, reserve, cancel, pace | debt, eviction, giving back once | `RateLimiter`, `Pacing` |
| Outbox delivery (`queue_worker.go`, `queue_worker_lease.go`, `doSend`, `outbox_store.go`) | the row, its claim, its retries | claim, hold the lease, pass, settle, prune | instances racing for a row, crashes between an acceptance and its record, recipients with different fates | `QueueWorker` |
| Error classification (`pkg/emailutil/bounce.go`) | none | `ClassifyError` | one text decides retry, verdict and suppression | `Bounce` |
| Filter rules, attachments (`emailfilter`, `attachtext`) | rules, a cache of them per instance | edit, screen, read an attachment | a query that began before an edit and ends after it | `FilterRules`, `AttachText` |
| Held message review (`emailfilter/review.go`, `expiry.go`, `release_held.go`) | HELD row, review record | hold, release, reject, expire, discard, prune | two tables written one after the other by reviewers and by every instance's retention pass | `HeldReview` |
| Templates (`template`) | versions, the send path's cache | edit, render twice with one of two engines | a template edited between the screening and the delivery | `Templates` |
| SMTP submission (`email/transports/smtp`, `smtp_submission`) | sessions; the listener and its stored configuration | AUTH, MAIL, RCPT, DATA; apply, reconcile | resubmissions after a lost reply; a listener that dies while it is replaced | `SmtpSession`, `MimeParser`, `SmtpListener` |
| Provider reports and suppression (`event/usecases`, `event/transports/http`, `suppression`) | events, the list | record, file, reclassify, suppress | late and repeated reports in five dialects | `EventIntake` |
| Tracking (`pkg/tracking`, `tracking_handler.go`, `recordBounce`) | signed links and references in delivered copies | sign, rewrite, verify, follow | keys, templates and stored bodies that change under mail already delivered | `TrackedCopies` |
| Event stores, dashboard (`event/repositories/stores`) | queues, rows, indexes, counters, archives | accept, commit, list, count, retain | accepted is not committed; retention beside the writer | `EventStore`, `EventPages`, `TimeSeries` |
| Logs, redaction (`logging`, `redact`) | entries, live views; a setting | log, page, stream, truncate, close; mask | a bounded queue at shutdown; patterns that hide each other's matches | `LogStore`, `Redact` |
| Inbound mail (`inbound`) | receipts, mailboxes, sessions | authenticate, dedupe, process, poll, idle | the same message delivered again, at another instance, after a crash | `InboundGate`, `Inbound`, `IdleSessions` |
| Sent copies (`sent_copy`) | jobs with claims | claim, file, retry, give up | a worker that outlives its claim | `SentCopy` |
| Webhooks (`webhook`) | subscriptions; delivery rows with claims | save, dial, sign; enqueue, claim a fair batch, attempt, save, back off | a lease that is never renewed; names that resolve elsewhere later | `WebhookTargets`, `WebhookDelivery` |
| Access, sign-in, accounts (`auth`) | keys, memberships, attempt records, accounts | authorize, attempt, enrol, edit | caches, concurrent attempts, reads before writes | `Access`, `SignIn`, `Accounts` |
| Providers (`email_provider`) | rows with sealed secrets, pooled senders | edit, test, send | blank secrets filled from a stale row | `Providers` |
| Secrets, settings, retention policy | keyring, snapshot, policy | rotate, save, enforce | a change cut off anywhere | `SecretKeys`, `Settings` |
| Setup, start, stop, readiness (`setup`, `migrate`, `cmd/api`, `health`) | configuration file, schema versions, cached evaluations | set up, migrate, drain, answer | steps that fail half way, instances of two versions | `FirstRun`, `Lifecycle`, `Readiness` |

How they interact: admission writes an outbox row (PENDING, or HELD with a review
record beside it) and wakes the queue worker. The worker reads the event history to
decide whom to skip, renders the template again, marks each copy, takes its turn at
the rate ceilings, calls providers, records events and settles the row. Recording an
event may suppress a recipient and enqueues webhook notifications. A reviewer's
release turns a HELD row into a PENDING one. Inbound mail is screened by the same
rules, and a delivery report in it becomes an event. Every instance's retention pass
expires holds and prunes rows of every kind.

## Modules

Three modules follow a message through its queues in detail and have runs of their
own: `QueueWorker` (under `MCQueueWorker`), `WebhookDelivery` and `HeldReview`.
`RetryQueue` is the abstract specification that `WebhookDelivery` implements.
`QueueWorkerProofs` and `WebhookDeliveryProofs` hold the theorems of two of them; those
of `HeldReview`, and of `Lifecycle`, follow their specification in the same file. The
other components are checked side by side in four MC modules:

| MC module | Components |
|---|---|
| `MCSendPath` | `Admission` and `Pacing` (both over `RateLimiter`), `FilterRules`, `AttachText`, `SmtpSession`, `MimeParser`, `Templates` |
| `MCEvents` | `EventIntake` (over `Bounce`), `TrackedCopies`, `EventStore`, `EventPages`, `TimeSeries`, `LogStore`, `Redact` |
| `MCEdge` | `InboundGate`, `Inbound`, `IdleSessions`, `SmtpListener`, `SentCopy`, `WebhookTargets` |
| `MCPlatform` | `Access`, `SignIn`, `Accounts`, `SecretKeys`, `FirstRun`, `Settings`, `Providers`, `Lifecycle`, `Readiness` |

The components of one of these modules share no state, so a behaviour is a
behaviour of one of them: the variable `part` says which, and the others' variables
stay 0. A property of such a module is the conjunction of its components'
properties, each under its part. The MC modules have their components' parameters as
constants, with the assumptions their proofs need, and the values TLC uses at their
end: `SendPathProofs`, `EventsProofs`, `EdgeProofs` and `PlatformProofs` prove the same
definitions the runs check, for every value.

Operators whose comment begins "Mutant of" or "Mutation", or that are called a
mistaken form of another, are plausible bugs in the code they stand beside. No
specification uses them; substituted for the operator they name, each makes TLC
refute the property listed with it in `PROJECT.json`.

### Bounce

An error text is a reply code class (`4xx`, `5xx`, none) and the pattern lists that
match it, before and after the reply code. `ClassifyError` is the order in which the
code consults them. Wording is abstracted to list names: "user unknown" and "no such
mailbox" are both `hard`.

### QueueWorker

The row is `status`, `token` (claim_token), `leaseLeft` (claimed_until from now),
`retryLeft` (next_retry_at from now) and `retries`. A row that was deleted is
`GONE`. Each instance has at most one goroutine on the row, whose place is `pc`:

    idle -> claimed -> begun -> sending -> settling -> idle

`ClaimPending` is the claim query and the read-back, `HoldLease` the confirming
write of `holdLease`, `Renew` and `RenewFails` its ticker. `Undecodable`,
`FailPass`, `PacePass`, `StopLost` and `BeginPass` are the ways `processEmail` and
the head of `doSend` go on. `Attempt`, `RecordDelivered` and `SkipCancelled` are one
turn of `doSend`'s loop, split where another process can see the difference: the
provider has accepted and the event is not written yet. `FinishPass` is
`handleRecipientFailures`, `handleFailure` or the success path, `Settle` the write
they end in, `SettleFails` a write that failed three times. `Flush` and `FlushFails`
are the event writer. `Crash` and `CutDrain` are the process dying and the drain
grace ending.

Judgements are per recipient: `result[i][r]` is what instance i's pass knows about
r. The history variables (`reached`, `judged`, `again`, `blamed`, `optedOut`,
`wronged`, `free`, `unsent`) only record and are never read by an action's guard.
Recipients on the suppression list are recorded as dropped before the pass waits for
its turn, also when the wait is cut off. When every provider of a message only
receives, `doSend` sends nothing, records no failure and the row is deleted as sent:
`unsent` holds whom such a pass left out, and `NobodyForgotten` excepts them.

Abstractions: one row, since rows settle independently; the provider failover inside
one attempt is one outcome; events that no later pass reads (SENT, PENDING,
DEFERRED) are left out; one unit of time is longer than the writer's 100 ms commit
interval, and so is every retry delay.

### WebhookDelivery and RetryQueue

Rows are `status`, `holder`, `leaseLeft`, `nextIn`, `attempts` per event and
subscription. `group[w][s]` is worker w's goroutine for subscription s: its rows as
it read them (`todo`, with the attempt count it holds in memory), the streak of
unreachable attempts and the time the call in progress may still take. `Batches` is
the claim query's fairness: every subscription's oldest due row, then every
subscription's second, up to `PerSub` each and `Batch` in all. The actions are
`processDue`'s loop (`StartAttempt`, `StopAttempts`), `attempt` split at its three
calls (`ReadSubscription`, `Answered`, `Save`), `release` and `backOff` (`Release`,
`DeferSubscription`), and `Enqueue`, `PruneTerminal`, `Crash`, `Shutdown`,
`ChangeSubscription`. A worker stands for the token it claims with: it waits for its
batch before it claims again, so it never holds two claims that differ.

`RetryQueue` says what such a queue is for and knows no workers, leases or crashes:
each job is tried at most `MaxTries` times, one try after another, each counted
once, until one settles it; a settled job may be forgotten and never comes back. The
refinement mapping takes a row's status to the job's state (being sent is still
waiting) and its attempts to the job's tries. Claims, releases, back-offs, crashes
and saves that failed are stutters; `KeepsItsPromise` is `RetryQueue`'s
specification under that mapping, checked in `webhook_late` and proved.

### HeldReview

`row` is the outbox row (`QUEUED` is anything the queue worker owns, which
`QueueWorker` follows from there), `record` the review record. The send commits the
row, then the record. A reviewer's request is `Review` (the conditional write),
`ReadRow` and `MoveRow` (`ReleaseHeld` or `DiscardHeld`, read then write). A sweep
is `SelectDue`, `MarkExpired`, `ReadExpired` (the three statements of `Expire`),
`Discard`, `NotifyExpired`. The clocks are three flags: the hold's deadline, and
retention's cutoff for the row and for the decided record. `retention` is whether a
quarantine retention is set, which it is not by default and which an operator may change
(`SetRetention`); a hold taken without one has no deadline and waits for a decision.

### The send path

- `Admission`: one request is `idle`, then one step per store call of the client half
  of `SendEmail`: the key looked up, the rate and the backlog, the suppression list,
  the filter's decision, the transaction that inserts the row and its key, and the
  trail. A client that is cut off sends again with the same key. `accepted` and
  `trail` are what the properties compare. A send is charged by its recipients
  (`Cost`), and one that costs more than the burst is let through, as `limiter.go` does:
  the bound on the backlog counts those apart.
- `RateLimiter` is the bucket map as operators, one per call under its mutex; a call
  that may evict returns the set of its outcomes. `Pacing` runs delivery passes
  against it.
- `FilterRules`: an instance's cache is filled by a read that begins at one version of
  the table and ends at another; the generation decides whether it may be kept.
  `AttachText` is the text extraction as a fold over tokens with its limits.
- `SmtpSession`: connections, API keys that are revoked in between, the idempotency
  key made of Message-ID and envelope, forgotten at the end of its window
  (`WindowEnds`); clients that lose the reply and come back, with the envelope in
  another order too. One transaction is queued once in a window; a reordered
  resubmission is refused as another request, which `NothingBouncedInVain` excepts.
  `MimeParser` is the walk over parts, the address list scanner and the threading
  headers as recursive functions, each compared with a reference definition.
- `Templates`: the table, each reader's cache with its time to live, the engine's
  compiled text kept by content, and a message rendered at admission and at delivery.

### What is known afterwards

- `EventIntake`: the reports of five dialects, repeated and late, `RecordEvent`'s
  filing and reclassification, the suppression list keyed as the code keys it. The
  event's write and the list's may each fail, and the provider or the reader is
  answered 200 all the same: a cause counts from when it was written. A pass reads the
  list (`BeginPass`), waits for its turn (`PacedOut`) and hands over (`HandOver`).
- `TrackedCopies`: the rewriting of each copy's links and the reference in a delivery
  report, read back after edits of template, key and base URL, after retention has
  taken the stored body or the event, and while the store cannot be read.
- `EventStore`: the two stores in the four ways they are wired, with writer, batch,
  retention pass and close; `EventPages` is a reader between two writes;
  `TimeSeries` the counters on a scaled-down calendar.
- `LogStore`: the log's bounded queue, its worker, live views, paging, truncation.
  `Redact`: the masking passes over a body's tokens, in the order the code runs them;
  the event shown beside the message carries its subject unmasked.

### The edge

- `InboundGate` decides whose post it is and what is read of it, or refuses a body that
  is too large or breaks off; `Inbound` follows one message from its receipt through the
  look for a known id, the bounce it carries, the rules, the write and the webhook, at
  two instances, and a message without an id to make a key of, which is handled again on
  every retry; `IdleSessions` keeps one session per mailbox.
- `SmtpListener`: editors and the reconcile loop apply what they read, the accept loop
  dies and reports, generations tell reports apart. A restart may fail to bind and put
  the old listener back, or fail at that too.
- `SentCopy`: the durable queue of copies, which a message may not enter because the
  insert failed; `WebhookTargets`: what is saved of a subscription, what is dialled and
  how it is signed while DNS changes, unsigned where it is older than signing; private
  targets are refused only under the flag that blocks them (`Restrict`).

### The platform

- `Access`: keys and memberships, each instance's cached rows and reads in flight.
  `SignIn`: the limiter's records as objects that outlive their eviction; the recency
  list is the relation "used no later than", and an attempt runs in one of `Slots`.
  A key's expiry may fall anywhere in the run.
  `Accounts`: requests that read and later write one account, in one write or two of
  which the second may fail; an assignment to the home tenant writes the role as well.
- `SecretKeys`: the keyring in the file, in memory, and the rows sealed under it, with
  the rotation's steps; either save may fail once it has emptied the file. `Settings`:
  seeding, saves, snapshots, the policy and the pass that enforces it, by the defaults
  when it reads no row. `Providers`: rows, the pool of senders, sends under way.
- `FirstRun`: setup with its undo, which is given the request's own context and so does
  nothing once the browser is gone; `excuse` holds the attempts whose rows stayed.
  `Lifecycle`: start (connect, lock, migrate, serve)
  and stop (drain, wait, close, exit). `Readiness`: shared and cached evaluations.

## Runs

| Run | Checks | Shows |
|---|---|---|
| `queue_delivery` | `OneSender`, `NoSecondCopy`, `NobodyForgotten`, `DeliveredNeverFailed`, `OnlyBlamedSuppressed`, `UncountedPassesExplained`, `TerminalIsFinal` | two instances, two recipients, a missed renewal, a fault and a lost event batch: passes are kept apart and every verdict is the recipient's own |
| `queue_liveness` | `EventuallySettled` | an accepted message is closed in the end, also when leases lapse for a while and one instance cannot decode it |
| `queue_pass_error` | `OnlyBlamedSuppressed` (violated) | an error of the pass that reads "does not exist" suppresses every recipient |
| `webhook_timely` | `OnePoster`, `ConfirmedOnce`, `PostsBounded`, `NothingBroughtForward` | a lease that covers its attempt: one worker at a time, no confirmed notification posted again unless its record was lost |
| `webhook_late` | `KeepsItsPromise` | a lease that does not: the queue still implements `RetryQueue` |
| `webhook_liveness` | `EventuallyFinished` | two subscriptions share a batch of one and neither starves |
| `held_review` | `DecisionStands`, `ReviewableIsKept`, `VerdictAnnouncedOnce`, `OnlyReleasedIsSent`, `HeldEventuallyLeaves` | reviewers and sweeps racing over one held message, with a retention that is set or not; where it is set to stay the payload leaves, unless it waits for a decision without a deadline |
| `held_late_release` | `ToldReleasedIsRight` (violated) | a release reported of a payload that retention has removed |
| `send_path` | `RetriesAreSafe`, `TrailTellsTheTruth`, `CeilingsKept`, `EditsReach`, `SubmissionsKept`, `MessagesReadRight` | clients that share a key, retry and are cut off, every store call failing in turn; SMTP transactions resubmitted; rules and templates edited while they are read; what is read of a message; the pacing on its way out |
| `events` | `EventsKept`, `ReadsTellAll`, `SuppressionsRight`, `SecretsHidden`, `LinksLeadHome` | reports, stores, lists, counters, logs, masking and links |
| `edge` | `InboundOnce`, `TargetsKept`, `CopiesAccounted`, `ListenerKeepsServing` | what comes in, what listens and what is posted out |
| `platform` | `RightsSound`, `SignInSound`, `CredentialsReadable`, `PolicyInForce`, `ProvidersSound`, `LifecycleSound` | access, sign-in, accounts, keys, settings, providers, setup, start and stop |

The two runs that expect a violation state what a comment of the repository says and
show a behaviour of the code that does not keep it; `PROJECT.json` quotes the lines.

Deadlock is checked for `QueueWorker` and `WebhookDelivery`, where time and pruning
always go on. The other cfgs turn it off: their behaviours end when the bound on
time, edits or faults is used up, or when a message has gone for good. The largest runs
are `events` (5.9 million distinct states), `send_path` (4.8), `queue_delivery` and
`edge` (3.3 each) and `platform` (2.2), one to two minutes each on four cores.

### Bounds

- `QueueWorker`: two instances are what a race needs and two recipients what a
  verdict on the wrong one needs. Lease 6, renewals every 2 with a lateness of 1 keep
  the code's ratio of three (`queue_worker_lease.go`); `MaxMissed` 1 is what that
  ratio survives. One retry gives a first, a repeated and a last pass. One fault (a
  crash, a cut drain or a failed settling write) and one lost event batch; the proofs
  have no bound on either. The liveness run has one recipient and a lease of 2 that
  two missed renewals exceed, so that leases do lapse under their workers.
- `WebhookDelivery`: two workers, one subscription with two events and a batch of two
  (a worker that holds one row while it attempts the other). The liveness run has one
  worker and two subscriptions that compete for a batch of one. `webhook_late` has a
  read of the subscription that outlasts the lease.
- `HeldReview`: two of each actor, two faults and a retention that is changed.
- `Admission`: two clients, one key, two contents, a window that is over within a
  tick and one fault; the theorem covers every window and any number of faults.
- `EventIntake`: two messages, four events and one report in flight for ever: enough for
  a report about the first to arrive when the second is queued; two providers, whose
  dialects differ in what they name a message by.
- `SmtpSession`: a message split over two transactions, the second to two blind
  recipients that a resubmission may reorder, and one without a Message-ID.
- `Access`: a time to live of 1, a read that takes 1, one edit and four ticks: enough
  for an entry to be filled by a late read, to expire and to be asked once more; every
  expiry of the key within those ticks is an initial state.
- `Lifecycle` is instantiated twice: two instances with one listener, of builds that
  carry versions {1, 3} and {1, 2, 3}, for the start; one instance with two listeners and two requests, for the stop.
- `SecretKeys`: three keys allow two changes, so that the second begins with a row the
  first left behind; two stores let a fault fall between them.
- Elsewhere: two of each actor, queues and pages of one or two, and counters that let
  every limit be reached and passed by one.

### Fairness

Weak fairness for goroutines that are simply scheduled: a delivery's steps, the
renewal ticker, the event writer, the webhook worker's loop and its goroutines, a
sweep, a reviewer's request once begun, the reconcile ticker, and time. Strong
fairness where a step is taken away and offered again: `HoldLease` and `BeginPass`
(the lease may lapse while the row waits for a delivery slot), `StartAttempt` (the
window may close before a group's turn) and the reconciler's `ApplyRead` (an edit in
between makes what it read stale). Each says that contention does not last for ever,
which no lock of the code guarantees but independent timers make so. `FairSpec` of
`QueueWorker` adds `RenewalsRecover`: from some time on renewals reach the database.
No fairness is assumed of crashes, provider answers, edits or clients.

## Proofs

TLAPS checks every theorem for all values of the constants under the named
`ASSUME`s (which say no more than that counts are natural numbers, sets finite and
schedules sequences of delays) and the hypotheses written in the theorem. A
hypothesis is on the deployment or the build, never on what happens.

**QueueWorkerProofs.** `TypeCorrect`; then five arguments.

1. `TimelyLeaseExcludes` (`OneSender`) and `TimelyRowStaysFinal` (`TerminalIsFinal`).
   Neither is inductive: nothing in them says why a row at work cannot be claimed.
   `LeaseHeld` says it: a goroutine that works owns the row, and the lease outlasts
   the renewals it may yet miss. The hypothesis `Timely` is
   `(MaxMissed + 1) * RenewEvery + 2 * Slack <= Lease`; with the code's ratio of
   three it holds for one missed renewal and a lateness of half a period.
2. `NobodyIsForgotten` (`NobodyForgotten`), for every lease: `NoneForgotten` says that
   what is on record, in a pass's memory and in a settling write is true of each
   recipient, or that a pass through providers that only receive left it out. Its hypothesis, `Decoders = Instances`, excludes an instance of an older
   build that deletes a request it cannot decode.
3. `SuppressedForOwnFailure` (`OnlyBlamedSuppressed`), for every lease: `Blame` carries
   the property into the judgement a pass holds. The hypothesis `PassBlamesNobody`
   (no pass-level error reads like a bounce) is needed: `queue_pass_error` is what
   happens without it.
4. `OneCopyEach` (`NoSecondCopy`) and `DeliveredIsNotFailed` (`DeliveredNeverFailed`)
   from `Known`: when a pass begins nothing is uncommitted anywhere, so what it read
   of the history is right until it uses it. `Shared` is `Timely` and
   `-shared-events`; the second also needs that the history can be read when a message
   is given up (`~HistoryMayFail`), because the code goes on without it otherwise.
5. `UncountedPassesRunOut` (`UncountedPassesExplained`): `Earned` counts, for each pass
   that spends no retry, a recipient newly on record or a lost batch.

**WebhookDeliveryProofs.** `Queued` (types, and that a row on the queue has tries
left) gives `TypeCorrect`, `FinishedForGood` and `NeverSooner`
(`NothingBroughtForward`). `Held` adds that a goroutine's rows stay its own for as long
as its work may take; it gives `TimelyClaimExcludes` (`OnePoster`) when
`Window - 1 + ReadMax + Timeout + Reserve <= Lease`, the comment "A claim has to
outlast everything done under it" as an inequality. `Counted` adds that the count in a
goroutine's memory is the row's while it holds the row; it gives
`ImplementsRetryQueue` (`KeepsItsPromise`) for every lease. `Recorded` adds where the
record of a confirmed or a made post is (written, about to be written, or lost to a
fault) and gives `ConfirmedNotRepeated` and `PostsAreBounded`.

**HeldReview.** `IInv` adds to the properties what a reviewer or a sweep in the
middle of its request knows: that it acts on the decision that was written, that a
sweep acts on rows that expired, and that the record follows the row. It gives
`TypeCorrect`, `OneDecision`, `PendingIsKept` and `ReleaseSendsOnce`; `OneVerdict`
(nobody else holds a verdict once one is written) gives `VerdictHeardOnce`. There are
no hypotheses.

**The side-by-side modules.** `part` never changes, so a step of a behaviour is a step
of its component, and each theorem below has one inductive invariant, which says
`part = "x" => XInv` for the components the property is about. `XInv` is at the end of
the component's module; what it adds to the property is what some process holds in
memory between two steps, and why that is still true when it is used.

| Theorem | Property | Inductive invariant and why it is needed |
|---|---|---|
| `SendPathProofs.RetriedSendsAreSafe` | `RetriesAreSafe` | `RetryInv`: every id spoken of (in a key's row, an answer, a step after the insert) was queued for that content under that key (`SpokenOfQueued`), and a key's row outlives its window (`UsesKept`). The limiter is opaque: it holds whatever the limiter answers |
| `SendPathProofs.TrailIsTrue` | `TrailTellsTheTruth` | `AdmissionInv`: an id belongs to one request until its message is queued or refused (`OwnIds`) |
| `SendPathProofs.SubmittedAsAnswered` | `SubmissionsKept` | `SessionInv`: what a key answers for is queued to everyone in the envelope, and what is queued with a Message-ID holds its key until its window is over (`KeysKept`); an answer on its way says what became of the message (`AnswersTrue`). A client may still give up on a queued message it resubmitted in another order |
| `SendPathProofs.EditsReachSends` | `EditsReach` | `RulesInv`: a read holds the rules of when it asked, and unless the generation moved no edit has returned here since (`ReadsRecent`); what is remembered was the table's one query before it was cached (`CacheRecent`). `TemplatesInv`: a version in a cache or a reader's hands is the table's or was within its age and a read (`VersionsRecent`) |
| `EventsProofs.NoEventLost` | `EventsKept` | `StoreInv`: a retention pass deletes only what it archived, and an expiry that waits in the writer's queue names what is safe by then (`PassInv`, `QueueInv`); the open batch will leave the delivery list as the pointers will be (`BatchInv`). `LogInv`: what is owed is stored, deleted, batched or queued, and a view that is being told is open |
| `EventsProofs.SuppressedRightly` | `SuppressionsRight` | `IntakeInv`: the mailbox is on the list exactly while there is a cause whose write succeeded; what a pass found on the list it acts on after its wait, so the property is of the passes that set out |
| `EdgeProofs.MailComesInOnce` | `InboundOnce` | `InboundInv`: a handling that is done and did not fail has kept the message, and only such a one completes a receipt (`DoneIsKept`), so it does not matter who holds the claim by then; with nothing to excuse a second handling there is one at a time and it passes the look only when no instance holds the message (`OneHandling`); a message without a key that is posted again is outside it. `GateInv`: what a post under way claims to be. `IdleInv`: ids are one session's, and a session that is not cancelled is the one the map names |
| `EdgeProofs.ListenerStaysUp` | `ListenerKeepsServing` | `ListenerInv`: a generation is one socket's, and one whose loop has died accepts nothing |
| `EdgeProofs.PostedWhereItWasAsked` | `TargetsKept` | `TargetInv`: the stored subscription and a post under way carry an id and a secret that were told together, or are the one older than signing, and a redirected post is still at home. The private-address part is conditional on `Restrict` |
| `EdgeProofs.CopiesFiledOrGivenUp` | `CopiesAccounted` | `CopyInv`: a job in a batch was claimed under that batch's token (`ClaimsOwn`, `ClaimsHeld`), two instances hold it only if a lease ran out (`OneInLease`), and the attempts counted were made (`TriesMade`). A copy whose insert failed was never a job, and the property says so |
| `PlatformProofs.RightsAreEarnedAndLost` | `RightsSound` | `AccessInv`: every cached entry was true within the time to live and a slow read (`EntriesRecent`), every row in hand within a slow read (`ReadsRecent`). `AccountInv`: what a handler carries to its write is what its guards let through (`Judged`), on the account as it was read (`saw`) |
| `PlatformProofs.GuessingIsBounded` | `SignInSound` | `SignInInv`: what was tried is among the failures of the subject's one record and, together with what still runs on it, within the budget, and the record forgets it no sooner than it is a block period old (`TriesCounted`); an attempt that counts runs on the record in the map (`RecordsNamed`) |
| `PlatformProofs.NoCredentialLost` | `CredentialsReadable` | `KeyInv`: the file, unless it was emptied, holds every key the memory seals with (`RingOnDisk`), a change that drops a key has resealed every row of every store (`Rotated`), so every row opens (`RowsReadable`) and so does a finished backup (`BackupReadable`). Excepted: an emptied file (what is on disk, not what is in memory), an edit sealed under a key dropped meanwhile or stored behind the rotation, and a backup that spans the drop |
| `PlatformProofs.RetentionWasChosen` | `PolicyInForce` | `SettingsInv`: every value in a snapshot, a handler or a pass was asked for, or is a default read where no row is stored (`OnlyAsked`), and a save not yet in force has a trigger, a pass or a handler on its way (`SaveOnItsWay`) |
| `PlatformProofs.ProvidersKeepTheirWord` | `ProvidersSound` | `SavedInv`: an editor that nobody overlapped read the row that is there (`EditsApart`). `PoolInv`: senders are numbered as they are built |
| `PlatformProofs.LivesInOrder` | `LifecycleSound` | `SetupInv`: what an attempt stands on at each step (`StandsOn`, `FileFollows`), that the rest was left by an attempt whose cleanup was cut short (`OnlyItsOwn`), and that what is left hangs together (`NoOrphans`). `SchemaInv`: every step was committed by an instance, over what was there, and only the holder of the lock has read the versions it applies after (`InOrder`, `UnderLock`); `StoppedInOrder`: each stage of the shutdown implies the ones before. `ReadyInv`: a kept or shared evaluation is as old as the time it is kept and takes |

`Lifecycle.StartsAndStopsInOrder` is the part of the last that concerns start and stop,
for the component alone. The assumptions are on the constants: times and bounds are
natural numbers, levels positive, and the time readiness is kept is not zero (`TimesOK`,
`TimesAssumption`, `WindowAssumption`, `SessionsOK`, `KeptAWhile`); days are integers, the
default one that may be chosen and the absent value none of them (`DaysOK`); the absence of
an id or a key is not one (`IdsOK`, `StoresListed`, which also says that the stores are a
list); the jobs of `SentCopy` are finitely many (`CopiesOK`); posts and notices carry mail
fields (`MailsOK`); sign-in requests are finitely many, a lockout lasts and the absent
subject is none (`LimitsOK`); the versions of a build's migrations are
natural numbers of which any subset has a lowest (`StepsAssumption`): `loadMigrations`
sorts them and refuses duplicates, and allows gaps. A build with a gap that another fills
may commit the lower step after the higher one, so what is proved is the order within
each build. TLC evaluates each on the run of
its module.

### Only model-checked

- Liveness: `EventuallySettled`, `EventuallyFinished`, `HeldEventuallyLeaves`. The
  prover has no rule for fairness.
- `CeilingsKept` sums what the folds of `RateLimiter` charge. What a fold returns is an
  induction over data, which is out of the prover's reach.
- `MessagesReadRight` (the walk over parts, the text of an attachment, the order a sort
  gives the rules, the escaping of a template), `ReadsTellAll` (pages of a sorted list,
  sums over tiles), `SecretsHidden` (masking passes over tokens) and `LinksLeadHome`
  (flattened token sequences) compare a computation with a reference definition over
  bounded inputs, for the same reason.

## Where comments and code disagree

Beside the two findings, modules state these as definitions no run checks; each is a
sentence of a comment, a test or a document. TLC refutes each one on its component (for
`RotationAltersNothing`, `BlankMeansUnchanged`, `DeliveredWasSent` and
`KeyBlocksAlwaysHidden` with one value, edit, event or fragment more than the run has):

| Definition | Module | What happens |
|---|---|---|
| `DeletedIsSentOrJudged` | `QueueWorker` | a message all of whose providers only receive is deleted as sent, and nobody is sent to or told (`send_email_usecase.go:714-717`, against 822-825) |
| `ResubmissionAccepted`, `EnvelopeDecides` | `SmtpSession` | a resubmission with its blind recipients in another order has the same key and another request hash, and gets a 550 (`session.go:206-209`, `idempotency_test.go:47`); the To and Cc of the headers are sent to whatever the envelope says |
| `RotationAltersNothing`, `FailureLosesNothing` | `SecretKeys` | a reseal writes back a row an editor changed meanwhile; a save that fails, or a process killed, between truncating and writing the file leaves no keys on disk |
| `RevokedHereIsRefusedHere` | `Access` | a read begun before the revocation refills the cache after it |
| `OnlySuperAdminsDemote` | `Accounts` | an account promoted between an administrator's guard and write is demoted by that write (`user_service.go:56-62`) |
| `FileMeansAdministrator`, `AllOrNone` | `FirstRun` | a write of the file that fails half way leaves the file while the administrator is undone; a setup whose browser hangs up cleans up under the cancelled context, so the administrator's rows stay and a retry with the same address is refused (`auth_usecase.go:85-88`) |
| `UnmentionedFieldsKept`, `SaverServesItsSave`, `NothingPrunedByDefault` | `Settings` | an instance whose seeding failed prunes by the defaults over what its file chose (`main.go:2060-2063`, against `worker.go:131-134`); a save writes back the fields it read before another save; a refresh that read the older row ends last |
| `BlankMeansUnchanged`, `TestTriesItsKind` | `Providers` | a blank secret is filled from a row read before another edit; the cache of senders is not keyed by kind, so a mailbox's form tested after the same form as SMTP gets the SMTP sender |
| `NoRequestAfterStop` | `Lifecycle` | a request arrives between the drain and the close of the listener |
| `SlowIsNotDead` | `SentCopy` | one lease is taken for a whole batch, so a job begun when it is over is claimed by another while its append is well within its own limit (`worker.go:25-28`) |
| `PairKept`, `StoredIsServed` | `SmtpListener` | an edit that mentions no keypair writes back the one it read before another edit replaced it (`usecase.go:281-285`); a change of interface on the same port never binds, because the old socket, given up only after, holds the port |
| `LatestListedOnce` | `EventPages` | two events of one message and recipient with the same time are both its latest in the shared store, and both are listed |
| `StoppedInTime`, `EndsUpSuppressed`, `OptOutSuppresses`, `DeliveredWasSent` | `EventIntake` | a pass that has read the list waits for its turn and then sends to whoever was suppressed meanwhile (`send_email_usecase.go:659-664`); a failed write of the event or of the list is logged and answered 200 (`process_event_usecase.go:689-691`); an opt-out a provider reports is recorded and not put on the list; a report under the provider's own id is filed with the recipient's newest message, which then counts as delivered before it was sent |
| `OneMailboxOneAnnouncement`, `RecordedOnce` | `Inbound` | the stores of inbound mail are each instance's own, so two instances that read one mailbox both announce; a refused message is in no store, and every read records it again |
| `SubjectsAlwaysHidden`, `KeyBlocksAlwaysHidden` | `Redact` | `ListEvents` and `GetEvent` show the event's subject unmasked (`redact.go:237-241`, `redact_test.go:181-183`); a label pattern masks the BEGIN line before the block pattern looks for it |
| `SentAsScreened`, `OwnLayoutsAlwaysKept` | `Templates` | the worker renders the template of then; an example date such as 02/01/2006 is read month first |
| `NothingLostToTheDatabase` | `InboundGate` | a database that fails while a post is authenticated is answered 401 and a connection that breaks off 413, and the provider gives up |
| `EveryLinkLeadsHome` | `TrackedCopies` | an apostrophe inside a double-quoted href ends the link early |

Without `-shared-events` (the default) a recipient whose delivery another instance
recorded is sent a second copy; with two renewals missed in a row, which the comment on
`leaseRenewEvery` allows for, a late one loses the row; and two sweeps both announce an
expiry. These follow from the hypotheses the theorems need.

## Observations

Met while modelling, not stated as properties:

- A claimed message waits for a delivery slot without renewing its lease, and a webhook
  group may be released without an attempt: `EventuallySettled` and
  `EventuallyFinished` rest on strong fairness there. When every subscription read
  outlasts the lease two workers may take a row from each other for ever.
- An instance of an older build deletes a request it cannot decode.
- The limiter forgives the debt of an oversized cost, and a `Cancel` after an eviction
  credits a bucket that never paid.
- Retention of the local store may die between deleting rows and the index of latest
  events; with two instances an expired event may reach the archive twice.
- A database outage during AUTH is answered 535, a validation error 451; a session
  keeps its tenant after its key is revoked.
- A wrong password under way when its subject signs in still counts against it.
- Setup that dies, or whose cleanup fails, between creating the administrator and saving
  the file leaves the administrator's address taken; one that then succeeds with another
  address has two super admins.
- The check that a provider's name is free passes when the providers cannot be listed.
- Deleting a tenant removes waiting sent copies, and an update after a concurrent
  delete of a tenant or a template reports success.
- `List` of the logs repeats an entry when retention deletes the one its token names.
- A stylesheet's `<link href>` is rewritten as a link, so fetching it counts as a click.
- Saving a provider closes its pool before the new sender is built; a build that fails
  leaves none.

## Not modelled

- Tenants: one request reads or writes one row; a delete counts what depends on the
  tenant and the foreign keys refuse what arrives in between.
- Observability: counts what the system does and changes nothing.
- Web UI and generated API: presentation, and code the protocol compiler writes.
- Of modelled components: inbound holds, the contents of archive files, transfer
  encodings and character sets, the network clients (their answers are choices), and
  what a migration's statements do.

## Running

    tlc -workers 2 -config QueueDelivery.cfg MCQueueWorker
    tlapm QueueWorkerProofs.tla

`PROJECT.json` names the module and cfg of every run. From nothing,
`PlatformProofs` takes about nine minutes, `WebhookDeliveryProofs` four, the others one to
three.

## Left to do

Inbound holds would extend `HeldReview`.
