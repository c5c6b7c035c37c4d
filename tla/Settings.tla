------------------------------ MODULE Settings ------------------------------
(***************************************************************************)
(* The settings row every instance shares: its edits from the settings     *)
(* page (system_settings/usecases/settings_usecase.go), the snapshot each  *)
(* instance serves from (system_settings/provider.go), the retention       *)
(* policy read out of it (retention/policy.go) and the passes that enforce *)
(* it (retention/worker.go).                                               *)
(*                                                                         *)
(* The nine retention fields are of two kinds, and there is one of each:   *)
(* events, which has a default and so a way to be absent, and messages,    *)
(* which has not.  A number of days that is absent is written Absent.      *)
(***************************************************************************)
EXTENDS Integers, FiniteSets

CONSTANTS Instances,
          Editors,      \* saves in flight from the settings page
          Messages,     \* what a save may carry: [base, events, messages]
          FromConfig,   \* the settings of the old configuration file
          DefaultDays,  \* DefaultEventDays
          MaxDays,
          Absent,       \* no value: less than any number of days
          MaxSaves,     \* bound: saves begun
          MaxFaults     \* bound: queries that fail, and restarts

VARIABLES row,       \* the stored settings
          snapshot,  \* Provider.current of each instance
          ticker,    \* what each instance's refresh loop has read and not published
          editor,    \* each save in progress
          trigger,   \* the retention worker's one buffered request
          worker,    \* each instance's retention worker
          enforced,  \* the policy its last pass loaded and pushed
          lastSaver, \* history: the instance whose save was last
          chosen,    \* history: the days somebody asked for, by field
          excuse,    \* history: instances whose last pass read no stored row
          saves, faults

svars == <<row, snapshot, ticker, editor, trigger, worker, enforced, lastSaver, chosen, excuse,
           saves, faults>>

NoRow == [there |-> FALSE, base |-> 0, events |-> Absent, messages |-> 0]
NoEdit == [pc |-> "idle", at |-> 0, msg |-> NoRow, read |-> NoRow]
NoPolicy == [events |-> Absent, messages |-> Absent]
Stored(set) == [there |-> TRUE, base |-> set.base, events |-> set.events, messages |-> set.messages]

Fault == faults < MaxFaults /\ faults' = faults + 1
NoFault == UNCHANGED faults

-----------------------------------------------------------------------------
(* The policy.                                                             *)

clampDays(days) == IF days < 0 THEN 0 ELSE IF days > MaxDays THEN MaxDays ELSE days

\* A mistaken Resolve: an explicit zero is taken for no value at all.
ResolveZeroAsAbsent(set) ==
    [events |-> IF set.events \in {Absent, 0} THEN DefaultDays ELSE clampDays(set.events),
     messages |-> clampDays(set.messages)]

\* Absent is the default, an explicit zero is forever.
Resolve(set) ==
    [events |-> IF set.events = Absent THEN DefaultDays ELSE clampDays(set.events),
     messages |-> clampDays(set.messages)]

\* UpdateSettings: what the message carries over what was read, the policy
\* resolved and written back in full.
Merged(read, msg) ==
    LET policy == Resolve(read)
        days(f) == clampDays(IF msg[f] = Absent THEN policy[f] ELSE msg[f])
    IN  [there |-> TRUE, base |-> IF msg.base = Absent THEN read.base ELSE msg.base,
         events |-> days("events"), messages |-> days("messages")]

-----------------------------------------------------------------------------

\* The row is seeded from the configuration file at boot, unless that fails.
Init ==
    /\ row \in {Stored(FromConfig), NoRow}
    /\ snapshot = [i \in Instances |-> row]
    /\ ticker = [i \in Instances |-> [pc |-> "idle", read |-> NoRow]]
    /\ editor = [e \in Editors |-> NoEdit]
    /\ trigger = [i \in Instances |-> FALSE]
    /\ worker = [i \in Instances |-> "due"]
    /\ enforced = [i \in Instances |-> NoPolicy]
    /\ lastSaver = 0 /\ saves = 0 /\ faults = 0
    /\ chosen = [f \in {"events", "messages"} |-> {FromConfig[f]}]
    /\ excuse = {}

-----------------------------------------------------------------------------
(* A save on instance i.                                                   *)

\* What its message leaves out it writes back as it read it, so where there is no
\* row it asks for the defaults the page shows.
ReadRow(e, i, msg) ==
    /\ editor[e].pc = "idle" /\ saves < MaxSaves
    /\ saves' = saves + 1
    /\ editor' = [editor EXCEPT ![e] = [pc |-> "merge", at |-> i, msg |-> msg, read |-> row]]
    /\ chosen' = [f \in DOMAIN chosen |-> chosen[f] \cup
                    (IF msg[f] # Absent THEN {msg[f]} ELSE IF row.there THEN {} ELSE {NoRow[f]})]
    /\ UNCHANGED <<row, snapshot, ticker, trigger, worker, enforced, lastSaver, excuse, faults>>

Save(e) ==
    /\ editor[e].pc = "merge"
    /\ \/ /\ NoFault
          /\ row' = Merged(editor[e].read, editor[e].msg)
          /\ lastSaver' = editor[e].at
          /\ editor' = [editor EXCEPT ![e].pc = "refresh"]
       \/ /\ Fault /\ editor' = [editor EXCEPT ![e] = NoEdit]
          /\ UNCHANGED <<row, lastSaver>>
    /\ UNCHANGED <<snapshot, ticker, trigger, worker, enforced, chosen, excuse, saves>>

\* The save's own Refresh reads the row; a read that fails is only logged.
RefreshRead(e) ==
    /\ editor[e].pc = "refresh"
    /\ \/ NoFault /\ editor' = [editor EXCEPT ![e].pc = "publish", ![e].read = row]
       \/ Fault /\ editor' = [editor EXCEPT ![e].pc = "trigger"]
    /\ UNCHANGED <<row, snapshot, ticker, trigger, worker, enforced, lastSaver, chosen, excuse, saves>>

RefreshPublish(e) ==
    /\ editor[e].pc = "publish"
    /\ snapshot' = [snapshot EXCEPT ![editor[e].at] = editor[e].read]
    /\ editor' = [editor EXCEPT ![e].pc = "trigger"]
    /\ UNCHANGED <<row, ticker, trigger, worker, enforced, lastSaver, chosen, excuse, saves, faults>>

\* Trigger: a request already pending is enough.
Trigger(e) ==
    /\ editor[e].pc = "trigger"
    /\ trigger' = [trigger EXCEPT ![editor[e].at] = TRUE]
    /\ editor' = [editor EXCEPT ![e] = NoEdit]
    /\ UNCHANGED <<row, snapshot, ticker, worker, enforced, lastSaver, chosen, excuse, saves, faults>>

-----------------------------------------------------------------------------
(* The refresh loop and the retention worker of instance i.                *)

Tick(i) ==
    /\ ticker[i].pc = "idle"
    /\ ticker' = [ticker EXCEPT ![i] = [pc |-> "publish", read |-> row]]
    /\ UNCHANGED <<row, snapshot, editor, trigger, worker, enforced, lastSaver, chosen, excuse, saves, faults>>

TickPublish(i) ==
    /\ ticker[i].pc = "publish"
    /\ snapshot' = [snapshot EXCEPT ![i] = ticker[i].read]
    /\ ticker' = [ticker EXCEPT ![i] = [pc |-> "idle", read |-> NoRow]]
    /\ UNCHANGED <<row, editor, trigger, worker, enforced, lastSaver, chosen, excuse, saves, faults>>

\* The start-up timer, the daily ticker or the trigger begins a pass; only the
\* last of them empties the channel.
Wake(i) ==
    /\ worker[i] \in {"idle", "due"}
    /\ worker' = [worker EXCEPT ![i] = "load"]
    /\ \/ trigger[i] /\ trigger' = [trigger EXCEPT ![i] = FALSE]
       \/ UNCHANGED trigger
    /\ UNCHANGED <<row, snapshot, ticker, editor, enforced, lastSaver, chosen, excuse, saves, faults>>

\* RunOnce reads the row itself, not the snapshot, and pushes the policy: the
\* defaults where there is no row.  With no answer it prunes nothing.
Load(i) ==
    /\ worker[i] = "load"
    /\ \/ /\ NoFault
          /\ enforced' = [enforced EXCEPT ![i] = Resolve(row)]
          /\ worker' = [worker EXCEPT ![i] = "prune"]
          /\ excuse' = IF row.there THEN excuse \ {i} ELSE excuse \cup {i}
       \/ /\ Fault /\ worker' = [worker EXCEPT ![i] = "idle"]
          /\ excuse' = excuse \cup {i}
          /\ UNCHANGED enforced
    /\ UNCHANGED <<row, snapshot, ticker, editor, trigger, lastSaver, chosen, saves>>

PassDone(i) ==
    /\ worker[i] = "prune"
    /\ worker' = [worker EXCEPT ![i] = "idle"]
    /\ UNCHANGED <<row, snapshot, ticker, editor, trigger, enforced, lastSaver, chosen, excuse, saves, faults>>

\* The instance restarts: an absent row is seeded again, or that fails again and is
\* only logged, the snapshot is read before it serves, and its workers know no
\* retention until their first pass.
Restart(i) ==
    /\ Fault
    /\ row' = row \/ (~row.there /\ row' = Stored(FromConfig))
    /\ snapshot' = [snapshot EXCEPT ![i] = row']
    /\ ticker' = [ticker EXCEPT ![i] = [pc |-> "idle", read |-> NoRow]]
    /\ editor' = [e \in Editors |-> IF editor[e].at = i THEN NoEdit ELSE editor[e]]
    /\ trigger' = [trigger EXCEPT ![i] = FALSE]
    /\ worker' = [worker EXCEPT ![i] = "due"]
    /\ enforced' = [enforced EXCEPT ![i] = NoPolicy]
    /\ excuse' = excuse \ {i}
    /\ UNCHANGED <<lastSaver, chosen, saves>>

Next ==
    \/ \E e \in Editors, i \in Instances, m \in Messages : ReadRow(e, i, m)
    \/ \E e \in Editors : Save(e) \/ RefreshRead(e) \/ RefreshPublish(e) \/ Trigger(e)
    \/ \E i \in Instances : Tick(i) \/ TickPublish(i) \/ Wake(i) \/ Load(i) \/ PassDone(i) \/ Restart(i)

Spec == Init /\ [][Next]_svars

-----------------------------------------------------------------------------
(* Properties *)

Fields == {"events", "messages"}

\* The days somebody asked for, and the default where nobody did.
Asked(f) == {Absent} \cup {clampDays(d) : d \in chosen[f] \ {Absent}}
             \cup (IF Absent \in chosen[f] THEN {DefaultDays} ELSE {})

\* Retention deletes, so what a pass enforces must be what somebody chose.  Every
\* policy a pass reads from a stored row is, field by field, a number of days an
\* administrator or the old file asked for, and the default only where nobody
\* asked, or where a save left the field as a page with no row showed it.  A pass
\* that finds no row, because the file's choice could not be seeded
\* (main.go:2060-2063), enforces the defaults and nothing else, over whatever the
\* file chose; that ends with the first row stored.  And a save is not missed: once
\* the instance that served the last one is at rest, its last pass enforced the
\* stored policy, unless that pass could not read it (Resolve and Apply,
\* policy.go:60-116; Trigger, worker.go:89-94).
PolicyInForce ==
    /\ \A i \in Instances :
         \/ \A f \in Fields : enforced[i][f] \in Asked(f)
         \/ i \in excuse /\ enforced[i] = Resolve(NoRow)
    /\ \A i \in Instances :
         /\ lastSaver = i /\ i \notin excuse
         /\ worker[i] = "idle" /\ ~trigger[i]
         /\ \A e \in Editors : editor[e].pc = "idle"
         => enforced[i] = Resolve(row)

\* Nothing is pruned by a default over what was configured: deletion is not an
\* operation to guess at (worker.go:131-134).  It fails: where seeding failed the read
\* succeeds, finds no row and resolves to the defaults.
NothingPrunedByDefault == \A i \in Instances, f \in Fields : enforced[i][f] \in Asked(f)

\* A field a save did not mention keeps the value it had (UpdateSettings,
\* settings_usecase.go:103-104).
UnmentionedFieldsKept ==
    [][\A e \in Editors : editor[e].pc = "merge" /\ editor'[e].pc = "refresh" =>
         /\ editor[e].msg.base = Absent => row'.base = row.base
         /\ \A f \in {"events", "messages"} :
               editor[e].msg[f] = Absent => Resolve(row')[f] = Resolve(row)[f]]_svars

\* The instance that served the save has the new values once the save returns
\* (provider.go:17-19).
SaverServesItsSave ==
    \A i \in Instances :
        /\ lastSaver = i /\ ticker[i].pc = "idle" /\ faults = 0
        /\ \A e \in Editors : editor[e].pc = "idle"
        => snapshot[i] = row
-----------------------------------------------------------------------------
(* What the proofs of these properties rest on.                            *)

\* Days are whole numbers, the default is one the page could set, absence is told
\* from every number of days, and a field that has no default is never absent in
\* the old file.
DaysOK ==
    /\ MaxDays \in Nat /\ DefaultDays \in 0..MaxDays /\ Absent \in Int /\ Absent < 0
    /\ FromConfig.events \in Int /\ FromConfig.messages \in Int \ {Absent}
    /\ \A m \in Messages : m.events \in Int /\ m.messages \in Int
    /\ 0 \notin Instances

IsRow(r) == r.there \in BOOLEAN /\ r.events \in Int /\ r.messages \in Int

SettingsTypes ==
    /\ IsRow(row) /\ (row.there \/ row = NoRow)
    /\ DOMAIN chosen = Fields /\ \A f \in Fields : FromConfig[f] \in chosen[f]
    /\ lastSaver \in {0} \cup Instances
    /\ lastSaver # 0 => row.there
    /\ trigger \in [Instances -> BOOLEAN]
    /\ worker \in [Instances -> {"idle", "due", "load", "prune"}]
    /\ enforced \in [Instances -> [events : Int, messages : Int]]
    /\ DOMAIN editor = Editors
    /\ \A e \in Editors :
         /\ editor[e] = [pc |-> editor[e].pc, at |-> editor[e].at, msg |-> editor[e].msg, read |-> editor[e].read]
         /\ IsRow(editor[e].read)
         /\ editor[e].pc # "idle" => editor[e].at \in Instances
         /\ editor[e].pc = "merge" => editor[e].msg \in Messages

\* What is stored, about to be stored or in force was asked for, but for what a
\* pass that found no row enforces.
OnlyAsked ==
    /\ \A f \in Fields : row.there => Resolve(row)[f] \in Asked(f)
    /\ \A f \in Fields : \A e \in Editors : editor[e].pc = "merge" =>
         /\ editor[e].msg[f] = Absent => Resolve(editor[e].read)[f] \in Asked(f)
         /\ editor[e].msg[f] \in {Absent} \cup chosen[f]
    /\ \A i \in Instances :
         \/ \A f \in Fields : enforced[i][f] \in Asked(f)
         \/ i \in excuse /\ enforced[i] = Resolve(NoRow)

\* A save that is not in force yet is on its way: a pass that has not read the row,
\* a request for one, or the handler that will make it.
SaveOnItsWay ==
    \A i \in Instances : lastSaver = i /\ i \notin excuse =>
        \/ enforced[i] = Resolve(row)
        \/ trigger[i] \/ worker[i] \in {"due", "load"}
        \/ \E e \in Editors : editor[e].at = i /\ editor[e].pc \in {"refresh", "publish", "trigger"}

SettingsInv == SettingsTypes /\ OnlyAsked /\ SaveOnItsWay
=============================================================================
