----------------------------- MODULE SecretKeys -----------------------------
(***************************************************************************)
(* The key that stored credentials are sealed with: the configuration file *)
(* that keeps it (internal/config), the keyring every store was given at   *)
(* boot (pkg/secrets/keyring.go), the change of key from the dashboard     *)
(* (system_settings/usecases/data_key.go) with the stores' RotateSecrets   *)
(* it calls, the stores' own edits, and the backup endpoint.               *)
(*                                                                         *)
(* A sealed value is the key it names and the credential inside.  A key    *)
(* supplied by the environment refuses a change, so the key here is the    *)
(* configuration file's.                                                   *)
(***************************************************************************)
EXTENDS Naturals, Sequences, FiniteSets

CONSTANTS Keys,         \* data keys
          FirstKey,     \* the one the instance was set up with
          Stores,       \* the rotators in order, each the rows of one store
          Values,       \* credentials
          Writers,      \* edits in flight
          MaxChanges,   \* bound: changes of key begun
          MaxFaults     \* bound: failures and crashes

VARIABLES file,         \* the configuration file's keys
          ring,         \* Keyring.set; nothing while the process is down
          rows,         \* every sealed column
          change,       \* the Change in progress
          writer,       \* what each edit holds
          backup,       \* the backup being taken, or the last one
          changes, faults,
          excuse,       \* history: what the model cannot promise readability after
          undone        \* history: a rotation put an old credential back

kvars == <<file, ring, rows, change, writer, backup, changes, faults, excuse, undone>>

Rows == UNION {Stores[i] : i \in DOMAIN Stores}

NoKeys == [key |-> "none", retired |-> {}]
KeysOf(set) == {set.key} \cup set.retired
Up == ring # NoKeys
Torn == file = NoKeys

NoSeen == [r \in {} |-> 0]
NoChange == [pc |-> "idle", key |-> "none", cfg |-> NoKeys, at |-> 0, seen |-> NoSeen]
NoWriter == [pc |-> "idle", row |-> 0, key |-> "none", val |-> 0]
NoBackup == [pc |-> "none", rows |-> NoSeen, file |-> NoKeys]

Sealed(w) == writer[w].pc = "sealed"

Fault == faults < MaxFaults /\ faults' = faults + 1
NoFault == UNCHANGED faults

\* NewKeyring: a retired key that is also the primary is left out.
NewKeyring(set) == [key |-> set.key, retired |-> set.retired \ {set.key}]

\* Encrypt names the primary key; Decrypt needs the key the value names.
Encrypt(val) == [key |-> ring.key, val |-> val]
Decryptable(sealed) == sealed.key \in KeysOf(ring)
NeedsRotation(sealed) == sealed.key # ring.key

Init ==
    /\ file = [key |-> FirstKey, retired |-> {}]
    /\ ring = [key |-> FirstKey, retired |-> {}]
    /\ rows \in [Rows -> [key : {FirstKey}, val : Values]]
    /\ change = NoChange /\ backup = NoBackup
    /\ writer = [w \in Writers |-> NoWriter]
    /\ changes = 0 /\ faults = 0 /\ excuse = {} /\ undone = FALSE

-----------------------------------------------------------------------------
(* Change.  The mutex makes one change at a time; a save is a truncation   *)
(* followed by a write.                                                    *)

\* A mistaken RetireCurrent: the key in use is forgotten.
RetireNothing == [key |-> change.key, retired |-> change.cfg.retired]

\* The configuration that step 1 saves: the new key, with the one in use and
\* whatever an interrupted change left before it as retired.
RetireCurrent == [key |-> change.key, retired |-> KeysOf(change.cfg)]

Begin(k) ==
    /\ Up /\ change.pc = "idle" /\ changes < MaxChanges
    /\ ~Torn
    /\ k # ring.key
    /\ changes' = changes + 1
    /\ change' = [NoChange EXCEPT !.pc = "save", !.key = k, !.cfg = file]
    /\ UNCHANGED <<file, ring, rows, writer, backup, faults, excuse, undone>>

\* config.Save: os.WriteFile empties the file before it writes it.  A save that
\* fails before that ends the change with nothing done.
Truncate ==
    /\ change.pc \in {"save", "drop"}
    /\ \/ /\ file' = NoKeys /\ NoFault
          /\ change' = [change EXCEPT !.pc = IF @ = "save" THEN "write" ELSE "rewrite"]
       \/ /\ Fault /\ change' = NoChange /\ UNCHANGED file
    /\ UNCHANGED <<ring, rows, writer, backup, changes, excuse, undone>>

\* Step 1 is on disk, and the running keyring is to move onto both keys; or the
\* write fails and the change ends, with the emptied file left as it is.
SaveNew ==
    /\ change.pc = "write"
    /\ \/ /\ file' = RetireCurrent /\ NoFault
          /\ change' = [change EXCEPT !.pc = "move", !.cfg = RetireCurrent]
       \/ /\ Fault /\ change' = NoChange /\ UNCHANGED file
    /\ UNCHANGED <<ring, rows, writer, backup, changes, excuse, undone>>

Replace ==
    /\ change.pc = "move"
    /\ ring' = NewKeyring(change.cfg)
    /\ change' = [change EXCEPT !.pc = "list", !.at = 1]
    /\ UNCHANGED <<file, rows, writer, backup, changes, faults, excuse, undone>>

\* RotateSecrets of the next store reads everything first.
ListSecrets ==
    /\ change.pc = "list"
    /\ change' = IF change.at > Len(Stores) THEN [change EXCEPT !.pc = "drop"]
                 ELSE [change EXCEPT !.pc = "rotate", !.seen = [r \in Stores[change.at] |-> rows[r]]]
    /\ UNCHANGED <<file, ring, rows, writer, backup, changes, faults, excuse, undone>>

\* One row is rewritten under the primary key, with what was read of it; one
\* already on that key is left alone.  A value no key here can open, or a
\* statement that fails, ends the change with the retired keys kept.
RotateRow(r) ==
    /\ change.pc = "rotate" /\ r \in DOMAIN change.seen
    /\ LET read == change.seen[r]
       IN  \/ /\ Decryptable(read)
              /\ IF NeedsRotation(read)
                 THEN /\ rows' = [rows EXCEPT ![r] = Encrypt(read.val)]
                      /\ undone' = (undone \/ rows[r].val # read.val)
                 ELSE UNCHANGED <<rows, undone>>
              /\ change' = [change EXCEPT !.seen = [q \in DOMAIN @ \ {r} |-> @[q]]]
              /\ NoFault
           \/ /\ (Decryptable(read) /\ Fault) \/ (~Decryptable(read) /\ NoFault)
              /\ change' = NoChange
              /\ UNCHANGED <<rows, undone>>
    /\ UNCHANGED <<file, ring, writer, backup, changes, excuse>>

NextStore ==
    /\ change.pc = "rotate" /\ DOMAIN change.seen = {}
    /\ change' = [change EXCEPT !.pc = "list", !.at = @ + 1]
    /\ UNCHANGED <<file, ring, rows, writer, backup, changes, faults, excuse, undone>>

\* Step 3: the retired keys go, from the file and then from the keyring; or this
\* write fails, and the keyring keeps what the emptied file has lost.
DropRetired ==
    /\ change.pc = "rewrite" /\ change' = NoChange
    /\ \/ /\ file' = [key |-> change.key, retired |-> {}] /\ NoFault
          /\ ring' = [key |-> change.key, retired |-> {}]
          /\ excuse' = excuse \cup (IF \E w \in Writers : Sealed(w) /\ writer[w].key # change.key
                                    THEN {"straddled"} ELSE {})
                              \cup (IF backup.pc = "rows" THEN {"backup"} ELSE {})
       \/ Fault /\ UNCHANGED <<file, ring, excuse>>
    /\ UNCHANGED <<rows, writer, backup, changes, undone>>

-----------------------------------------------------------------------------
(* Everything beside it.                                                   *)

\* An edit reads and decrypts the row, seals what it will store, ...
Seal(w, r, val) ==
    /\ Up /\ writer[w].pc = "idle" /\ Decryptable(rows[r])
    /\ writer' = [writer EXCEPT ![w] = [pc |-> "sealed", row |-> r, key |-> ring.key, val |-> val]]
    /\ UNCHANGED <<file, ring, rows, change, backup, changes, faults, excuse, undone>>

\* The change in progress will not look at this row again.
Passed(r) ==
    \/ /\ change.pc \in {"list", "rotate"}
       /\ \E i \in DOMAIN Stores : i < change.at /\ r \in Stores[i]
    \/ /\ change.pc = "rotate" /\ r \in Stores[change.at]
       /\ r \in DOMAIN change.seen => change.seen[r].key = ring.key
    \/ change.pc \in {"drop", "rewrite"}

\* ... and stores it, under the key it was sealed with.
Store(w) ==
    /\ Sealed(w)
    /\ rows' = [rows EXCEPT ![writer[w].row] = [key |-> writer[w].key, val |-> writer[w].val]]
    /\ writer' = [writer EXCEPT ![w] = NoWriter]
    /\ excuse' = IF writer[w].key # ring.key /\ Passed(writer[w].row)
                 THEN excuse \cup {"straddled"} ELSE excuse
    /\ UNCHANGED <<file, ring, change, backup, changes, faults, undone>>

\* backup.Run: the database is snapshotted, ...
BackupRows ==
    /\ Up /\ backup.pc = "none"
    /\ backup' = [pc |-> "rows", rows |-> rows, file |-> NoKeys]
    /\ UNCHANGED <<file, ring, rows, change, writer, changes, faults, excuse, undone>>

\* ... the other stores after it, and the configuration file last.
BackupConfig ==
    /\ Up /\ backup.pc = "rows"
    /\ backup' = [backup EXCEPT !.pc = "done", !.file = file]
    /\ excuse' = IF Torn THEN excuse \cup {"backup"} ELSE excuse
    /\ UNCHANGED <<file, ring, rows, change, writer, changes, faults, undone>>

\* The process dies wherever it stands; what had been sealed and not stored, and
\* a backup half taken, go with it.
Crash ==
    /\ Up /\ Fault
    /\ ring' = NoKeys /\ change' = NoChange
    /\ writer' = [w \in Writers |-> NoWriter]
    /\ backup' = IF backup.pc = "rows" THEN NoBackup ELSE backup
    /\ UNCHANGED <<file, rows, changes, excuse, undone>>

\* It starts again from the file; with an empty one it names no database and the
\* process refuses to start.
Start ==
    /\ ~Up /\ ~Torn
    /\ ring' = NewKeyring(file)
    /\ UNCHANGED <<file, rows, change, writer, backup, changes, faults, excuse, undone>>

Next ==
    \/ \E k \in Keys : Begin(k)
    \/ Truncate \/ SaveNew \/ Replace \/ ListSecrets \/ NextStore \/ DropRetired
    \/ \E r \in Rows : RotateRow(r)
    \/ \E w \in Writers, r \in Rows, v \in Values : Seal(w, r, v)
    \/ \E w \in Writers : Store(w)
    \/ BackupRows \/ BackupConfig \/ Crash \/ Start

Spec == Init /\ [][Next]_kvars

-----------------------------------------------------------------------------
(* Properties *)

Readable(sealed, set) == sealed.key \in KeysOf(set)

\* Wherever a change of key stops, by a crash, a save that fails, a store that
\* refuses a row, and however it is resumed: the running process can open every
\* stored credential, a configuration file that has any key in it has the keys of
\* all of them, and a backup's can be opened with the configuration inside it
\* (Change's three steps, data_key.go:103-194).  The file has no key in it while a
\* save is under way and, for good, when that save fails or the process dies after
\* os.WriteFile has emptied it (config.go:224).  Excused beyond that: an edit
\* sealed under the old key and stored when the change has already passed its row
\* or dropped that key, and a backup that takes its rows before retired keys are
\* dropped and the file after, or an empty file.
CredentialsReadable ==
    /\ "straddled" \notin excuse =>
         \A r \in Rows : /\ ~Torn => Readable(rows[r], file)
                         /\ Up => Decryptable(rows[r])
    /\ backup.pc = "done" /\ excuse = {} =>
         \A r \in Rows : Readable(backup.rows[r], backup.file)

\* The same of a file that was emptied: a failure at any point leaves every
\* credential readable (the comment on Change, data_key.go:103-104).  It fails: a
\* save that fails or dies once the file is truncated leaves no key on disk.
FailureLosesNothing ==
    "straddled" \notin excuse /\ change.pc \notin {"write", "rewrite"} =>
         \A r \in Rows : Readable(rows[r], file)

\* A rotation rewrites how a credential is sealed and never which one it is
\* (rotate_update_secrets.sql).
RotationAltersNothing == ~undone

-----------------------------------------------------------------------------
(* CredentialsReadable for any keys, stores, rows, credentials and edits.  *)

\* The stores are a list, and the absence of a key is not a key.
StoresListed ==
    Len(Stores) \in Nat /\ DOMAIN Stores = 1..Len(Stores) /\ "none" \notin Keys

Sound == "straddled" \notin excuse

Shapes ==
    /\ rows = [r \in Rows |-> rows[r]]
    /\ writer = [w \in Writers |-> writer[w]]
    /\ change = [pc |-> change.pc, key |-> change.key, cfg |-> change.cfg, at |-> change.at,
                 seen |-> change.seen]
    /\ change.at \in Nat
    /\ change.pc \in {"idle", "save", "write", "move", "list", "rotate", "drop", "rewrite"}
    /\ backup = [pc |-> backup.pc, rows |-> backup.rows, file |-> backup.file]

\* A change, and whatever else is under way, dies with the process; where the
\* file and the keyring stand at each of the change's steps.
Underway ==
    /\ change.pc # "idle" => Up /\ change.key \in Keys
    /\ \A w \in Writers : Sealed(w) => Up
    /\ change.pc \in {"write", "rewrite"} => Torn
    /\ change.pc \in {"save", "move", "list", "rotate", "drop"} => change.cfg = file /\ ~Torn
    /\ change.pc = "write" => KeysOf(ring) \subseteq KeysOf(change.cfg)
    /\ change.pc = "move" => change.cfg.key = change.key
    /\ change.pc \in {"list", "rotate"} => change.at # 0
    /\ change.pc \in {"list", "rotate", "drop", "rewrite"} => ring.key = change.key

\* Every key in memory is on disk, unless a save has emptied the file.
RingOnDisk == Up /\ ~Torn => KeysOf(ring) \subseteq KeysOf(file)

\* What the change has been through is sealed with the new key, and an edit does
\* not take it back.
Moved(r) == rows[r].key = ring.key

Rotated ==
    /\ change.pc \in {"list", "rotate"} =>
         \A i \in DOMAIN Stores : i < change.at => \A r \in Stores[i] : Moved(r)
    /\ change.pc = "rotate" =>
         /\ change.at \in DOMAIN Stores /\ DOMAIN change.seen \subseteq Stores[change.at]
         /\ \A r \in Stores[change.at] \ DOMAIN change.seen : Moved(r)
         /\ \A r \in DOMAIN change.seen : change.seen[r].key = ring.key => Moved(r)
    /\ change.pc \in {"drop", "rewrite"} => \A r \in Rows : Moved(r)

RowsReadable ==
    \A r \in Rows : /\ ~Torn => Readable(rows[r], file)
                    /\ Up => Decryptable(rows[r])

\* What an edit holds is sealed with a key still in memory.
EditsReadable == \A w \in Writers : Sealed(w) => writer[w].key \in KeysOf(ring)

\* A backup's rows can be opened with the keys in memory until its file is taken.
BackupReadable ==
    /\ backup.pc = "rows" => Up /\ (excuse = {} => \A r \in Rows : Decryptable(backup.rows[r]))
    /\ backup.pc = "done" /\ excuse = {} => \A r \in Rows : Readable(backup.rows[r], backup.file)

KeyInv ==
    /\ Shapes /\ Underway /\ RingOnDisk /\ BackupReadable
    /\ Sound => Rotated /\ RowsReadable /\ EditsReadable
=============================================================================
