----------------------------- MODULE Providers -----------------------------
(***************************************************************************)
(* A tenant's email providers: their edits (email_provider/usecases,       *)
(* manage_providers_usecase.go with config_password.go), the list of       *)
(* senders one may send as (senders/senders.go) and the pool of senders    *)
(* the sends share (provider_factory.go).                                  *)
(*                                                                         *)
(* A configuration is a host and two secrets, of the up to four that are   *)
(* carried forward one by one; 0 is a secret left blank, as a read returns *)
(* it.  A provider sends over SMTP, over an API, or is a mailbox that is   *)
(* only read.  An entry of the list is what was typed: its local part, whether it *)
(* has an "@", and its domain, lower-cased and trimmed.                    *)
(***************************************************************************)
EXTENDS Naturals, FiniteSets

CONSTANTS Ids,          \* providers
          KindOf,       \* and how each sends: "smtp" or "api"
          Fold(_),      \* what EqualFold compares names by
          Requests,     \* saves: [name, host, pass, dkim, allowed]
          Drafts,       \* forms tested before they are saved: [kind, host, pass, dkim]
          Froms,        \* addresses sent from: [local, domain]
          Editors, Sends,
          MaxEdits,     \* bound: edits begun
          MaxBuilt      \* bound: senders built

VARIABLES row,       \* email_providers
          editor,    \* each Create, Update or Delete in progress
          cache,     \* providerFactory.senders
          open,      \* senders built and not closed
          send,      \* each send or connection test in progress
          edits, built,
          typed,     \* history: each provider's list as it was typed
          latest,    \* history: the last secret submitted, by provider
          overlapped \* history: providers two edits of which overlapped

pvars == <<row, editor, cache, open, send, edits, built, typed, latest, overlapped>>

Secrets == {"pass", "dkim"}
NoConfig == [host |-> 0, pass |-> 0, dkim |-> 0]
NoRow == [there |-> FALSE, name |-> "", config |-> NoConfig, allowed |-> {}]
NoRequest == [name |-> "", host |-> 0, pass |-> 0, dkim |-> 0, allowed |-> {}]
NoEdit == [pc |-> "idle", id |-> "", req |-> NoRequest, read |-> NoRow, meant |-> {}]
NoSend == [pc |-> "idle", id |-> "", kind |-> "", config |-> NoConfig, sender |-> 0]
NotSaved == ""  \* the id of a provider that is tested before it is saved

-----------------------------------------------------------------------------
(* The list of allowed senders.                                            *)

Blank(e) == e.local = "" /\ ~e.at /\ e.domain = ""

\* normalizeEntry refuses a wildcard that is not the whole local part of a domain.
Valid(e) == e.domain \notin {"", "*"} /\ (e.local = "" \/ e.local \in {"*"} \cup {f.local : f \in Froms})

\* "domain" and "@domain" are written "*@domain".
normalizeEntry(e) == [local |-> IF e.local = "" THEN "*" ELSE e.local, domain |-> e.domain]

\* A mistaken Normalize: the form "@domain" is taken for a blank entry.
NormalizeBareOnly(entries) ==
    {normalizeEntry(e) : e \in {e \in entries : ~(e.local = "" /\ e.at)}}

Normalize(entries) == {normalizeEntry(e) : e \in {e \in entries : ~Blank(e)}}

Acceptable(entries) == \A e \in entries : Blank(e) \/ Valid(e)

\* MatchAddress: an empty list restricts nothing.
Admitted(allowed, from) ==
    \/ allowed = {}
    \/ \E e \in allowed : e.domain = from.domain /\ e.local \in {"*", from.local}

-----------------------------------------------------------------------------
(* Saving a provider.                                                      *)

\* A mistaken mergePassword: the submitted configuration as it is.
preserveNothing(stored, req) == [host |-> req.host, pass |-> req.pass, dkim |-> req.dkim]

\* preserveStoredPassword: a secret that arrives blank is the stored one.
preserveStoredPassword(stored, req) ==
    LET kept(s) == IF req[s] # 0 THEN req[s] ELSE stored[s]
    IN  [host |-> req.host, pass |-> kept("pass"), dkim |-> kept("dkim")]

\* toProto: what a read returns and a form submits again, its secrets blank.
toProto(p) ==
    [name |-> p.name, host |-> p.config.host, pass |-> 0, dkim |-> 0,
     allowed |-> {[local |-> e.local, at |-> TRUE, domain |-> e.domain] : e \in p.allowed}]

\* A configuration from a request over the one that was read.
Saved(read, req) ==
    [there |-> TRUE, name |-> req.name, allowed |-> Normalize(req.allowed),
     config |-> preserveStoredPassword(read.config, req)]

Init ==
    /\ row = [p \in Ids |-> NoRow] /\ editor = [e \in Editors |-> NoEdit]
    /\ cache = {} /\ open = {} /\ send = [s \in Sends |-> NoSend]
    /\ edits = 0 /\ built = 0
    /\ typed = [p \in Ids |-> {}] /\ latest = [p \in Ids |-> [s \in Secrets |-> 0]]
    /\ overlapped = {}

\* The check of the name: every other provider of the tenant, compared without
\* case, and none when they cannot be listed: that error is ignored.  The list of
\* senders is then normalised, or the save refused.
Look(e, p, req, meant) ==
    /\ editor[e].pc = "idle" /\ edits < MaxEdits
    /\ edits' = edits + 1
    /\ Acceptable(req.allowed)
    /\ \E listed \in {{}, Ids \ {p}} :
          \A q \in listed : row[q].there => Fold(row[q].name) # Fold(req.name)
    /\ overlapped' = overlapped \cup {p : d \in {d \in Editors : editor[d].id = p}}
    /\ editor' = [editor EXCEPT ![e] = [pc |-> "look", id |-> p, req |-> req, read |-> row[p],
                                        meant |-> meant]]
    /\ UNCHANGED <<row, cache, open, send, built, typed, latest>>

\* A form saved as it was read means what was typed into it before.
Resubmit(e, p) == row[p].there /\ Look(e, p, toProto(row[p]), typed[p])

\* An update reads the row it will write back, and fails without one; a create
\* starts from nothing.
Read(e) ==
    LET p == editor[e].id
    IN  /\ editor[e].pc = "look"
        /\ editor' = [editor EXCEPT ![e] = IF @.read.there /\ ~row[p].there THEN NoEdit
                                           ELSE [@ EXCEPT !.pc = "write", !.read = row[p]]]
        /\ UNCHANGED <<row, cache, open, send, edits, built, typed, latest, overlapped>>

\* The whole row is written.  The unique index compares names exactly; an update
\* of a row deleted since changes none.
Write(e) ==
    LET p == editor[e].id
        req == editor[e].req
        wrote == /\ editor[e].read.there = row[p].there
                 /\ ~\E q \in Ids \ {p} : row[q].there /\ row[q].name = req.name
    IN  /\ editor[e].pc = "write"
        /\ IF wrote
           THEN /\ row' = [row EXCEPT ![p] = Saved(editor[e].read, req)]
                /\ typed' = [typed EXCEPT ![p] = editor[e].meant]
                /\ latest' = [latest EXCEPT ![p] = [s \in Secrets |-> IF req[s] # 0 THEN req[s] ELSE @[s]]]
           ELSE UNCHANGED <<row, typed, latest>>
        /\ editor' = [editor EXCEPT ![e] = NoEdit]
        /\ UNCHANGED <<cache, open, send, edits, built, overlapped>>

\* Delete removes the row; the pool keeps the provider's sender.
Delete(p) ==
    /\ row[p].there /\ edits < MaxEdits
    /\ edits' = edits + 1
    /\ row' = [row EXCEPT ![p] = NoRow]
    /\ latest' = [latest EXCEPT ![p] = [s \in Secrets |-> 0]]
    /\ typed' = [typed EXCEPT ![p] = {}]
    /\ UNCHANGED <<editor, cache, open, send, built, overlapped>>

-----------------------------------------------------------------------------
(* Sending with one.                                                       *)

\* A send or a test has a configuration in hand.
Holding(s, p, kind, config) ==
    /\ send' = [send EXCEPT ![s] = [NoSend EXCEPT !.pc = "loaded", !.id = p, !.kind = kind,
                                                   !.config = config]]
    /\ UNCHANGED <<row, editor, cache, open, edits, built, typed, latest, overlapped>>

\* A send loads the provider and is refused a From the list does not admit.
Load(s, p, from) ==
    /\ send[s].pc = "idle" /\ row[p].there
    /\ Admitted(row[p].allowed, from)
    /\ Holding(s, p, KindOf[p], row[p].config)

\* Test and TestConfig: the connection is tried of a provider, whoever it may send
\* as, or of a form that is not saved, which has no id and keeps no secret.
Test(s, p) ==
    /\ send[s].pc = "idle" /\ row[p].there
    /\ Holding(s, p, KindOf[p], row[p].config)

TestConfig(s, d) ==
    /\ send[s].pc = "idle"
    /\ Holding(s, NotSaved, d.kind, [host |-> d.host, pass |-> d.pass, dkim |-> d.dkim])

\* A mistaken closeProviderLocked: the provider's other senders stay.
RetiredNone(p) == {}

\* closeProviderLocked: every cached sender of the provider.
Retired(p) == {c \in cache : c.id = p}

\* buildSender: an API's sender needs its key, and a mailbox has none.
buildSender(kind, config) == kind = "smtp" \/ (kind = "api" /\ config.pass # 0)

\* CreateSender: the cached sender of exactly this configuration, or a new one
\* once the provider's others are closed, in use or not, and whether or not one
\* can be built.
CreateSender(s) ==
    LET p == send[s].id
        config == send[s].config
        hit == {c \in cache : c.id = p /\ c.config = config}
        builds == buildSender(send[s].kind, config)
    IN  /\ send[s].pc = "loaded"
        /\ IF hit # {}
           THEN /\ send' = [send EXCEPT ![s].pc = "sending", ![s].sender = (CHOOSE c \in hit : TRUE).sender]
                /\ UNCHANGED <<cache, open, built>>
           ELSE /\ builds => built < MaxBuilt
                /\ built' = built + (IF builds THEN 1 ELSE 0)
                /\ cache' = (cache \ Retired(p))
                              \cup {[id |-> p, kind |-> send[s].kind, config |-> config, sender |-> n]
                                       : n \in {built'} \ {built}}
                /\ open' = (open \ {c.sender : c \in Retired(p)}) \cup ({built'} \ {built})
                /\ send' = [send EXCEPT ![s] = IF builds THEN [@ EXCEPT !.pc = "sending", !.sender = built']
                                               ELSE NoSend]
        /\ UNCHANGED <<row, editor, edits, typed, latest, overlapped>>

Sent(s) ==
    /\ send[s].pc = "sending"
    /\ send' = [send EXCEPT ![s] = NoSend]
    /\ UNCHANGED <<row, editor, cache, open, edits, built, typed, latest, overlapped>>

\* Close, at shutdown.
Close ==
    /\ cache # {} /\ open' = open \ {c.sender : c \in cache} /\ cache' = {}
    /\ UNCHANGED <<row, editor, send, edits, built, typed, latest, overlapped>>

Next ==
    \/ \E e \in Editors : \/ \E p \in Ids : Resubmit(e, p) \/ \E r \in Requests : Look(e, p, r, r.allowed)
                          \/ Read(e) \/ Write(e)
    \/ \E p \in Ids : Delete(p)
    \/ \E s \in Sends : \/ \E p \in Ids : Test(s, p) \/ \E f \in Froms : Load(s, p, f)
                        \/ \E d \in Drafts : TestConfig(s, d)
                        \/ CreateSender(s) \/ Sent(s)
    \/ Close

Spec == Init /\ [][Next]_pvars

-----------------------------------------------------------------------------
(* Properties *)

\* What a typed entry means, spelt out: an address, or any address of a domain.
Means(e, from) == e.domain = from.domain /\ (e.local \in {"", "*"} \/ e.local = from.local)

\* A provider keeps its secrets through edits that do not carry them: the stored
\* secret is the last one anybody submitted for it, unless two edits overlapped
\* and the second wrote back what it had read.  And its list goes on meaning what
\* was typed, however often the form is saved as it is read back
\* (preserveStoredPassword, config_password.go:17-135; Normalize,
\* senders.go:75-134; toProto).
ProvidersKept ==
    \A p \in Ids : row[p].there =>
        /\ \A s \in Secrets : p \notin overlapped => row[p].config[s] = latest[p][s]
        /\ \A f \in Froms :
             Admitted(row[p].allowed, f) <=>
                 LET entries == {e \in typed[p] : ~Blank(e)}
                 IN  entries = {} \/ \E e \in entries : Means(e, f)

\* No connection pool is forgotten: a sender that has not been closed is the one
\* cached for its provider, there is at most one, and a send holds one built
\* from the configuration it loaded, whatever was saved since (CreateSender,
\* provider_factory.go:88-113, 287-295).
PoolSound ==
    /\ open = {c.sender : c \in cache}
    /\ \A c, d \in cache : c.id = d.id => c = d
    /\ \A s \in Sends, c \in cache :
          send[s].pc = "sending" /\ c.sender = send[s].sender =>
              c.id = send[s].id /\ c.config = send[s].config

\* A test tries the kind of connection it is asked to ("builds whichever client the
\* provider type supports", manage_providers_usecase.go:358).  The cache is not
\* keyed by kind: a mailbox's form tested after the same form as SMTP gets the SMTP
\* sender.
TestTriesItsKind ==
    \A s \in Sends, c \in cache :
        send[s].pc = "sending" /\ c.sender = send[s].sender => c.kind = send[s].kind

\* A save that leaves a secret blank leaves it unchanged (Update,
\* manage_providers_usecase.go:150-152).
BlankMeansUnchanged ==
    [][\A e \in Editors, p \in Ids, s \in Secrets :
         editor[e].pc = "write" /\ editor[e].id = p /\ editor[e].req[s] = 0 /\ row'[p] # row[p]
         /\ row[p].there /\ editor'[e].pc = "idle"
         => row'[p].config[s] = row[p].config[s]]_pvars
-----------------------------------------------------------------------------
(* What the proofs of these properties rest on.                            *)

\* An id is not the absence of one.
IdsOK == NotSaved \notin Ids

\* What a list that was typed means for a From.
Meant(typing, from) ==
    LET entries == {e \in typing : ~Blank(e)}
    IN  entries = {} \/ \E e \in entries : Means(e, from)

\* A list stands for what was typed, whoever sends.
Stands(allowed, typing) == \A f \in Froms : Admitted(allowed, f) <=> Meant(typing, f)

ProviderShapes ==
    /\ DOMAIN row = Ids /\ DOMAIN typed = Ids /\ DOMAIN latest = Ids
    /\ \A p \in Ids : latest[p] = [s \in Secrets |-> latest[p][s]]
    /\ DOMAIN editor = Editors
    /\ \A e \in Editors :
         /\ editor[e] = [pc |-> editor[e].pc, id |-> editor[e].id, req |-> editor[e].req,
                         read |-> editor[e].read, meant |-> editor[e].meant]
         /\ editor[e].pc \in {"idle", "look", "write"}
         /\ editor[e].pc # "idle" => editor[e].id \in Ids
         /\ editor[e].pc = "idle" => editor[e].id = NotSaved

\* A provider that is not there has left nothing, and a list that is stored was
\* normalised.
RowsClean ==
    \A p \in Ids :
        /\ ~row[p].there => row[p] = NoRow /\ \A s \in Secrets : latest[p][s] = 0
        /\ row[p].there => /\ \A x \in row[p].allowed : x.local # ""
                           /\ p \notin overlapped => \A s \in Secrets : row[p].config[s] = latest[p][s]
                           /\ Stands(row[p].allowed, typed[p])

\* Two edits of a provider overlapped, or what the one edit has read is still so,
\* unless the provider was deleted meanwhile.
EditsApart ==
    /\ \A d, e \in Editors : d # e /\ editor[d].id = editor[e].id /\ editor[d].pc # "idle" =>
         editor[d].id \in overlapped
    /\ \A e \in Editors :
         /\ editor[e].pc # "idle" => Stands(Normalize(editor[e].req.allowed), editor[e].meant)
         /\ editor[e].pc = "write" =>
              /\ ~editor[e].read.there => editor[e].read = NoRow
              /\ editor[e].id \notin overlapped /\ editor[e].read.there /\ row[editor[e].id].there =>
                   editor[e].read = row[editor[e].id]

SavedInv == ProviderShapes /\ RowsClean /\ EditsApart

\* Senders are numbered as they are built, and no two cached ones are the same.
SendFields == {"pc", "id", "kind", "config", "sender"}

PoolInv ==
    /\ built \in Nat /\ PoolSound
    /\ \A c \in cache : c.sender \in 1..built
    /\ \A c, d \in cache : c.sender = d.sender => c = d
    /\ DOMAIN send = Sends
    /\ \A s \in Sends : DOMAIN send[s] = SendFields /\ send[s].sender \in 0..built
=============================================================================
