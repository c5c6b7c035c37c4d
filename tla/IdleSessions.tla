---------------------------- MODULE IdleSessions ----------------------------
(***************************************************************************)
(* The IMAP IDLE supervisor of inbound/worker/idle.go: one long-lived       *)
(* session per mailbox provider, opened and closed to match the provider   *)
(* list.  The map of running sessions is behind a mutex; a session is a    *)
(* goroutine of its own, which learns that it was cancelled later and      *)
(* takes itself out of the map when it ends.                               *)
(***************************************************************************)
EXTENDS Naturals, FiniteSets

CONSTANTS Providers,     \* IMAP providers, each in its tenant
          TenantOf,      \* Providers -> tenants
          Versions,      \* fingerprints of a provider's configuration, numbered from 1
          MaxSessions,   \* bound: sessions alive at once
          MaxDelay       \* the longest wait before a retry, in doublings

VARIABLES listed,        \* the configuration stored for a provider, or Gone
          entry,         \* running: the session the map names, or 0
          live,          \* goroutines that have not ended
          pass           \* the reconcile pass: tenants left, providers it wants

ivars == <<listed, entry, live, pass>>

Gone == 0
Tenants == {TenantOf[p] : p \in Providers}
Resting == [at |-> "rest", left |-> {}, wanted |-> {}]

Init ==
    /\ listed \in [Providers -> Versions]
    /\ entry = [p \in Providers |-> 0]
    /\ live = {}
    /\ pass = Resting

Named(n) == {s \in live : s.id = n}
FreshId == CHOOSE n \in 1 .. MaxSessions + 1 : Named(n) = {}

Stopped(s) == [s EXCEPT !.cancelled = TRUE]
Cancel(S) == (live \ S) \cup {Stopped(s) : s \in S}

\* reconcile lists the tenants; when that fails it leaves everything alone.
ListTenants ==
    /\ pass.at = "rest"
    /\ pass' = [at |-> "tenants", left |-> Tenants, wanted |-> {}]
    /\ UNCHANGED <<listed, entry, live>>

\* ensure: nothing for a session on this configuration, cancelled or not;
\* otherwise the old one is cancelled and the new one takes its place in the
\* map at once, before the old one has noticed.
ensure(p, alive, names) ==
    LET old == {s \in alive : s.id = names[p]}
        new == [id |-> FreshId, of |-> p, version |-> listed[p],
                cancelled |-> FALSE, delay |-> 0]
    IN  IF \E s \in old : s.version = listed[p]
        THEN [live |-> alive, entry |-> names]
        ELSE [live |-> (alive \ old) \cup {Stopped(s) : s \in old} \cup {new},
              entry |-> [names EXCEPT ![p] = new.id]]

\* One provider of the tenant being listed.  A provider that is not IMAP is
\* skipped by the code and is no provider here.
EnsureListed(p) ==
    LET r == ensure(p, live, entry)
    IN  /\ pass.at = "tenants" /\ TenantOf[p] \in pass.left
        /\ listed[p] # Gone /\ p \notin pass.wanted
        /\ Cardinality(live) < MaxSessions
        /\ live' = r.live /\ entry' = r.entry
        /\ pass' = [pass EXCEPT !.wanted = @ \cup {p}]
        /\ UNCHANGED listed

\* The tenant's providers are all ensured; or listing them failed, and the
\* loop goes on to the next tenant with none of them wanted.
TenantDone(t, failed) ==
    LET its == {p \in Providers : TenantOf[p] = t}
    IN  /\ pass.at = "tenants" /\ t \in pass.left
        /\ IF failed THEN its \cap pass.wanted = {}
           ELSE \A p \in its : listed[p] # Gone => p \in pass.wanted
        /\ pass' = [pass EXCEPT !.left = @ \ {t}]
        /\ UNCHANGED <<listed, entry, live>>

\* stopUnwanted cancels and leaves the map to the sessions themselves.
stopUnwanted ==
    /\ pass.at = "tenants" /\ pass.left = {}
    /\ live' = Cancel({s \in live : entry[s.of] = s.id /\ s.of \notin pass.wanted})
    /\ pass' = Resting
    /\ UNCHANGED <<listed, entry>>

\* The deferred clean-up of a session that ended: it removes its own entry
\* only, because a newer session may hold the key by now.
SessionEnds(s) ==
    /\ s.cancelled
    /\ live' = live \ {s}
    /\ entry' = IF entry[s.of] = s.id THEN [entry EXCEPT ![s.of] = 0] ELSE entry
    /\ UNCHANGED <<listed, pass>>

\* A connection ended and the session waits before the next: from the first
\* step again when it had delivered anything, twice as long as last time
\* otherwise, up to the longest.
session(s, delivered) ==
    LET next == IF delivered THEN 1
                ELSE IF s.delay < MaxDelay THEN s.delay + 1 ELSE s.delay
    IN  /\ ~s.cancelled
        /\ live' = (live \ {s}) \cup {[s EXCEPT !.delay = next]}
        /\ UNCHANGED <<listed, entry, pass>>

\* stopAll, when the process shuts down.
stopAll ==
    /\ pass.at = "rest"
    /\ live' = Cancel({s \in live : entry[s.of] = s.id})
    /\ UNCHANGED <<listed, entry, pass>>

\* An administrator changes, removes or adds a provider.
Edited(p, v) ==
    /\ listed' = [listed EXCEPT ![p] = v]
    /\ v # listed[p]
    /\ UNCHANGED <<entry, live, pass>>

Next ==
    \/ ListTenants \/ stopUnwanted \/ stopAll
    \/ \E p \in Providers : EnsureListed(p) \/ \E v \in Versions \cup {Gone} : Edited(p, v)
    \/ \E t \in Tenants, failed \in BOOLEAN : TenantDone(t, failed)
    \/ \E s \in live : SessionEnds(s) \/ \E d \in BOOLEAN : session(s, d)

Spec == Init /\ [][Next]_ivars

-----------------------------------------------------------------------------
(* Properties *)

\* A mailbox is never watched twice: of the sessions of one provider at most
\* one has not been told to stop, and it is the one the map can stop, however
\* late the replaced ones notice (idle.go:149-161).
OneWatcher ==
    \A s \in live : ~s.cancelled => entry[s.of] = s.id /\ Cardinality(Named(s.id)) = 1
-----------------------------------------------------------------------------
(* What the proofs of these properties rest on.                            *)

\* Sessions are bounded by a number.
SessionsOK == MaxSessions \in Nat

SessionFields == {"id", "of", "version", "cancelled", "delay"}

\* No two sessions alive have one id, and one that is not cancelled is the one the
\* map names.
IdleInv ==
    /\ IsFiniteSet(live)
    /\ DOMAIN entry = Providers
    /\ \A s \in live : DOMAIN s = SessionFields /\ s.of \in Providers /\ s.id # 0
    /\ \A s, t \in live : s.id = t.id => s = t
    /\ \A s \in live : ~s.cancelled => entry[s.of] = s.id
=============================================================================
