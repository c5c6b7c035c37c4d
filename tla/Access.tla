------------------------------- MODULE Access -------------------------------
(***************************************************************************)
(* Who may call what: the API keys of auth/usecases/api_key_usecase.go and *)
(* the memberships of membership_usecase.go as every instance's            *)
(* auth_middleware.go sees them, through a cache with a time to live, and  *)
(* the role and scope rules of policy.go and rbac_interceptor.go.          *)
(*                                                                         *)
(* What a caller may do is a level: 0 is nothing (no such key or member, a *)
(* disabled key), and a procedure needs at least its own.  A key's scopes  *)
(* and a member's role are both read that way; what the table of           *)
(* procedures asks of each is data.                                        *)
(***************************************************************************)
EXTENDS Naturals, FiniteSets

CONSTANTS Keys,          \* API keys
          Members,       \* (user, tenant) pairs a session may act as
          Levels,        \* 1 .. the highest, what a procedure may need
          Instances,
          TTL,           \* apiKeyCacheTTL and membershipCacheTTL, in ticks
          Slow,          \* bound: ticks between a row's read and its caching
          MaxNow,        \* bound: ticks
          MaxEdits       \* bound: edits of a key or a membership

VARIABLES grant,         \* the level the database gives a caller
          expiresAt,     \* a key's expiry, 0 for none
          cached,        \* each instance's entry: level, and when it lapses
          pending,       \* requests between reading a row and caching it
          evicting,      \* edits between writing a row and evicting its entry
          now, edits,
          lostAt,        \* history: when a caller last held each level
          closedBy,      \* history: where a caller's last edit was finished
          late, reopened \* history: a request was let through too late

kvars == <<grant, expiresAt, cached, pending, evicting, now, edits, lostAt,
           closedBy, late, reopened>>

Callers == Keys \cup Members
NoEntry == [level |-> 0, until |-> 0]
Nobody == 0

Expired(c) == expiresAt[c] # 0 /\ expiresAt[c] < now
Holds(c, l) == grant[c] >= l /\ ~Expired(c)

Init ==
    /\ grant \in [Callers -> {0} \cup Levels]
    /\ expiresAt \in [Callers -> 0..MaxNow] /\ \A m \in Members : expiresAt[m] = 0
    /\ cached = [i \in Instances |-> [c \in Callers |-> NoEntry]]
    /\ pending = {} /\ evicting = {}
    /\ now = 1 /\ edits = 0
    /\ lostAt = [c \in Callers |-> [l \in Levels |-> IF Holds(c, l) THEN now ELSE 0]]
    /\ closedBy = [c \in Callers |-> Nobody]
    /\ late = FALSE /\ reopened = FALSE

\* roleSatisfies, HasScope: a procedure that names no level is not for this
\* kind of caller at all and is refused before this.
authorize(level, needed) == level # 0 /\ level >= needed

\* A request goes through to its procedure.
Through(i, c, level, needed) ==
    LET ok == authorize(level, needed)
    IN  /\ late' = (late \/ (ok /\ ~Holds(c, needed) /\ lostAt[c][needed] + TTL + Slow < now))
        /\ reopened' = (reopened \/ (ok /\ ~Holds(c, needed) /\ closedBy[c] = i))

FreshForEver(i, c) == cached[i][c].level # 0 /\ (expiresAt[c] = 0 \/ expiresAt[c] > now)

\* TTLCache.Get; a cached key that has expired since is dropped and read again.
Fresh(i, c) ==
    /\ cached[i][c].level # 0
    /\ now <= cached[i][c].until
    /\ expiresAt[c] = 0 \/ expiresAt[c] > now

\* VerifyApiKey and resolveRole answered from the cache.
FromCache(i, c, needed) ==
    /\ Fresh(i, c)
    /\ Through(i, c, cached[i][c].level, needed)
    /\ UNCHANGED <<grant, expiresAt, cached, pending, evicting, now, edits, lostAt, closedBy>>

\* On a miss the row is read: GetByHash, or RoleIn, which reads the account
\* and then the membership.  Nothing, disabled and expired are refused here.
ReadRow(i, c) ==
    /\ ~Fresh(i, c)
    /\ grant[c] # 0 /\ ~Expired(c)
    /\ \A r \in pending : r.at # i \/ r.of # c
    /\ pending' = pending \cup {[at |-> i, of |-> c, level |-> grant[c], read |-> now]}
    /\ UNCHANGED <<grant, expiresAt, cached, evicting, now, edits, lostAt, closedBy, late, reopened>>

\* The answer is cached from now on, then used.
PutAndUse(r, needed) ==
    /\ cached' = [cached EXCEPT ![r.at][r.of] = [level |-> r.level, until |-> now + TTL]]
    /\ pending' = pending \ {r}
    /\ Through(r.at, r.of, r.level, needed)
    /\ UNCHANGED <<grant, expiresAt, evicting, now, edits, lostAt, closedBy>>

\* Create, Update, Enable, Disable and DeleteApiKey, and the membership edits:
\* the row is written, and a key's entry is to be evicted on the instance the
\* edit came to.
Edit(i, c, level) ==
    /\ edits < MaxEdits /\ level # grant[c]
    /\ \A e \in evicting : e.of # c
    /\ grant' = [grant EXCEPT ![c] = level]
    /\ lostAt' = [lostAt EXCEPT ![c] =
         [l \in Levels |-> IF Holds(c, l) THEN now ELSE lostAt[c][l]]]
    /\ closedBy' = [closedBy EXCEPT ![c] = Nobody]
    /\ evicting' = IF c \in Keys THEN evicting \cup {[at |-> i, of |-> c]} ELSE evicting
    /\ edits' = edits + 1
    /\ UNCHANGED <<expiresAt, cached, pending, now, late, reopened>>

\* forget, with the hash the row was read for.  When that read fails there is
\* nothing to evict by, and the entry stays until it lapses.
forget(e, found) ==
    /\ cached' = IF found THEN [cached EXCEPT ![e.at][e.of] = NoEntry] ELSE cached
    /\ closedBy' = IF found THEN [closedBy EXCEPT ![e.of] = e.at] ELSE closedBy
    /\ evicting' = evicting \ {e}
    /\ UNCHANGED <<grant, expiresAt, pending, now, edits, lostAt, late, reopened>>

Restart(i) ==
    /\ cached' = [cached EXCEPT ![i] = [c \in Callers |-> NoEntry]]
    /\ pending' = {r \in pending : r.at # i}
    /\ evicting' = {e \in evicting : e.at # i}
    /\ UNCHANGED <<grant, expiresAt, now, edits, lostAt, closedBy, late, reopened>>

Tick ==
    /\ now < MaxNow
    /\ \A r \in pending : now < r.read + Slow
    /\ lostAt' = [c \in Callers |-> [l \in Levels |-> IF Holds(c, l) THEN now ELSE lostAt[c][l]]]
    /\ now' = now + 1
    /\ UNCHANGED <<grant, expiresAt, cached, pending, evicting, edits, closedBy, late, reopened>>

Next ==
    \/ \E i \in Instances, c \in Callers :
         \/ \E l \in Levels : FromCache(i, c, l)
         \/ ReadRow(i, c)
         \/ \E l \in {0} \cup Levels : Edit(i, c, l)
    \/ \E r \in pending, l \in Levels : PutAndUse(r, l)
    \/ \E e \in evicting, found \in BOOLEAN : forget(e, found)
    \/ \E i \in Instances : Restart(i)
    \/ Tick

Spec == Init /\ [][Next]_kvars

-----------------------------------------------------------------------------
(* Properties *)

\* What was taken away is gone everywhere once the caches have lapsed: no
\* instance lets a caller through for something its key or membership has not
\* allowed for longer than the time to live, whatever was read, cached,
\* evicted or missed in between (api_key_usecase.go:43-52,
\* auth_middleware.go:23-29).
RevocationReaches == ~late

\* A key revoked through this instance is refused by it from then on
\* (api_key_usecase.go:50-52).
RevokedHereIsRefusedHere == ~reopened

-----------------------------------------------------------------------------
(* RevocationReaches for any keys, members, instances, levels and times.   *)

\* Times are whole ticks, and a procedure that needs anything needs a level
\* above nothing.
TimesOK == TTL \in Nat /\ Slow \in Nat /\ MaxNow \in Nat /\ Levels \subseteq Nat \ {0}

AccessTypes ==
    /\ grant \in [Callers -> {0} \cup Levels]
    /\ expiresAt \in [Callers -> Nat]
    /\ cached \in [Instances -> [Callers -> [level : {0} \cup Levels, until : Nat]]]
    /\ pending \subseteq [at : Instances, of : Callers, level : Levels, read : Nat]
    /\ evicting \subseteq [at : Instances, of : Callers]
    /\ lostAt \in [Callers -> [Levels -> Nat]]
    /\ now \in Nat

\* Caller c holds l, or held it d or fewer ticks before t.
HeldWithin(c, l, d, t) == Holds(c, l) \/ t <= lostAt[c][l] + d

\* An entry lapses within the time to live from now, and what it allows was
\* allowed within the time to live and a slow read of when it lapses.
EntriesRecent ==
    \A i \in Instances, c \in Callers :
        cached[i][c].level # 0 =>
            /\ cached[i][c].until <= now + TTL
            /\ \A l \in Levels : l <= cached[i][c].level =>
                  HeldWithin(c, l, TTL + Slow, cached[i][c].until)

\* A row in hand is no older than a slow read, and was so when it was read.
ReadsRecent ==
    \A r \in pending :
        /\ r.read <= now /\ now <= r.read + Slow
        /\ \A l \in Levels : l <= r.level => HeldWithin(r.of, l, 0, r.read)

AccessInv == AccessTypes /\ EntriesRecent /\ ReadsRecent /\ RevocationReaches
=============================================================================
