--------------------------- MODULE PlatformProofs ---------------------------
(***************************************************************************)
(* The properties of MCPlatform for every value of its constants.          *)
(*                                                                         *)
(* A behaviour is one of one component, so each property follows from the  *)
(* inductive invariant of that component (AccessInv, AccountInv, SignInInv,*)
(* KeyInv, SettingsInv, SavedInv and PoolInv, SetupInv, ReadyInv, in its   *)
(* module).                                                                *)
(* The lemmas below are per component: what one step does to each part of  *)
(* its invariant.                                                          *)
(***************************************************************************)
EXTENDS MCPlatform, FiniteSetTheorems, TLAPS

-----------------------------------------------------------------------------
(* Access: keys and memberships.                                           *)

\* What was held recently enough stays so: an edit and the clock record the
\* moment a level is lost before they take it (the history lostAt).
LEMMA HeldStays ==
    ASSUME K!TimesOK, K!AccessTypes, [K!Next]_(K!kvars),
           NEW c \in K!Callers, NEW l \in Levels, NEW d \in Nat, NEW t \in Nat,
           t <= now + d, K!HeldWithin(c, l, d, t)
    PROVE  K!HeldWithin(c, l, d, t)'
<1> USE DEF K!TimesOK, K!AccessTypes, K!HeldWithin
<1>1. grant' = grant /\ expiresAt' = expiresAt /\ now' = now /\ lostAt' = lostAt
      => K!HeldWithin(c, l, d, t)'
  BY DEF K!Holds, K!Expired
<1>2. ASSUME NEW i \in Gateways, NEW k \in K!Callers, NEW g \in {0} \cup Levels, K!Edit(i, k, g)
      PROVE  K!HeldWithin(c, l, d, t)'
  <2>1. lostAt'[c][l] = lostAt[c][l] \/ lostAt'[c][l] = now
    BY <1>2 DEF K!Edit
  <2>2. CASE k = c /\ K!Holds(c, l)
    <3>1. lostAt'[c][l] = now
      BY <1>2, <2>2 DEF K!Edit
    <3> QED BY <3>1
  <2>3. CASE ~K!Holds(c, l)
    BY <1>2, <2>1, <2>3
  <2>4. CASE k # c
    BY <1>2, <2>4 DEF K!Edit, K!Holds, K!Expired
  <2> QED BY <2>2, <2>3, <2>4
<1>3. CASE K!Tick
  <2>1. lostAt'[c][l] = IF K!Holds(c, l) THEN now ELSE lostAt[c][l]
    BY <1>3 DEF K!Tick
  <2> QED BY <2>1
<1> QED
  BY <1>1, <1>2, <1>3 DEF K!Next, K!kvars, K!FromCache, K!ReadRow, K!PutAndUse, K!forget, K!Restart

LEMMA AccessTypesInit == K!TimesOK /\ K!Init => K!AccessTypes
  BY DEF K!TimesOK, K!Init, K!AccessTypes, K!NoEntry

LEMMA AccessTypesStep ==
    ASSUME K!TimesOK, K!AccessTypes, [K!Next]_(K!kvars)
    PROVE  K!AccessTypes'
<1> USE DEF K!TimesOK, K!AccessTypes
<1>1. CASE UNCHANGED K!kvars
  BY <1>1 DEF K!kvars
<1>2. ASSUME NEW i \in Gateways, NEW c \in K!Callers, NEW l \in Levels, K!FromCache(i, c, l)
      PROVE  K!AccessTypes'
  BY <1>2 DEF K!FromCache
<1>3. ASSUME NEW i \in Gateways, NEW c \in K!Callers, K!ReadRow(i, c)
      PROVE  K!AccessTypes'
  BY <1>3 DEF K!ReadRow
<1>4. ASSUME NEW i \in Gateways, NEW c \in K!Callers, NEW g \in {0} \cup Levels, K!Edit(i, c, g)
      PROVE  K!AccessTypes'
  BY <1>4 DEF K!Edit
<1>5. ASSUME NEW r \in pending, NEW l \in Levels, K!PutAndUse(r, l)
      PROVE  K!AccessTypes'
  BY <1>5 DEF K!PutAndUse
<1>6. ASSUME NEW e \in evicting, NEW found \in BOOLEAN, K!forget(e, found)
      PROVE  K!AccessTypes'
  BY <1>6 DEF K!forget, K!NoEntry
<1>7. ASSUME NEW i \in Gateways, K!Restart(i)
      PROVE  K!AccessTypes'
  BY <1>7 DEF K!Restart, K!NoEntry
<1>8. CASE K!Tick
  BY <1>8 DEF K!Tick
<1> QED BY <1>1, <1>2, <1>3, <1>4, <1>5, <1>6, <1>7, <1>8 DEF K!Next

\* Only PutAndUse makes an entry, from a row read within Slow ticks.
LEMMA EntriesStep ==
    ASSUME K!TimesOK, K!AccessInv, [K!Next]_(K!kvars)
    PROVE  K!EntriesRecent'
<1> USE DEF K!TimesOK, K!AccessInv
<1>1. K!AccessTypes' BY AccessTypesStep
<1>2. now' \in Nat /\ now <= now'
  <2>1. now' = now \/ now' = now + 1
    BY DEF K!Next, K!kvars, K!FromCache, K!ReadRow, K!PutAndUse, K!forget, K!Restart, K!Edit, K!Tick
  <2> QED BY <2>1 DEF K!AccessTypes
<1> SUFFICES ASSUME NEW i \in Gateways, NEW c \in K!Callers, cached'[i][c].level # 0
             PROVE  /\ cached'[i][c].until <= now' + TTL
                    /\ \A l \in Levels : l <= cached'[i][c].level =>
                          K!HeldWithin(c, l, TTL + Slow, cached[i][c].until)'
  BY DEF K!EntriesRecent
<1>3. CASE cached'[i][c] = cached[i][c]
  <2>1. cached[i][c].until \in Nat /\ cached[i][c].until <= now + TTL
    BY <1>3 DEF K!EntriesRecent, K!AccessTypes
  <2>2. ASSUME NEW l \in Levels, l <= cached[i][c].level
        PROVE  K!HeldWithin(c, l, TTL + Slow, cached[i][c].until)'
    <3>1. K!HeldWithin(c, l, TTL + Slow, cached[i][c].until)
      BY <1>3, <2>2 DEF K!EntriesRecent
    <3> DEFINE t == cached[i][c].until
    <3>2. t \in Nat /\ t <= now + (TTL + Slow) /\ TTL + Slow \in Nat
      BY <2>1 DEF K!AccessTypes
    <3>3. K!HeldWithin(c, l, TTL + Slow, t) BY <3>1
    <3>b. t' = t BY <1>3
    <3> HIDE DEF t
    <3>4. K!Holds(c, l)' \/ t <= lostAt'[c][l] + (TTL + Slow)
      BY <3>2, <3>3, HeldStays DEF K!HeldWithin
    <3> QED BY <3>4, <3>b, <1>3 DEF t, K!HeldWithin
  <2> QED BY <1>2, <1>3, <2>1, <2>2 DEF K!AccessTypes
<1>4. CASE cached'[i][c] # cached[i][c]
  <2>1. PICK r \in pending, n \in Levels : K!PutAndUse(r, n)
    <3>1. ASSUME NEW e \in evicting, NEW found \in BOOLEAN, K!forget(e, found)
          PROVE  FALSE
      BY <1>4, <3>1 DEF K!forget, K!NoEntry, K!AccessTypes
    <3>2. ASSUME NEW k \in Gateways, K!Restart(k)
          PROVE  FALSE
      BY <1>4, <3>2 DEF K!Restart, K!NoEntry, K!AccessTypes
    <3>3. cached' # cached BY <1>4
    <3> QED BY <3>1, <3>2, <3>3 DEF K!Next, K!kvars, K!FromCache, K!ReadRow, K!Edit, K!Tick
  <2>2. r.at = i /\ r.of = c /\ cached'[i][c] = [level |-> r.level, until |-> now + TTL]
    BY <1>4, <2>1 DEF K!PutAndUse, K!AccessTypes
  <2>3. ASSUME NEW l \in Levels, l <= r.level
        PROVE  K!HeldWithin(c, l, TTL + Slow, cached[i][c].until)'
    <3>1. K!HeldWithin(c, l, 0, r.read) /\ now <= r.read + Slow
      BY <2>2, <2>3 DEF K!ReadsRecent
    <3>a. r.read \in Nat /\ now \in Nat /\ lostAt[c][l] \in Nat
      BY DEF K!AccessTypes
    <3>2. K!Holds(c, l) \/ now + TTL <= lostAt[c][l] + (TTL + Slow)
      BY <3>1, <3>a DEF K!HeldWithin
    <3> QED BY <2>1, <2>2, <3>2 DEF K!HeldWithin, K!PutAndUse, K!Holds, K!Expired
  <2> QED BY <2>1, <2>2, <2>3 DEF K!PutAndUse, K!AccessTypes
<1> QED BY <1>3, <1>4

\* Only ReadRow takes a row in hand, and the clock waits for a slow read.
LEMMA ReadsStep ==
    ASSUME K!TimesOK, K!AccessInv, [K!Next]_(K!kvars)
    PROVE  K!ReadsRecent'
<1> USE DEF K!TimesOK, K!AccessInv
<1>1. K!AccessTypes' BY AccessTypesStep
<1> SUFFICES ASSUME NEW r \in pending'
             PROVE  /\ r.read <= now' /\ now' <= r.read + Slow
                    /\ \A l \in Levels : l <= r.level => K!HeldWithin(r.of, l, 0, r.read)'
  BY DEF K!ReadsRecent
<1>2. CASE r \in pending
  <2>1. r.read \in Nat /\ r.of \in K!Callers /\ r.read <= now /\ now <= r.read + Slow
    BY <1>2 DEF K!ReadsRecent, K!AccessTypes
  <2>2. now' = now \/ (K!Tick /\ now' = now + 1 /\ now < r.read + Slow)
    BY <1>2 DEF K!Next, K!kvars, K!FromCache, K!ReadRow, K!PutAndUse, K!forget, K!Restart, K!Edit, K!Tick
  <2>3. ASSUME NEW l \in Levels, l <= r.level
        PROVE  K!HeldWithin(r.of, l, 0, r.read)'
    BY <1>2, <2>1, <2>3, HeldStays DEF K!ReadsRecent, K!AccessTypes
  <2> QED BY <2>1, <2>2, <2>3 DEF K!AccessTypes
<1>3. CASE r \notin pending
  <2>1. PICK i \in Gateways, c \in K!Callers : K!ReadRow(i, c)
    BY <1>3 DEF K!Next, K!kvars, K!FromCache, K!PutAndUse, K!forget, K!Restart, K!Edit, K!Tick
  <2>2. r = [at |-> i, of |-> c, level |-> grant[c], read |-> now]
    BY <1>3, <2>1 DEF K!ReadRow
  <2> QED BY <2>1, <2>2 DEF K!ReadRow, K!HeldWithin, K!Holds, K!Expired, K!AccessTypes
<1> QED BY <1>2, <1>3

LEMMA LetThroughInTime ==
    ASSUME K!TimesOK, K!AccessInv, [K!Next]_(K!kvars)
    PROVE  K!RevocationReaches'
<1> USE DEF K!TimesOK, K!AccessInv
<1>1. ASSUME NEW i \in Gateways, NEW c \in K!Callers, NEW n \in Levels, K!FromCache(i, c, n)
      PROVE  K!RevocationReaches'
  <2>1. n <= cached[i][c].level => K!Holds(c, n) \/ cached[i][c].until <= lostAt[c][n] + (TTL + Slow)
    BY <1>1 DEF K!FromCache, K!Fresh, K!EntriesRecent, K!HeldWithin
  <2>2. now <= cached[i][c].until
    BY <1>1 DEF K!FromCache, K!Fresh
  <2>3. n <= cached[i][c].level => K!Holds(c, n) \/ ~(lostAt[c][n] + TTL + Slow < now)
    BY <2>1, <2>2 DEF K!AccessTypes
  <2> QED BY <1>1, <2>3 DEF K!FromCache, K!Through, K!authorize, K!RevocationReaches, K!AccessTypes
<1>2. ASSUME NEW r \in pending, NEW n \in Levels, K!PutAndUse(r, n)
      PROVE  K!RevocationReaches'
  <2>1. n <= r.level => K!Holds(r.of, n) \/ r.read <= lostAt[r.of][n]
    BY DEF K!ReadsRecent, K!HeldWithin, K!AccessTypes
  <2>2. now <= r.read + Slow
    BY DEF K!ReadsRecent
  <2>3. n <= r.level => K!Holds(r.of, n) \/ ~(lostAt[r.of][n] + TTL + Slow < now)
    BY <2>1, <2>2 DEF K!AccessTypes
  <2> QED BY <1>2, <2>3 DEF K!PutAndUse, K!Through, K!authorize, K!RevocationReaches, K!AccessTypes
<1> QED
  BY <1>1, <1>2 DEF K!Next, K!kvars, K!ReadRow, K!forget, K!Restart, K!Edit, K!Tick, K!RevocationReaches

LEMMA AccessInit == K!TimesOK /\ K!Init => K!AccessInv
<1> SUFFICES ASSUME K!TimesOK, K!Init PROVE K!AccessInv OBVIOUS
<1>1. K!AccessTypes BY AccessTypesInit
<1> QED BY <1>1 DEF K!Init, K!NoEntry, K!AccessInv, K!EntriesRecent, K!ReadsRecent, K!RevocationReaches

LEMMA AccessStep == K!TimesOK /\ K!AccessInv /\ [K!Next]_(K!kvars) => K!AccessInv'
  BY AccessTypesStep, EntriesStep, ReadsStep, LetThroughInTime DEF K!AccessInv

-----------------------------------------------------------------------------
(* Accounts.                                                               *)

LEMMA CallersDiffer == U!SuperAdmin # U!Admin /\ \A c : U!RoleOf(c) = U!SuperAdmin => c = "super"
  BY DEF U!RoleOf, U!SuperAdmin, U!Admin

LEMMA AccountInit == U!Init => U!AccountInv
<1> SUFFICES ASSUME U!Init PROVE U!AccountInv OBVIOUS
<1>1. account.role \in {1, U!SuperAdmin} /\ account.secret = U!NoSecret /\ account \in U!AccountType
  BY DEF U!Init, U!AccountType, U!NoSecret
<1>2. U!Idle \in U!RequestType /\ U!Idle.op = "idle"
  BY DEF U!Idle, U!RequestType, U!NoSecret
<1>3. U!AccountTypes BY <1>1, <1>2 DEF U!Init, U!AccountTypes
<1>4. U!AccountSound BY <1>1 DEF U!Init, U!AccountSound
<1>5. \A c \in U!Callers : U!Judged(c, request[c])
  BY <1>2 DEF U!Init, U!Judged, U!Idle, U!SuperAdmin
<1> QED BY <1>3, <1>4, <1>5 DEF U!AccountInv

\* A request that begins is its caller's alone, and holds the role it read.
LEMMA AccountStart ==
    ASSUME U!AccountInv, NEW c \in U!Callers, NEW req \in U!RequestType, U!Start(c, req), U!Judged(c, req),
           c \in {"home", "guest"} => account.role # U!SuperAdmin
    PROVE  U!AccountInv'
<1> USE DEF U!AccountInv
<1> DEFINE seen == [req EXCEPT !.saw = account.role]
<1>0. account.role \in {1, U!SuperAdmin} \cup Roles BY DEF U!AccountTypes, U!AccountType
<1>1. /\ seen \in U!RequestType /\ seen.op = req.op /\ seen.role = req.role
      /\ seen.secret = req.secret /\ seen.saw = account.role
  BY <1>0 DEF U!RequestType
<1>2. request' = [request EXCEPT ![c] = seen] BY DEF U!Start
<1>3. U!Judged(c, seen) BY <1>1 DEF U!Judged
<1> HIDE DEF seen
<1>4. UNCHANGED <<account, enrolling, confirmed, raisedBy, outside>> BY DEF U!Start
<1>5. U!AccountTypes' BY <1>1, <1>2, <1>4 DEF U!AccountTypes
<1>6. U!AccountSound' BY <1>4 DEF U!AccountSound
<1>7. \A d \in U!Callers : U!Judged(d, request[d])'
  <2>1. \A d \in U!Callers : request'[d] = IF d = c THEN seen ELSE request[d]
    BY <1>2 DEF U!AccountTypes
  <2> QED BY <1>3, <1>4, <2>1 DEF U!Judged
<1> QED BY <1>5, <1>6, <1>7

\* A super admin is out of an administrator's reach.
LEMMA SuperAdminsKept ==
    ASSUME NEW c \in U!Callers, U!guardTargetInTenant(c)
    PROVE  c \in {"home", "guest"} => account.role # U!SuperAdmin
  BY CallersDiffer DEF U!guardTargetInTenant

LEMMA UpdateRoleBegins ==
    ASSUME U!AccountInv, NEW c \in U!Callers, NEW r \in Roles, U!BeginUpdateRole(c, r)
    PROVE  U!AccountInv'
<1> DEFINE req == [U!Idle EXCEPT !.op = "role", !.role = r]
<1>1. r = U!SuperAdmin => c = "super"
  <2>1. r = U!SuperAdmin => U!RoleOf(c) = U!SuperAdmin BY Zenon DEF U!BeginUpdateRole
  <2> QED BY <2>1, CallersDiffer
<1>2. req \in U!RequestType /\ req.op = "role" /\ req.role = r
  BY DEF U!RequestType, U!Idle, U!NoSecret
<1>3. U!Judged(c, req) BY <1>1, <1>2 DEF U!Judged, U!Idle, U!SuperAdmin
<1>4. U!Start(c, req) /\ U!guardTargetInTenant(c) BY DEF U!BeginUpdateRole
<1> HIDE DEF req
<1> QED BY <1>2, <1>3, <1>4, AccountStart, SuperAdminsKept

\* The second factor is out of a guest administrator's reach.
LEMMA GuestsKeptOut ==
    ASSUME NEW c \in U!Callers, U!guardTwoFactorTarget(c)
    PROVE  c # "guest" /\ U!guardTargetInTenant(c)
  BY CallersDiffer DEF U!guardTwoFactorTarget, U!TenantOf

LEMMA TwoFactorBegins ==
    ASSUME U!AccountInv, NEW c \in U!Callers, NEW on \in BOOLEAN, U!BeginTwoFactor(c, on)
    PROVE  U!AccountInv'
<1> DEFINE req == [U!Idle EXCEPT !.op = "twofactor", !.on = on, !.secret = account.secret]
<1>1. c # "guest" /\ U!guardTargetInTenant(c) BY GuestsKeptOut DEF U!BeginTwoFactor
<1>2. /\ account.secret \in {U!NoSecret} \cup Factors
      /\ account.secret # U!NoSecret => account.secret \in confirmed
  BY DEF U!AccountInv, U!AccountTypes, U!AccountSound, U!AccountType
<1>3. req \in U!RequestType /\ req.op = "twofactor" /\ req.secret = account.secret
  BY <1>2 DEF U!RequestType, U!Idle, U!NoSecret
<1>4. U!Judged(c, req) BY <1>1, <1>2, <1>3 DEF U!Judged, U!Idle, U!SuperAdmin
<1>5. U!Start(c, req) BY DEF U!BeginTwoFactor
<1> HIDE DEF req
<1> QED BY <1>1, <1>3, <1>4, <1>5, AccountStart, SuperAdminsKept

LEMMA OthersBegin ==
    ASSUME U!AccountInv, NEW c \in U!Callers, NEW op \in {"disable", "delete"},
           U!Start(c, [U!Idle EXCEPT !.op = op]), c # "guest",
           c \in {"home", "guest"} => account.role # U!SuperAdmin
    PROVE  U!AccountInv'
<1> DEFINE req == [U!Idle EXCEPT !.op = op]
<1>1. req \in U!RequestType /\ req.op = op BY DEF U!RequestType, U!Idle, U!NoSecret
<1>2. U!Judged(c, req) BY <1>1 DEF U!Judged, U!Idle, U!SuperAdmin
<1> HIDE DEF req
<1> QED BY <1>1, <1>2, AccountStart DEF req

LEMMA AssignBegins ==
    ASSUME U!AccountInv, NEW tenant \in {"home", "guest"}, NEW r \in {0} \cup U!TenantRoles,
           U!BeginAssign(tenant, r)
    PROVE  U!AccountInv'
<1> DEFINE op == IF tenant = "home" THEN "assignhome" ELSE "assign"
           req == [U!Idle EXCEPT !.op = op, !.role = r]
<1>1. req \in U!RequestType /\ req.op = op /\ req.role = r
  BY DEF U!RequestType, U!Idle, U!NoSecret, U!TenantRoles
<1>2. op = "assignhome" => r \in U!TenantRoles BY DEF U!BeginAssign
<1>3. U!Start("super", req) /\ "super" \in U!Callers BY DEF U!BeginAssign, U!Callers
<1>4. U!Judged("super", req) BY <1>1, <1>2 DEF U!Judged
<1> HIDE DEF req
<1> QED BY <1>1, <1>3, <1>4, AccountStart

LEMMA EnableBegins ==
    ASSUME U!AccountInv, U!BeginEnable
    PROVE  U!AccountInv'
<1> DEFINE req == [U!Idle EXCEPT !.op = "enable", !.secret = enrolling]
<1> USE DEF U!AccountInv, U!BeginEnable
<1>1. req \in U!RequestType /\ req.op = "enable" /\ req.secret = enrolling
  BY DEF U!RequestType, U!Idle, U!AccountTypes
<1>2. "owner" \in U!Callers BY DEF U!Callers
<1>3. request' = [request EXCEPT !["owner"] = req] OBVIOUS
<1> HIDE DEF req
<1>4. U!AccountTypes' BY <1>1, <1>2, <1>3 DEF U!AccountTypes
<1>5. U!AccountSound' BY DEF U!AccountSound
<1>6. \A d \in U!Callers : request'[d] = IF d = "owner" THEN req ELSE request[d]
  BY <1>3 DEF U!AccountTypes
<1>7. \A d \in U!Callers : U!Judged(d, request[d])'
  BY <1>1, <1>6 DEF U!Judged
<1> QED BY <1>4, <1>5, <1>7

\* What a write leaves in hand: its own request is over, the rest wait.
LEMMA WriteIsDone ==
    ASSUME U!AccountInv, NEW c \in U!Callers, U!Done(c), confirmed' = confirmed
    PROVE  request' \in [U!Callers -> U!RequestType] /\ \A d \in U!Callers : U!Judged(d, request[d])'
<1> USE DEF U!AccountInv, U!Done
<1>1. U!Idle \in U!RequestType /\ U!Idle.op = "idle" BY DEF U!Idle, U!RequestType, U!NoSecret
<1>2. request' \in [U!Callers -> U!RequestType] BY <1>1 DEF U!AccountTypes
<1>3. \A d \in U!Callers : request'[d] = IF d = c THEN U!Idle ELSE request[d]
  BY DEF U!AccountTypes
<1> QED BY <1>1, <1>2, <1>3 DEF U!Judged, U!Idle, U!SuperAdmin

LEMMA RoleWritten ==
    ASSUME U!AccountInv, NEW c \in U!Callers, NEW whole \in BOOLEAN, U!WriteRole(c, whole)
    PROVE  U!AccountInv'
<1> USE DEF U!AccountInv
<1> DEFINE r == request[c].role
<1>1. r \in Roles /\ (r = U!SuperAdmin => c = "super")
      /\ (c \in {"home", "guest"} => request[c].saw # U!SuperAdmin)
  BY DEF U!WriteRole, U!Judged
<1> DEFINE kept(old) == IF old = 0 \/ ~whole THEN old ELSE r
<1> HIDE DEF r
<1>2. account' = IF ~account.alive THEN account
                 ELSE IF r = U!SuperAdmin THEN [account EXCEPT !.role = r]
                 ELSE IF U!TenantOf(c) = "home" THEN [account EXCEPT !.role = r, !.home = kept(account.home)]
                 ELSE [account EXCEPT !.guest = kept(account.guest)]
  BY DEF U!WriteRole, r
<1>3. account' \in U!AccountType /\ account'.secret = account.secret
  BY <1>1, <1>2 DEF U!AccountTypes, U!AccountType
<1>4. account'.role = account.role \/ (account'.role = r /\ raisedBy' = c)
  BY <1>2 DEF U!WriteRole, U!AccountTypes, U!AccountType
<1>5. c = "guest" => account' = [account EXCEPT !.guest = account'.guest]
  <2> SUFFICES ASSUME c = "guest" PROVE account' = [account EXCEPT !.guest = account'.guest]
    OBVIOUS
  <2>1. r # U!SuperAdmin /\ U!TenantOf(c) # "home" BY <1>1 DEF U!TenantOf
  <2>2. account' = account \/ account' = [account EXCEPT !.guest = kept(account.guest)]
    BY <1>2, <2>1
  <2> QED BY <2>2 DEF U!AccountTypes, U!AccountType
<1>6. U!AccountSound'
  <2>1. account'.role = account.role => raisedBy' = raisedBy BY DEF U!WriteRole
  <2>2. ~outside' BY <1>1, <1>5 DEF U!WriteRole, U!Touched, U!Beyond, U!AccountSound
  <2> QED BY <1>1, <1>3, <1>4, <2>1, <2>2 DEF U!AccountSound, U!WriteRole
<1> QED BY <1>3, <1>6, WriteIsDone DEF U!WriteRole, U!AccountTypes

\* A write that is not a role's leaves the roles alone, and is no guest's.
LEMMA FactorWritten ==
    ASSUME U!AccountInv, NEW c \in U!Callers, request[c].op \in {"twofactor", "disable", "delete", "enable"},
           account' \in U!AccountType, account'.role = account.role, raisedBy' = raisedBy,
           confirmed' = confirmed, U!Done(c),
           \/ account'.secret \in {account.secret, U!NoSecret}
           \/ request[c].op \in {"twofactor", "enable"} /\ account'.secret = request[c].secret,
           outside' = outside \/ U!Touched(c), enrolling' \in {enrolling, U!NoSecret}
    PROVE  U!AccountInv'
<1> USE DEF U!AccountInv
<1>1. c # "guest" /\ (account'.secret # U!NoSecret => account'.secret \in confirmed)
      /\ (c \in {"home", "guest"} => request[c].saw # U!SuperAdmin)
  BY DEF U!Judged, U!AccountSound
<1>2. ~outside' BY <1>1 DEF U!Touched, U!Beyond, U!AccountSound
<1>3. U!AccountSound' BY <1>1, <1>2 DEF U!AccountSound
<1> QED BY <1>3, WriteIsDone DEF U!AccountTypes

LEMMA AccountStep ==
    ASSUME U!AccountInv, [U!Next]_(U!uvars)
    PROVE  U!AccountInv'
<1>0. account \in U!AccountType /\ request \in [U!Callers -> U!RequestType] /\ "owner" \in U!Callers
      /\ "super" \in U!Callers
  BY DEF U!AccountInv, U!AccountTypes, U!Callers
<1>1. CASE UNCHANGED U!uvars
  BY <1>1 DEF U!uvars, U!AccountInv, U!AccountTypes, U!AccountSound, U!Judged
<1>2. ASSUME NEW c \in U!Callers, NEW r \in Roles, U!BeginUpdateRole(c, r) PROVE U!AccountInv'
  BY <1>2, UpdateRoleBegins
<1>3. ASSUME NEW c \in U!Callers, NEW on \in BOOLEAN, U!BeginTwoFactor(c, on) PROVE U!AccountInv'
  BY <1>3, TwoFactorBegins
<1>4. ASSUME NEW c \in U!Callers, U!BeginDisable(c) PROVE U!AccountInv'
  <2>1. c # "guest" /\ (c \in {"home", "guest"} => account.role # U!SuperAdmin)
    BY <1>4, GuestsKeptOut, SuperAdminsKept DEF U!BeginDisable
  <2> QED BY <1>4, <2>1, OthersBegin DEF U!BeginDisable
<1>5. ASSUME NEW c \in U!Callers, U!BeginDelete(c) PROVE U!AccountInv'
  <2>1. c # "guest" /\ (c \in {"home", "guest"} => account.role # U!SuperAdmin)
    BY <1>5, SuperAdminsKept DEF U!BeginDelete, U!TenantOf
  <2> QED BY <1>5, <2>1, OthersBegin DEF U!BeginDelete
<1>6. ASSUME NEW c \in U!Callers, NEW whole \in BOOLEAN, U!WriteRole(c, whole) PROVE U!AccountInv'
  BY <1>6, RoleWritten
<1>7. ASSUME NEW c \in U!Callers, U!WriteTwoFactor(c) PROVE U!AccountInv'
  <2>1. account' \in U!AccountType /\ account'.role = account.role
        /\ account'.secret \in {account.secret, request[c].secret}
    BY <1>0, <1>7 DEF U!WriteTwoFactor, U!AccountType, U!RequestType
  <2> QED BY <1>7, <2>1, FactorWritten DEF U!WriteTwoFactor
<1>8. ASSUME NEW c \in U!Callers, U!DisableTwoFactor(c) PROVE U!AccountInv'
  <2>1. account' \in U!AccountType /\ account'.role = account.role
        /\ account'.secret \in {account.secret, U!NoSecret}
    BY <1>0, <1>8 DEF U!DisableTwoFactor, U!AccountType
  <2> QED BY <1>8, <2>1, FactorWritten DEF U!DisableTwoFactor
<1>9. ASSUME NEW c \in U!Callers, NEW whole \in BOOLEAN, U!DeleteUser(c, whole) PROVE U!AccountInv'
  <2>1. account' \in U!AccountType /\ account'.role = account.role /\ account'.secret = account.secret
    BY <1>0, <1>9 DEF U!DeleteUser, U!AccountType
  <2> QED BY <1>9, <2>1, FactorWritten DEF U!DeleteUser
<1>10. ASSUME NEW tenant \in {"home", "guest"}, NEW r \in {0} \cup U!TenantRoles,
              U!BeginAssign(tenant, r)
       PROVE  U!AccountInv'
  BY <1>10, AssignBegins
<1>11. CASE U!SetupTwoFactor
  BY <1>11 DEF U!SetupTwoFactor, U!AccountInv, U!AccountTypes, U!AccountSound, U!Judged
<1>12. CASE U!BeginEnable
  BY <1>12, EnableBegins
<1>13. CASE U!EnableTwoFactor
  <2>1. account' \in U!AccountType /\ account'.role = account.role
        /\ account'.secret \in {account.secret, request["owner"].secret}
    BY <1>0, <1>13 DEF U!EnableTwoFactor, U!AccountType, U!RequestType
  <2> QED BY <1>0, <1>13, <2>1, FactorWritten DEF U!EnableTwoFactor
<1>14. ASSUME NEW whole \in BOOLEAN, U!AssignUserToTenant(whole) PROVE U!AccountInv'
  <2> DEFINE req == request["super"]
  <2>a. req \in U!RequestType /\ (req.op = "assignhome" => req.role \in U!TenantRoles)
    BY <1>0 DEF U!AccountInv, U!Judged
  <2>b. \/ account' = account
        \/ account' = [account EXCEPT !.guest = req.role]
        \/ account' = [account EXCEPT !.home = req.role]
        \/ req.role \in U!TenantRoles /\ account' = [account EXCEPT !.home = req.role, !.role = req.role]
    BY <1>14, <2>a DEF U!AssignUserToTenant
  <2>c. req.role \in {0} \cup Roles BY <2>a DEF U!RequestType
  <2> HIDE DEF req
  <2>1. account' \in U!AccountType /\ account'.secret = account.secret
        /\ (account'.role = account.role \/ account'.role \in U!TenantRoles)
    BY <1>0, <2>b, <2>c DEF U!AccountType, U!TenantRoles
  <2>2. U!AccountSound'
    BY <1>14, <2>1 DEF U!AssignUserToTenant, U!AccountSound, U!AccountInv, U!TenantRoles
  <2> QED BY <1>0, <1>14, <2>1, <2>2, WriteIsDone DEF U!AssignUserToTenant, U!AccountInv, U!AccountTypes
<1> QED
  BY <1>1, <1>2, <1>3, <1>4, <1>5, <1>6, <1>7, <1>8, <1>9, <1>10, <1>11, <1>12, <1>13, <1>14
     DEF U!Next

\* Whatever instances, keys, members and levels there are, and whatever is read,
\* cached, evicted or missed meanwhile, no request goes through for what its caller
\* lost more than the time to live and a slow read ago; and however the requests
\* about an account interleave, nobody but a super admin makes one, the second factor
\* in force was shown by its owner, and a visited tenant's administrator changes
\* nothing outside it (VerifyApiKey, api_key_usecase.go; resolveRole,
\* auth_middleware.go; user_service.go, auth_usecase.go).
THEOREM RightsAreEarnedAndLost == Spec => []RightsSound
<1> DEFINE Inv == /\ part = "access" => K!AccessInv
                  /\ part = "accounts" => U!AccountInv
<1>1. Init => Inv
  BY AccessInit, AccountInit, AccessAssumption DEF Init
<1>2. Inv /\ [Next]_vars => Inv'
  <2> SUFFICES ASSUME Inv, [Next]_vars PROVE Inv' OBVIOUS
  <2>1. ASSUME part' = "access" PROVE (K!AccessInv)'
    <3>1. part = "access" /\ [K!Next]_(K!kvars)
      BY <2>1 DEF Next, vars, granting, K!kvars
    <3> QED BY <3>1, AccessStep, AccessAssumption
  <2>2. ASSUME part' = "accounts" PROVE (U!AccountInv)'
    <3>1. part = "accounts" /\ [U!Next]_(U!uvars)
      BY <2>2 DEF Next, vars, enlisting, U!uvars
    <3> QED BY <3>1, AccountStep
  <2> QED BY <2>1, <2>2
<1>3. Inv => RightsSound
  BY DEF RightsSound, K!AccessInv, U!AccountInv
<1> QED BY <1>1, <1>2, <1>3, PTL DEF Spec

-----------------------------------------------------------------------------
(* Signing in.                                                             *)

\* What the component's module calls finite and counts is what is so called here.
LEMMA LimiterSizes ==
  \A Z : (G!IsFiniteSet(Z) <=> IsFiniteSet(Z)) /\ G!Cardinality(Z) = Cardinality(Z)
  BY DEF G!IsFiniteSet, IsFiniteSet, G!Cardinality, Cardinality

LEMMA CountIsNat == \A Z : G!IsFiniteSet(Z) => G!Cardinality(Z) \in Nat
  BY LimiterSizes, FS_CardinalityType

LEMMA NoneCounted ==
  /\ G!IsFiniteSet({}) /\ G!Cardinality({}) = 0
  /\ \A Z : G!IsFiniteSet(Z) => (G!Cardinality(Z) = 0 <=> Z = {})
  BY LimiterSizes, FS_EmptySet

LEMMA JustOne == \A e : G!IsFiniteSet({e}) /\ G!Cardinality({e}) = 1
  BY LimiterSizes, FS_Singleton

LEMMA OneMore ==
  ASSUME NEW Z, NEW e, G!IsFiniteSet(Z)
  PROVE  /\ G!IsFiniteSet(Z \cup {e})
         /\ G!Cardinality(Z \cup {e}) = IF e \in Z THEN G!Cardinality(Z) ELSE G!Cardinality(Z) + 1
  BY LimiterSizes, FS_AddElement

LEMMA OneLess ==
  ASSUME NEW Z, NEW e, G!IsFiniteSet(Z)
  PROVE  /\ G!IsFiniteSet(Z \ {e})
         /\ G!Cardinality(Z \ {e}) = IF e \in Z THEN G!Cardinality(Z) - 1 ELSE G!Cardinality(Z)
  BY LimiterSizes, FS_RemoveElement

LEMMA PartCounted ==
  ASSUME NEW Z, G!IsFiniteSet(Z), NEW Y \in SUBSET Z
  PROVE  G!IsFiniteSet(Y) /\ G!Cardinality(Y) <= G!Cardinality(Z)
  BY LimiterSizes, FS_Subset

\* Removing records removes them and no others; the one pushed back is listed.
LEMMA ListedWithout ==
    ASSUME NEW list, G!Orderly(list), NEW Dropped
    PROVE  G!Orderly(G!Without(list, Dropped)) /\ G!Listed(G!Without(list, Dropped)) = G!Listed(list) \ Dropped
<1>1. G!Orderly(G!Without(list, Dropped)) BY DEF G!Orderly, G!Without
<1>2. G!Listed(G!Without(list, Dropped)) \subseteq G!Listed(list) \ Dropped BY DEF G!Listed, G!Without
<1>3. ASSUME NEW r \in G!Listed(list), r \notin Dropped PROVE r \in G!Listed(G!Without(list, Dropped))
  <2>1. <<r, r>> \in G!Without(list, Dropped) BY <1>3 DEF G!Orderly, G!Without, G!Listed
  <2> QED BY <2>1 DEF G!Listed
<1> QED BY <1>1, <1>2, <1>3

LEMMA ListedPushBack ==
    ASSUME NEW list, G!Orderly(list), NEW r \in Records
    PROVE  G!Orderly(G!PushBack(list, r)) /\ G!Listed(G!PushBack(list, r)) = G!Listed(list) \cup {r}
<1>1. G!Listed(list) \subseteq Records BY DEF G!Orderly, G!Listed
<1>2. ASSUME NEW p \in G!PushBack(list, r)
      PROVE  /\ p \in Records \X Records /\ <<p[1], p[1]>> \in G!PushBack(list, r)
             /\ p[1] \in G!Listed(list) \cup {r}
  <2>1. CASE p \in list BY <2>1 DEF G!Orderly, G!PushBack, G!Listed
  <2>2. CASE p \in (G!Listed(list) \cup {r}) \X {r}
    <3>1. p[1] \in G!Listed(list) \cup {r} /\ p[2] = r BY <2>2
    <3>2. CASE p[1] = r BY <2>2, <3>2 DEF G!PushBack
    <3>3. CASE p[1] \in G!Listed(list) BY <1>1, <2>2, <3>3 DEF G!PushBack, G!Listed, G!Orderly
    <3> QED BY <3>1, <3>2, <3>3
  <2> QED BY <2>1, <2>2 DEF G!PushBack
<1>3. G!Listed(list) \cup {r} \subseteq G!Listed(G!PushBack(list, r))
  <2>1. <<r, r>> \in G!PushBack(list, r) BY DEF G!PushBack
  <2> QED BY <2>1 DEF G!PushBack, G!Listed
<1> QED BY <1>2, <1>3 DEF G!Orderly, G!Listed

\* A sweep drops only records that nothing runs on and that are out of date.
LEMMA SweptList ==
    ASSUME G!LimitsOK, G!AttemptTypes
    PROVE  /\ G!Orderly(G!Swept) /\ G!Listed(G!Swept) \subseteq G!Tracked
           /\ \A r \in G!Tracked \ G!Listed(G!Swept) : recs[r].inFlight = 0
<1> DEFINE Dropped == {r \in G!Tracked : /\ recs[r].inFlight = 0 /\ ~G!Blocked(recs[r])
                                 /\ recs[r].lastTry + BlockFor < now}
<1>1. G!Swept = recency \/ G!Swept = G!Without(recency, Dropped) BY DEF G!Swept
<1>2. G!Orderly(G!Without(recency, Dropped)) /\ G!Listed(G!Without(recency, Dropped)) = G!Tracked \ Dropped
  BY ListedWithout DEF G!AttemptTypes, G!Tracked
<1> QED BY <1>1, <1>2 DEF G!AttemptTypes, G!Tracked

LEMMA RoomMade ==
    ASSUME NEW list, G!Orderly(list)
    PROVE  G!Orderly(G!makeRoomLocked(list)) /\ G!Listed(G!makeRoomLocked(list)) \subseteq G!Listed(list)
<1>1. G!makeRoomLocked(list) = list \/ \E Dropped : G!makeRoomLocked(list) = G!Without(list, Dropped)
  BY DEF G!makeRoomLocked
<1> QED BY <1>1, ListedWithout

\* What straggles is no other attempt, only one that no longer counts.
LEMMA Straggles ==
    ASSUME NEW att, att \in [DOMAIN att -> G!AttemptType], NEW Those
    PROVE  /\ DOMAIN G!Straggling(att, Those) = DOMAIN att
           /\ G!Straggling(att, Those) \in [DOMAIN att -> G!AttemptType]
           /\ \A a \in DOMAIN att :
                /\ G!Straggling(att, Those)[a].rec = att[a].rec
                /\ G!Straggling(att, Those)[a].subject = att[a].subject
                /\ G!Straggling(att, Those)[a].at = att[a].at
                /\ G!Straggling(att, Those)[a].counts => att[a].counts /\ att[a].subject \notin Those
  BY DEF G!Straggling, G!AttemptType

LEMMA AttemptsFinite ==
    ASSUME G!LimitsOK, G!AttemptTypes
    PROVE  /\ \A r : G!IsFiniteSet(G!On(r)) /\ G!Cardinality(G!On(r)) \in Nat
           /\ \A s : G!IsFiniteSet(G!Counting(s)) /\ G!Cardinality(G!Counting(s)) \in Nat
<1>1. G!IsFiniteSet(DOMAIN running) BY PartCounted DEF G!LimitsOK, G!AttemptTypes
<1>2. \A r : G!On(r) \subseteq DOMAIN running BY DEF G!On
<1>3. \A s : G!Counting(s) \subseteq DOMAIN running BY DEF G!Counting
<1> QED BY <1>1, <1>2, <1>3, PartCounted, CountIsNat

\* What counts against a subject runs on its record.
LEMMA CountingOn ==
    ASSUME G!LimitsOK, G!AttemptTypes, G!RecordsNamed, NEW s \in Subjects, NEW r \in G!RecordOf(s)
    PROVE  G!Cardinality(G!Counting(s)) <= recs[r].inFlight
<1>1. G!Counting(s) \subseteq G!On(r) BY DEF G!Counting, G!On, G!RecordOf, G!RecordsNamed
<1>2. r \in Records BY DEF G!RecordOf, G!Tracked, G!Listed, G!AttemptTypes, G!Orderly
<1> QED BY <1>1, <1>2, AttemptsFinite, PartCounted DEF G!RecordsNamed

\* A subject with nothing tried and nothing running that counts.
LEMMA NothingTried ==
    ASSUME G!LimitsOK, G!AttemptTypes', NEW s \in Subjects, guesses'[s] = {}, G!Counting(s)' = {}
    PROVE  G!TriesOf(s)'
<1>1. G!RecordOf(s)' \subseteq Records BY DEF G!RecordOf, G!Tracked, G!Listed, G!AttemptTypes, G!Orderly
<1>2. G!IsFiniteSet({}) /\ G!Cardinality({}) = 0 BY NoneCounted
<1>3. \A r \in Records : recs'[r].failures \in Nat BY DEF G!AttemptTypes, G!RecordType, G!LimitsOK
<1> QED BY <1>1, <1>2, <1>3 DEF G!TriesOf, G!LimitsOK

\* A subject whose tries nobody touched, on a record that has not got better.
LEMMA TriesKept ==
    ASSUME G!LimitsOK, G!AttemptTypes, G!AttemptTypes', NEW s \in Subjects, G!TriesOf(s),
           guesses'[s] = guesses[s], now' = now, G!Counting(s)' \subseteq G!Counting(s),
           G!RecordOf(s)' = {} => G!RecordOf(s) = {} \/ guesses[s] = {},
           \A r \in G!RecordOf(s)' : guesses[s] # {} =>
              /\ r \in G!RecordOf(s)
              /\ recs'[r].failures >= recs[r].failures /\ recs'[r].lastTry >= recs[r].lastTry
              /\ recs'[r].until = recs[r].until \/ recs'[r].until >= now + BlockFor
    PROVE  G!TriesOf(s)'
<1>1. G!RecordOf(s)' \subseteq Records BY DEF G!RecordOf, G!Tracked, G!Listed, G!AttemptTypes, G!Orderly
<1>2. G!RecordOf(s) \subseteq Records BY DEF G!RecordOf, G!Tracked, G!Listed, G!AttemptTypes, G!Orderly
<1>3. \A r \in Records : /\ recs'[r].failures \in Nat /\ recs[r].failures \in Nat
                         /\ recs'[r].lastTry \in Nat /\ recs[r].lastTry \in Nat
                         /\ recs'[r].until \in Nat /\ recs[r].until \in Nat
  BY DEF G!AttemptTypes, G!RecordType, G!LimitsOK
<1>4. G!Cardinality(G!Counting(s)') <= G!Cardinality(G!Counting(s)) /\ G!Cardinality(G!Counting(s)') \in Nat
      /\ G!Cardinality(G!Counting(s)) \in Nat
  BY AttemptsFinite, PartCounted, CountIsNat
<1>5. G!Cardinality(guesses[s]) \in Nat BY CountIsNat DEF G!TriesOf
<1>6. \A g \in guesses[s] : g[1] \in Nat /\ g[2] \in Nat BY DEF G!AttemptTypes
<1>7. CASE guesses[s] = {}
  <2>1. G!Cardinality(guesses[s]) = 0 BY <1>7, NoneCounted
  <2> QED BY <1>1, <1>3, <1>4, <1>5, <1>7, <2>1 DEF G!TriesOf, G!LimitsOK
<1>8. CASE guesses[s] # {}
  <2>1. G!RecordOf(s)' # {} BY <1>8 DEF G!TriesOf
  <2>2. ASSUME NEW r \in G!RecordOf(s)'
        PROVE  /\ G!Cardinality(guesses[s]) <= recs'[r].failures
               /\ \A g \in guesses[s] : /\ g[1] <= recs'[r].lastTry
                                        /\ recs'[r].until # 0 => g[1] + BlockFor <= recs'[r].until
    BY <1>1, <1>2, <1>3, <1>5, <1>6, <1>8 DEF G!TriesOf, G!AttemptTypes, G!LimitsOK
  <2> QED BY <1>4, <1>5, <1>6, <2>1, <2>2 DEF G!TriesOf, G!AttemptTypes, G!LimitsOK
<1> QED BY <1>7, <1>8

LEMMA SignInInit == ASSUME G!LimitsOK, G!Init PROVE G!SignInInv
<1>0. DOMAIN running = {} /\ recency = {} BY DEF G!Init
<1>1. G!AttemptTypes BY <1>0 DEF G!Init, G!AttemptTypes, G!LimitsOK, G!Free, G!RecordType, G!Orderly
<1>2. G!Tracked = {} BY <1>0 DEF G!Tracked, G!Listed
<1>3. (\A r : G!On(r) = {}) /\ (\A s : G!Counting(s) = {} /\ G!RecordOf(s) = {})
  BY <1>0, <1>2 DEF G!On, G!Counting, G!RecordOf
<1>4. G!IsFiniteSet({}) /\ G!Cardinality({}) = 0 BY NoneCounted
<1>5. G!RecordsNamed BY <1>0, <1>2, <1>3, <1>4 DEF G!RecordsNamed, G!Init, G!Free
<1>6. \A s \in Subjects : guesses[s] = {} BY DEF G!Init
<1>7. ASSUME NEW s \in Subjects PROVE G!TriesOf(s)
  <2>1. guesses[s] = {} /\ G!Counting(s) = {} /\ G!RecordOf(s) = {} BY <1>3, <1>6
  <2>2. 0 + 0 <= Max BY DEF G!LimitsOK
  <2> QED BY <1>4, <2>1, <2>2 DEF G!TriesOf
<1> QED BY <1>1, <1>5, <1>7 DEF G!SignInInv, G!TriesCounted

\* Collecting frees only what no list and no attempt names.
LEMMA Collecting ==
    ASSUME G!LimitsOK, NEW rs, rs \in [Records -> G!RecordType],
           recs' = G!Collected(rs, recency', running'),
           \A r \in Records : /\ rs[r].inFlight = G!Cardinality(G!On(r)')
                              /\ rs[r].until # 0 => rs[r].failures = Max
    PROVE  /\ recs' \in [Records -> G!RecordType]
           /\ \A r \in G!Tracked' : r \in Records => recs'[r] = rs[r]
           /\ \A a \in DOMAIN running' : running'[a].rec \in Records =>
                recs'[running'[a].rec] = rs[running'[a].rec]
           /\ \A r \in Records : /\ recs'[r].inFlight = G!Cardinality(G!On(r)')
                                 /\ recs'[r].until # 0 => recs'[r].failures = Max
<1>1. G!Free \in G!RecordType /\ G!Free.inFlight = 0 /\ G!Free.until = 0
  BY DEF G!Free, G!RecordType, G!LimitsOK
<1>2. ASSUME NEW r \in Records
      PROVE  \/ recs'[r] = rs[r]
             \/ /\ recs'[r] = G!Free /\ r \notin G!Tracked'
                /\ \A a \in DOMAIN running' : running'[a].rec # r
  BY DEF G!Collected, G!Tracked
<1>3. recs' \in [Records -> G!RecordType]
  <2>1. \A r \in Records : recs'[r] \in G!RecordType BY <1>1, <1>2
  <2> QED BY <2>1 DEF G!Collected
<1>4. \A r \in Records : (\A a \in DOMAIN running' : running'[a].rec # r) => G!On(r)' = {}
  BY DEF G!On
<1>5. G!Cardinality({}) = 0 BY NoneCounted
<1> QED BY <1>1, <1>2, <1>3, <1>4, <1>5

\* What is left when an attempt is settled.
LEMMA AfterSettling ==
    ASSUME G!LimitsOK, G!AttemptTypes, NEW n \in DOMAIN running,
           running' = G!Settled(n) \/ \E Those : running' = G!Straggling(G!Settled(n), Those)
    PROVE  /\ DOMAIN running' = DOMAIN running \ {n}
           /\ running' \in [DOMAIN running' -> G!AttemptType]
           /\ \A a \in DOMAIN running' :
                /\ running'[a].rec = running[a].rec /\ running'[a].subject = running[a].subject
                /\ running'[a].at = running[a].at /\ (running'[a].counts => running[a].counts)
           /\ \A r \in Records : G!Cardinality(G!On(r)') =
                IF r = running[n].rec THEN G!Cardinality(G!On(r)) - 1 ELSE G!Cardinality(G!On(r))
           /\ G!Cardinality(G!On(running[n].rec)) > 0
           /\ \A s : G!Counting(s)' \subseteq G!Counting(s) \ {n}
<1> DEFINE left == G!Settled(n)
<1>1. DOMAIN left = DOMAIN running \ {n} /\ left \in [DOMAIN left -> G!AttemptType]
      /\ \A a \in DOMAIN left : left[a] = running[a]
  BY DEF G!Settled, G!AttemptTypes
<1>2. DOMAIN running' = DOMAIN left /\ running' \in [DOMAIN left -> G!AttemptType]
      /\ \A a \in DOMAIN left :
           /\ running'[a].rec = left[a].rec /\ running'[a].subject = left[a].subject
           /\ running'[a].at = left[a].at /\ (running'[a].counts => left[a].counts)
  <2>1. CASE running' = left BY <1>1, <2>1
  <2>2. ASSUME NEW Those, running' = G!Straggling(left, Those)
        PROVE  DOMAIN running' = DOMAIN left /\ running' \in [DOMAIN left -> G!AttemptType]
               /\ \A a \in DOMAIN left :
                    /\ running'[a].rec = left[a].rec /\ running'[a].subject = left[a].subject
                    /\ running'[a].at = left[a].at /\ (running'[a].counts => left[a].counts)
    <3> HIDE DEF left
    <3> QED BY <1>1, <2>2, Straggles
  <2> QED BY <2>1, <2>2
<1> HIDE DEF left
<1>3. \A r : G!On(r)' = G!On(r) \ {n} BY <1>1, <1>2 DEF G!On
<1>4. n \in G!On(running[n].rec) BY DEF G!On
<1>5. \A r : r # running[n].rec => n \notin G!On(r) BY DEF G!On
<1>6. \A s : G!Counting(s)' \subseteq G!Counting(s) \ {n} BY <1>1, <1>2 DEF G!Counting
<1>7. G!IsFiniteSet(G!On(running[n].rec)) /\ G!Cardinality(G!On(running[n].rec)) \in Nat
  BY AttemptsFinite
<1>8. G!Cardinality(G!On(running[n].rec) \ {n}) = G!Cardinality(G!On(running[n].rec)) - 1
      /\ G!Cardinality(G!On(running[n].rec) \ {n}) \in Nat
  BY <1>4, <1>7, OneLess, CountIsNat
<1>9. \A r \in Records : G!Cardinality(G!On(r)') =
        IF r = running[n].rec THEN G!Cardinality(G!On(r)) - 1 ELSE G!Cardinality(G!On(r))
  <2>1. \A r : r # running[n].rec => G!On(r) \ {n} = G!On(r) BY <1>5
  <2> QED BY <1>3, <1>8, <2>1
<1> QED BY <1>1, <1>2, <1>6, <1>7, <1>8, <1>9

\* A record an attempt runs on has it in flight.
LEMMA RunsOn ==
    ASSUME G!LimitsOK, G!AttemptTypes, G!RecordsNamed, NEW n \in DOMAIN running
    PROVE  /\ running[n].rec \in Records /\ recs[running[n].rec] \in G!RecordType
           /\ recs[running[n].rec].inFlight \in Nat /\ recs[running[n].rec].inFlight > 0
           /\ recs[running[n].rec].failures \in 0..Max
           /\ recs[running[n].rec].until # 0 => recs[running[n].rec].failures = Max
<1> DEFINE x == running[n].rec
<1>1. n \in G!On(x) BY DEF G!On
<1>2. G!Cardinality(G!On(x)) # 0 BY <1>1, AttemptsFinite, NoneCounted
<1>3. x \in Records BY DEF G!AttemptTypes, G!AttemptType
<1> HIDE DEF x
<1>4. recs[x] \in G!RecordType BY <1>3 DEF G!AttemptTypes
<1>5. recs[x].inFlight \in Nat /\ recs[x].failures \in 0..Max BY <1>4 DEF G!RecordType
<1>6. recs[x].inFlight = G!Cardinality(G!On(x)) /\ (recs[x].until # 0 => recs[x].failures = Max)
  BY <1>3 DEF G!RecordsNamed
<1>7. recs[x].inFlight > 0 BY <1>2, <1>5, <1>6
<1> QED BY <1>3, <1>4, <1>5, <1>6, <1>7 DEF x

LEMMA GuessTickStep == ASSUME G!LimitsOK, G!SignInInv, G!Tick PROVE G!SignInInv'
<1>0. /\ DOMAIN running = {} /\ now \in Nat /\ now' = now + 1 /\ recs' = recs
      /\ recency' = recency /\ running' = running
      /\ guesses' = [s \in Subjects |-> {g \in guesses[s] : g[1] + BlockFor > now'}]
  BY DEF G!Tick, G!SignInInv, G!AttemptTypes
<1>1. G!AttemptTypes' BY <1>0 DEF G!SignInInv, G!AttemptTypes, G!Orderly
<1>2. G!Tracked' = G!Tracked /\ (\A r : G!On(r)' = G!On(r))
      /\ \A s : G!Counting(s)' = {} /\ G!Counting(s) = {} /\ G!RecordOf(s)' = G!RecordOf(s)
  BY <1>0 DEF G!Tracked, G!On, G!Counting, G!RecordOf
<1>3. G!RecordsNamed' BY <1>0, <1>2 DEF G!SignInInv, G!RecordsNamed
<1>4. ASSUME NEW s \in Subjects PROVE G!TriesOf(s)'
  <2>1. guesses'[s] \subseteq guesses[s] /\ \A g \in guesses'[s] : now' < g[1] + BlockFor
    BY <1>0
  <2>2. G!TriesOf(s) /\ G!IsFiniteSet(guesses[s]) BY DEF G!SignInInv, G!TriesCounted, G!TriesOf
  <2>3. /\ G!IsFiniteSet(guesses'[s]) /\ G!Cardinality(guesses'[s]) <= G!Cardinality(guesses[s])
        /\ G!Cardinality(guesses'[s]) \in Nat /\ G!Cardinality(guesses[s]) \in Nat
    BY <2>1, <2>2, PartCounted, CountIsNat
  <2>4. \A g \in guesses'[s] : g[1] \in Nat /\ g[1] <= now
    BY <2>1, <2>2 DEF G!TriesOf, G!SignInInv, G!AttemptTypes
  <2>5. G!RecordOf(s) \subseteq Records
    BY DEF G!SignInInv, G!RecordOf, G!Tracked, G!Listed, G!AttemptTypes, G!Orderly
  <2>6. G!Cardinality(G!Counting(s)') = 0 /\ G!Cardinality(G!Counting(s)) = 0 BY <1>2, NoneCounted
  <2>7. \A r \in G!RecordOf(s) : recs[r].failures \in Nat
    BY <2>5 DEF G!SignInInv, G!AttemptTypes, G!RecordType, G!LimitsOK
  <2>8. G!Cardinality(guesses'[s]) + G!Cardinality(G!Counting(s)') <= Max
    BY <2>2, <2>3, <2>6 DEF G!TriesOf, G!LimitsOK
  <2>9. \A g \in guesses'[s] : /\ g[1] <= now' /\ now' < g[1] + BlockFor
                               /\ g[1] = now' => g[2] <= G!Cardinality(guesses'[s])
    BY <1>0, <2>1, <2>4
  <2>10. G!RecordOf(s)' = {} => guesses'[s] = {} BY <1>2, <2>1, <2>2 DEF G!TriesOf
  <2>11. \A r \in G!RecordOf(s)' :
           /\ G!Cardinality(guesses'[s]) <= recs'[r].failures
           /\ \A g \in guesses'[s] : /\ g[1] <= recs'[r].lastTry
                                     /\ recs'[r].until # 0 => g[1] + BlockFor <= recs'[r].until
    BY <1>0, <1>2, <2>1, <2>2, <2>3, <2>7 DEF G!TriesOf
  <2> QED BY <2>3, <2>8, <2>9, <2>10, <2>11 DEF G!TriesOf
<1> QED BY <1>1, <1>3, <1>4 DEF G!SignInInv, G!TriesCounted

LEMMA AbandonStep ==
    ASSUME G!LimitsOK, G!SignInInv, NEW n \in DOMAIN running, G!Abandon(n)
    PROVE  G!SignInInv'
<1> DEFINE x == running[n].rec
           rs == [recs EXCEPT ![x].inFlight = @ - 1]
<1>0. /\ running' = G!Settled(n) /\ recs' = G!Collected(rs, recency', running')
      /\ recency' = recency /\ now' = now /\ guesses' = guesses
  BY DEF G!Abandon
<1>1. x \in Records BY DEF G!SignInInv, G!AttemptTypes, G!AttemptType
<1>2. G!AttemptTypes /\ G!RecordsNamed /\ G!TriesCounted BY DEF G!SignInInv
<1>3. recs[x] \in G!RecordType /\ recs[x].inFlight > 0 /\ recs[x].inFlight \in Nat
  BY <1>2, RunsOn
<1>4. rs \in [Records -> G!RecordType]
  BY <1>1, <1>2, <1>3 DEF G!AttemptTypes, G!RecordType
<1>5. \A r \in Records : /\ rs[r].inFlight = IF r = x THEN recs[r].inFlight - 1 ELSE recs[r].inFlight
                         /\ rs[r].subject = recs[r].subject /\ rs[r].failures = recs[r].failures
                         /\ rs[r].until = recs[r].until /\ rs[r].lastTry = recs[r].lastTry
  BY <1>1, <1>2, <1>4 DEF G!AttemptTypes, G!RecordType
<1>6. \A r \in Records : /\ rs[r].inFlight = G!Cardinality(G!On(r)')
                         /\ rs[r].until # 0 => rs[r].failures = Max
  <2>1. \A r \in Records : G!Cardinality(G!On(r)') =
          IF r = x THEN G!Cardinality(G!On(r)) - 1 ELSE G!Cardinality(G!On(r))
    BY <1>0, <1>2, AfterSettling
  <2> QED BY <1>1, <1>2, <1>5, <2>1 DEF G!RecordsNamed
<1> HIDE DEF rs
<1>7. /\ recs' \in [Records -> G!RecordType]
      /\ \A r \in G!Tracked' : r \in Records => recs'[r] = rs[r]
      /\ \A a \in DOMAIN running' : running'[a].rec \in Records =>
           recs'[running'[a].rec] = rs[running'[a].rec]
      /\ \A r \in Records : /\ recs'[r].inFlight = G!Cardinality(G!On(r)')
                            /\ recs'[r].until # 0 => recs'[r].failures = Max
  BY <1>0, <1>4, <1>6, Collecting
<1>8. /\ DOMAIN running' = DOMAIN running \ {n} /\ running' \in [DOMAIN running' -> G!AttemptType]
      /\ \A a \in DOMAIN running' :
           /\ running'[a].rec = running[a].rec /\ running'[a].subject = running[a].subject
           /\ running'[a].at = running[a].at /\ (running'[a].counts => running[a].counts)
      /\ \A s : G!Counting(s)' \subseteq G!Counting(s) \ {n}
  BY <1>0, <1>2, AfterSettling
<1>9. G!AttemptTypes' BY <1>0, <1>2, <1>7, <1>8 DEF G!AttemptTypes, G!Orderly
<1>10. G!Tracked' = G!Tracked /\ G!Tracked \subseteq Records
  BY <1>0, <1>2 DEF G!Tracked, G!Listed, G!AttemptTypes, G!Orderly
<1>11. G!RecordsNamed'
  <2>1. \A a \in DOMAIN running' : running'[a].rec \in Records BY <1>8 DEF G!AttemptType
  <2> QED BY <1>0, <1>2, <1>5, <1>7, <1>8, <1>10, <2>1 DEF G!RecordsNamed
<1>12. ASSUME NEW s \in Subjects PROVE G!TriesOf(s)'
  <2>1. G!RecordOf(s)' = G!RecordOf(s) BY <1>5, <1>7, <1>10 DEF G!RecordOf
  <2>2. \A r \in G!RecordOf(s) : recs'[r].failures = recs[r].failures
          /\ recs'[r].lastTry = recs[r].lastTry /\ recs'[r].until = recs[r].until
          /\ recs[r].failures \in Nat /\ recs[r].lastTry \in Nat
    BY <1>2, <1>5, <1>7, <1>10 DEF G!RecordOf, G!AttemptTypes, G!RecordType
  <2> QED BY <1>0, <1>2, <1>8, <1>9, <2>1, <2>2, TriesKept DEF G!TriesCounted
<1> QED BY <1>9, <1>11, <1>12 DEF G!SignInInv, G!TriesCounted

LEMMA SucceededStep ==
    ASSUME G!LimitsOK, G!SignInInv, NEW n \in DOMAIN running, G!Succeeded(n)
    PROVE  G!SignInInv'
<1> DEFINE x == running[n].rec
           me == running[n].subject
           rs == [recs EXCEPT ![x].inFlight = @ - 1]
<1>0. /\ running' = G!Straggling(G!Settled(n), {me}) /\ recs' = G!Collected(rs, recency', running')
      /\ recency' = G!Without(recency, {x}) /\ now' = now
      /\ guesses' = [guesses EXCEPT ![me] = {}]
  BY DEF G!Succeeded
<1>1. x \in Records /\ me \in Subjects BY DEF G!SignInInv, G!AttemptTypes, G!AttemptType
<1>2. G!AttemptTypes /\ G!RecordsNamed /\ G!TriesCounted BY DEF G!SignInInv
<1>3. recs[x] \in G!RecordType /\ recs[x].inFlight > 0 /\ recs[x].inFlight \in Nat
  BY <1>2, RunsOn
<1>4. rs \in [Records -> G!RecordType]
  BY <1>1, <1>2, <1>3 DEF G!AttemptTypes, G!RecordType
<1>5. \A r \in Records : /\ rs[r].inFlight = IF r = x THEN recs[r].inFlight - 1 ELSE recs[r].inFlight
                         /\ rs[r].subject = recs[r].subject /\ rs[r].failures = recs[r].failures
                         /\ rs[r].until = recs[r].until /\ rs[r].lastTry = recs[r].lastTry
  BY <1>1, <1>2, <1>4 DEF G!AttemptTypes, G!RecordType
<1>6. \A r \in Records : /\ rs[r].inFlight = G!Cardinality(G!On(r)')
                         /\ rs[r].until # 0 => rs[r].failures = Max
  <2>1. \A r \in Records : G!Cardinality(G!On(r)') =
          IF r = x THEN G!Cardinality(G!On(r)) - 1 ELSE G!Cardinality(G!On(r))
    BY <1>0, <1>2, AfterSettling
  <2> QED BY <1>1, <1>2, <1>5, <2>1 DEF G!RecordsNamed
<1> HIDE DEF rs
<1>7. /\ recs' \in [Records -> G!RecordType]
      /\ \A r \in G!Tracked' : r \in Records => recs'[r] = rs[r]
      /\ \A a \in DOMAIN running' : running'[a].rec \in Records =>
           recs'[running'[a].rec] = rs[running'[a].rec]
      /\ \A r \in Records : /\ recs'[r].inFlight = G!Cardinality(G!On(r)')
                            /\ recs'[r].until # 0 => recs'[r].failures = Max
  BY <1>0, <1>4, <1>6, Collecting
<1>8. /\ DOMAIN running' = DOMAIN running \ {n} /\ running' \in [DOMAIN running' -> G!AttemptType]
      /\ \A a \in DOMAIN running' :
           /\ running'[a].rec = running[a].rec /\ running'[a].subject = running[a].subject
           /\ running'[a].at = running[a].at /\ (running'[a].counts => running[a].counts)
      /\ \A s : G!Counting(s)' \subseteq G!Counting(s) \ {n}
  BY <1>0, <1>2, AfterSettling
<1>9. \A a \in DOMAIN running' : running'[a].counts => running[a].subject # me
  <2>1. G!Settled(n) \in [DOMAIN G!Settled(n) -> G!AttemptType] /\ DOMAIN G!Settled(n) = DOMAIN running \ {n}
        /\ \A a \in DOMAIN running \ {n} : G!Settled(n)[a] = running[a]
    BY <1>2 DEF G!Settled, G!AttemptTypes
  <2> QED BY <1>0, <1>8, <2>1, Straggles
<1>10. G!Orderly(recency') /\ G!Tracked' = G!Tracked \ {x} /\ G!Tracked \subseteq Records
  <2>1. G!Orderly(recency) BY <1>2 DEF G!AttemptTypes
  <2>2. recency' = G!Without(recency, {x}) BY <1>0
  <2>3. G!Tracked = G!Listed(recency) /\ G!Tracked' = G!Listed(recency') BY DEF G!Tracked
  <2>4. G!Tracked \subseteq Records BY <2>1, <2>3 DEF G!Listed, G!Orderly
  <2> HIDE DEF x
  <2> QED BY <2>1, <2>2, <2>3, <2>4, ListedWithout
<1>11. G!AttemptTypes'
  <2>1. guesses' \in [Subjects -> SUBSET (Nat \X Nat)] BY <1>0, <1>2 DEF G!AttemptTypes
  <2> QED BY <1>0, <1>2, <1>7, <1>8, <1>10, <2>1 DEF G!AttemptTypes
<1>12. G!RecordsNamed'
  <2>1. \A a \in DOMAIN running' : running'[a].rec \in Records BY <1>8 DEF G!AttemptType
  <2>2. recs[x].subject = me BY <1>2 DEF G!RecordsNamed
  <2>3. ASSUME NEW a \in DOMAIN running'
        PROVE  /\ recs'[running'[a].rec].subject = running'[a].subject
               /\ running'[a].counts => running'[a].rec \in G!Tracked'
               /\ running'[a].at = now' /\ now' <= recs'[running'[a].rec].lastTry
    <3>1. /\ recs[running[a].rec].subject = running[a].subject
          /\ running[a].counts => running[a].rec \in G!Tracked
          /\ running[a].at = now /\ now <= recs[running[a].rec].lastTry
      BY <1>2, <1>8 DEF G!RecordsNamed
    <3>2. running'[a].counts => running[a].rec # x BY <1>9, <2>2, <3>1
    <3>3. running'[a].rec = running[a].rec /\ running'[a].subject = running[a].subject
          /\ running'[a].at = running[a].at /\ (running'[a].counts => running[a].counts)
      BY <1>8
    <3>4. running[a].rec \in Records /\ recs'[running[a].rec] = rs[running[a].rec]
      BY <1>7, <2>1, <3>3
    <3>5. now' = now BY <1>0
    <3> QED BY <1>5, <1>10, <3>1, <3>2, <3>3, <3>4, <3>5
  <2>4. \A r \in G!Tracked' : recs'[r].subject = recs[r].subject BY <1>5, <1>7, <1>10
  <2> QED BY <1>2, <1>7, <1>10, <2>3, <2>4 DEF G!RecordsNamed
<1>13. ASSUME NEW s \in Subjects PROVE G!TriesOf(s)'
  <2>1. CASE s = me
    <3>1. G!Counting(s)' = {} BY <1>8, <1>9, <2>1 DEF G!Counting
    <3>2. guesses'[s] = {} BY <1>0, <1>2, <2>1 DEF G!AttemptTypes
    <3> QED BY <1>11, <3>1, <3>2, NothingTried
  <2>2. CASE s # me
    <3>0. recs[x].subject = me BY <1>2 DEF G!RecordsNamed
    <3>1. G!RecordOf(s)' = G!RecordOf(s) BY <1>1, <1>5, <1>7, <1>10, <2>2, <3>0 DEF G!RecordOf
    <3>2. \A r \in G!RecordOf(s) : recs'[r].failures = recs[r].failures
            /\ recs'[r].lastTry = recs[r].lastTry /\ recs'[r].until = recs[r].until
            /\ recs[r].failures \in Nat /\ recs[r].lastTry \in Nat
      <4>1. \A r \in G!RecordOf(s)' : recs'[r] = rs[r] /\ r \in Records BY <1>7, <1>10 DEF G!RecordOf
      <4> QED BY <1>2, <1>5, <3>1, <4>1 DEF G!AttemptTypes, G!RecordType
    <3>3. guesses'[s] = guesses[s] BY <1>0, <2>2, <1>2 DEF G!AttemptTypes
    <3>4. G!Counting(s)' \subseteq G!Counting(s) BY <1>8
    <3>5. G!TriesOf(s) BY <1>2 DEF G!TriesCounted
    <3>6. now' = now BY <1>0
    <3>7. \A r \in G!RecordOf(s)' : guesses[s] # {} =>
              /\ r \in G!RecordOf(s)
              /\ recs'[r].failures >= recs[r].failures /\ recs'[r].lastTry >= recs[r].lastTry
              /\ recs'[r].until = recs[r].until \/ recs'[r].until >= now + BlockFor
      BY <3>1, <3>2
    <3> QED BY <1>2, <1>11, <3>1, <3>3, <3>4, <3>5, <3>6, <3>7, TriesKept
  <2> QED BY <2>1, <2>2
<1> QED BY <1>11, <1>12, <1>13 DEF G!SignInInv, G!TriesCounted

LEMMA RecordChanged ==
    ASSUME NEW v \in G!RecordType, NEW y \in Nat
    PROVE  /\ \A x \in 0..Max : [v EXCEPT !.failures = x, !.until = y] \in G!RecordType
           /\ \A x \in Nat : [v EXCEPT !.inFlight = x, !.lastTry = y] \in G!RecordType
           /\ \A x \in Nat, z \in 0..Max : [v EXCEPT !.inFlight = x, !.failures = z] \in G!RecordType
  BY DEF G!RecordType

\* expireLocked forgets failures only when no try of the last block period is among them.
LEMMA Expiry ==
    ASSUME G!LimitsOK, G!SignInInv, NEW s \in Subjects, NEW r \in G!RecordOf(s)
    PROVE  /\ r \in Records /\ G!expireLocked(recs[r]) \in G!RecordType
           /\ G!expireLocked(recs[r]).subject = s
           /\ G!expireLocked(recs[r]).inFlight = recs[r].inFlight
           /\ G!expireLocked(recs[r]).lastTry = recs[r].lastTry
           /\ G!expireLocked(recs[r]).until # 0 => G!expireLocked(recs[r]).failures = Max
           /\ guesses[s] # {} => G!expireLocked(recs[r]) = recs[r]
           /\ G!Cardinality(guesses[s]) <= G!expireLocked(recs[r]).failures
<1>1. r \in Records BY DEF G!RecordOf, G!Tracked, G!Listed, G!SignInInv, G!AttemptTypes, G!Orderly
<1>2. recs[r] \in G!RecordType /\ recs[r].subject = s /\ now \in Nat
  BY <1>1 DEF G!RecordOf, G!SignInInv, G!AttemptTypes
<1>3. recs[r].until # 0 => recs[r].failures = Max BY <1>1 DEF G!SignInInv, G!RecordsNamed
<1>4. G!expireLocked(recs[r]) \in G!RecordType
  <2>1. [recs[r] EXCEPT !.failures = 0] \in G!RecordType BY <1>2 DEF G!RecordType, G!LimitsOK
  <2>2. [recs[r] EXCEPT !.failures = 0, !.until = 0] \in G!RecordType
    <3>1. 0 \in 0..Max /\ 0 \in Nat BY DEF G!LimitsOK
    <3>2. \A x \in 0..Max : [recs[r] EXCEPT !.failures = x, !.until = 0] \in G!RecordType
      BY <1>2, <3>1, RecordChanged, Zenon
    <3> QED BY <3>1, <3>2, Zenon
  <2> QED BY <1>2, <2>1, <2>2 DEF G!expireLocked
<1>5. /\ G!expireLocked(recs[r]).subject = s
      /\ G!expireLocked(recs[r]).inFlight = recs[r].inFlight
      /\ G!expireLocked(recs[r]).lastTry = recs[r].lastTry
      /\ G!expireLocked(recs[r]).until # 0 => G!expireLocked(recs[r]).failures = Max
  BY <1>2, <1>3 DEF G!expireLocked, G!RecordType
<1>6. ASSUME NEW g \in guesses[s] PROVE G!expireLocked(recs[r]) = recs[r]
  <2>1. /\ g[1] \in Nat /\ now < g[1] + BlockFor /\ g[1] <= recs[r].lastTry
        /\ recs[r].until # 0 => g[1] + BlockFor <= recs[r].until
    BY DEF G!SignInInv, G!TriesCounted, G!TriesOf, G!AttemptTypes
  <2>2. recs[r].until \in Nat /\ recs[r].lastTry \in Nat BY <1>2 DEF G!RecordType
  <2>3. ~(recs[r].until # 0 /\ ~G!Blocked(recs[r])) BY <1>2, <2>1, <2>2 DEF G!Blocked, G!LimitsOK
  <2>4. ~(now > recs[r].lastTry + BlockFor) BY <1>2, <2>1, <2>2 DEF G!LimitsOK
  <2> QED BY <2>3, <2>4 DEF G!expireLocked
<1>7. G!Cardinality(guesses[s]) <= G!expireLocked(recs[r]).failures
  <2>1. CASE guesses[s] = {}
    BY <2>1, <1>4, NoneCounted DEF G!RecordType, G!LimitsOK
  <2>2. CASE guesses[s] # {}
    BY <2>2, <1>6 DEF G!SignInInv, G!TriesCounted, G!TriesOf
  <2> QED BY <2>1, <2>2
<1> QED BY <1>1, <1>4, <1>5, <1>6, <1>7

LEMMA RefuseStep ==
    ASSUME G!LimitsOK, G!SignInInv, NEW me \in Subjects, G!Refuse(me)
    PROVE  G!SignInInv'
<1>1. G!AttemptTypes /\ G!RecordsNamed /\ G!TriesCounted BY DEF G!SignInInv
<1>2. PICK x \in G!RecordOf(me) :
        /\ x \in G!Listed(G!Swept)
        /\ recs' = [recs EXCEPT ![x] = G!expireLocked(recs[x])]
        /\ recency' = G!Swept /\ guesses' = G!Remembered(recency')
        /\ running' = running /\ now' = now
  BY DEF G!Refuse
<1>3. G!Orderly(recency') /\ G!Tracked' \subseteq G!Tracked /\ G!Tracked \subseteq Records
      /\ \A r \in G!Tracked \ G!Tracked' : recs[r].inFlight = 0
  BY <1>1, <1>2, SweptList DEF G!Tracked, G!Listed, G!AttemptTypes, G!Orderly
<1> DEFINE new == G!expireLocked(recs[x])
<1>4. /\ x \in Records /\ new \in G!RecordType /\ new.subject = recs[x].subject
      /\ new.inFlight = recs[x].inFlight /\ new.lastTry = recs[x].lastTry
      /\ new.until # 0 => new.failures = Max
      /\ guesses[me] # {} => new = recs[x]
      /\ recs[x].subject = me
  BY Expiry DEF G!RecordOf
<1> HIDE DEF new
<1>5. \A r \in Records : /\ recs'[r].subject = recs[r].subject
                         /\ recs'[r].inFlight = recs[r].inFlight
                         /\ recs'[r].lastTry = recs[r].lastTry
                         /\ recs'[r].until # 0 => recs'[r].failures = Max
                         /\ r # x => recs'[r] = recs[r]
                         /\ r = x => recs'[r] = new
  BY <1>1, <1>2, <1>4 DEF new, G!AttemptTypes, G!RecordsNamed
<1>6. guesses' \in [Subjects -> SUBSET (Nat \X Nat)]
  BY <1>1, <1>2 DEF G!AttemptTypes, G!Remembered
<1>7. G!AttemptTypes'
  <2>1. recs' \in [Records -> G!RecordType] BY <1>1, <1>2, <1>4 DEF G!AttemptTypes, new
  <2> QED BY <1>1, <1>2, <1>3, <1>6, <2>1 DEF G!AttemptTypes
<1>8. \A r : G!On(r)' = G!On(r) BY <1>2 DEF G!On
<1>9. \A a \in DOMAIN running : running[a].counts => running[a].rec \in G!Tracked'
  <2> SUFFICES ASSUME NEW a \in DOMAIN running, running[a].counts, running[a].rec \notin G!Tracked'
               PROVE  FALSE
    OBVIOUS
  <2>1. running[a].rec \in G!Tracked BY <1>1 DEF G!RecordsNamed
  <2>2. G!Cardinality(G!On(running[a].rec)) = 0 BY <1>1, <1>3, <2>1 DEF G!RecordsNamed
  <2>3. G!On(running[a].rec) = {} BY <1>1, <2>2, AttemptsFinite, NoneCounted
  <2> QED BY <2>3 DEF G!On
<1>10. G!RecordsNamed'
  <2>1. \A a \in DOMAIN running : running[a].rec \in Records BY <1>1 DEF G!AttemptTypes, G!AttemptType
  <2> QED BY <1>1, <1>2, <1>3, <1>5, <1>8, <1>9, <2>1 DEF G!RecordsNamed
<1>11. ASSUME NEW s \in Subjects PROVE G!TriesOf(s)'
  <2>0. G!Counting(s)' = G!Counting(s) BY <1>2 DEF G!Counting
  <2>1. G!RecordOf(s)' \subseteq G!RecordOf(s) BY <1>3, <1>5 DEF G!RecordOf
  <2>2. CASE s \in G!PushedOut(recency')
    <3>1. guesses'[s] = {} BY <1>2, <2>2 DEF G!Remembered
    <3>2. G!RecordOf(s)' = {} BY <2>2, <1>3, <1>5 DEF G!PushedOut, G!RecordOf, G!Tracked
    <3>3. ASSUME NEW a \in G!Counting(s) PROVE FALSE
      <4>1. a \in DOMAIN running /\ running[a].rec \in G!Tracked' /\ recs[running[a].rec].subject = s
        BY <1>1, <1>9 DEF G!Counting, G!RecordsNamed
      <4>2. recs'[running[a].rec].subject = s BY <1>3, <1>5, <4>1
      <4> QED BY <3>2, <4>1, <4>2 DEF G!RecordOf
    <3> QED BY <1>7, <2>0, <3>1, <3>3, NothingTried
  <2>3. CASE s \notin G!PushedOut(recency')
    <3>1. guesses'[s] = guesses[s] BY <1>2, <2>3 DEF G!Remembered
    <3>2. G!RecordOf(s)' = {} => G!RecordOf(s) = {}
      <4>1. G!RecordOf(s) # {} => \E r \in G!Tracked' : recs[r].subject = s
        BY <2>3 DEF G!PushedOut, G!Tracked
      <4> QED BY <1>3, <1>5, <4>1 DEF G!RecordOf
    <3>3. ASSUME NEW r \in G!RecordOf(s)', guesses[s] # {} PROVE r \in G!RecordOf(s) /\ recs'[r] = recs[r]
      BY <1>3, <1>4, <1>5, <2>1, <3>3 DEF G!RecordOf
    <3>4. \A r \in G!RecordOf(s) : recs[r].failures \in Nat /\ recs[r].lastTry \in Nat
      BY <1>1, <1>3 DEF G!RecordOf, G!AttemptTypes, G!RecordType, G!LimitsOK
    <3> QED BY <1>1, <1>2, <1>7, <2>0, <3>1, <3>2, <3>3, <3>4, TriesKept DEF G!TriesCounted
  <2> QED BY <2>2, <2>3
<1> QED BY <1>7, <1>10, <1>11 DEF G!SignInInv, G!TriesCounted

\* A subject that is not pushed out keeps the record it has.
LEMMA NotPushedOut ==
    ASSUME G!RecordsNamed, NEW list, NEW x, G!Listed(list) \subseteq G!Tracked \cup {x},
           x \in G!Tracked \/ \A q \in G!Tracked : recs[q].subject # recs[x].subject,
           NEW s \in Subjects, s \notin G!PushedOut(list), NEW r \in G!RecordOf(s)
    PROVE  r \in G!Listed(list)
<1>1. PICK q \in G!Listed(list) : recs[q].subject = s BY DEF G!PushedOut
<1>2. r \in G!Tracked /\ recs[r].subject = s BY DEF G!RecordOf
<1>3. q \in G!Tracked BY <1>1, <1>2
<1> QED BY <1>1, <1>2, <1>3 DEF G!RecordsNamed

\* Locked counts no further than Max, and locks the subject out from there.
LEMMA LockedIs ==
    ASSUME G!LimitsOK, now \in Nat, NEW v,
           v \in [subject : Subjects \cup {NoSubject}, failures : Nat, inFlight : Nat,
                  lastTry : Nat, until : Nat],
           v.until # 0 => v.failures >= Max
    PROVE  /\ G!Locked(v) \in G!RecordType
           /\ G!Locked(v).subject = v.subject /\ G!Locked(v).inFlight = v.inFlight
           /\ G!Locked(v).lastTry = v.lastTry
           /\ G!Locked(v).failures = IF v.failures >= Max THEN Max ELSE v.failures
           /\ IF v.failures >= Max THEN G!Locked(v).until = now + BlockFor
              ELSE G!Locked(v).until = 0
           /\ G!Locked(v).until # 0 => G!Locked(v).failures = Max
<1>1. CASE v.failures >= Max
  <2>1. G!Locked(v) = [v EXCEPT !.failures = Max, !.until = now + BlockFor] BY <1>1 DEF G!Locked
  <2>2. Max \in 0..Max /\ now + BlockFor \in Nat BY DEF G!LimitsOK
  <2>3. [v EXCEPT !.failures = Max, !.until = now + BlockFor] \in G!RecordType
    BY <2>2 DEF G!RecordType
  <2> QED BY <1>1, <2>1, <2>3
<1>2. CASE ~(v.failures >= Max)
  <2>1. G!Locked(v) = v BY <1>2 DEF G!Locked
  <2>2. v.failures \in 0..Max BY <1>2 DEF G!LimitsOK
  <2> QED BY <1>2, <2>1, <2>2 DEF G!RecordType
<1> QED BY <1>1, <1>2

\* What Failed makes of the records.
LEMMA FailedRecords ==
    ASSUME G!LimitsOK, G!SignInInv, NEW n \in DOMAIN running, G!Failed(n)
    PROVE  \E rs \in [Records -> G!RecordType] :
      /\ recs' = G!Collected(rs, recency', running')
      /\ \A r \in Records :
           /\ rs[r].subject = recs[r].subject /\ rs[r].lastTry = recs[r].lastTry
           /\ rs[r].inFlight = IF r = running[n].rec THEN recs[r].inFlight - 1 ELSE recs[r].inFlight
           /\ rs[r].failures >= recs[r].failures
           /\ rs[r].until = recs[r].until \/ rs[r].until = now + BlockFor
           /\ rs[r].until # 0 => rs[r].failures = Max
      /\ rs[running[n].rec].failures =
           IF recs[running[n].rec].failures + 1 >= Max THEN Max ELSE recs[running[n].rec].failures + 1
      /\ rs[running[n].rec].until \in {0, now + BlockFor}
<1> DEFINE x == running[n].rec
           heirs == G!RecordOf(running[n].subject)
           u == [recs[x] EXCEPT !.inFlight = @ - 1, !.failures = @ + 1]
           rec == G!Locked(u)
           counted == [recs EXCEPT ![x] = rec]
           h == CHOOSE h \in heirs : TRUE
           w == [recs[h] EXCEPT !.failures = @ + rec.failures]
           rs == IF x \notin G!Tracked /\ heirs # {} THEN [counted EXCEPT ![h] = G!Locked(w)] ELSE counted
<1>1. G!AttemptTypes /\ G!RecordsNamed BY DEF G!SignInInv
<1>2. x \in Records /\ now \in Nat /\ heirs \subseteq G!Tracked /\ G!Tracked \subseteq Records
  BY <1>1 DEF G!AttemptTypes, G!AttemptType, G!RecordOf, G!Tracked, G!Listed, G!Orderly
<1>3. recs[x] \in G!RecordType /\ recs[x].inFlight > 0 /\ recs[x].inFlight \in Nat
      /\ (recs[x].until # 0 => recs[x].failures = Max) /\ recs[x].failures \in 0..Max
  BY <1>1, RunsOn
<1>4. /\ u \in [subject : Subjects \cup {NoSubject}, failures : Nat, inFlight : Nat,
                lastTry : Nat, until : Nat]
      /\ u.subject = recs[x].subject /\ u.inFlight = recs[x].inFlight - 1
      /\ u.lastTry = recs[x].lastTry /\ u.until = recs[x].until
      /\ u.failures = recs[x].failures + 1
  <2>1. recs[x].inFlight - 1 \in Nat /\ recs[x].failures + 1 \in Nat BY <1>3
  <2>2. recs[x] \in [subject : Subjects \cup {NoSubject}, failures : Nat, inFlight : Nat,
                     lastTry : Nat, until : Nat]
    BY <1>3 DEF G!RecordType, G!LimitsOK
  <2> HIDE DEF x
  <2> QED BY <2>1, <2>2
<1> HIDE DEF u
<1>5. u.until # 0 => u.failures >= Max BY <1>3, <1>4 DEF G!LimitsOK
<1>6. /\ rec \in G!RecordType
      /\ rec.subject = u.subject /\ rec.inFlight = u.inFlight
      /\ rec.lastTry = u.lastTry
      /\ rec.failures = IF u.failures >= Max THEN Max ELSE u.failures
      /\ IF u.failures >= Max THEN rec.until = now + BlockFor ELSE rec.until = 0
      /\ rec.until # 0 => rec.failures = Max
  BY <1>2, <1>4, <1>5, LockedIs
<1> HIDE DEF rec
<1>7. counted \in [Records -> G!RecordType] /\ counted[x] = rec
      /\ \A r \in Records : r # x => counted[r] = recs[r]
  BY <1>1, <1>2, <1>6 DEF G!AttemptTypes
<1>8. \A r \in Records :
           /\ counted[r].subject = recs[r].subject /\ counted[r].lastTry = recs[r].lastTry
           /\ counted[r].inFlight = IF r = x THEN recs[r].inFlight - 1 ELSE recs[r].inFlight
           /\ counted[r].failures >= recs[r].failures
           /\ counted[r].until = recs[r].until \/ counted[r].until = now + BlockFor
           /\ counted[r].until # 0 => counted[r].failures = Max
  <2>1. ASSUME NEW r \in Records, r # x
        PROVE  /\ counted[r] = recs[r] /\ recs[r].failures >= recs[r].failures
               /\ recs[r].until # 0 => recs[r].failures = Max
    <3>1. recs[r].failures \in Nat BY <1>1 DEF G!AttemptTypes, G!RecordType, G!LimitsOK
    <3> QED BY <1>1, <1>7, <2>1, <3>1 DEF G!RecordsNamed
  <2>2. /\ rec.failures >= recs[x].failures
        /\ rec.until = recs[x].until \/ rec.until = now + BlockFor
    BY <1>3, <1>4, <1>5, <1>6 DEF G!LimitsOK
  <2> QED BY <1>3, <1>4, <1>6, <1>7, <2>1, <2>2
<1>9. CASE ~(x \notin G!Tracked /\ heirs # {})
  <2>1. rs = counted BY <1>9
  <2>2. recs' = G!Collected(counted, recency', running') BY <1>9 DEF G!Failed, counted, rec, u
  <2>3. rec.until \in {0, now + BlockFor} BY <1>6
  <2> HIDE DEF counted
  <2> QED BY <1>4, <1>6, <1>7, <1>8, <2>2, <2>3
<1>10. CASE x \notin G!Tracked /\ heirs # {}
  <2>1. h \in heirs /\ h \in Records /\ h # x BY <1>2, <1>10
  <2>4. recs' = G!Collected([counted EXCEPT ![h] = G!Locked(w)], recency', running')
    BY <1>10 DEF G!Failed, counted, rec, u
  <2>5. recs[h] \in G!RecordType /\ recs[h].failures \in Nat /\ rec.failures \in Nat
        /\ recs[h].inFlight \in Nat
        /\ (recs[h].until # 0 => recs[h].failures = Max)
    <3>1. recs[h] \in G!RecordType BY <1>1, <2>1 DEF G!AttemptTypes
    <3> QED BY <1>1, <1>6, <2>1, <3>1 DEF G!RecordsNamed, G!RecordType
  <2>6. /\ w \in [subject : Subjects \cup {NoSubject}, failures : Nat, inFlight : Nat,
                  lastTry : Nat, until : Nat]
        /\ w.subject = recs[h].subject /\ w.inFlight = recs[h].inFlight
        /\ w.lastTry = recs[h].lastTry /\ w.until = recs[h].until
        /\ w.failures = recs[h].failures + rec.failures
    <3>1. recs[h] \in [subject : Subjects \cup {NoSubject}, failures : Nat, inFlight : Nat,
                       lastTry : Nat, until : Nat]
      BY <2>5 DEF G!RecordType, G!LimitsOK
    <3>2. recs[h].failures + rec.failures \in Nat BY <2>5
    <3> HIDE DEF h
    <3> QED BY <3>1, <3>2
  <2> HIDE DEF w, h
  <2>7. /\ G!Locked(w) \in G!RecordType
        /\ G!Locked(w).subject = w.subject /\ G!Locked(w).inFlight = w.inFlight
        /\ G!Locked(w).lastTry = w.lastTry
        /\ G!Locked(w).failures = IF w.failures >= Max THEN Max ELSE w.failures
        /\ IF w.failures >= Max THEN G!Locked(w).until = now + BlockFor ELSE G!Locked(w).until = 0
        /\ G!Locked(w).until # 0 => G!Locked(w).failures = Max
    <3>1. w.until # 0 => w.failures >= Max BY <2>5, <2>6 DEF G!LimitsOK
    <3> QED BY <1>2, <2>6, <3>1, LockedIs
  <2> DEFINE both == [counted EXCEPT ![h] = G!Locked(w)]
  <2> HIDE DEF counted
  <2>8. both \in [Records -> G!RecordType] /\ both[h] = G!Locked(w)
        /\ \A r \in Records : r # h => both[r] = counted[r]
    BY <1>7, <2>1, <2>7
  <2>9. /\ G!Locked(w).failures >= recs[h].failures
        /\ G!Locked(w).until = recs[h].until \/ G!Locked(w).until = now + BlockFor
    <3>1. recs[h].failures \in 0..Max BY <2>5 DEF G!RecordType
    <3> QED BY <2>5, <2>6, <2>7, <3>1 DEF G!LimitsOK
  <2> HIDE DEF both
  <2>10. \A r \in Records :
           /\ both[r].subject = recs[r].subject /\ both[r].lastTry = recs[r].lastTry
           /\ both[r].inFlight = IF r = x THEN recs[r].inFlight - 1 ELSE recs[r].inFlight
           /\ both[r].failures >= recs[r].failures
           /\ both[r].until = recs[r].until \/ both[r].until = now + BlockFor
           /\ both[r].until # 0 => both[r].failures = Max
    BY <1>8, <2>1, <2>6, <2>7, <2>8, <2>9
  <2>11. both[x] = rec BY <1>2, <1>7, <2>1, <2>8
  <2>12. rec.until \in {0, now + BlockFor} BY <1>6
  <2>13. recs' = G!Collected(both, recency', running') BY <2>4 DEF both
  <2> QED BY <1>4, <1>6, <2>8, <2>10, <2>11, <2>12, <2>13
<1> QED BY <1>9, <1>10

\* Where Failed leaves the list: as it was, or with the record put back.
LEMMA FailedList ==
    ASSUME G!LimitsOK, G!SignInInv, NEW n \in DOMAIN running, G!Failed(n)
    PROVE  /\ G!Orderly(recency') /\ G!Tracked' \subseteq G!Tracked \cup {running[n].rec}
           /\ running' = G!Straggling(G!Settled(n), G!PushedOut(recency'))
           /\ running[n].rec \in G!Tracked
                \/ \A q \in G!Tracked : recs[q].subject # recs[running[n].rec].subject
                \/ G!Tracked' = G!Tracked
           /\ running[n].subject \notin G!PushedOut(recency')
           /\ running[n].rec \in G!Tracked => recency' = recency
<1> DEFINE x == running[n].rec
           me == running[n].subject
           back == G!PushBack(G!makeRoomLocked(recency), x)
<1>1. G!AttemptTypes /\ G!RecordsNamed BY DEF G!SignInInv
<1>2. x \in Records /\ recs[x].subject = me /\ me \in Subjects
  BY <1>1 DEF G!AttemptTypes, G!AttemptType, G!RecordsNamed
<1>3. running' = G!Straggling(G!Settled(n), G!PushedOut(recency')) BY DEF G!Failed
<1>4. CASE x \in G!Tracked \/ G!RecordOf(me) # {}
  <2>1. recency' = recency BY <1>4 DEF G!Failed
  <2>2. G!PushedOut(recency) = {} BY DEF G!PushedOut, G!RecordOf, G!Tracked
  <2> QED BY <1>1, <1>3, <2>1, <2>2 DEF G!AttemptTypes, G!Tracked
<1>5. CASE ~(x \in G!Tracked \/ G!RecordOf(me) # {})
  <2>1. recency' = back BY <1>5 DEF G!Failed
  <2>2. G!Orderly(G!makeRoomLocked(recency)) /\ G!Listed(G!makeRoomLocked(recency)) \subseteq G!Tracked
    BY <1>1, RoomMade DEF G!AttemptTypes, G!Tracked
  <2>3. G!Orderly(back) /\ G!Listed(back) \subseteq G!Tracked \cup {x} BY <1>2, <2>2, ListedPushBack
  <2>4. me \notin G!PushedOut(recency') BY <1>5 DEF G!PushedOut
  <2>5. \A q \in G!Tracked : recs[q].subject # me BY <1>5 DEF G!RecordOf
  <2> QED BY <1>2, <1>3, <1>5, <2>1, <2>3, <2>4, <2>5 DEF G!Tracked
<1> QED BY <1>4, <1>5

LEMMA FailedStep ==
    ASSUME G!LimitsOK, G!SignInInv, NEW n \in DOMAIN running, G!Failed(n)
    PROVE  G!SignInInv'
<1> DEFINE x == running[n].rec
           me == running[n].subject
<1>1. G!AttemptTypes /\ G!RecordsNamed /\ G!TriesCounted BY DEF G!SignInInv
<1>2. x \in Records /\ me \in Subjects /\ recs[x].subject = me /\ now \in Nat
  BY <1>1 DEF G!AttemptTypes, G!AttemptType, G!RecordsNamed
<1>3. /\ G!Orderly(recency') /\ G!Tracked' \subseteq G!Tracked \cup {x}
      /\ running' = G!Straggling(G!Settled(n), G!PushedOut(recency'))
      /\ x \in G!Tracked \/ (\A q \in G!Tracked : recs[q].subject # me) \/ G!Tracked' = G!Tracked
      /\ me \notin G!PushedOut(recency')
      /\ x \in G!Tracked => recency' = recency
  BY <1>2, FailedList
<1>4. G!Tracked \subseteq Records /\ G!Tracked' \subseteq Records
  BY <1>1, <1>2, <1>3 DEF G!Tracked, G!Listed, G!AttemptTypes, G!Orderly
<1>5. PICK rs \in [Records -> G!RecordType] :
        /\ recs' = G!Collected(rs, recency', running')
        /\ \A r \in Records :
             /\ rs[r].subject = recs[r].subject /\ rs[r].lastTry = recs[r].lastTry
             /\ rs[r].inFlight = IF r = x THEN recs[r].inFlight - 1 ELSE recs[r].inFlight
             /\ rs[r].failures >= recs[r].failures
             /\ rs[r].until = recs[r].until \/ rs[r].until = now + BlockFor
             /\ rs[r].until # 0 => rs[r].failures = Max
        /\ rs[x].failures = IF recs[x].failures + 1 >= Max THEN Max ELSE recs[x].failures + 1
        /\ rs[x].until \in {0, now + BlockFor}
  BY FailedRecords
<1>6. \A r \in Records : /\ rs[r].inFlight = G!Cardinality(G!On(r)')
                         /\ rs[r].until # 0 => rs[r].failures = Max
  <2>1. \A r \in Records : G!Cardinality(G!On(r)') =
          IF r = x THEN G!Cardinality(G!On(r)) - 1 ELSE G!Cardinality(G!On(r))
    BY <1>1, <1>3, AfterSettling
  <2> QED BY <1>1, <1>5, <2>1 DEF G!RecordsNamed
<1>7. /\ recs' \in [Records -> G!RecordType]
      /\ \A r \in G!Tracked' : r \in Records => recs'[r] = rs[r]
      /\ \A a \in DOMAIN running' : running'[a].rec \in Records =>
           recs'[running'[a].rec] = rs[running'[a].rec]
      /\ \A r \in Records : /\ recs'[r].inFlight = G!Cardinality(G!On(r)')
                            /\ recs'[r].until # 0 => recs'[r].failures = Max
  BY <1>5, <1>6, Collecting
<1>8. /\ DOMAIN running' = DOMAIN running \ {n} /\ running' \in [DOMAIN running' -> G!AttemptType]
      /\ \A a \in DOMAIN running' :
           /\ running'[a].rec = running[a].rec /\ running'[a].subject = running[a].subject
           /\ running'[a].at = running[a].at /\ (running'[a].counts => running[a].counts)
      /\ \A s : G!Counting(s)' \subseteq G!Counting(s) \ {n}
  BY <1>1, <1>3, AfterSettling
<1>9. \A a \in DOMAIN running' : running'[a].counts => running[a].subject \notin G!PushedOut(recency')
  <2>1. G!Settled(n) \in [DOMAIN G!Settled(n) -> G!AttemptType] /\ DOMAIN G!Settled(n) = DOMAIN running \ {n}
        /\ \A a \in DOMAIN running \ {n} : G!Settled(n)[a] = running[a]
    BY <1>1 DEF G!Settled, G!AttemptTypes
  <2> QED BY <1>3, <1>8, <2>1, Straggles
<1>10. now' = now /\ guesses' = [G!Remembered(recency') EXCEPT ![me] =
                                  IF running[n].counts THEN @ \cup {G!Try(running[n])} ELSE @]
  BY DEF G!Failed
<1>11. G!Try(running[n]) = <<now, G!Cardinality(guesses[me]) + 1>> /\ G!Cardinality(guesses[me]) \in Nat
  <2>1. running[n].at = now BY <1>1 DEF G!RecordsNamed
  <2>2. G!IsFiniteSet(guesses[me]) BY <1>1, <1>2 DEF G!TriesCounted, G!TriesOf
  <2> QED BY <2>1, <2>2, CountIsNat DEF G!Try
<1>12. /\ G!Remembered(recency')[me] = guesses[me] /\ G!Remembered(recency') \in [Subjects -> SUBSET (Nat \X Nat)]
       /\ \A s \in Subjects : G!Remembered(recency')[s] =
            IF s \in G!PushedOut(recency') THEN {} ELSE guesses[s]
  BY <1>1, <1>2, <1>3 DEF G!Remembered, G!AttemptTypes
<1>13. guesses' \in [Subjects -> SUBSET (Nat \X Nat)]
       /\ guesses'[me] = (IF running[n].counts THEN guesses[me] \cup {G!Try(running[n])} ELSE guesses[me])
       /\ \A s \in Subjects : s # me => guesses'[s] =
            IF s \in G!PushedOut(recency') THEN {} ELSE guesses[s]
  <2>1. G!Try(running[n]) \in Nat \X Nat BY <1>2, <1>11
  <2>2. guesses[me] \in SUBSET (Nat \X Nat) BY <1>1, <1>2 DEF G!AttemptTypes
  <2> QED BY <1>2, <1>10, <1>12, <2>1, <2>2
<1>14. G!AttemptTypes' BY <1>1, <1>3, <1>7, <1>8, <1>10, <1>13 DEF G!AttemptTypes
<1>15. ASSUME NEW s \in Subjects, s \notin G!PushedOut(recency'), NEW r \in G!RecordOf(s)
       PROVE  r \in G!Tracked'
  <2>1. CASE G!Tracked' = G!Tracked BY <2>1 DEF G!RecordOf
  <2>2. CASE x \in G!Tracked \/ \A q \in G!Tracked : recs[q].subject # me
    BY <1>1, <1>2, <1>3, <1>15, <2>2, NotPushedOut DEF G!Tracked
  <2> QED BY <1>3, <2>1, <2>2
<1>16. G!RecordsNamed'
  <2>1. ASSUME NEW a \in DOMAIN running'
        PROVE  /\ recs'[running'[a].rec].subject = running'[a].subject
               /\ running'[a].counts => running'[a].rec \in G!Tracked'
               /\ running'[a].at = now' /\ now' <= recs'[running'[a].rec].lastTry
    <3>1. /\ recs[running[a].rec].subject = running[a].subject /\ running[a].subject \in Subjects
          /\ running[a].counts => running[a].rec \in G!Tracked
          /\ running[a].at = now /\ now <= recs[running[a].rec].lastTry
      BY <1>1, <1>8 DEF G!RecordsNamed, G!AttemptTypes, G!AttemptType
    <3>2. running'[a].counts => running[a].rec \in G!Tracked'
      BY <1>8, <1>9, <1>15, <3>1 DEF G!RecordOf
    <3>3. running'[a].rec = running[a].rec /\ running'[a].subject = running[a].subject
          /\ running'[a].at = running[a].at /\ (running'[a].counts => running[a].counts)
      BY <1>8
    <3>4. running[a].rec \in Records /\ recs'[running[a].rec] = rs[running[a].rec]
      <4>1. running'[a].rec \in Records BY <1>8 DEF G!AttemptType
      <4> QED BY <1>7, <3>3, <4>1
    <3> QED BY <1>5, <1>10, <3>1, <3>2, <3>3, <3>4
  <2>2. \A r \in G!Tracked' : recs'[r].subject = recs[r].subject BY <1>4, <1>5, <1>7
  <2>3. \A r \in G!Tracked' : recs[r].subject # NoSubject
    BY <1>1, <1>2, <1>3 DEF G!RecordsNamed, G!LimitsOK
  <2>4. \A r, q \in G!Tracked' : recs[r].subject = recs[q].subject => r = q
    BY <1>1, <1>2, <1>3 DEF G!RecordsNamed
  <2> QED BY <1>7, <2>1, <2>2, <2>3, <2>4 DEF G!RecordsNamed
<1>17. ASSUME NEW s \in Subjects, s \notin G!PushedOut(recency'), guesses'[s] = guesses[s]
       PROVE  G!TriesOf(s)'
  <2>1. G!TriesOf(s) BY <1>1 DEF G!TriesCounted
  <2>2. G!RecordOf(s)' = {} => G!RecordOf(s) = {}
    BY <1>4, <1>5, <1>7, <1>15, <1>17 DEF G!RecordOf
  <2>3. ASSUME NEW r \in G!RecordOf(s)', guesses[s] # {}
        PROVE  /\ r \in G!RecordOf(s)
               /\ recs'[r].failures >= recs[r].failures /\ recs'[r].lastTry >= recs[r].lastTry
               /\ recs'[r].until = recs[r].until \/ recs'[r].until >= now + BlockFor
    <3>1. r \in G!Tracked' /\ r \in Records /\ recs'[r] = rs[r] /\ recs[r].subject = s
      BY <1>4, <1>5, <1>7 DEF G!RecordOf
    <3>2. G!RecordOf(s) # {} BY <2>1, <2>3 DEF G!TriesOf
    <3>3. r \in G!Tracked BY <1>2, <1>3, <3>1, <3>2 DEF G!RecordOf
    <3>4. recs[r].lastTry \in Nat /\ now + BlockFor \in Nat
      BY <1>1, <1>2, <3>1 DEF G!AttemptTypes, G!RecordType, G!LimitsOK
    <3> QED BY <1>5, <3>1, <3>3, <3>4 DEF G!RecordOf
  <2>4. G!Counting(s)' \subseteq G!Counting(s) BY <1>8
  <2> QED BY <1>1, <1>10, <1>14, <1>17, <2>1, <2>2, <2>3, <2>4, TriesKept
<1>18. ASSUME NEW s \in Subjects, s = me, running[n].counts PROVE G!TriesOf(s)'
  <2>0. x \in G!Tracked /\ recency' = recency BY <1>1, <1>3, <1>18 DEF G!RecordsNamed
  <2>1. G!TriesOf(s) BY <1>1 DEF G!TriesCounted
  <2>2. G!RecordOf(s) = {x} BY <1>1, <1>2, <1>18, <2>0 DEF G!RecordOf, G!RecordsNamed
  <2>3. G!RecordOf(s)' = {x} /\ recs'[x] = rs[x] /\ x \in G!RecordOf(s)
    <3>1. G!Tracked' = G!Tracked BY <2>0 DEF G!Tracked
    <3>2. \A r \in G!Tracked : recs'[r].subject = recs[r].subject /\ recs'[r] = rs[r]
      BY <1>4, <1>5, <1>7, <3>1
    <3> QED BY <2>0, <2>2, <3>1, <3>2 DEF G!RecordOf
  <2> DEFINE g0 == <<now, G!Cardinality(guesses[s]) + 1>>
  <2>4. guesses'[s] = guesses[s] \cup {g0} /\ g0[1] = now /\ g0[2] = G!Cardinality(guesses[s]) + 1
    BY <1>11, <1>13, <1>18
  <2>5. \A g \in guesses[s] : g[1] \in Nat /\ g[2] \in Nat BY <1>1 DEF G!AttemptTypes
  <2>6. G!IsFiniteSet(guesses[s]) /\ G!Cardinality(guesses[s]) \in Nat BY <2>1, CountIsNat DEF G!TriesOf
  <2>7. g0 \notin guesses[s] BY <2>1, <2>4, <2>5, <2>6 DEF G!TriesOf
  <2> HIDE DEF g0
  <2>8. G!IsFiniteSet(guesses'[s]) /\ G!Cardinality(guesses'[s]) = G!Cardinality(guesses[s]) + 1
    BY <2>4, <2>6, <2>7, OneMore
  <2>9. G!Cardinality(G!Counting(s)') + 1 <= G!Cardinality(G!Counting(s))
        /\ G!Cardinality(G!Counting(s)') \in Nat /\ G!Cardinality(G!Counting(s)) \in Nat
    <3>1. n \in G!Counting(s) BY <1>18 DEF G!Counting
    <3>2. G!IsFiniteSet(G!Counting(s)) /\ G!Cardinality(G!Counting(s)) \in Nat BY <1>1, AttemptsFinite
    <3>3. G!IsFiniteSet(G!Counting(s) \ {n}) /\ G!Cardinality(G!Counting(s) \ {n}) = G!Cardinality(G!Counting(s)) - 1
      BY <3>1, <3>2, OneLess
    <3>4. G!Counting(s)' \subseteq G!Counting(s) \ {n} BY <1>8
    <3>5. G!Cardinality(G!Counting(s)') <= G!Cardinality(G!Counting(s) \ {n}) /\ G!IsFiniteSet(G!Counting(s)')
      BY <3>3, <3>4, PartCounted
    <3>6. G!Cardinality(G!Counting(s)') \in Nat BY <3>5, CountIsNat
    <3> QED BY <3>2, <3>3, <3>5, <3>6
  <2>10. G!Cardinality(guesses'[s]) + G!Cardinality(G!Counting(s)') <= Max
    BY <2>1, <2>6, <2>8, <2>9 DEF G!TriesOf, G!LimitsOK
  <2>11. ASSUME NEW g \in guesses'[s]
         PROVE  /\ g[1] <= now' /\ now' < g[1] + BlockFor
                /\ g[1] = now' => g[2] <= G!Cardinality(guesses'[s])
    <3>1. CASE g = g0 BY <1>2, <1>10, <2>4, <2>6, <2>8, <3>1 DEF G!LimitsOK
    <3>2. CASE g \in guesses[s] BY <1>10, <2>1, <2>5, <2>6, <2>8, <3>2 DEF G!TriesOf
    <3> QED BY <2>4, <3>1, <3>2
  <2>12. now <= recs[x].lastTry /\ rs[x].lastTry = recs[x].lastTry /\ recs[x].lastTry \in Nat
         /\ recs[x].failures \in 0..Max
    BY <1>1, <1>2, <1>5 DEF G!RecordsNamed, G!AttemptTypes, G!RecordType
  <2>13. G!Cardinality(guesses'[s]) <= rs[x].failures
    <3>1. G!Cardinality(guesses[s]) <= recs[x].failures BY <2>1, <2>3 DEF G!TriesOf
    <3>2. G!Cardinality(guesses'[s]) <= Max BY <2>8, <2>6, <2>9, <2>10 DEF G!LimitsOK
    <3> QED BY <1>5, <2>6, <2>8, <2>12, <3>1, <3>2 DEF G!LimitsOK
  <2>14. ASSUME NEW g \in guesses'[s]
         PROVE  /\ g[1] <= rs[x].lastTry
                /\ rs[x].until # 0 => g[1] + BlockFor <= rs[x].until
    <3>1. g[1] \in Nat /\ g[1] <= now
      <4>1. CASE g = g0 BY <1>2, <2>4, <4>1
      <4>2. CASE g \in guesses[s] BY <2>1, <2>5, <4>2 DEF G!TriesOf
      <4> QED BY <2>4, <4>1, <4>2
    <3>2. rs[x].until # 0 => rs[x].until = now + BlockFor BY <1>5
    <3> QED BY <1>2, <2>12, <3>1, <3>2 DEF G!LimitsOK
  <2> HIDE DEF x
  <2> QED BY <2>3, <2>8, <2>10, <2>11, <2>13, <2>14 DEF G!TriesOf
<1>19. ASSUME NEW s \in Subjects PROVE G!TriesOf(s)'
  <2>1. CASE s = me /\ running[n].counts BY <1>18, <2>1
  <2>2. CASE s = me /\ ~running[n].counts BY <1>3, <1>13, <1>17, <2>2
  <2>3. CASE s # me /\ s \notin G!PushedOut(recency') BY <1>13, <1>17, <2>3
  <2>4. CASE s # me /\ s \in G!PushedOut(recency')
    <3>1. G!Counting(s)' = {} BY <1>8, <1>9, <2>4 DEF G!Counting
    <3> QED BY <1>13, <1>14, <2>4, <3>1, NothingTried
  <2> QED BY <2>1, <2>2, <2>3, <2>4
<1> QED BY <1>14, <1>16, <1>19 DEF G!SignInInv, G!TriesCounted

\* What Begin admits on: the subject's record, or one that was free.
LEMMA BegunOn ==
    ASSUME G!LimitsOK, G!SignInInv, NEW me \in Subjects, G!Begin(me)
    PROVE  \E x \in Records, v \in G!RecordType, slot \in Slots \ DOMAIN running :
      /\ x \in G!RecordOf(me) \/ (x \notin G!Tracked /\ recs[x] = G!Free)
      /\ G!Orderly(recency') /\ G!Tracked' \subseteq G!Tracked \cup {x} /\ x \in G!Tracked'
      /\ \A q \in G!Tracked' : q # x => recs[q].subject # me
      /\ v.subject = me /\ v.inFlight = recs[x].inFlight
      /\ v.until = 0 \/ v.failures = Max
      /\ v.failures + v.inFlight < Max
      /\ x \in G!RecordOf(me) => v = G!expireLocked(recs[x])
      /\ recs' = G!Collected([recs EXCEPT ![x] = [v EXCEPT !.inFlight = @ + 1, !.lastTry = now]],
                           recency', running')
      /\ running' = [a \in DOMAIN running \cup {slot} |->
                       IF a = slot THEN [rec |-> x, subject |-> me, at |-> now, counts |-> TRUE]
                       ELSE G!Straggling(running, G!PushedOut(recency'))[a]]
      /\ guesses' = G!Remembered(recency') /\ now' = now
<1> DEFINE mine == G!RecordOf(me) \cap G!Listed(G!Swept)
           free == {r \in Records \ G!Tracked : recs[r] = G!Free}
           x == CHOOSE m \in IF mine # {} THEN mine ELSE free : TRUE
           v == IF mine # {} THEN G!expireLocked(recs[x]) ELSE [G!Free EXCEPT !.subject = me]
           list == G!PushBack(IF mine # {} THEN G!Without(G!Swept, {x}) ELSE G!makeRoomLocked(G!Swept), x)
           slot == CHOOSE a \in Slots : a \notin DOMAIN running
<1>0. /\ DOMAIN running # Slots /\ (mine = {} => free # {}) /\ G!Admits(v)
      /\ recency' = list
      /\ recs' = G!Collected([recs EXCEPT ![x] = [v EXCEPT !.inFlight = @ + 1, !.lastTry = now]],
                           list, running')
      /\ running' = [a \in DOMAIN running \cup {slot} |->
                       IF a = slot THEN [rec |-> x, subject |-> me, at |-> now, counts |-> TRUE]
                       ELSE G!Straggling(running, G!PushedOut(list))[a]]
      /\ guesses' = G!Remembered(list) /\ now' = now
  BY DEF G!Begin
<1>1. G!AttemptTypes /\ G!RecordsNamed BY DEF G!SignInInv
<1>2. slot \in Slots \ DOMAIN running BY <1>0, <1>1 DEF G!AttemptTypes
<1>3. G!Orderly(G!Swept) /\ G!Listed(G!Swept) \subseteq G!Tracked /\ G!Tracked \subseteq Records
  BY <1>1, SweptList DEF G!AttemptTypes, G!Tracked, G!Listed, G!Orderly
<1>4. \A s \in Subjects : G!RecordOf(s) \subseteq G!Tracked BY DEF G!RecordOf
<1>5. /\ x \in Records /\ v \in G!RecordType /\ v.subject = me /\ v.inFlight = recs[x].inFlight
      /\ v.until = 0 \/ v.failures = Max
      /\ x \in G!RecordOf(me) \/ (x \notin G!Tracked /\ recs[x] = G!Free)
      /\ x \in G!RecordOf(me) => v = G!expireLocked(recs[x])
      /\ G!Orderly(list) /\ G!Listed(list) \subseteq G!Tracked \cup {x} /\ x \in G!Listed(list)
      /\ \A q \in G!Listed(list) : q # x => recs[q].subject # me
  <2>1. CASE mine # {}
    <3>1. x \in mine BY <2>1
    <3>2. v = G!expireLocked(recs[x]) BY <2>1
    <3>3. list = G!PushBack(G!Without(G!Swept, {x}), x) BY <2>1
    <3> HIDE DEF x, v, list
    <3>4. x \in Records /\ x \in G!RecordOf(me) BY <3>1, <1>3, <1>4
    <3>5. G!Orderly(list) /\ G!Listed(list) = G!Listed(G!Swept) \cup {x}
      BY <1>3, <3>3, <3>4, ListedWithout, ListedPushBack
    <3>6. \A q \in G!Tracked : q # x => recs[q].subject # me BY <1>1, <3>4 DEF G!RecordOf, G!RecordsNamed
    <3>7. v \in G!RecordType /\ v.subject = me /\ v.inFlight = recs[x].inFlight
          /\ (v.until # 0 => v.failures = Max)
      BY <3>2, <3>4, Expiry
    <3> QED BY <1>3, <3>2, <3>4, <3>5, <3>6, <3>7
  <2>2. CASE mine = {}
    <3>1. x \in free BY <1>0, <2>2
    <3>2. v = [G!Free EXCEPT !.subject = me] BY <2>2
    <3>3. list = G!PushBack(G!makeRoomLocked(G!Swept), x) BY <2>2
    <3> HIDE DEF x, v, list
    <3>4. x \in Records /\ x \notin G!Tracked /\ recs[x] = G!Free BY <3>1
    <3>5. G!Orderly(list) /\ G!Listed(list) = G!Listed(G!makeRoomLocked(G!Swept)) \cup {x}
          /\ G!Listed(G!makeRoomLocked(G!Swept)) \subseteq G!Listed(G!Swept)
      BY <1>3, <3>3, <3>4, RoomMade, ListedPushBack
    <3>6. \A q \in G!Listed(G!Swept) : recs[q].subject # me BY <1>3, <2>2 DEF G!RecordOf
    <3>7. v \in G!RecordType /\ v.subject = me /\ v.inFlight = recs[x].inFlight /\ v.until = 0
      BY <3>2, <3>4 DEF G!Free, G!RecordType, G!LimitsOK
    <3> QED BY <1>3, <1>4, <3>4, <3>5, <3>6, <3>7
  <2> QED BY <2>1, <2>2
<1> HIDE DEF x, v, list, slot
<1>6. v.failures + v.inFlight < Max BY <1>0 DEF G!Admits
<1>7. G!Tracked' = G!Listed(list) BY <1>0 DEF G!Tracked
<1> HIDE DEF mine, free
<1> QED BY <1>0, <1>2, <1>5, <1>6, <1>7

LEMMA BeginGuessStep ==
    ASSUME G!LimitsOK, G!SignInInv, NEW me \in Subjects, G!Begin(me)
    PROVE  G!SignInInv'
<1>1. G!AttemptTypes /\ G!RecordsNamed /\ G!TriesCounted BY DEF G!SignInInv
<1>2. PICK x \in Records, v \in G!RecordType, slot \in Slots \ DOMAIN running :
      /\ x \in G!RecordOf(me) \/ (x \notin G!Tracked /\ recs[x] = G!Free)
      /\ G!Orderly(recency') /\ G!Tracked' \subseteq G!Tracked \cup {x} /\ x \in G!Tracked'
      /\ \A q \in G!Tracked' : q # x => recs[q].subject # me
      /\ v.subject = me /\ v.inFlight = recs[x].inFlight
      /\ v.until = 0 \/ v.failures = Max
      /\ v.failures + v.inFlight < Max
      /\ x \in G!RecordOf(me) => v = G!expireLocked(recs[x])
      /\ recs' = G!Collected([recs EXCEPT ![x] = [v EXCEPT !.inFlight = @ + 1, !.lastTry = now]],
                           recency', running')
      /\ running' = [a \in DOMAIN running \cup {slot} |->
                       IF a = slot THEN [rec |-> x, subject |-> me, at |-> now, counts |-> TRUE]
                       ELSE G!Straggling(running, G!PushedOut(recency'))[a]]
      /\ guesses' = G!Remembered(recency') /\ now' = now
  BY BegunOn, Zenon
<1> DEFINE new == [v EXCEPT !.inFlight = @ + 1, !.lastTry = now]
           rs == [recs EXCEPT ![x] = new]
<1>3. /\ now \in Nat /\ v.inFlight \in Nat /\ v.failures \in Nat /\ v.until = 0
      /\ G!Tracked \subseteq Records /\ G!Tracked' \subseteq Records
  <2>1. v.inFlight \in Nat /\ v.failures \in Nat BY DEF G!RecordType
  <2>2. G!Tracked \subseteq Records BY <1>1 DEF G!AttemptTypes, G!Tracked, G!Listed, G!Orderly
  <2>3. v.failures # Max BY <1>2, <2>1 DEF G!LimitsOK
  <2> QED BY <1>1, <1>2, <2>1, <2>2, <2>3 DEF G!AttemptTypes
<1>4. /\ new \in G!RecordType /\ new.subject = me /\ new.inFlight = recs[x].inFlight + 1
      /\ new.lastTry = now /\ new.until = 0 /\ new.failures = v.failures
  <2>1. v.inFlight + 1 \in Nat BY <1>3
  <2>2. new \in G!RecordType BY <1>3, <2>1 DEF G!RecordType
  <2> QED BY <1>2, <1>3, <2>2 DEF G!RecordType
<1> HIDE DEF new
<1>5. rs \in [Records -> G!RecordType] /\ rs[x] = new /\ \A r \in Records : r # x => rs[r] = recs[r]
  BY <1>1, <1>2, <1>4 DEF G!AttemptTypes
<1>6. recs' = G!Collected(rs, recency', running') BY <1>2 DEF new
<1> HIDE DEF rs
<1>7. /\ DOMAIN running' = DOMAIN running \cup {slot} /\ running' \in [DOMAIN running' -> G!AttemptType]
      /\ running'[slot] = [rec |-> x, subject |-> me, at |-> now, counts |-> TRUE]
      /\ \A a \in DOMAIN running :
           /\ a # slot /\ a \in DOMAIN running'
           /\ running'[a].rec = running[a].rec /\ running'[a].subject = running[a].subject
           /\ running'[a].at = running[a].at
           /\ running'[a].counts => running[a].counts /\ running[a].subject \notin G!PushedOut(recency')
  <2> DEFINE att == G!Straggling(running, G!PushedOut(recency'))
  <2>1. /\ DOMAIN att = DOMAIN running /\ att \in [DOMAIN running -> G!AttemptType]
        /\ \A a \in DOMAIN running :
             /\ att[a].rec = running[a].rec /\ att[a].subject = running[a].subject
             /\ att[a].at = running[a].at
             /\ att[a].counts => running[a].counts /\ running[a].subject \notin G!PushedOut(recency')
    BY <1>1, Straggles DEF G!AttemptTypes
  <2>2. [rec |-> x, subject |-> me, at |-> now, counts |-> TRUE] \in G!AttemptType
    BY <1>2, <1>3 DEF G!AttemptType
  <2>3. running' = [a \in DOMAIN running \cup {slot} |->
                       IF a = slot THEN [rec |-> x, subject |-> me, at |-> now, counts |-> TRUE]
                       ELSE att[a]]
    BY <1>2
  <2> HIDE DEF att
  <2>4. \A a \in DOMAIN running : a # slot /\ running'[a] = att[a] BY <1>2, <2>3
  <2>5. running' \in [DOMAIN running \cup {slot} -> G!AttemptType] BY <2>1, <2>2, <2>3
  <2> QED BY <2>1, <2>3, <2>4, <2>5
<1>8. \A r \in Records : /\ rs[r].inFlight = G!Cardinality(G!On(r)')
                         /\ rs[r].until # 0 => rs[r].failures = Max
  <2>1. \A r \in Records : r # x => G!On(r)' = G!On(r) BY <1>7 DEF G!On
  <2>2. G!On(x)' = G!On(x) \cup {slot} /\ slot \notin G!On(x) BY <1>2, <1>7 DEF G!On
  <2>3. G!Cardinality(G!On(x)') = G!Cardinality(G!On(x)) + 1
    BY <1>1, <2>2, AttemptsFinite, OneMore
  <2> QED BY <1>1, <1>2, <1>4, <1>5, <2>1, <2>3 DEF G!RecordsNamed
<1>9. /\ recs' \in [Records -> G!RecordType]
      /\ \A r \in G!Tracked' : r \in Records => recs'[r] = rs[r]
      /\ \A a \in DOMAIN running' : running'[a].rec \in Records =>
           recs'[running'[a].rec] = rs[running'[a].rec]
      /\ \A r \in Records : /\ recs'[r].inFlight = G!Cardinality(G!On(r)')
                            /\ recs'[r].until # 0 => recs'[r].failures = Max
  BY <1>5, <1>6, <1>8, Collecting
<1>10. /\ guesses' \in [Subjects -> SUBSET (Nat \X Nat)]
       /\ \A s \in Subjects : guesses'[s] = IF s \in G!PushedOut(recency') THEN {} ELSE guesses[s]
  BY <1>1, <1>2 DEF G!Remembered, G!AttemptTypes
<1>11. G!AttemptTypes'
  <2>1. DOMAIN running' \subseteq Slots BY <1>1, <1>2, <1>7 DEF G!AttemptTypes
  <2> QED BY <1>2, <1>3, <1>7, <1>9, <1>10, <2>1 DEF G!AttemptTypes
<1>12. ASSUME NEW s \in Subjects, s \notin G!PushedOut(recency'), NEW r \in G!RecordOf(s)
       PROVE  r \in G!Tracked'
  <2>1. x \in G!Tracked \/ \A q \in G!Tracked : recs[q].subject # recs[x].subject
    BY <1>1, <1>2 DEF G!RecordOf, G!RecordsNamed, G!Free
  <2> QED BY <1>1, <1>2, <1>12, <2>1, NotPushedOut DEF G!Tracked
<1>13. G!RecordsNamed'
  <2>1. ASSUME NEW a \in DOMAIN running
        PROVE  /\ recs'[running'[a].rec].subject = running'[a].subject
               /\ running'[a].counts => running'[a].rec \in G!Tracked'
               /\ running'[a].at = now' /\ now' <= recs'[running'[a].rec].lastTry
    <3>1. /\ recs[running[a].rec].subject = running[a].subject /\ running[a].subject \in Subjects
          /\ running[a].counts => running[a].rec \in G!Tracked
          /\ running[a].at = now /\ now <= recs[running[a].rec].lastTry
          /\ running[a].rec \in Records
      BY <1>1 DEF G!RecordsNamed, G!AttemptTypes, G!AttemptType
    <3>2. running'[a].counts => running[a].rec \in G!Tracked'
      BY <1>7, <1>12, <3>1 DEF G!RecordOf
    <3>3. running'[a].rec = running[a].rec /\ running'[a].subject = running[a].subject
          /\ running'[a].at = running[a].at /\ a \in DOMAIN running'
      BY <1>7
    <3>4. recs'[running[a].rec] = rs[running[a].rec] BY <1>9, <3>1, <3>3
    <3>5. rs[running[a].rec].subject = running[a].subject
      <4>1. CASE running[a].rec # x BY <1>5, <3>1, <4>1
      <4>2. CASE running[a].rec = x
        <5>1. recs[x].subject # NoSubject BY <3>1, <4>2 DEF G!LimitsOK
        <5>2. x \in G!RecordOf(me) BY <1>2, <5>1 DEF G!Free
        <5> QED BY <1>4, <1>5, <3>1, <4>2, <5>2 DEF G!RecordOf
      <4> QED BY <4>1, <4>2
    <3>6. now <= rs[running[a].rec].lastTry BY <1>3, <1>4, <1>5, <3>1
    <3> QED BY <1>2, <3>1, <3>2, <3>3, <3>4, <3>5, <3>6
  <2>2. /\ recs'[running'[slot].rec].subject = running'[slot].subject
        /\ running'[slot].counts => running'[slot].rec \in G!Tracked'
        /\ running'[slot].at = now' /\ now' <= recs'[running'[slot].rec].lastTry
    <3>1. running'[slot].rec = x /\ running'[slot].subject = me /\ running'[slot].at = now
      BY <1>7
    <3>2. recs'[x] = new BY <1>2, <1>5, <1>9
    <3> QED BY <1>2, <1>3, <1>4, <3>1, <3>2
  <2>3. \A r \in G!Tracked' : /\ r # x => recs'[r].subject = recs[r].subject /\ r \in G!Tracked
                              /\ r = x => recs'[r].subject = me
    <3> SUFFICES ASSUME NEW r \in G!Tracked'
                 PROVE  /\ r # x => recs'[r].subject = recs[r].subject /\ r \in G!Tracked
                        /\ r = x => recs'[r].subject = me
      OBVIOUS
    <3>1. r \in G!Tracked \cup {x} /\ r \in Records BY <1>2, <1>3
    <3>2. recs'[r] = rs[r] BY <1>9, <3>1
    <3> QED BY <1>4, <1>5, <3>1, <3>2
  <2>4. \A r \in G!Tracked' : recs'[r].subject # NoSubject
    BY <1>1, <2>3 DEF G!RecordsNamed, G!LimitsOK
  <2>5. \A r, q \in G!Tracked' : recs'[r].subject = recs'[q].subject => r = q
    <3> SUFFICES ASSUME NEW r \in G!Tracked', NEW q \in G!Tracked', recs'[r].subject = recs'[q].subject
                 PROVE  r = q
      OBVIOUS
    <3>1. CASE r # x /\ q # x BY <1>1, <2>3, <3>1 DEF G!RecordsNamed
    <3>2. \A p \in G!Tracked' : p # x => recs'[p].subject # me BY <1>2, <2>3
    <3> QED BY <2>3, <3>1, <3>2
  <2>6. \A a \in DOMAIN running' : a \in DOMAIN running \/ a = slot BY <1>7
  <2> QED BY <1>9, <2>1, <2>2, <2>4, <2>5, <2>6 DEF G!RecordsNamed
<1>14. ASSUME NEW s \in Subjects, s # me PROVE G!TriesOf(s)'
  <2>1. G!Counting(s)' \subseteq G!Counting(s) /\ (s \in G!PushedOut(recency') => G!Counting(s)' = {})
    BY <1>7, <1>14 DEF G!Counting
  <2>2. CASE s \in G!PushedOut(recency') BY <1>10, <1>11, <2>1, <2>2, NothingTried
  <2>3. CASE s \notin G!PushedOut(recency')
    <3>1. guesses'[s] = guesses[s] /\ now' = now BY <1>2, <1>10, <2>3
    <3>2. \A r \in G!Tracked' : recs'[r].subject = s => r # x /\ r \in G!Tracked /\ recs'[r] = recs[r]
      <4> SUFFICES ASSUME NEW r \in G!Tracked', recs'[r].subject = s
                   PROVE  r # x /\ r \in G!Tracked /\ recs'[r] = recs[r]
        OBVIOUS
      <4>1. recs'[r] = rs[r] /\ r \in Records BY <1>3, <1>9
      <4>2. r # x BY <1>4, <1>5, <1>14, <4>1
      <4> QED BY <1>2, <1>5, <4>1, <4>2
    <3>3. G!RecordOf(s)' = {} => G!RecordOf(s) = {}
      <4>1. ASSUME NEW r \in G!RecordOf(s) PROVE r \in G!RecordOf(s)'
        <5>1. r \in G!Tracked' /\ r \in Records BY <1>3, <1>12, <2>3
        <5>2. recs[r].subject = s /\ r # x BY <1>2, <1>14 DEF G!RecordOf
        <5> QED BY <1>5, <1>9, <5>1, <5>2 DEF G!RecordOf
      <4> QED BY <4>1
    <3>4. \A r \in G!RecordOf(s)' : /\ r \in G!RecordOf(s) /\ recs'[r] = recs[r]
                                    /\ recs[r].failures \in Nat /\ recs[r].lastTry \in Nat
      <4>1. \A r \in Records : recs[r].failures \in Nat /\ recs[r].lastTry \in Nat
        BY <1>1 DEF G!AttemptTypes, G!RecordType
      <4> QED BY <1>3, <3>2, <4>1 DEF G!RecordOf
    <3>5. G!TriesOf(s) BY <1>1 DEF G!TriesCounted
    <3> QED BY <1>1, <1>11, <2>1, <3>1, <3>3, <3>4, <3>5, TriesKept
  <2> QED BY <2>2, <2>3
<1>15. G!TriesOf(me)'
  <2>1. G!RecordOf(me)' = {x} /\ recs'[x] = new
    <3>1. recs'[x] = new BY <1>2, <1>5, <1>9
    <3>2. \A q \in G!Tracked' : q # x => recs'[q].subject # me
      <4> SUFFICES ASSUME NEW q \in G!Tracked', q # x PROVE recs'[q].subject # me
        OBVIOUS
      <4>1. recs'[q] = recs[q] BY <1>3, <1>5, <1>9
      <4> QED BY <1>2, <4>1
    <3> QED BY <1>2, <1>4, <3>1, <3>2 DEF G!RecordOf
  <2>2. G!Counting(me)' \subseteq G!Counting(me) \cup {slot} BY <1>7 DEF G!Counting
  <2>3. G!TriesOf(me) BY <1>1 DEF G!TriesCounted
  <2>4. guesses'[me] = {} \/ guesses'[me] = guesses[me] BY <1>10
  <2>5. G!IsFiniteSet(guesses'[me]) /\ G!Cardinality(guesses'[me]) \in Nat
    BY <2>3, <2>4, NoneCounted, CountIsNat DEF G!TriesOf
  <2>6. /\ G!Cardinality(guesses'[me]) <= v.failures
        /\ G!Cardinality(G!Counting(me)') <= v.inFlight + 1 /\ G!Cardinality(G!Counting(me)') \in Nat
    <3>1. CASE x \in G!RecordOf(me)
      <4>1. x \in G!Listed(recency') /\ recs[x].subject = me BY <1>2, <3>1 DEF G!Tracked, G!RecordOf
      <4>2. guesses'[me] = guesses[me] BY <1>10, <4>1 DEF G!PushedOut
      <4>3. G!Cardinality(guesses[me]) <= v.failures BY <1>2, <3>1, Expiry
      <4>4. G!Cardinality(G!Counting(me)) <= recs[x].inFlight /\ G!IsFiniteSet(G!Counting(me))
            /\ G!Cardinality(G!Counting(me)) \in Nat
        BY <1>1, <3>1, CountingOn, AttemptsFinite
      <4>5. slot \notin G!Counting(me) BY <1>2 DEF G!Counting
      <4>6. G!IsFiniteSet(G!Counting(me) \cup {slot})
            /\ G!Cardinality(G!Counting(me) \cup {slot}) = G!Cardinality(G!Counting(me)) + 1
        BY <4>4, <4>5, OneMore
      <4>7. G!Cardinality(G!Counting(me)') <= G!Cardinality(G!Counting(me) \cup {slot})
            /\ G!Cardinality(G!Counting(me)') \in Nat
        BY <2>2, <4>6, PartCounted, CountIsNat
      <4> QED BY <1>2, <1>3, <4>2, <4>3, <4>4, <4>6, <4>7
    <3>2. CASE x \notin G!Tracked /\ recs[x] = G!Free
      <4>1. me \in G!PushedOut(recency') \/ G!RecordOf(me) = {}
        <5>1. recs[x].subject # me BY <3>2 DEF G!Free, G!LimitsOK
        <5> QED BY <1>2, <5>1 DEF G!PushedOut, G!Tracked
      <4>2. guesses'[me] = {} BY <1>10, <2>3, <4>1 DEF G!TriesOf
      <4>3. G!Counting(me)' \subseteq {slot}
        <5>1. ASSUME NEW a \in DOMAIN running, running'[a].counts, running[a].subject = me PROVE FALSE
          <6>1. running[a].counts /\ me \notin G!PushedOut(recency') BY <1>7, <5>1
          <6>2. running[a].rec \in G!RecordOf(me) BY <1>1, <5>1, <6>1 DEF G!RecordsNamed, G!RecordOf
          <6> QED BY <4>1, <6>1, <6>2
        <5> QED BY <1>7, <5>1 DEF G!Counting
      <4>4. G!IsFiniteSet({slot}) /\ G!Cardinality({slot}) = 1 BY JustOne
      <4>5. G!Cardinality(G!Counting(me)') <= 1 /\ G!Cardinality(G!Counting(me)') \in Nat
        BY <4>3, <4>4, PartCounted, CountIsNat
      <4>6. G!Cardinality(guesses'[me]) = 0 BY <4>2, NoneCounted
      <4> QED BY <1>3, <4>5, <4>6
    <3> QED BY <1>2, <3>1, <3>2 DEF G!RecordOf
  <2>7. G!Cardinality(guesses'[me]) + G!Cardinality(G!Counting(me)') <= Max
    BY <1>2, <1>3, <2>5, <2>6 DEF G!LimitsOK
  <2>8. ASSUME NEW g \in guesses'[me]
        PROVE  /\ g[1] <= now /\ now < g[1] + BlockFor
               /\ g[1] = now => g[2] <= G!Cardinality(guesses'[me])
    BY <2>3, <2>4 DEF G!TriesOf
  <2> QED BY <1>2, <1>4, <2>1, <2>5, <2>6, <2>7, <2>8 DEF G!TriesOf
<1> QED BY <1>11, <1>13, <1>14, <1>15 DEF G!SignInInv, G!TriesCounted

\* Every step keeps the invariant.
LEMMA SignInStep == ASSUME G!LimitsOK, G!SignInInv, [G!Next]_(G!avars) PROVE G!SignInInv'
<1>1. CASE UNCHANGED G!avars
  <2>1. /\ recs' = recs /\ recency' = recency /\ running' = running /\ now' = now
        /\ guesses' = guesses
    BY <1>1 DEF G!avars
  <2>2. G!Tracked' = G!Tracked /\ \A r : G!On(r)' = G!On(r) BY <2>1 DEF G!Tracked, G!On
  <2>3. \A s : G!Counting(s)' = G!Counting(s) /\ G!RecordOf(s)' = G!RecordOf(s)
    BY <2>1, <2>2 DEF G!Counting, G!RecordOf
  <2>4. G!AttemptTypes' BY <2>1 DEF G!SignInInv, G!AttemptTypes
  <2>5. G!RecordsNamed' BY <2>1, <2>2 DEF G!SignInInv, G!RecordsNamed
  <2>6. G!TriesCounted' BY <2>1, <2>3 DEF G!SignInInv, G!TriesCounted, G!TriesOf
  <2> QED BY <2>4, <2>5, <2>6 DEF G!SignInInv
<1> QED
  BY <1>1, GuessTickStep, AbandonStep, SucceededStep, FailedStep, RefuseStep, BeginGuessStep DEF G!Next

LEMMA SignInHolds == ASSUME G!LimitsOK, G!SignInInv PROVE G!GuessesBounded
<1>1. ASSUME NEW s \in Subjects PROVE G!Cardinality(guesses[s]) <= Max
  <2>1. G!Cardinality(G!Counting(s)) \in Nat BY AttemptsFinite DEF G!SignInInv
  <2>2. G!Cardinality(guesses[s]) \in Nat /\ G!Cardinality(guesses[s]) + G!Cardinality(G!Counting(s)) <= Max
    BY CountIsNat DEF G!SignInInv, G!TriesCounted, G!TriesOf
  <2> QED BY <2>1, <2>2 DEF G!LimitsOK
<1> QED BY <1>1 DEF G!GuessesBounded

\* Whatever subjects there are, however many requests run at once and whatever is
\* evicted, swept and put back meanwhile, within a block period no more than the
\* limiter's number of wrong passwords are tried for a subject that neither signed in
\* nor had its record pushed out (Begin and Failed, attempt_limiter.go:80-146).
THEOREM GuessingIsBounded == Spec => []SignInSound
<1> DEFINE Inv == part = "signin" => G!SignInInv
<1>1. Init => Inv
  BY SignInInit, LimiterAssumption DEF Init
<1>2. Inv /\ [Next]_vars => Inv'
  <2> SUFFICES ASSUME Inv, [Next]_vars, part' = "signin" PROVE (G!SignInInv)' OBVIOUS
  <2>1. part = "signin" /\ [G!Next]_(G!avars)
    BY DEF Next, vars, guessing, G!avars
  <2> QED BY <2>1, SignInStep, LimiterAssumption
<1>3. Inv => SignInSound
  BY SignInHolds, LimiterAssumption DEF SignInSound
<1> QED BY <1>1, <1>2, <1>3, PTL DEF Spec

-----------------------------------------------------------------------------
(* Data keys.                                                              *)

LEMMA KeyInit == ASSUME R!StoresListed, R!Init PROVE R!KeyInv
<1> USE DEF R!Init, R!NoChange, R!NoBackup, R!NoWriter, R!NoKeys
<1>1. R!Shapes BY DEF R!Shapes
<1>2. R!Underway /\ R!RingOnDisk /\ R!BackupReadable
  BY DEF R!Underway, R!RingOnDisk, R!BackupReadable, R!Sealed
<1>3. R!Rotated /\ R!RowsReadable /\ R!EditsReadable
  BY DEF R!Rotated, R!RowsReadable, R!EditsReadable, R!Sealed, R!Readable, R!Decryptable, R!KeysOf
<1> QED BY <1>1, <1>2, <1>3 DEF R!KeyInv

\* An excuse stands for good.
LEMMA ExcuseStands ==
    ASSUME [R!Next]_(R!kvars)
    PROVE  excuse \subseteq excuse' /\ (R!Sound' => R!Sound) /\ (excuse' = {} => excuse = {})
<1>1. excuse \subseteq excuse'
  BY DEF R!Next, R!kvars, R!Begin, R!Truncate, R!SaveNew, R!Replace, R!ListSecrets, R!NextStore, R!DropRetired,
     R!RotateRow,
     R!Seal, R!Store, R!BackupRows, R!BackupConfig, R!Crash, R!Start
<1> QED BY <1>1 DEF R!Sound

LEMMA BeginStep ==
    ASSUME R!StoresListed, R!KeyInv, NEW k \in DataKeys, R!Begin(k)
    PROVE  R!KeyInv'
<1>0. excuse \subseteq excuse' /\ (R!Sound' => R!Sound) /\ (excuse' = {} => excuse = {})
  BY ExcuseStands DEF R!Next
<1> USE DEF R!KeyInv, R!StoresListed, R!Begin, R!NoChange
<1>1. R!Shapes'
  BY DEF R!Shapes
<1>2. R!Underway'
  BY DEF R!Shapes, R!Underway, R!RingOnDisk, R!KeysOf, R!Up, R!Torn, R!NoKeys, R!Sealed
<1>3. R!RingOnDisk'
  BY DEF R!Shapes, R!Underway, R!RingOnDisk, R!KeysOf, R!Up, R!Torn, R!NoKeys
<1>4. R!BackupReadable'
  BY <1>0 DEF R!Shapes, R!Underway, R!RingOnDisk, R!BackupReadable, R!RowsReadable, R!Readable,
     R!Decryptable, R!KeysOf, R!Up, R!Torn, R!Sound, R!NoKeys
<1>5. R!Sound' => R!Rotated'
  BY <1>0 DEF R!Shapes, R!Underway, R!Rotated, R!Moved, R!Rows, R!Sound
<1>6. R!Sound' => R!RowsReadable'
  BY <1>0 DEF R!Shapes, R!Underway, R!RingOnDisk, R!Rotated, R!Moved, R!RowsReadable, R!Readable,
     R!Decryptable, R!KeysOf, R!Up, R!Torn, R!NoKeys, R!Sound, R!EditsReadable, R!Sealed
<1>7. R!Sound' => R!EditsReadable'
  BY <1>0 DEF R!Shapes, R!Underway, R!RingOnDisk, R!EditsReadable, R!Sealed, R!KeysOf, R!Up, R!Torn,
     R!NoKeys, R!Sound
<1> QED BY <1>1, <1>2, <1>3, <1>4, <1>5, <1>6, <1>7

LEMMA TruncateStep ==
    ASSUME R!StoresListed, R!KeyInv, R!Truncate
    PROVE  R!KeyInv'
<1>0. excuse \subseteq excuse' /\ (R!Sound' => R!Sound) /\ (excuse' = {} => excuse = {})
  BY ExcuseStands DEF R!Next
<1> USE DEF R!KeyInv, R!StoresListed, R!Truncate, R!NoChange
<1>1. R!Shapes'
  BY DEF R!Shapes
<1>2. R!Underway'
  BY DEF R!Shapes, R!Underway, R!RingOnDisk, R!KeysOf, R!Up, R!Torn, R!NoKeys, R!Sealed
<1>3. R!RingOnDisk'
  BY DEF R!Shapes, R!Underway, R!RingOnDisk, R!KeysOf, R!Up, R!Torn, R!NoKeys
<1>4. R!BackupReadable'
  BY <1>0 DEF R!Shapes, R!Underway, R!RingOnDisk, R!BackupReadable, R!RowsReadable, R!Readable,
     R!Decryptable, R!KeysOf, R!Up, R!Torn, R!Sound, R!NoKeys
<1>5. R!Sound' => R!Rotated'
  <2>1. ring' = ring /\ rows' = rows
    OBVIOUS
  <2>2. change'.pc = "rewrite" => change.pc = "drop"
    BY DEF R!Shapes
  <2>3. change'.pc \in {"idle", "write", "rewrite"}
    BY DEF R!Shapes
  <2> QED BY <1>0, <2>1, <2>2, <2>3 DEF R!Rotated, R!Moved
<1>6. R!Sound' => R!RowsReadable'
  BY <1>0 DEF R!Shapes, R!Underway, R!RingOnDisk, R!Rotated, R!Moved, R!RowsReadable, R!Readable,
     R!Decryptable, R!KeysOf, R!Up, R!Torn, R!NoKeys, R!Sound, R!EditsReadable, R!Sealed
<1>7. R!Sound' => R!EditsReadable'
  BY <1>0 DEF R!Shapes, R!Underway, R!RingOnDisk, R!EditsReadable, R!Sealed, R!KeysOf, R!Up, R!Torn,
     R!NoKeys, R!Sound
<1> QED BY <1>1, <1>2, <1>3, <1>4, <1>5, <1>6, <1>7

LEMMA SaveNewStep ==
    ASSUME R!StoresListed, R!KeyInv, R!SaveNew
    PROVE  R!KeyInv'
<1>0. excuse \subseteq excuse' /\ (R!Sound' => R!Sound) /\ (excuse' = {} => excuse = {})
  BY ExcuseStands DEF R!Next
<1> USE DEF R!KeyInv, R!StoresListed, R!SaveNew, R!RetireCurrent, R!NoChange
<1>a. \/ /\ file' = R!RetireCurrent /\ change'.pc = "move" /\ change'.cfg = R!RetireCurrent
         /\ change'.key = change.key /\ change'.at = change.at /\ change'.seen = change.seen
         /\ change' = [pc |-> "move", key |-> change.key, cfg |-> R!RetireCurrent,
                       at |-> change.at, seen |-> change.seen]
      \/ change' = R!NoChange /\ file' = file
  BY DEF R!Shapes
<1>b. ring' = ring /\ rows' = rows /\ writer' = writer /\ backup' = backup /\ excuse' = excuse
  OBVIOUS
<1>c. change.pc = "write" /\ change.key \in DataKeys /\ file = R!NoKeys /\ R!Up
  BY DEF R!Underway, R!Torn
<1>1. R!Shapes'
  BY <1>a, <1>b DEF R!Shapes
<1>2. R!Underway'
  <2>1. CASE change' = R!NoChange
    BY <1>b, <1>c, <2>1 DEF R!Underway, R!Up, R!Sealed
  <2>2. CASE change'.pc = "move"
    <3>1. change'.key = change.key /\ change'.cfg = file' /\ file'.key = change.key
      BY <1>a, <2>2
    <3>2. ~R!Torn' BY <1>c, <3>1 DEF R!Torn, R!NoKeys
    <3> QED BY <1>b, <1>c, <2>2, <3>1, <3>2 DEF R!Underway, R!Up, R!Sealed
  <2> QED BY <1>a, <2>1, <2>2
<1>3. R!RingOnDisk'
  BY DEF R!Shapes, R!Underway, R!RingOnDisk, R!KeysOf, R!Up, R!Torn, R!NoKeys
<1>4. R!BackupReadable'
  BY <1>0 DEF R!Shapes, R!Underway, R!RingOnDisk, R!BackupReadable, R!RowsReadable, R!Readable,
     R!Decryptable, R!KeysOf, R!Up, R!Torn, R!Sound, R!NoKeys
<1>5. R!Sound' => R!Rotated'
  BY <1>a DEF R!Rotated
<1>6. R!Sound' => R!RowsReadable'
  BY <1>0 DEF R!Shapes, R!Underway, R!RingOnDisk, R!Rotated, R!Moved, R!RowsReadable, R!Readable,
     R!Decryptable, R!KeysOf, R!Up, R!Torn, R!NoKeys, R!Sound, R!EditsReadable, R!Sealed
<1>7. R!Sound' => R!EditsReadable'
  BY <1>0 DEF R!Shapes, R!Underway, R!RingOnDisk, R!EditsReadable, R!Sealed, R!KeysOf, R!Up, R!Torn,
     R!NoKeys, R!Sound
<1> QED BY <1>1, <1>2, <1>3, <1>4, <1>5, <1>6, <1>7

LEMMA ReplaceStep ==
    ASSUME R!StoresListed, R!KeyInv, R!Replace
    PROVE  R!KeyInv'
<1>0. excuse \subseteq excuse' /\ (R!Sound' => R!Sound) /\ (excuse' = {} => excuse = {})
  BY ExcuseStands DEF R!Next
<1> USE DEF R!KeyInv, R!StoresListed, R!Replace, R!NewKeyring
<1>1. R!Shapes'
  BY DEF R!Shapes
<1>2. R!Underway'
  BY DEF R!Shapes, R!Underway, R!RingOnDisk, R!KeysOf, R!Up, R!Torn, R!NoKeys, R!Sealed
<1>3. R!RingOnDisk'
  BY DEF R!Shapes, R!Underway, R!RingOnDisk, R!KeysOf, R!Up, R!Torn, R!NoKeys
<1>4. R!BackupReadable'
  BY <1>0 DEF R!Shapes, R!Underway, R!RingOnDisk, R!BackupReadable, R!RowsReadable, R!Readable,
     R!Decryptable, R!KeysOf, R!Up, R!Torn, R!Sound, R!NoKeys
<1>5. R!Sound' => R!Rotated'
  BY <1>0 DEF R!Shapes, R!Underway, R!Rotated, R!Moved, R!Rows, R!Sound
<1>6. R!Sound' => R!RowsReadable'
  BY <1>0 DEF R!Shapes, R!Underway, R!RingOnDisk, R!Rotated, R!Moved, R!RowsReadable, R!Readable,
     R!Decryptable, R!KeysOf, R!Up, R!Torn, R!NoKeys, R!Sound, R!EditsReadable, R!Sealed
<1>7. R!Sound' => R!EditsReadable'
  BY <1>0 DEF R!Shapes, R!Underway, R!RingOnDisk, R!EditsReadable, R!Sealed, R!KeysOf, R!Up, R!Torn,
     R!NoKeys, R!Sound
<1> QED BY <1>1, <1>2, <1>3, <1>4, <1>5, <1>6, <1>7

LEMMA ListStep ==
    ASSUME R!StoresListed, R!KeyInv, R!ListSecrets
    PROVE  R!KeyInv'
<1>0. excuse \subseteq excuse' /\ (R!Sound' => R!Sound) /\ (excuse' = {} => excuse = {})
  BY ExcuseStands DEF R!Next
<1> USE DEF R!KeyInv, R!StoresListed, R!ListSecrets
<1>1. R!Shapes'
  BY DEF R!Shapes
<1>2. R!Underway'
  BY DEF R!Shapes, R!Underway, R!RingOnDisk, R!KeysOf, R!Up, R!Torn, R!NoKeys, R!Sealed
<1>3. R!RingOnDisk'
  BY DEF R!Shapes, R!Underway, R!RingOnDisk, R!KeysOf, R!Up, R!Torn, R!NoKeys
<1>4. R!BackupReadable'
  BY <1>0 DEF R!Shapes, R!Underway, R!RingOnDisk, R!BackupReadable, R!RowsReadable, R!Readable,
     R!Decryptable, R!KeysOf, R!Up, R!Torn, R!Sound, R!NoKeys
<1>5. R!Sound' => R!Rotated'
  <2> HAVE R!Sound'
  <2>0. R!Rotated /\ change.at \in Nat /\ ring' = ring /\ rows' = rows
    BY <1>0 DEF R!Shapes
  <2>1. CASE change.at > Len(Stores)
    <3>1. change'.pc = "drop"
      BY <2>1 DEF R!Shapes
    <3>2. \A i \in DOMAIN Stores : i < change.at
      BY <2>0, <2>1
    <3>3. \A r \in R!Rows : R!Moved(r)
      BY <2>0, <3>2 DEF R!Rotated, R!Rows
    <3> QED BY <2>0, <3>1, <3>3 DEF R!Rotated, R!Moved
  <2>2. CASE ~(change.at > Len(Stores))
    <3>1. change'.pc = "rotate" /\ change'.at = change.at
          /\ change'.seen = [r \in Stores[change.at] |-> rows[r]]
      BY <2>2 DEF R!Shapes
    <3>2. change.at \in DOMAIN Stores
      BY <2>0, <2>2 DEF R!Underway
    <3> QED BY <2>0, <3>1, <3>2 DEF R!Rotated, R!Moved
  <2> QED BY <2>1, <2>2
<1>6. R!Sound' => R!RowsReadable'
  BY <1>0 DEF R!Shapes, R!Underway, R!RingOnDisk, R!Rotated, R!Moved, R!RowsReadable, R!Readable,
     R!Decryptable, R!KeysOf, R!Up, R!Torn, R!NoKeys, R!Sound, R!EditsReadable, R!Sealed
<1>7. R!Sound' => R!EditsReadable'
  BY <1>0 DEF R!Shapes, R!Underway, R!RingOnDisk, R!EditsReadable, R!Sealed, R!KeysOf, R!Up, R!Torn,
     R!NoKeys, R!Sound
<1> QED BY <1>1, <1>2, <1>3, <1>4, <1>5, <1>6, <1>7

LEMMA RotateStep ==
    ASSUME R!StoresListed, R!KeyInv, NEW r \in R!Rows, R!RotateRow(r)
    PROVE  R!KeyInv'
<1>0. excuse \subseteq excuse' /\ (R!Sound' => R!Sound) /\ (excuse' = {} => excuse = {})
  BY ExcuseStands DEF R!Next
<1> USE DEF R!KeyInv, R!StoresListed, R!RotateRow, R!NoChange, R!Encrypt, R!NeedsRotation
<1>1. R!Shapes'
  BY DEF R!Shapes
<1>2. R!Underway'
  BY DEF R!Shapes, R!Underway, R!RingOnDisk, R!KeysOf, R!Up, R!Torn, R!NoKeys, R!Sealed
<1>3. R!RingOnDisk'
  BY DEF R!Shapes, R!Underway, R!RingOnDisk, R!KeysOf, R!Up, R!Torn, R!NoKeys
<1>4. R!BackupReadable'
  BY <1>0 DEF R!Shapes, R!Underway, R!RingOnDisk, R!BackupReadable, R!RowsReadable, R!Readable,
     R!Decryptable, R!KeysOf, R!Up, R!Torn, R!Sound, R!NoKeys
<1>5. R!Sound' => R!Rotated'
  <2> HAVE R!Sound'
  <2>0. R!Rotated /\ ring' = ring /\ change.pc = "rotate" /\ r \in DOMAIN change.seen
    BY <1>0
  <2>1. CASE change' = R!NoChange /\ rows' = rows
    BY <2>1 DEF R!Rotated
  <2>2. CASE /\ change' = [change EXCEPT !.seen = [q \in DOMAIN @ \ {r} |-> @[q]]]
             /\ IF R!NeedsRotation(change.seen[r])
                THEN rows' = [rows EXCEPT ![r] = R!Encrypt(change.seen[r].val)] ELSE rows' = rows
    <3>1. /\ change'.pc = "rotate" /\ change'.at = change.at
          /\ change'.seen = [q \in DOMAIN change.seen \ {r} |-> change.seen[q]]
      BY <2>0, <2>2 DEF R!Shapes
    <3>2. rows'[r].key = ring.key
      <4>1. CASE R!NeedsRotation(change.seen[r])
        <5>1. rows'[r] = R!Encrypt(change.seen[r].val)
          BY <2>2, <4>1 DEF R!Shapes
        <5> QED BY <5>1
      <4>2. CASE ~R!NeedsRotation(change.seen[r])
        BY <2>0, <2>2, <4>2 DEF R!Rotated, R!Moved
      <4> QED BY <4>1, <4>2
    <3>3. \A q \in R!Rows : q # r => rows'[q] = rows[q]
      BY <2>2 DEF R!Shapes
    <3>4. \A q \in R!Rows : R!Moved(q) => R!Moved(q)'
      BY <2>0, <3>2, <3>3 DEF R!Moved
    <3>5. \A i \in DOMAIN Stores : Stores[i] \subseteq R!Rows
      BY DEF R!Rows
    <3>6. R!Moved(r)'
      BY <2>0, <3>2 DEF R!Moved
    <3> QED BY <2>0, <3>1, <3>4, <3>5, <3>6 DEF R!Rotated
  <2> QED BY <2>1, <2>2
<1>6. R!Sound' => R!RowsReadable'
  BY <1>0 DEF R!Shapes, R!Underway, R!RingOnDisk, R!Rotated, R!Moved, R!RowsReadable, R!Readable,
     R!Decryptable, R!KeysOf, R!Up, R!Torn, R!NoKeys, R!Sound, R!EditsReadable, R!Sealed
<1>7. R!Sound' => R!EditsReadable'
  BY <1>0 DEF R!Shapes, R!Underway, R!RingOnDisk, R!EditsReadable, R!Sealed, R!KeysOf, R!Up, R!Torn,
     R!NoKeys, R!Sound
<1> QED BY <1>1, <1>2, <1>3, <1>4, <1>5, <1>6, <1>7

LEMMA NextStoreStep ==
    ASSUME R!StoresListed, R!KeyInv, R!NextStore
    PROVE  R!KeyInv'
<1>0. excuse \subseteq excuse' /\ (R!Sound' => R!Sound) /\ (excuse' = {} => excuse = {})
  BY ExcuseStands DEF R!Next
<1> USE DEF R!KeyInv, R!StoresListed, R!NextStore
<1>1. R!Shapes'
  <2>1. change.at + 1 \in Nat
    BY DEF R!Shapes
  <2> QED BY <2>1 DEF R!Shapes
<1>2. R!Underway'
  BY DEF R!Shapes, R!Underway, R!RingOnDisk, R!KeysOf, R!Up, R!Torn, R!NoKeys, R!Sealed
<1>3. R!RingOnDisk'
  BY DEF R!Shapes, R!Underway, R!RingOnDisk, R!KeysOf, R!Up, R!Torn, R!NoKeys
<1>4. R!BackupReadable'
  BY <1>0 DEF R!Shapes, R!Underway, R!RingOnDisk, R!BackupReadable, R!RowsReadable, R!Readable,
     R!Decryptable, R!KeysOf, R!Up, R!Torn, R!Sound, R!NoKeys
<1>5. R!Sound' => R!Rotated'
  <2> HAVE R!Sound'
  <2>0. /\ R!Rotated /\ change.at \in Nat /\ ring' = ring /\ rows' = rows
        /\ change'.pc = "list" /\ change'.at = change.at + 1
    BY <1>0 DEF R!Shapes
  <2>1. \A i \in DOMAIN Stores : i < change.at + 1 => \A r \in Stores[i] : R!Moved(r)
    <3> SUFFICES ASSUME NEW i \in DOMAIN Stores, i < change.at + 1
                 PROVE  \A r \in Stores[i] : R!Moved(r)
      OBVIOUS
    <3>1. CASE i = change.at
      BY <2>0, <3>1 DEF R!Rotated
    <3>2. CASE i < change.at
      BY <2>0, <3>2 DEF R!Rotated
    <3> QED BY <2>0, <3>1, <3>2
  <2> QED BY <2>0, <2>1 DEF R!Rotated, R!Moved
<1>6. R!Sound' => R!RowsReadable'
  BY <1>0 DEF R!Shapes, R!Underway, R!RingOnDisk, R!Rotated, R!Moved, R!RowsReadable, R!Readable,
     R!Decryptable, R!KeysOf, R!Up, R!Torn, R!NoKeys, R!Sound, R!EditsReadable, R!Sealed
<1>7. R!Sound' => R!EditsReadable'
  BY <1>0 DEF R!Shapes, R!Underway, R!RingOnDisk, R!EditsReadable, R!Sealed, R!KeysOf, R!Up, R!Torn,
     R!NoKeys, R!Sound
<1> QED BY <1>1, <1>2, <1>3, <1>4, <1>5, <1>6, <1>7

LEMMA DropStep ==
    ASSUME R!StoresListed, R!KeyInv, R!DropRetired
    PROVE  R!KeyInv'
<1>0. excuse \subseteq excuse' /\ (R!Sound' => R!Sound) /\ (excuse' = {} => excuse = {})
  BY ExcuseStands DEF R!Next
<1> USE DEF R!KeyInv, R!StoresListed, R!DropRetired, R!NoChange
<1>1. R!Shapes'
  BY DEF R!Shapes
<1>2. R!Underway'
  BY DEF R!Shapes, R!Underway, R!RingOnDisk, R!KeysOf, R!Up, R!Torn, R!NoKeys, R!Sealed
<1>3. R!RingOnDisk'
  BY DEF R!Shapes, R!Underway, R!RingOnDisk, R!KeysOf, R!Up, R!Torn, R!NoKeys
<1>4. R!BackupReadable'
  <2>1. R!Up /\ change.key \in DataKeys /\ backup' = backup BY DEF R!Underway
  <2>2. CASE ring' = ring /\ excuse' = excuse
    BY <2>1, <2>2 DEF R!BackupReadable, R!Decryptable, R!Up
  <2>3. CASE /\ ring' = [key |-> change.key, retired |-> {}]
             /\ backup.pc = "rows" => "backup" \in excuse'
    <3>1. R!Up' BY <2>1, <2>3 DEF R!Up, R!NoKeys
    <3> QED BY <1>0, <2>1, <2>3, <3>1 DEF R!BackupReadable
  <2> QED BY <2>2, <2>3
<1>5. R!Sound' => R!Rotated'
  BY <1>0 DEF R!Shapes, R!Underway, R!Rotated, R!Moved, R!Rows, R!Sound
<1>6. R!Sound' => R!RowsReadable'
  BY <1>0 DEF R!Shapes, R!Underway, R!RingOnDisk, R!Rotated, R!Moved, R!RowsReadable, R!Readable,
     R!Decryptable, R!KeysOf, R!Up, R!Torn, R!NoKeys, R!Sound, R!EditsReadable, R!Sealed
<1>7. R!Sound' => R!EditsReadable'
  BY <1>0 DEF R!Shapes, R!Underway, R!RingOnDisk, R!EditsReadable, R!Sealed, R!KeysOf, R!Up, R!Torn,
     R!NoKeys, R!Sound
<1> QED BY <1>1, <1>2, <1>3, <1>4, <1>5, <1>6, <1>7

LEMMA SealStep ==
    ASSUME R!StoresListed, R!KeyInv, NEW w \in Writers, NEW r \in R!Rows, NEW v \in Values, R!Seal(w, r, v)
    PROVE  R!KeyInv'
<1>0. excuse \subseteq excuse' /\ (R!Sound' => R!Sound) /\ (excuse' = {} => excuse = {})
  BY ExcuseStands DEF R!Next
<1> USE DEF R!KeyInv, R!StoresListed, R!Seal
<1>1. R!Shapes'
  BY DEF R!Shapes
<1>2. R!Underway'
  BY DEF R!Shapes, R!Underway, R!RingOnDisk, R!KeysOf, R!Up, R!Torn, R!NoKeys, R!Sealed
<1>3. R!RingOnDisk'
  BY DEF R!Shapes, R!Underway, R!RingOnDisk, R!KeysOf, R!Up, R!Torn, R!NoKeys
<1>4. R!BackupReadable'
  BY <1>0 DEF R!Shapes, R!Underway, R!RingOnDisk, R!BackupReadable, R!RowsReadable, R!Readable,
     R!Decryptable, R!KeysOf, R!Up, R!Torn, R!Sound, R!NoKeys
<1>5. R!Sound' => R!Rotated'
  BY <1>0 DEF R!Shapes, R!Underway, R!Rotated, R!Moved, R!Rows, R!Sound
<1>6. R!Sound' => R!RowsReadable'
  BY <1>0 DEF R!Shapes, R!Underway, R!RingOnDisk, R!Rotated, R!Moved, R!RowsReadable, R!Readable,
     R!Decryptable, R!KeysOf, R!Up, R!Torn, R!NoKeys, R!Sound, R!EditsReadable, R!Sealed
<1>7. R!Sound' => R!EditsReadable'
  BY <1>0 DEF R!Shapes, R!Underway, R!RingOnDisk, R!EditsReadable, R!Sealed, R!KeysOf, R!Up, R!Torn,
     R!NoKeys, R!Sound
<1> QED BY <1>1, <1>2, <1>3, <1>4, <1>5, <1>6, <1>7

LEMMA StoredStep ==
    ASSUME R!StoresListed, R!KeyInv, NEW w \in Writers, R!Store(w)
    PROVE  R!KeyInv'
<1>0. excuse \subseteq excuse' /\ (R!Sound' => R!Sound) /\ (excuse' = {} => excuse = {})
  BY ExcuseStands DEF R!Next
<1> USE DEF R!KeyInv, R!StoresListed, R!Store, R!NoWriter
<1>1. R!Shapes'
  BY DEF R!Shapes
<1>2. R!Underway'
  BY DEF R!Shapes, R!Underway, R!RingOnDisk, R!KeysOf, R!Up, R!Torn, R!NoKeys, R!Sealed
<1>3. R!RingOnDisk'
  BY DEF R!Shapes, R!Underway, R!RingOnDisk, R!KeysOf, R!Up, R!Torn, R!NoKeys
<1>4. R!BackupReadable'
  BY <1>0 DEF R!Shapes, R!Underway, R!RingOnDisk, R!BackupReadable, R!RowsReadable, R!Readable,
     R!Decryptable, R!KeysOf, R!Up, R!Torn, R!Sound, R!NoKeys
<1>5. R!Sound' => R!Rotated'
  <2> HAVE R!Sound'
  <2> DEFINE q == writer[w].row
  <2>0. R!Rotated /\ change' = change /\ ring' = ring BY <1>0
  <2>1. writer[w].key = ring.key \/ ~R!Passed(q) BY DEF R!Sound
  <2>2. rows' = [rows EXCEPT ![q] = [key |-> writer[w].key, val |-> writer[w].val]] OBVIOUS
  <2> HIDE DEF q
  <2>3. \A r \in R!Rows : R!Moved(r) => R!Moved(r)' \/ (r = q /\ ~R!Passed(q))
    BY <2>0, <2>1, <2>2 DEF R!Moved, R!Shapes
  <2>4. \A i \in DOMAIN Stores : Stores[i] \subseteq R!Rows BY DEF R!Rows
  <2>5. ASSUME change.pc \in {"list", "rotate"}, NEW i \in DOMAIN Stores, i < change.at, NEW r \in Stores[i]
        PROVE  R!Moved(r)'
    BY <2>0, <2>3, <2>4, <2>5 DEF R!Rotated, R!Passed
  <2>6. ASSUME change.pc = "rotate", NEW r \in Stores[change.at],
               r \in DOMAIN change.seen => change.seen[r].key = ring.key
        PROVE  R!Moved(r)'
    BY <2>0, <2>3, <2>4, <2>6 DEF R!Rotated, R!Passed
  <2>7. ASSUME change.pc \in {"drop", "rewrite"}, NEW r \in R!Rows PROVE R!Moved(r)'
    BY <2>0, <2>3, <2>7 DEF R!Rotated, R!Passed
  <2> QED BY <2>0, <2>5, <2>6, <2>7 DEF R!Rotated
<1>6. R!Sound' => R!RowsReadable'
  BY <1>0 DEF R!Shapes, R!Underway, R!RingOnDisk, R!Rotated, R!Moved, R!RowsReadable, R!Readable,
     R!Decryptable, R!KeysOf, R!Up, R!Torn, R!NoKeys, R!Sound, R!EditsReadable, R!Sealed
<1>7. R!Sound' => R!EditsReadable'
  BY <1>0 DEF R!Shapes, R!Underway, R!RingOnDisk, R!EditsReadable, R!Sealed, R!KeysOf, R!Up, R!Torn,
     R!NoKeys, R!Sound
<1> QED BY <1>1, <1>2, <1>3, <1>4, <1>5, <1>6, <1>7

LEMMA BackupRowsStep ==
    ASSUME R!StoresListed, R!KeyInv, R!BackupRows
    PROVE  R!KeyInv'
<1>0. excuse \subseteq excuse' /\ (R!Sound' => R!Sound) /\ (excuse' = {} => excuse = {})
  BY ExcuseStands DEF R!Next
<1> USE DEF R!KeyInv, R!StoresListed, R!BackupRows
<1>1. R!Shapes'
  BY DEF R!Shapes
<1>2. R!Underway'
  BY DEF R!Shapes, R!Underway, R!RingOnDisk, R!KeysOf, R!Up, R!Torn, R!NoKeys, R!Sealed
<1>3. R!RingOnDisk'
  BY DEF R!Shapes, R!Underway, R!RingOnDisk, R!KeysOf, R!Up, R!Torn, R!NoKeys
<1>4. R!BackupReadable'
  BY <1>0 DEF R!Shapes, R!Underway, R!RingOnDisk, R!BackupReadable, R!RowsReadable, R!Readable,
     R!Decryptable, R!KeysOf, R!Up, R!Torn, R!Sound, R!NoKeys
<1>5. R!Sound' => R!Rotated'
  BY <1>0 DEF R!Shapes, R!Underway, R!Rotated, R!Moved, R!Rows, R!Sound
<1>6. R!Sound' => R!RowsReadable'
  BY <1>0 DEF R!Shapes, R!Underway, R!RingOnDisk, R!Rotated, R!Moved, R!RowsReadable, R!Readable,
     R!Decryptable, R!KeysOf, R!Up, R!Torn, R!NoKeys, R!Sound, R!EditsReadable, R!Sealed
<1>7. R!Sound' => R!EditsReadable'
  BY <1>0 DEF R!Shapes, R!Underway, R!RingOnDisk, R!EditsReadable, R!Sealed, R!KeysOf, R!Up, R!Torn,
     R!NoKeys, R!Sound
<1> QED BY <1>1, <1>2, <1>3, <1>4, <1>5, <1>6, <1>7

LEMMA BackupConfigStep ==
    ASSUME R!StoresListed, R!KeyInv, R!BackupConfig
    PROVE  R!KeyInv'
<1>0. excuse \subseteq excuse' /\ (R!Sound' => R!Sound) /\ (excuse' = {} => excuse = {})
  BY ExcuseStands DEF R!Next
<1> USE DEF R!KeyInv, R!StoresListed, R!BackupConfig
<1>1. R!Shapes'
  BY DEF R!Shapes
<1>2. R!Underway'
  BY DEF R!Shapes, R!Underway, R!RingOnDisk, R!KeysOf, R!Up, R!Torn, R!NoKeys, R!Sealed
<1>3. R!RingOnDisk'
  BY DEF R!Shapes, R!Underway, R!RingOnDisk, R!KeysOf, R!Up, R!Torn, R!NoKeys
<1>4. R!BackupReadable'
  BY <1>0 DEF R!Shapes, R!Underway, R!RingOnDisk, R!BackupReadable, R!RowsReadable, R!Readable,
     R!Decryptable, R!KeysOf, R!Up, R!Torn, R!Sound, R!NoKeys
<1>5. R!Sound' => R!Rotated'
  BY <1>0 DEF R!Shapes, R!Underway, R!Rotated, R!Moved, R!Rows, R!Sound
<1>6. R!Sound' => R!RowsReadable'
  BY <1>0 DEF R!Shapes, R!Underway, R!RingOnDisk, R!Rotated, R!Moved, R!RowsReadable, R!Readable,
     R!Decryptable, R!KeysOf, R!Up, R!Torn, R!NoKeys, R!Sound, R!EditsReadable, R!Sealed
<1>7. R!Sound' => R!EditsReadable'
  BY <1>0 DEF R!Shapes, R!Underway, R!RingOnDisk, R!EditsReadable, R!Sealed, R!KeysOf, R!Up, R!Torn,
     R!NoKeys, R!Sound
<1> QED BY <1>1, <1>2, <1>3, <1>4, <1>5, <1>6, <1>7

LEMMA KilledStep ==
    ASSUME R!StoresListed, R!KeyInv, R!Crash
    PROVE  R!KeyInv'
<1>0. excuse \subseteq excuse' /\ (R!Sound' => R!Sound) /\ (excuse' = {} => excuse = {})
  BY ExcuseStands DEF R!Next
<1> USE DEF R!KeyInv, R!StoresListed, R!Crash, R!NoChange, R!NoWriter, R!NoBackup
<1>1. R!Shapes'
  BY DEF R!Shapes
<1>2. R!Underway'
  BY DEF R!Shapes, R!Underway, R!RingOnDisk, R!KeysOf, R!Up, R!Torn, R!NoKeys, R!Sealed
<1>3. R!RingOnDisk'
  BY DEF R!Shapes, R!Underway, R!RingOnDisk, R!KeysOf, R!Up, R!Torn, R!NoKeys
<1>4. R!BackupReadable'
  BY <1>0 DEF R!Shapes, R!Underway, R!RingOnDisk, R!BackupReadable, R!RowsReadable, R!Readable,
     R!Decryptable, R!KeysOf, R!Up, R!Torn, R!Sound, R!NoKeys
<1>5. R!Sound' => R!Rotated'
  BY <1>0 DEF R!Shapes, R!Underway, R!Rotated, R!Moved, R!Rows, R!Sound
<1>6. R!Sound' => R!RowsReadable'
  BY <1>0 DEF R!Shapes, R!Underway, R!RingOnDisk, R!Rotated, R!Moved, R!RowsReadable, R!Readable,
     R!Decryptable, R!KeysOf, R!Up, R!Torn, R!NoKeys, R!Sound, R!EditsReadable, R!Sealed
<1>7. R!Sound' => R!EditsReadable'
  BY <1>0 DEF R!Shapes, R!Underway, R!RingOnDisk, R!EditsReadable, R!Sealed, R!KeysOf, R!Up, R!Torn,
     R!NoKeys, R!Sound
<1> QED BY <1>1, <1>2, <1>3, <1>4, <1>5, <1>6, <1>7

LEMMA StartStep ==
    ASSUME R!StoresListed, R!KeyInv, R!Start
    PROVE  R!KeyInv'
<1>0. excuse \subseteq excuse' /\ (R!Sound' => R!Sound) /\ (excuse' = {} => excuse = {})
  BY ExcuseStands DEF R!Next
<1> USE DEF R!KeyInv, R!StoresListed, R!Start, R!NewKeyring
<1>1. R!Shapes'
  BY DEF R!Shapes
<1>2. R!Underway'
  BY DEF R!Shapes, R!Underway, R!RingOnDisk, R!KeysOf, R!Up, R!Torn, R!NoKeys, R!Sealed
<1>3. R!RingOnDisk'
  BY DEF R!Shapes, R!Underway, R!RingOnDisk, R!KeysOf, R!Up, R!Torn, R!NoKeys
<1>4. R!BackupReadable'
  BY <1>0 DEF R!Shapes, R!Underway, R!RingOnDisk, R!BackupReadable, R!RowsReadable, R!Readable,
     R!Decryptable, R!KeysOf, R!Up, R!Torn, R!Sound, R!NoKeys
<1>5. R!Sound' => R!Rotated'
  BY <1>0 DEF R!Shapes, R!Underway, R!Rotated, R!Moved, R!Rows, R!Sound
<1>6. R!Sound' => R!RowsReadable'
  BY <1>0 DEF R!Shapes, R!Underway, R!RingOnDisk, R!Rotated, R!Moved, R!RowsReadable, R!Readable,
     R!Decryptable, R!KeysOf, R!Up, R!Torn, R!NoKeys, R!Sound, R!EditsReadable, R!Sealed
<1>7. R!Sound' => R!EditsReadable'
  BY <1>0 DEF R!Shapes, R!Underway, R!RingOnDisk, R!EditsReadable, R!Sealed, R!KeysOf, R!Up, R!Torn,
     R!NoKeys, R!Sound
<1> QED BY <1>1, <1>2, <1>3, <1>4, <1>5, <1>6, <1>7

LEMMA KeyStep ==
    ASSUME R!StoresListed, R!KeyInv, [R!Next]_(R!kvars)
    PROVE  R!KeyInv'
<1>1. CASE UNCHANGED R!kvars
  <2> USE <1>1 DEF R!kvars, R!KeyInv
  <2>1. R!Shapes' BY DEF R!Shapes
  <2>2. (R!Underway /\ R!RingOnDisk)' BY DEF R!Underway, R!RingOnDisk, R!Up, R!Torn, R!Sealed
  <2>3. R!BackupReadable' BY DEF R!BackupReadable, R!Decryptable, R!Up
  <2>4. R!Sound' => (R!Rotated /\ R!RowsReadable /\ R!EditsReadable)'
    BY DEF R!Sound, R!Rotated, R!Moved, R!RowsReadable, R!Decryptable, R!Up, R!Torn, R!EditsReadable, R!Sealed
  <2> QED BY <2>1, <2>2, <2>3, <2>4
<1> QED
  BY <1>1, BeginStep, TruncateStep, SaveNewStep, ReplaceStep, ListStep, RotateStep, NextStoreStep,
     DropStep, SealStep, StoredStep, BackupRowsStep, BackupConfigStep, KilledStep, StartStep DEF R!Next

\* Whatever the stores hold, however many changes of key are begun, fail, die and
\* are begun again, and whatever is edited and backed up meanwhile, a stored
\* credential can be opened with the keys in memory, and with those on disk unless a
\* save that failed or died has left the file empty; excused are an edit and a backup
\* that straddle the change (Change, data_key.go:103-194, config.go:224).
THEOREM NoCredentialLost == Spec => []CredentialsReadable
<1> DEFINE Inv == part = "secrets" => R!KeyInv
<1>1. Init => Inv
  BY KeyInit, KeyAssumption DEF Init
<1>2. Inv /\ [Next]_vars => Inv'
  <2> SUFFICES ASSUME Inv, [Next]_vars, part' = "secrets" PROVE (R!KeyInv)' OBVIOUS
  <2>1. part = "secrets" /\ [R!Next]_(R!kvars)
    BY DEF Next, vars, sealing, R!kvars
  <2> QED BY <2>1, KeyStep, KeyAssumption
<1>3. Inv => CredentialsReadable
  BY DEF CredentialsReadable, R!KeyInv, R!BackupReadable, R!RowsReadable, R!Sound, R!CredentialsReadable
<1> QED BY <1>1, <1>2, <1>3, PTL DEF Spec

-----------------------------------------------------------------------------
(* System settings.                                                        *)

LEMMA Clamped ==
    ASSUME T!DaysOK, NEW d \in Int
    PROVE  /\ T!clampDays(d) \in 0..MaxDays /\ T!clampDays(d) # Absent
           /\ d \in 0..MaxDays => T!clampDays(d) = d
  BY DEF T!DaysOK, T!clampDays

LEMMA Resolved ==
    ASSUME T!DaysOK, NEW r, T!IsRow(r)
    PROVE  /\ T!Resolve(r) \in [events : Int, messages : Int]
           /\ \A f \in T!Fields : T!Resolve(r)[f] \in 0..MaxDays
<1>1. T!clampDays(r.events) \in 0..MaxDays /\ T!clampDays(r.messages) \in 0..MaxDays
  BY Clamped DEF T!IsRow
<1>2. DefaultDays \in 0..MaxDays /\ MaxDays \in Nat BY DEF T!DaysOK
<1> QED BY <1>1, <1>2 DEF T!Resolve, T!Fields

\* What a save writes resolves to what its message says, and where it says nothing
\* to what the row it read resolved to.
LEMMA MergedResolves ==
    ASSUME T!DaysOK, NEW r, T!IsRow(r), NEW m, m.events \in Int, m.messages \in Int
    PROVE  /\ T!IsRow(T!Merged(r, m)) /\ T!Merged(r, m).there
           /\ \A f \in T!Fields : T!Resolve(T!Merged(r, m))[f] =
                IF m[f] = Absent THEN T!Resolve(r)[f] ELSE T!clampDays(m[f])
<1> DEFINE d(f) == T!clampDays(IF m[f] = Absent THEN T!Resolve(r)[f] ELSE m[f])
<1> USE DEF T!Fields
<1>1. \A f \in T!Fields : m[f] \in Int /\ T!Resolve(r)[f] \in 0..MaxDays /\ T!Resolve(r)[f] \in Int
  BY Resolved DEF T!DaysOK
<1>2. \A f \in T!Fields : /\ d(f) \in 0..MaxDays /\ d(f) \in Int /\ d(f) # Absent /\ T!clampDays(d(f)) = d(f)
                          /\ d(f) = IF m[f] = Absent THEN T!Resolve(r)[f] ELSE T!clampDays(m[f])
  <2> SUFFICES ASSUME NEW f \in T!Fields
               PROVE  /\ d(f) \in 0..MaxDays /\ d(f) \in Int /\ d(f) # Absent /\ T!clampDays(d(f)) = d(f)
                      /\ d(f) = IF m[f] = Absent THEN T!Resolve(r)[f] ELSE T!clampDays(m[f])
    OBVIOUS
  <2>1. d(f) \in 0..MaxDays /\ d(f) # Absent BY <1>1, Clamped
  <2>2. d(f) \in Int BY <2>1
  <2> QED BY <1>1, <2>1, <2>2, Clamped
<1>3. T!Merged(r, m).there /\ T!Merged(r, m).events = d("events") /\ T!Merged(r, m).messages = d("messages")
  BY DEF T!Merged
<1> HIDE DEF d
<1>4. T!IsRow(T!Merged(r, m)) BY <1>2, <1>3 DEF T!IsRow
<1>5. T!Resolve(T!Merged(r, m)).events = d("events") /\ T!Resolve(T!Merged(r, m)).messages = d("messages")
  BY <1>2, <1>3 DEF T!Resolve
<1> QED BY <1>2, <1>3, <1>4, <1>5 DEF d

LEMMA SettingsInit == ASSUME T!DaysOK, T!Init PROVE T!SettingsInv
<1>0. T!IsRow(T!NoRow) /\ T!IsRow(T!Stored(FromConfig))
  BY DEF T!IsRow, T!NoRow, T!Stored, T!DaysOK
<1>1. T!IsRow(row) /\ (row.there \/ row = T!NoRow)
  <2>1. T!Stored(FromConfig).there BY DEF T!Stored
  <2> QED BY <1>0, <2>1 DEF T!Init
<1> USE DEF T!Init, T!DaysOK, T!Fields
<1>2. T!SettingsTypes
  BY <1>0, <1>1 DEF T!SettingsTypes, T!NoEdit, T!NoPolicy
<1>3. T!OnlyAsked
  <2>1. row.there => row.events = FromConfig.events /\ row.messages = FromConfig.messages
    BY DEF T!Stored, T!NoRow
  <2>2. \A f \in T!Fields : row.there => T!Resolve(row)[f] \in T!Asked(f)
    BY <2>1 DEF T!Resolve, T!Asked
  <2>3. \A e \in Pages : editor[e].pc = "idle" BY DEF T!NoEdit
  <2>4. \A i \in Servers, f \in T!Fields : enforced[i][f] \in T!Asked(f)
    BY DEF T!NoPolicy, T!Asked
  <2> QED BY <2>1, <2>2, <2>3, <2>4 DEF T!OnlyAsked
<1>4. T!SaveOnItsWay BY DEF T!SaveOnItsWay
<1> QED BY <1>2, <1>3, <1>4 DEF T!SettingsInv

\* Nothing that was asked for is forgotten.
LEMMA AskedGrows ==
    ASSUME T!SettingsTypes, [T!Next]_(T!svars)
    PROVE  /\ DOMAIN chosen' = T!Fields
           /\ \A f \in T!Fields : T!Asked(f) \subseteq T!Asked(f)' /\ chosen[f] \subseteq chosen'[f]
<1>2. chosen' = chosen \/ \E e \in Pages, i \in Servers, m \in Messages : T!ReadRow(e, i, m)
  BY DEF T!Next, T!svars, T!ReadRow, T!Save, T!RefreshRead, T!RefreshPublish, T!Trigger, T!Tick, T!TickPublish, T!Wake, T!Load,
     T!PassDone, T!Restart
<1>3. DOMAIN chosen' = T!Fields /\ \A f \in T!Fields : chosen[f] \subseteq chosen'[f]
  BY <1>2 DEF T!SettingsTypes, T!ReadRow
<1>4. \A f \in T!Fields : T!Asked(f) \subseteq T!Asked(f)'
  BY <1>3 DEF T!Asked
<1> QED BY <1>3, <1>4

LEMMA SettingsTypesStep ==
    ASSUME T!DaysOK, T!SettingsInv, [T!Next]_(T!svars)
    PROVE  T!SettingsTypes'
<1> USE DEF T!SettingsInv
<1>0. DOMAIN chosen' = T!Fields /\ (\A f \in T!Fields : FromConfig[f] \in chosen'[f]) /\ T!IsRow(row)
  BY AskedGrows DEF T!SettingsTypes
<1>b. (row.there \/ row = T!NoRow) /\ (row' = row => (row.there \/ row = T!NoRow)')
  BY DEF T!SettingsTypes, T!NoRow
<1>a. T!IsRow(T!NoRow) /\ T!IsRow(T!Stored(FromConfig)) /\ T!Stored(FromConfig).there
  BY DEF T!IsRow, T!NoRow, T!Stored, T!DaysOK
<1>1. CASE UNCHANGED T!svars
  BY <1>1 DEF T!svars, T!SettingsTypes, T!IsRow
<1>2. ASSUME NEW e \in Pages, NEW i \in Servers, NEW m \in Messages, T!ReadRow(e, i, m)
      PROVE  T!SettingsTypes'
  BY <1>0, <1>2 DEF T!ReadRow, T!SettingsTypes, T!IsRow
<1>3. ASSUME NEW e \in Pages, T!Save(e) PROVE T!SettingsTypes'
  <2>1. T!IsRow(T!Merged(editor[e].read, editor[e].msg)) /\ T!Merged(editor[e].read, editor[e].msg).there
    BY <1>3, MergedResolves DEF T!Save, T!SettingsTypes, T!DaysOK
  <2>2. CASE T!NoFault /\ row' = T!Merged(editor[e].read, editor[e].msg) /\ lastSaver' = editor[e].at
             /\ editor' = [editor EXCEPT ![e].pc = "refresh"]
    <3>1. T!IsRow(row') /\ row'.there /\ lastSaver' \in Servers
      BY <1>3, <2>1, <2>2 DEF T!Save, T!SettingsTypes
    <3> QED BY <1>0, <1>3, <2>2, <3>1 DEF T!Save, T!SettingsTypes, T!IsRow
  <2>3. CASE T!Fault /\ editor' = [editor EXCEPT ![e] = T!NoEdit] /\ UNCHANGED <<row, lastSaver>>
    BY <1>0, <1>a, <1>3, <2>3 DEF T!Save, T!SettingsTypes, T!IsRow, T!NoEdit
  <2> QED BY <1>3, <2>2, <2>3 DEF T!Save
<1>4. ASSUME NEW e \in Pages, T!RefreshRead(e) PROVE T!SettingsTypes'
  <2>1. CASE editor' = [editor EXCEPT ![e].pc = "publish", ![e].read = row]
    BY <1>0, <1>b, <1>4, <2>1 DEF T!RefreshRead, T!SettingsTypes, T!IsRow
  <2>2. CASE editor' = [editor EXCEPT ![e].pc = "trigger"]
    BY <1>0, <1>b, <1>4, <2>2 DEF T!RefreshRead, T!SettingsTypes, T!IsRow
  <2> QED BY <1>4, <2>1, <2>2 DEF T!RefreshRead
<1>5. ASSUME NEW e \in Pages, T!RefreshPublish(e) PROVE T!SettingsTypes'
  BY <1>0, <1>5 DEF T!RefreshPublish, T!SettingsTypes, T!IsRow
<1>6. ASSUME NEW e \in Pages, T!Trigger(e) PROVE T!SettingsTypes'
  BY <1>0, <1>a, <1>6 DEF T!Trigger, T!SettingsTypes, T!IsRow, T!NoEdit
<1>7. ASSUME NEW i \in Servers, T!Tick(i) \/ T!TickPublish(i) PROVE T!SettingsTypes'
  BY <1>0, <1>7 DEF T!Tick, T!TickPublish, T!SettingsTypes, T!IsRow
<1>8. ASSUME NEW i \in Servers, T!Wake(i) \/ T!PassDone(i) PROVE T!SettingsTypes'
  <2>1. worker' \in [Servers -> {"idle", "due", "load", "prune"}]
    BY <1>8 DEF T!Wake, T!PassDone, T!SettingsTypes
  <2>2. trigger' \in [Servers -> BOOLEAN]
    <3>1. trigger' = trigger \/ trigger' = [trigger EXCEPT ![i] = FALSE]
      BY <1>8 DEF T!Wake, T!PassDone
    <3> QED BY <3>1 DEF T!SettingsTypes
  <2>3. UNCHANGED <<row, editor, enforced, lastSaver>> BY <1>8 DEF T!Wake, T!PassDone
  <2> QED BY <1>0, <1>b, <2>1, <2>2, <2>3 DEF T!SettingsTypes, T!IsRow
<1>9. ASSUME NEW i \in Servers, T!Load(i) PROVE T!SettingsTypes'
  <2>1. T!Resolve(row) \in [events : Int, messages : Int] BY <1>0, Resolved
  <2>2. worker' \in [Servers -> {"idle", "due", "load", "prune"}]
        /\ enforced' \in [Servers -> [events : Int, messages : Int]]
    BY <1>9, <2>1 DEF T!Load, T!SettingsTypes
  <2>3. UNCHANGED <<row, editor, trigger, lastSaver>> BY <1>9 DEF T!Load
  <2> QED BY <1>0, <1>b, <2>2, <2>3 DEF T!SettingsTypes, T!IsRow
<1>10. ASSUME NEW i \in Servers, T!Restart(i) PROVE T!SettingsTypes'
  <2>1. T!IsRow(row') /\ (lastSaver # 0 => row'.there) /\ (row'.there \/ row' = T!NoRow)
    BY <1>0, <1>a, <1>b, <1>10 DEF T!Restart, T!SettingsTypes
  <2>2. T!NoPolicy \in [events : Int, messages : Int] BY DEF T!NoPolicy, T!DaysOK
  <2>3. \A e \in Pages : editor'[e] = IF editor[e].at = i THEN T!NoEdit ELSE editor[e]
    BY <1>10 DEF T!Restart
  <2>4. /\ DOMAIN editor' = Pages
        /\ \A e \in Pages :
             /\ editor'[e] = [pc |-> editor'[e].pc, at |-> editor'[e].at, msg |-> editor'[e].msg, read |-> editor'[e].read]
             /\ T!IsRow(editor'[e].read)
             /\ editor'[e].pc # "idle" => editor'[e].at \in Servers
             /\ editor'[e].pc = "merge" => editor'[e].msg \in Messages
    BY <1>a, <1>10, <2>3 DEF T!Restart, T!SettingsTypes, T!NoEdit
  <2>5. trigger' \in [Servers -> BOOLEAN] /\ worker' \in [Servers -> {"idle", "due", "load", "prune"}]
        /\ enforced' \in [Servers -> [events : Int, messages : Int]]
    BY <1>10, <2>2 DEF T!Restart, T!SettingsTypes
  <2>6. T!NoRow' = T!NoRow BY DEF T!NoRow
  <2> QED BY <1>0, <1>10, <2>1, <2>4, <2>5, <2>6 DEF T!Restart, T!SettingsTypes, T!IsRow
<1> QED BY <1>1, <1>2, <1>3, <1>4, <1>5, <1>6, <1>7, <1>8, <1>9, <1>10 DEF T!Next

LEMMA OnlyAskedStep ==
    ASSUME T!DaysOK, T!SettingsInv, [T!Next]_(T!svars)
    PROVE  T!OnlyAsked'
<1> USE DEF T!SettingsInv
<1>0. \A f \in T!Fields : T!Asked(f) \subseteq T!Asked(f)' /\ chosen[f] \subseteq chosen'[f]
  BY AskedGrows
<1>1. \A f \in T!Fields : row.there => T!Resolve(row)[f] \in T!Asked(f)
  BY DEF T!OnlyAsked

\* The row: a save writes it, or an absent one is seeded.
<1>2. ASSUME row'.there PROVE \A f \in T!Fields : T!Resolve(row')[f] \in T!Asked(f)'
  <2>1. ASSUME NEW e \in Pages, T!Save(e), row' = T!Merged(editor[e].read, editor[e].msg)
        PROVE  \A f \in T!Fields : T!Resolve(row')[f] \in T!Asked(f)'
    <3>1. /\ T!IsRow(editor[e].read) /\ editor[e].msg.events \in Int /\ editor[e].msg.messages \in Int
      BY <2>1 DEF T!Save, T!SettingsTypes, T!DaysOK
    <3>2. \A f \in T!Fields : T!Resolve(row')[f] = IF editor[e].msg[f] = Absent THEN T!Resolve(editor[e].read)[f]
                                                  ELSE T!clampDays(editor[e].msg[f])
      BY <2>1, <3>1, MergedResolves
    <3>3. \A f \in T!Fields : /\ editor[e].msg[f] = Absent => T!Resolve(editor[e].read)[f] \in T!Asked(f)
                              /\ editor[e].msg[f] \in {Absent} \cup chosen[f]
      BY <2>1 DEF T!OnlyAsked, T!Save
    <3>4. \A f \in T!Fields : editor[e].msg[f] # Absent => T!clampDays(editor[e].msg[f]) \in T!Asked(f)
      BY <3>3 DEF T!Asked
    <3> QED BY <1>0, <3>2, <3>3, <3>4
  <2>2. \/ row' = row
        \/ \E e \in Pages : T!Save(e) /\ row' = T!Merged(editor[e].read, editor[e].msg)
        \/ row' = T!Stored(FromConfig)
    BY DEF T!Next, T!svars, T!ReadRow, T!Save, T!RefreshRead, T!RefreshPublish, T!Trigger, T!Tick, T!TickPublish, T!Wake, T!Load,
       T!PassDone, T!Restart
  <2>3. ASSUME row' = T!Stored(FromConfig) PROVE \A f \in T!Fields : T!Resolve(row')[f] \in T!Asked(f)'
    <3>1. \A f \in T!Fields : FromConfig[f] \in chosen[f] BY DEF T!SettingsTypes
    <3>2. \A f \in T!Fields : FromConfig[f] \in chosen'[f] BY <1>0, <3>1
    <3>3. row'.events = FromConfig.events /\ row'.messages = FromConfig.messages BY <2>3 DEF T!Stored
    <3> QED BY <3>2, <3>3 DEF T!Resolve, T!Asked, T!Fields, T!DaysOK
  <2> QED BY <1>0, <1>1, <1>2, <2>1, <2>2, <2>3
\* What is in force: a pass pushes what the row resolves to.
<1>3. ASSUME NEW i \in Servers
      PROVE  \/ \A f \in T!Fields : enforced'[i][f] \in T!Asked(f)'
             \/ i \in excuse' /\ enforced'[i] = T!Resolve(T!NoRow)
  <2>0. \/ \A f \in T!Fields : enforced[i][f] \in T!Asked(f)
        \/ i \in excuse /\ enforced[i] = T!Resolve(T!NoRow)
    BY DEF T!OnlyAsked
  <2>1. CASE enforced'[i] = enforced[i] /\ (i \in excuse => i \in excuse')
    BY <1>0, <2>0, <2>1
  <2>2. ASSUME NEW j \in Servers, T!Load(j)
        PROVE  \/ enforced'[i] = enforced[i] /\ (i \in excuse => i \in excuse')
               \/ enforced'[i] = T!Resolve(row) /\ (~row.there => i \in excuse')
    BY <2>2 DEF T!Load, T!SettingsTypes
  <2>3. CASE enforced'[i] = T!Resolve(row) /\ (~row.there => i \in excuse')
    <3>1. CASE row.there BY <1>0, <1>1, <2>3, <3>1
    <3>2. CASE ~row.there BY <2>3, <3>2 DEF T!SettingsTypes
    <3> QED BY <3>1, <3>2
  <2>4. ASSUME NEW j \in Servers, T!Restart(j)
        PROVE  \/ enforced'[i] = enforced[i] /\ (i \in excuse => i \in excuse')
               \/ enforced'[i] = T!NoPolicy
    BY <2>4 DEF T!Restart, T!SettingsTypes
  <2>5. CASE enforced'[i] = T!NoPolicy
    BY <2>5 DEF T!NoPolicy, T!Asked, T!Fields
  <2>6. (enforced' = enforced /\ excuse' = excuse) \/ \E j \in Servers : T!Load(j) \/ T!Restart(j)
    BY DEF T!Next, T!svars, T!ReadRow, T!Save, T!RefreshRead, T!RefreshPublish, T!Trigger, T!Tick, T!TickPublish, T!Wake, T!PassDone
  <2> QED BY <2>1, <2>2, <2>3, <2>4, <2>5, <2>6
\* What will be: a save begins from the row, and its message is asked for from then on,
\* and where it is silent what the row, or its absence, comes to.
<1>4. ASSUME NEW e \in Pages, editor'[e].pc = "merge", NEW f \in T!Fields
      PROVE  /\ editor'[e].msg[f] = Absent => T!Resolve(editor'[e].read)[f] \in T!Asked(f)'
             /\ editor'[e].msg[f] \in {Absent} \cup chosen'[f]
  <2>1. CASE editor'[e] = editor[e]
    BY <1>0, <1>4, <2>1 DEF T!OnlyAsked
  <2>2. CASE editor'[e] # editor[e]
    <3>1. PICK i \in Servers, m \in Messages : T!ReadRow(e, i, m)
      <4>1. ASSUME NEW d \in Pages, T!Save(d) \/ T!RefreshRead(d) \/ T!RefreshPublish(d) \/ T!Trigger(d) PROVE FALSE
        <5>1. editor'[e].pc \in {"idle", "refresh", "publish", "trigger"} \/ editor'[e] = editor[e]
          BY <4>1 DEF T!Save, T!RefreshRead, T!RefreshPublish, T!Trigger, T!NoEdit, T!SettingsTypes
        <5> QED BY <1>4, <2>2, <5>1
      <4>2. ASSUME NEW i \in Servers, T!Restart(i) PROVE FALSE
        BY <1>4, <2>2, <4>2 DEF T!Restart, T!NoEdit
      <4>3. ASSUME NEW d \in Pages, NEW i \in Servers, NEW m \in Messages, T!ReadRow(d, i, m) PROVE d = e
        BY <2>2, <4>3 DEF T!ReadRow, T!SettingsTypes
      <4>4. editor' # editor BY <2>2
      <4> QED BY <4>1, <4>2, <4>3, <4>4 DEF T!Next, T!svars, T!Tick, T!TickPublish, T!Wake, T!Load, T!PassDone
    <3>2. editor'[e].read = row /\ editor'[e].msg = m BY <3>1 DEF T!ReadRow, T!SettingsTypes
    <3>3. chosen'[f] = chosen[f] \cup
            (IF m[f] # Absent THEN {m[f]} ELSE IF row.there THEN {} ELSE {T!NoRow[f]})
      BY <3>1 DEF T!ReadRow, T!SettingsTypes
    <3>4. ASSUME m[f] = Absent, ~row.there PROVE T!Resolve(row)[f] \in T!Asked(f)'
      <4>1. row = T!NoRow /\ T!NoRow[f] \in chosen'[f] BY <3>3, <3>4 DEF T!SettingsTypes
      <4> QED BY <4>1 DEF T!NoRow, T!Resolve, T!Asked, T!Fields, T!DaysOK
    <3> QED BY <1>0, <1>1, <3>2, <3>3, <3>4
  <2> QED BY <2>1, <2>2
<1>5. \A f \in T!Fields : row'.there => T!Resolve(row)'[f] \in T!Asked(f)'
  BY <1>2 DEF T!Resolve
<1>6. T!Resolve(T!NoRow)' = T!Resolve(T!NoRow) BY DEF T!Resolve, T!NoRow
<1>7. \A e \in Pages : T!Resolve(editor[e].read)' = T!Resolve(editor'[e].read) BY DEF T!Resolve
<1> QED BY <1>3, <1>4, <1>5, <1>6, <1>7 DEF T!OnlyAsked

LEMMA SaveOnItsWayStep ==
    ASSUME T!DaysOK, T!SettingsInv, [T!Next]_(T!svars)
    PROVE  T!SaveOnItsWay'
<1> USE DEF T!SettingsInv
<1> DEFINE Coming(i) == \/ trigger[i] \/ worker[i] \in {"due", "load"}
                        \/ \E e \in Pages : editor[e].at = i /\ editor[e].pc \in {"refresh", "publish", "trigger"}
<1> SUFFICES ASSUME NEW i \in Servers, lastSaver' = i, i \notin excuse'
             PROVE  enforced'[i] = T!Resolve(row)' \/ Coming(i)'
  BY DEF T!SaveOnItsWay
<1>1. i \in excuse => \E j \in Servers : j = i /\ (T!Load(j) \/ T!Restart(j))
  BY DEF T!Next, T!svars, T!ReadRow, T!Save, T!RefreshRead, T!RefreshPublish, T!Trigger, T!Tick,
     T!TickPublish, T!Wake, T!Load, T!PassDone, T!Restart
<1>2. ASSUME NEW e \in Pages, T!Save(e) PROVE enforced'[i] = T!Resolve(row)' \/ Coming(i)'
  <2>1. CASE T!NoFault /\ lastSaver' = editor[e].at /\ editor' = [editor EXCEPT ![e].pc = "refresh"]
    BY <2>1 DEF T!SettingsTypes
  <2>2. CASE editor' = [editor EXCEPT ![e] = T!NoEdit] /\ UNCHANGED <<row, lastSaver>>
    <3>1. \A d \in Pages : editor[d].pc \in {"refresh", "publish", "trigger"} => editor'[d] = editor[d]
      BY <1>2, <2>2 DEF T!Save, T!SettingsTypes
    <3>2. i \notin excuse BY <1>2 DEF T!Save
    <3> QED BY <1>2, <2>2, <3>1, <3>2 DEF T!Save, T!SaveOnItsWay, T!Resolve
  <2> QED BY <1>2, <2>1, <2>2 DEF T!Save
<1>3. CASE lastSaver' = lastSaver /\ row' = row
  <2>0. T!Resolve(row)' = T!Resolve(row) BY <1>3 DEF T!Resolve
  <2>1. i \notin excuse => enforced[i] = T!Resolve(row) \/ Coming(i)
    BY <1>3 DEF T!SaveOnItsWay
  <2>2. CASE UNCHANGED T!svars
    BY <2>0, <2>1, <2>2 DEF T!svars
  <2>3. ASSUME NEW e \in Pages, NEW j \in Servers, NEW m \in Messages, T!ReadRow(e, j, m)
        PROVE  enforced'[i] = T!Resolve(row)' \/ Coming(i)'
    <3>1. \A d \in Pages : editor[d].pc # "idle" => editor'[d] = editor[d] BY <2>3 DEF T!ReadRow, T!SettingsTypes
    <3> QED BY <2>0, <2>1, <2>3, <3>1 DEF T!ReadRow
  <2>4. ASSUME NEW e \in Pages, T!RefreshRead(e) \/ T!RefreshPublish(e)
        PROVE  enforced'[i] = T!Resolve(row)' \/ Coming(i)'
    <3>1. \A d \in Pages : editor[d].pc \in {"refresh", "publish", "trigger"} =>
             editor'[d].at = editor[d].at /\ editor'[d].pc \in {"refresh", "publish", "trigger"}
      BY <2>4 DEF T!RefreshRead, T!RefreshPublish, T!SettingsTypes
    <3> QED BY <2>0, <2>1, <2>4, <3>1 DEF T!RefreshRead, T!RefreshPublish
  <2>5. ASSUME NEW e \in Pages, T!Trigger(e) PROVE enforced'[i] = T!Resolve(row)' \/ Coming(i)'
    <3>1. CASE editor[e].at = i
      BY <2>5, <3>1 DEF T!Trigger, T!SettingsTypes
    <3>2. CASE editor[e].at # i
      <4>1. \A d \in Pages : d # e => editor'[d] = editor[d] BY <2>5 DEF T!Trigger, T!SettingsTypes
      <4>2. trigger[i] => trigger'[i] BY <2>5 DEF T!Trigger, T!SettingsTypes
      <4> QED BY <2>0, <2>1, <2>5, <3>2, <4>1, <4>2 DEF T!Trigger
    <3> QED BY <3>1, <3>2
  <2>6. ASSUME NEW j \in Servers, T!Tick(j) \/ T!TickPublish(j) PROVE enforced'[i] = T!Resolve(row)' \/ Coming(i)'
    BY <2>0, <2>1, <2>6 DEF T!Tick, T!TickPublish
  <2>7. ASSUME NEW j \in Servers, T!Wake(j) PROVE enforced'[i] = T!Resolve(row)' \/ Coming(i)'
    <3>1. CASE j = i BY <2>7, <3>1 DEF T!Wake, T!SettingsTypes
    <3>2. CASE j # i
      <4>1. worker'[i] = worker[i] /\ trigger'[i] = trigger[i] BY <2>7, <3>2 DEF T!Wake, T!SettingsTypes
      <4> QED BY <2>0, <2>1, <2>7, <4>1 DEF T!Wake
    <3> QED BY <3>1, <3>2
  <2>8. ASSUME NEW j \in Servers, T!Load(j) PROVE enforced'[i] = T!Resolve(row)' \/ Coming(i)'
    <3>1. CASE j = i
      <4>1. enforced' = [enforced EXCEPT ![i] = T!Resolve(row)] BY <2>8, <3>1 DEF T!Load
      <4> QED BY <2>0, <4>1 DEF T!SettingsTypes
    <3>2. CASE j # i
      <4>1. worker'[i] = worker[i] /\ enforced'[i] = enforced[i] /\ i \notin excuse
        BY <2>8, <3>2 DEF T!Load, T!SettingsTypes
      <4> QED BY <2>0, <2>1, <2>8, <4>1 DEF T!Load
    <3> QED BY <3>1, <3>2
  <2>9. ASSUME NEW j \in Servers, T!PassDone(j) PROVE enforced'[i] = T!Resolve(row)' \/ Coming(i)'
    <3>1. worker[i] \in {"due", "load"} => worker'[i] = worker[i] BY <2>9 DEF T!PassDone, T!SettingsTypes
    <3> QED BY <2>0, <2>1, <2>9, <3>1 DEF T!PassDone
  <2>10. ASSUME NEW j \in Servers, T!Restart(j) PROVE enforced'[i] = T!Resolve(row)' \/ Coming(i)'
    <3>1. CASE j = i BY <2>10, <3>1 DEF T!Restart, T!SettingsTypes
    <3>2. CASE j # i
      <4>1. worker'[i] = worker[i] /\ trigger'[i] = trigger[i] /\ enforced'[i] = enforced[i] /\ i \notin excuse
        BY <2>10, <3>2 DEF T!Restart, T!SettingsTypes
      <4>2. \A e \in Pages : editor[e].at = i => editor'[e] = editor[e]
        BY <2>10, <3>2 DEF T!Restart
      <4> QED BY <2>0, <2>1, <4>1, <4>2
    <3> QED BY <3>1, <3>2
  <2> QED BY <1>2, <2>2, <2>3, <2>4, <2>5, <2>6, <2>7, <2>8, <2>9, <2>10 DEF T!Next
<1>4. CASE ~(lastSaver' = lastSaver /\ row' = row)
  <2>1. \/ \E e \in Pages : T!Save(e)
        \/ \E j \in Servers : T!Restart(j)
    BY <1>4 DEF T!Next, T!svars, T!ReadRow, T!RefreshRead, T!RefreshPublish, T!Trigger, T!Tick, T!TickPublish, T!Wake, T!Load,
       T!PassDone
  <2>2. ASSUME NEW j \in Servers, T!Restart(j) PROVE FALSE
    <3>1. lastSaver = i /\ i # 0 BY <2>2 DEF T!Restart, T!DaysOK
    <3> QED BY <1>4, <2>2, <3>1 DEF T!Restart, T!SettingsTypes
  <2> QED BY <1>2, <2>1, <2>2
<1> QED BY <1>3, <1>4

LEMMA SettingsStep ==
    ASSUME T!DaysOK, T!SettingsInv, [T!Next]_(T!svars)
    PROVE  T!SettingsInv'
  BY SettingsTypesStep, OnlyAskedStep, SaveOnItsWayStep DEF T!SettingsInv

LEMMA SettingsHold ==
    ASSUME T!DaysOK, T!SettingsInv
    PROVE  T!PolicyInForce
<1> USE DEF T!SettingsInv
<1>1. \A i \in Servers : \/ \A f \in T!Fields : enforced[i][f] \in T!Asked(f)
                         \/ i \in excuse /\ enforced[i] = T!Resolve(T!NoRow)
  BY DEF T!OnlyAsked
<1>2. \A i \in Servers : /\ lastSaver = i /\ i \notin excuse
                         /\ worker[i] = "idle" /\ ~trigger[i]
                         /\ \A e \in Pages : editor[e].pc = "idle"
                         => enforced[i] = T!Resolve(row)
  BY DEF T!SaveOnItsWay, T!SettingsTypes
<1> QED BY <1>1, <1>2 DEF T!PolicyInForce

\* For any instances, pages and messages of a save: a pass that reads a stored row
\* enforces only days somebody asked for, one that finds none the defaults and
\* nothing else, and a save that is stored is in force or on its way there
\* (policy.go, settings_usecase.go, worker.go).
THEOREM RetentionWasChosen == Spec => []PolicyInForce
<1> DEFINE Inv == part = "settings" => T!SettingsInv
<1>1. Init => Inv
  BY SettingsInit, SettingsAssumption DEF Init
<1>2. Inv /\ [Next]_vars => Inv'
  <2> SUFFICES ASSUME Inv, [Next]_vars, part' = "settings" PROVE (T!SettingsInv)' OBVIOUS
  <2>1. part = "settings" /\ [T!Next]_(T!svars)
    BY DEF Next, vars, setting, T!svars
  <2> QED BY <2>1, SettingsStep, SettingsAssumption
<1>3. Inv => PolicyInForce
  BY SettingsHold, SettingsAssumption DEF PolicyInForce
<1> QED BY <1>1, <1>2, <1>3, PTL DEF Spec

-----------------------------------------------------------------------------
(* Providers.                                                              *)

LEMMA NoEditIs ==
    /\ P!NoEdit.pc = "idle" /\ P!NoEdit.id = P!NotSaved
    /\ P!NoEdit = [pc |-> P!NoEdit.pc, id |-> P!NoEdit.id, req |-> P!NoEdit.req, read |-> P!NoEdit.read,
                 meant |-> P!NoEdit.meant]
  BY DEF P!NoEdit, P!NotSaved

LEMMA NormalizedStands ==
    ASSUME NEW entries PROVE P!Stands(P!Normalize(entries), entries) /\ \A x \in P!Normalize(entries) : x.local # ""
<1> DEFINE es == {e \in entries : ~P!Blank(e)}
<1>1. P!Normalize(entries) = {P!normalizeEntry(e) : e \in es} BY DEF P!Normalize
<1>2. \A e : P!normalizeEntry(e).domain = e.domain
             /\ P!normalizeEntry(e).local = IF e.local = "" THEN "*" ELSE e.local
  BY DEF P!normalizeEntry
<1>3. P!Normalize(entries) = {} <=> es = {} BY <1>1
<1> HIDE DEF es
<1>4. ASSUME NEW f PROVE (\E x \in P!Normalize(entries) : x.domain = f.domain /\ x.local \in {"*", f.local})
                          <=> \E e \in es : P!Means(e, f)
  <2>1. ASSUME NEW e \in es PROVE P!Means(e, f) <=> /\ P!normalizeEntry(e).domain = f.domain
                                                 /\ P!normalizeEntry(e).local \in {"*", f.local}
    BY <1>2 DEF P!Means
  <2> QED BY <1>1, <2>1
<1>5. \A x \in P!Normalize(entries) : x.local # "" BY <1>1, <1>2
<1>6. \A f \in Froms : P!Admitted(P!Normalize(entries), f) <=> P!Meant(entries, f)
  BY <1>3, <1>4 DEF P!Admitted, P!Meant, es
<1> QED BY <1>5, <1>6 DEF P!Stands

\* A list saved as it is read back admits whom it admitted.
LEMMA ReadBackStands ==
    ASSUME NEW p, NEW typing, P!Stands(p.allowed, typing), \A x \in p.allowed : x.local # ""
    PROVE  P!Stands(P!Normalize(P!toProto(p).allowed), typing)
<1> DEFINE Form(x) == [local |-> x.local, at |-> TRUE, domain |-> x.domain]
           form == {Form(x) : x \in p.allowed}
<1>1. P!toProto(p).allowed = form BY DEF P!toProto
<1>2. \A x : ~P!Blank(Form(x)) BY DEF P!Blank
<1>3. \A x : x.local # "" => /\ P!normalizeEntry(Form(x)).local = x.local
                             /\ P!normalizeEntry(Form(x)).domain = x.domain
  BY DEF P!normalizeEntry
<1> HIDE DEF Form
<1>4. P!Normalize(form) = {P!normalizeEntry(Form(x)) : x \in p.allowed}
  <2>1. {e \in form : ~P!Blank(e)} = form BY <1>2
  <2> QED BY <2>1 DEF P!Normalize
<1>5. P!Normalize(form) = {} <=> p.allowed = {} BY <1>4
<1>6. ASSUME NEW f PROVE (\E y \in P!Normalize(form) : y.domain = f.domain /\ y.local \in {"*", f.local})
                         <=> \E x \in p.allowed : x.domain = f.domain /\ x.local \in {"*", f.local}
  <2>1. \A x \in p.allowed : /\ P!normalizeEntry(Form(x)).local = x.local
                             /\ P!normalizeEntry(Form(x)).domain = x.domain
    BY <1>3
  <2> QED BY <1>4, <2>1
<1>7. \A f \in Froms : P!Admitted(P!Normalize(form), f) <=> P!Admitted(p.allowed, f)
  BY <1>5, <1>6 DEF P!Admitted
<1> QED BY <1>1, <1>7 DEF P!Stands

LEMMA SavedInit == ASSUME P!IdsOK, P!Init PROVE P!SavedInv
<1> USE DEF P!Init, P!SavedInv
<1>1. P!ProviderShapes BY NoEditIs DEF P!ProviderShapes
<1>2. P!RowsClean BY DEF P!RowsClean, P!NoRow
<1>3. P!EditsApart BY NoEditIs DEF P!EditsApart
<1> QED BY <1>1, <1>2, <1>3

LEMMA EditLookStep ==
    ASSUME P!IdsOK, P!SavedInv, NEW e \in Forms, NEW p \in Ids, NEW req, NEW meant,
           P!Look(e, p, req, meant), P!Stands(P!Normalize(req.allowed), meant)
    PROVE  P!SavedInv'
<1> USE DEF P!SavedInv
<1>1. /\ editor' = [editor EXCEPT ![e] = [pc |-> "look", id |-> p, req |-> req, read |-> row[p],
                                          meant |-> meant]]
      /\ row' = row /\ typed' = typed /\ latest' = latest
      /\ overlapped' = overlapped \cup {p : d \in {d \in Forms : editor[d].id = p}}
  BY DEF P!Look
<1>2. overlapped \subseteq overlapped' BY <1>1
<1>3. P!ProviderShapes' BY <1>1 DEF P!ProviderShapes
<1>4. P!RowsClean' BY <1>1, <1>2 DEF P!RowsClean, P!Stands, P!Meant
<1>5. \A d \in Forms : editor'[d] = IF d = e THEN [pc |-> "look", id |-> p, req |-> req, read |-> row[p],
                                          meant |-> meant] ELSE editor[d]
  BY <1>1 DEF P!ProviderShapes
<1>6. ASSUME NEW d \in Forms, editor[d].id = p PROVE p \in overlapped'
  BY <1>1, <1>6
<1>7. ASSUME NEW d \in Forms, NEW c \in Forms, d # c, editor'[d].id = editor'[c].id, editor'[d].pc # "idle"
      PROVE  editor'[d].id \in overlapped'
  BY <1>2, <1>5, <1>6, <1>7 DEF P!EditsApart, P!ProviderShapes
<1>8. ASSUME NEW d \in Forms
      PROVE  /\ editor'[d].pc # "idle" => P!Stands(P!Normalize(editor'[d].req.allowed), editor'[d].meant)
             /\ editor'[d].pc = "write" =>
                  /\ ~editor'[d].read.there => editor'[d].read = P!NoRow
                  /\ editor'[d].id \notin overlapped' /\ editor'[d].read.there /\ row[editor'[d].id].there =>
                       editor'[d].read = row[editor'[d].id]
  <2>1. CASE d = e BY <1>5, <2>1
  <2>2. CASE d # e BY <1>2, <1>5, <2>2 DEF P!EditsApart
  <2> QED BY <2>1, <2>2
<1>9. P!EditsApart' BY <1>1, <1>7, <1>8 DEF P!EditsApart, P!Stands, P!Meant
<1> QED BY <1>3, <1>4, <1>9

LEMMA EditReadStep ==
    ASSUME P!IdsOK, P!SavedInv, NEW e \in Forms, P!Read(e)
    PROVE  P!SavedInv'
<1> USE DEF P!SavedInv
<1> DEFINE p == editor[e].id
<1>0. p \in Ids /\ editor[e].pc = "look" BY DEF P!Read, P!ProviderShapes
<1>1. UNCHANGED <<row, typed, latest, overlapped>> BY DEF P!Read
<1>2. PICK ne : /\ editor' = [editor EXCEPT ![e] = ne]
                /\ ne = P!NoEdit \/ ne = [editor[e] EXCEPT !.pc = "write", !.read = row[p]]
  BY DEF P!Read
<1>3. ne = P!NoEdit \/ ne = [pc |-> "write", id |-> p, req |-> editor[e].req, read |-> row[p], meant |-> editor[e].meant]
  BY <1>2 DEF P!ProviderShapes
<1>4. \A d \in Forms : editor'[d] = IF d = e THEN ne ELSE editor[d]
  BY <1>2 DEF P!ProviderShapes
<1> HIDE DEF p
<1>5. P!ProviderShapes' BY NoEditIs, <1>0, <1>1, <1>2, <1>3, <1>4 DEF P!ProviderShapes
<1>6. P!RowsClean' BY <1>1 DEF P!RowsClean, P!Stands, P!Meant
<1>7. ASSUME NEW d \in Forms, NEW c \in Forms, d # c, editor'[d].id = editor'[c].id, editor'[d].pc # "idle"
      PROVE  editor'[d].id \in overlapped
  <2>1. \A b \in Forms : /\ editor'[b].pc # "idle" => editor'[b].id = editor[b].id /\ editor[b].pc # "idle"
                         /\ editor'[b].pc = "idle" => editor'[b].id = P!NotSaved
    BY NoEditIs, <1>0, <1>3, <1>4 DEF P!ProviderShapes, p
  <2>2. editor'[c].pc # "idle" BY <1>7, <2>1 DEF P!ProviderShapes, P!IdsOK
  <2> QED BY <1>7, <2>1, <2>2 DEF P!EditsApart
<1>8. ASSUME NEW d \in Forms
      PROVE  /\ editor'[d].pc # "idle" => P!Stands(P!Normalize(editor'[d].req.allowed), editor'[d].meant)
             /\ editor'[d].pc = "write" =>
                  /\ ~editor'[d].read.there => editor'[d].read = P!NoRow
                  /\ editor'[d].id \notin overlapped /\ editor'[d].read.there /\ row[editor'[d].id].there =>
                       editor'[d].read = row[editor'[d].id]
  <2>1. CASE d = e /\ ne = P!NoEdit BY NoEditIs, <1>4, <2>1
  <2>2. CASE d = e /\ ne # P!NoEdit
    <3>1. editor'[d].id = p /\ editor'[d].read = row[p] /\ editor'[d].req = editor[e].req
          /\ editor'[d].meant = editor[e].meant
      BY <1>3, <1>4, <2>2
    <3>2. P!Stands(P!Normalize(editor[e].req.allowed), editor[e].meant) BY <1>0 DEF P!EditsApart
    <3>3. ~row[p].there => row[p] = P!NoRow BY <1>0 DEF P!RowsClean
    <3> QED BY <3>1, <3>2, <3>3
  <2>3. CASE d # e BY <1>4, <2>3 DEF P!EditsApart
  <2> QED BY <2>1, <2>2, <2>3
<1>9. P!EditsApart' BY <1>1, <1>7, <1>8 DEF P!EditsApart, P!Stands, P!Meant
<1> QED BY <1>5, <1>6, <1>9

LEMMA EditWriteStep ==
    ASSUME P!IdsOK, P!SavedInv, NEW e \in Forms, P!Write(e)
    PROVE  P!SavedInv'
<1> USE DEF P!SavedInv
<1> DEFINE p == editor[e].id
           req == editor[e].req
           wrote == /\ editor[e].read.there = row[p].there
                    /\ ~\E q \in Ids \ {p} : row[q].there /\ row[q].name = req.name
<1>0. p \in Ids /\ editor[e].pc = "write" BY DEF P!Write, P!ProviderShapes
<1>1. overlapped' = overlapped /\ editor' = [editor EXCEPT ![e] = P!NoEdit] BY DEF P!Write
<1>2. \A d \in Forms : editor'[d] = IF d = e THEN P!NoEdit ELSE editor[d]
  BY <1>1 DEF P!ProviderShapes
<1>3. ASSUME NEW d \in Forms, NEW c \in Forms, d # c, editor'[d].id = editor'[c].id, editor'[d].pc # "idle"
      PROVE  editor'[d].id \in overlapped
  BY NoEditIs, <1>2, <1>3 DEF P!EditsApart, P!ProviderShapes, P!IdsOK
<1>4. ASSUME NEW d \in Forms
      PROVE  editor'[d].pc # "idle" => P!Stands(P!Normalize(editor'[d].req.allowed), editor'[d].meant)
  BY NoEditIs, <1>2 DEF P!EditsApart
<1>5. CASE ~wrote
  <2>1. UNCHANGED <<row, typed, latest>> BY <1>5 DEF P!Write
  <2>2. P!ProviderShapes' BY NoEditIs, <1>1, <1>2, <2>1 DEF P!ProviderShapes
  <2>3. P!RowsClean' BY <1>1, <2>1 DEF P!RowsClean, P!Stands, P!Meant
  <2>4. P!EditsApart' BY NoEditIs, <1>1, <1>2, <1>3, <1>4, <2>1 DEF P!EditsApart, P!Stands, P!Meant
  <2> QED BY <2>2, <2>3, <2>4
<1>6. CASE wrote
  <2>1. /\ row' = [row EXCEPT ![p] = P!Saved(editor[e].read, req)]
        /\ typed' = [typed EXCEPT ![p] = editor[e].meant]
        /\ latest' = [latest EXCEPT ![p] = [s \in P!Secrets |-> IF req[s] # 0 THEN req[s] ELSE @[s]]]
    BY <1>6 DEF P!Write
  <2>2. /\ \A q \in Ids : row'[q] = IF q = p THEN P!Saved(editor[e].read, req) ELSE row[q]
        /\ \A q \in Ids : typed'[q] = IF q = p THEN editor[e].meant ELSE typed[q]
        /\ \A q \in Ids : latest'[q] = IF q = p THEN [s \in P!Secrets |-> IF req[s] # 0 THEN req[s] ELSE latest[p][s]]
                                       ELSE latest[q]
    BY <2>1 DEF P!ProviderShapes
  <2>3. P!ProviderShapes' BY NoEditIs, <1>1, <1>2, <2>1, <2>2 DEF P!ProviderShapes
  <2>4. /\ P!Saved(editor[e].read, req).there
        /\ P!Saved(editor[e].read, req).allowed = P!Normalize(req.allowed)
        /\ \A s \in P!Secrets : P!Saved(editor[e].read, req).config[s] =
                                IF req[s] # 0 THEN req[s] ELSE editor[e].read.config[s]
    BY DEF P!Saved, P!preserveStoredPassword, P!Secrets
  <2>5. p \notin overlapped => \A s \in P!Secrets : editor[e].read.config[s] = latest[p][s]
    <3>0. editor[e].read.there = row[p].there BY <1>6
    <3> HIDE DEF wrote, req, p
    <3>1. CASE row[p].there
      <4>1. p \notin overlapped => editor[e].read = row[p] BY <1>0, <3>0, <3>1 DEF P!EditsApart, p
      <4> QED BY <1>0, <3>1, <4>1 DEF P!RowsClean
    <3>2. CASE ~row[p].there
      <4>1. editor[e].read = P!NoRow BY <1>0, <3>0, <3>2 DEF P!EditsApart
      <4>2. \A s \in P!Secrets : P!NoRow.config[s] = 0 BY DEF P!NoRow, P!NoConfig, P!Secrets
      <4> QED BY <1>0, <3>2, <4>1, <4>2 DEF P!RowsClean
    <3> QED BY <3>1, <3>2
  <2> HIDE DEF p, req, wrote
  <2>6. P!RowsClean'
    <3>1. ASSUME NEW q \in Ids, q # p
          PROVE  /\ ~row'[q].there => row'[q] = P!NoRow /\ \A s \in P!Secrets : latest'[q][s] = 0
                 /\ row'[q].there => /\ \A x \in row'[q].allowed : x.local # ""
                                     /\ q \notin overlapped' => \A s \in P!Secrets : row'[q].config[s] = latest'[q][s]
                                     /\ P!Stands(row'[q].allowed, typed'[q])
      <4>1. row'[q] = row[q] /\ typed'[q] = typed[q] /\ latest'[q] = latest[q] BY <2>2, <3>1
      <4>2. overlapped' = overlapped BY <1>1
      <4>3. /\ ~row[q].there => row[q] = P!NoRow /\ \A s \in P!Secrets : latest[q][s] = 0
            /\ row[q].there => /\ \A x \in row[q].allowed : x.local # ""
                               /\ q \notin overlapped => \A s \in P!Secrets : row[q].config[s] = latest[q][s]
                               /\ P!Stands(row[q].allowed, typed[q])
        BY DEF P!RowsClean
      <4>4. P!Stands(row'[q].allowed, typed'[q]) = P!Stands(row[q].allowed, typed[q]) BY <4>1
      <4> QED BY <4>1, <4>2, <4>3, <4>4
    <3>2. P!Stands(P!Normalize(req.allowed), editor[e].meant) BY <1>0 DEF P!EditsApart, req
    <3>3. \A x \in P!Normalize(req.allowed) : x.local # "" BY NormalizedStands
    <3>4. row'[p].there /\ row'[p].allowed = P!Normalize(req.allowed) /\ typed'[p] = editor[e].meant
      BY <1>0, <2>2, <2>4 DEF p
    <3>5. p \notin overlapped => \A s \in P!Secrets : row'[p].config[s] = latest'[p][s]
      <4>1. row'[p] = P!Saved(editor[e].read, req) BY <1>0, <2>2
      <4>2. \A s \in P!Secrets : latest'[p][s] = IF req[s] # 0 THEN req[s] ELSE latest[p][s] BY <1>0, <2>2
      <4> QED BY <2>4, <2>5, <4>1, <4>2
    <3>6. overlapped' = overlapped BY <1>1
    <3>7. \A q \in Ids :
            /\ ~row'[q].there => row'[q] = P!NoRow /\ \A s \in P!Secrets : latest'[q][s] = 0
            /\ row'[q].there => /\ \A x \in row'[q].allowed : x.local # ""
                                /\ q \notin overlapped' => \A s \in P!Secrets : row'[q].config[s] = latest'[q][s]
                                /\ P!Stands(row'[q].allowed, typed'[q])
      <4> SUFFICES ASSUME NEW q \in Ids
                   PROVE  /\ ~row'[q].there => row'[q] = P!NoRow /\ \A s \in P!Secrets : latest'[q][s] = 0
                          /\ row'[q].there =>
                               /\ \A x \in row'[q].allowed : x.local # ""
                               /\ q \notin overlapped' => \A s \in P!Secrets : row'[q].config[s] = latest'[q][s]
                               /\ P!Stands(row'[q].allowed, typed'[q])
        OBVIOUS
      <4>1. CASE q = p BY <3>2, <3>3, <3>4, <3>5, <3>6, <4>1
      <4>2. CASE q # p BY <3>1, <4>2
      <4> QED BY <4>1, <4>2
    <3> QED BY <3>7 DEF P!RowsClean, P!Stands, P!Meant
  <2>7. ASSUME NEW d \in Forms, editor'[d].pc = "write"
        PROVE  /\ ~editor'[d].read.there => editor'[d].read = P!NoRow
               /\ editor'[d].id \notin overlapped /\ editor'[d].read.there /\ row'[editor'[d].id].there =>
                    editor'[d].read = row'[editor'[d].id]
    <3>1. d # e /\ editor'[d] = editor[d] BY NoEditIs, <1>2, <2>7
    <3>2. editor[d].id \in Ids /\ (editor[d].id \notin overlapped => editor[d].id # p)
      BY <1>0, <2>7, <3>1 DEF P!EditsApart, P!ProviderShapes, p
    <3> QED BY <2>2, <2>7, <3>1, <3>2 DEF P!EditsApart
  <2>8. P!EditsApart' BY <1>1, <1>3, <1>4, <2>7 DEF P!EditsApart, P!Stands, P!Meant
  <2> QED BY <2>3, <2>6, <2>8
<1> QED BY <1>5, <1>6

LEMMA ProviderDeleteStep ==
    ASSUME P!IdsOK, P!SavedInv, NEW p \in Ids, P!Delete(p)
    PROVE  P!SavedInv'
<1> USE DEF P!SavedInv
<1>1. /\ row' = [row EXCEPT ![p] = P!NoRow]
      /\ latest' = [latest EXCEPT ![p] = [s \in P!Secrets |-> 0]]
      /\ typed' = [typed EXCEPT ![p] = {}]
      /\ UNCHANGED <<editor, overlapped>>
  BY DEF P!Delete
<1>2. /\ \A q \in Ids : row'[q] = IF q = p THEN P!NoRow ELSE row[q]
      /\ \A q \in Ids : typed'[q] = IF q = p THEN {} ELSE typed[q]
      /\ \A q \in Ids : latest'[q] = IF q = p THEN [s \in P!Secrets |-> 0] ELSE latest[q]
  BY <1>1 DEF P!ProviderShapes
<1>3. P!ProviderShapes' BY <1>1, <1>2 DEF P!ProviderShapes
<1>4. P!NoRow.there = FALSE BY DEF P!NoRow
<1>5. ASSUME NEW q \in Ids
      PROVE  /\ ~row'[q].there => row'[q] = P!NoRow /\ \A s \in P!Secrets : latest'[q][s] = 0
             /\ row'[q].there => /\ \A x \in row'[q].allowed : x.local # ""
                                 /\ q \notin overlapped' => \A s \in P!Secrets : row'[q].config[s] = latest'[q][s]
                                 /\ P!Stands(row'[q].allowed, typed'[q])
  <2>1. CASE q = p BY <1>2, <1>4, <2>1
  <2>2. CASE q # p
    <3>1. row'[q] = row[q] /\ typed'[q] = typed[q] /\ latest'[q] = latest[q] BY <1>2, <2>2
    <3>2. overlapped' = overlapped BY <1>1
    <3>3. /\ ~row[q].there => row[q] = P!NoRow /\ \A s \in P!Secrets : latest[q][s] = 0
          /\ row[q].there => /\ \A x \in row[q].allowed : x.local # ""
                             /\ q \notin overlapped => \A s \in P!Secrets : row[q].config[s] = latest[q][s]
                             /\ P!Stands(row[q].allowed, typed[q])
      BY DEF P!RowsClean
    <3> QED BY <3>1, <3>2, <3>3
  <2> QED BY <2>1, <2>2
<1>6. P!RowsClean' BY <1>5 DEF P!RowsClean, P!Stands, P!Meant
<1>7. P!EditsApart' BY <1>1, <1>2, <1>4 DEF P!EditsApart, P!Stands, P!Meant, P!ProviderShapes
<1> QED BY <1>3, <1>6, <1>7

LEMMA SavedStep ==
    ASSUME P!IdsOK, P!SavedInv, [P!Next]_(P!pvars)
    PROVE  P!SavedInv'
<1>1. CASE UNCHANGED <<row, editor, typed, latest, overlapped>>
  BY <1>1 DEF P!SavedInv, P!ProviderShapes, P!RowsClean, P!EditsApart, P!Stands, P!Meant
<1>2. ASSUME NEW e \in Forms, NEW p \in Ids, P!Resubmit(e, p) PROVE P!SavedInv'
  <2>1. P!Stands(P!Normalize(P!toProto(row[p]).allowed), typed[p])
    BY <1>2, ReadBackStands DEF P!Resubmit, P!SavedInv, P!RowsClean
  <2> QED BY <1>2, <2>1, EditLookStep DEF P!Resubmit
<1>3. ASSUME NEW e \in Forms, NEW p \in Ids, NEW r \in Requests, P!Look(e, p, r, r.allowed) PROVE P!SavedInv'
  BY <1>3, NormalizedStands, EditLookStep
<1>4. ASSUME NEW e \in Forms, P!Read(e) \/ P!Write(e) PROVE P!SavedInv'
  BY <1>4, EditReadStep, EditWriteStep
<1>5. ASSUME NEW p \in Ids, P!Delete(p) PROVE P!SavedInv'
  BY <1>5, ProviderDeleteStep
<1> QED
  BY <1>1, <1>2, <1>3, <1>4, <1>5
     DEF P!Next, P!pvars, P!Test, P!Load, P!TestConfig, P!Holding, P!CreateSender, P!Sent, P!Close

LEMMA SavedHolds == ASSUME P!SavedInv PROVE P!ProvidersKept
  BY DEF P!SavedInv, P!RowsClean, P!ProvidersKept, P!Stands, P!Meant

LEMMA NoSendIs == P!NoSend.pc = "idle" /\ P!NoSend.sender = 0 /\ DOMAIN P!NoSend = P!SendFields
  BY DEF P!NoSend, P!SendFields

LEMMA PoolInit == P!Init => P!PoolInv
  BY NoSendIs DEF P!Init, P!PoolInv, P!PoolSound

\* A send moves on: what it holds is its own, and the pool stays.
LEMMA SendMoves ==
    ASSUME P!PoolInv, NEW s \in Sends, NEW x, DOMAIN x = P!SendFields, x.sender \in 0..built,
           \A c \in cache : x.pc = "sending" /\ c.sender = x.sender => c.id = x.id /\ c.config = x.config,
           send' = [send EXCEPT ![s] = x], UNCHANGED <<cache, open, built>>
    PROVE  P!PoolInv'
<1> USE DEF P!PoolInv
<1>1. \A t \in Sends : send'[t] = IF t = s THEN x ELSE send[t] OBVIOUS
<1>2. P!PoolSound' BY <1>1 DEF P!PoolSound
<1> QED BY <1>1, <1>2

LEMMA HoldingStep ==
    ASSUME P!PoolInv, NEW s \in Sends, NEW p, NEW kind, NEW config, P!Holding(s, p, kind, config)
    PROVE  P!PoolInv'
<1> DEFINE x == [P!NoSend EXCEPT !.pc = "loaded", !.id = p, !.kind = kind, !.config = config]
<1>1. x.pc = "loaded" /\ x.sender = 0 /\ DOMAIN x = P!SendFields BY DEF P!NoSend, P!SendFields
<1>2. send' = [send EXCEPT ![s] = x] /\ UNCHANGED <<cache, open, built>> BY DEF P!Holding
<1> HIDE DEF x
<1>3. x.sender \in 0..built BY <1>1 DEF P!PoolInv
<1> QED BY <1>1, <1>2, <1>3, SendMoves

LEMMA HitStep ==
    ASSUME P!PoolInv, NEW s \in Sends, NEW c \in cache, c.id = send[s].id, c.config = send[s].config,
           send' = [send EXCEPT ![s].pc = "sending", ![s].sender = c.sender],
           UNCHANGED <<cache, open, built>>
    PROVE  P!PoolInv'
<1> DEFINE x == [send[s] EXCEPT !.pc = "sending", !.sender = c.sender]
<1>1. x.id = send[s].id /\ x.config = send[s].config /\ x.sender = c.sender /\ DOMAIN x = P!SendFields
  BY DEF P!PoolInv, P!SendFields
<1>2. send' = [send EXCEPT ![s] = x] OBVIOUS
<1> HIDE DEF x
<1>3. x.sender \in 0..built BY <1>1 DEF P!PoolInv
<1>4. \A d \in cache : d.sender = x.sender => d.id = x.id /\ d.config = x.config
  BY <1>1 DEF P!PoolInv
<1>5. DOMAIN x = P!SendFields BY <1>1
<1> QED BY <1>2, <1>3, <1>4, <1>5, SendMoves

LEMMA BuildStep ==
    ASSUME P!PoolInv, NEW s \in Sends, send[s].pc = "loaded",
           {c \in cache : c.id = send[s].id /\ c.config = send[s].config} = {}, P!CreateSender(s)
    PROVE  P!PoolInv'
<1> USE DEF P!PoolInv
<1> DEFINE p == send[s].id
           builds == P!buildSender(send[s].kind, send[s].config)
           fresh == {built'} \ {built}
           new == [id |-> p, kind |-> send[s].kind, config |-> send[s].config, sender |-> built']
           kept == cache \ P!Retired(p)
           x == IF builds THEN [send[s] EXCEPT !.pc = "sending", !.sender = built'] ELSE P!NoSend
<1>1. /\ built' = built + (IF builds THEN 1 ELSE 0)
      /\ cache' = kept \cup {[id |-> p, kind |-> send[s].kind, config |-> send[s].config, sender |-> n] : n \in fresh}
      /\ open' = (open \ {c.sender : c \in P!Retired(p)}) \cup fresh
      /\ send' = [send EXCEPT ![s] = x]
  BY DEF P!CreateSender
<1>2. \/ builds /\ built' = built + 1 /\ fresh = {built'} /\ cache' = kept \cup {new}
      \/ ~builds /\ built' = built /\ fresh = {} /\ cache' = kept
  <2>1. builds \in BOOLEAN BY DEF P!buildSender
  <2>2. CASE builds BY <1>1, <2>2
  <2>3. CASE ~builds BY <1>1, <2>3
  <2> QED BY <2>2, <2>3
<1>3. kept \subseteq cache /\ \A c \in kept : c.id # p BY DEF P!Retired
<1>4. {c.sender : c \in kept} = open \ {c.sender : c \in P!Retired(p)}
  BY DEF P!PoolSound, P!Retired
<1>5. /\ DOMAIN x = P!SendFields
      /\ builds => x.id = p /\ x.config = send[s].config /\ x.sender = built'
      /\ ~builds => x.pc = "idle" /\ x.sender = 0
  <2>1. CASE builds BY <2>1 DEF P!SendFields
  <2>2. CASE ~builds BY <2>2, NoSendIs
  <2> QED BY <2>1, <2>2
<1>6. new.sender = built' /\ new.id = p /\ new.config = send[s].config OBVIOUS
<1> HIDE DEF p, builds, fresh, new, kept, x
<1>7. built' \in Nat /\ (\A c \in cache' : c.sender \in 1..built') /\ \A c \in kept : c.sender \in 1..built
  BY <1>2, <1>3, <1>6
<1>8. \A c, d \in cache' : c.sender = d.sender => c = d
  BY <1>2, <1>3, <1>6, <1>7
<1>9. open' = {c.sender : c \in cache'}
  BY <1>1, <1>2, <1>4, <1>6
<1>10. \A c, d \in cache' : c.id = d.id => c = d
  BY <1>2, <1>3, <1>6 DEF P!PoolSound
<1>11. \A t \in Sends : send'[t] = IF t = s THEN x ELSE send[t] BY <1>1
<1>12. \A t \in Sends : DOMAIN send'[t] = P!SendFields /\ send'[t].sender \in 0..built'
  BY <1>2, <1>5, <1>7, <1>11
<1>13. ASSUME NEW t \in Sends, NEW c \in cache', send'[t].pc = "sending", c.sender = send'[t].sender
       PROVE  c.id = send'[t].id /\ c.config = send'[t].config
  <2>1. CASE t # s
    BY <1>2, <1>3, <1>6, <1>11, <1>13, <2>1 DEF P!PoolSound
  <2>2. CASE t = s
    <3>1. send'[t] = x BY <1>11, <2>2
    <3> QED BY <1>2, <1>5, <1>6, <1>7, <1>13, <3>1
  <2> QED BY <2>1, <2>2
<1> QED BY <1>1, <1>7, <1>8, <1>9, <1>10, <1>12, <1>13 DEF P!PoolSound

LEMMA PoolStep ==
    ASSUME P!PoolInv, [P!Next]_(P!pvars)
    PROVE  P!PoolInv'
<1> USE DEF P!PoolInv
<1>1. CASE UNCHANGED <<cache, open, send, built>>
  BY <1>1 DEF P!PoolSound
<1>2. ASSUME NEW s \in Sends, NEW p \in Ids, P!Test(s, p) PROVE P!PoolInv'
  BY <1>2, HoldingStep DEF P!Test
<1>3. ASSUME NEW s \in Sends, NEW p \in Ids, NEW f \in Froms, P!Load(s, p, f) PROVE P!PoolInv'
  BY <1>3, HoldingStep DEF P!Load
<1>4. ASSUME NEW s \in Sends, NEW d \in Drafts, P!TestConfig(s, d) PROVE P!PoolInv'
  BY <1>4, HoldingStep DEF P!TestConfig
<1>5. ASSUME NEW s \in Sends, P!CreateSender(s) PROVE P!PoolInv'
  <2> DEFINE hit == {c \in cache : c.id = send[s].id /\ c.config = send[s].config}
  <2>1. CASE hit = {}
    BY <1>5, <2>1, BuildStep DEF P!CreateSender
  <2>2. CASE hit # {}
    <3>1. (CHOOSE c \in hit : TRUE) \in hit BY <2>2
    <3>2. PICK c \in hit : /\ send' = [send EXCEPT ![s].pc = "sending", ![s].sender = c.sender]
                           /\ UNCHANGED <<cache, open, built>>
      BY <1>5, <2>2, <3>1 DEF P!CreateSender
    <3> QED BY <3>2, HitStep
  <2> QED BY <2>1, <2>2
<1>6. ASSUME NEW s \in Sends, P!Sent(s) PROVE P!PoolInv'
  <2>1. send' = [send EXCEPT ![s] = P!NoSend] /\ UNCHANGED <<cache, open, built>> BY <1>6 DEF P!Sent
  <2>2. P!NoSend.sender \in 0..built BY NoSendIs
  <2> QED BY <2>1, <2>2, NoSendIs, SendMoves
<1>7. CASE P!Close
  BY <1>7 DEF P!Close, P!PoolSound
<1> QED
  BY <1>1, <1>2, <1>3, <1>4, <1>5, <1>6, <1>7, Zenon
     DEF P!Next, P!pvars, P!Resubmit, P!Look, P!Read, P!Write, P!Delete

\* For any providers, forms and sends: a provider keeps its secrets and the meaning
\* of its sender list through edits that do not overlap, and every pool of
\* connections in use or cached is the one of its configuration and is not
\* forgotten (config_password.go, senders.go, provider_factory.go).
THEOREM ProvidersKeepTheirWord == Spec => []ProvidersSound
<1> DEFINE Inv == part = "providers" => P!SavedInv /\ P!PoolInv
<1>1. Init => Inv
  BY SavedInit, PoolInit, IdsAssumption DEF Init
<1>2. Inv /\ [Next]_vars => Inv'
  <2> SUFFICES ASSUME Inv, [Next]_vars, part' = "providers" PROVE (P!SavedInv /\ P!PoolInv)' OBVIOUS
  <2>1. part = "providers" /\ [P!Next]_(P!pvars)
    BY DEF Next, vars, pooling, P!pvars
  <2> QED BY <2>1, SavedStep, PoolStep, IdsAssumption
<1>3. Inv => ProvidersSound
  BY SavedHolds DEF ProvidersSound, P!PoolInv
<1> QED BY <1>1, <1>2, <1>3, PTL DEF Spec

-----------------------------------------------------------------------------
(* First run.                                                              *)

LEMMA StepsAfter ==
    /\ F!StepAfter("connect") = "migrate" /\ F!StepAfter("migrate") = "tenant" /\ F!StepAfter("tenant") = "user"
    /\ F!StepAfter("user") = "member" /\ F!StepAfter("member") = "save" /\ F!StepAfter("save") = "write"
    /\ F!StepAfter("write") = "sign" /\ F!StepAfter("sign") = "idle"
  BY DEF F!StepAfter

LEMMA NoAttemptIs == F!Idle.pc = "idle" /\ DOMAIN F!Idle = F!AttemptFields
  BY DEF F!Idle, F!AttemptFields

\* Where an attempt is led, and what of it stays.
LEMMA AttemptMoves ==
    ASSUME F!SetupShapes, NEW pc, attempt' = [attempt EXCEPT !.pc = pc]
    PROVE  attempt'.pc = pc /\ attempt'.db = attempt.db /\ attempt'.n = attempt.n
           /\ DOMAIN attempt' = F!AttemptFields
  BY DEF F!SetupShapes, F!AttemptFields

LEMMA SetupInit == F!Init => F!SetupInv
<1> SUFFICES ASSUME F!Init PROVE F!SetupInv OBVIOUS
<1> USE DEF F!Init
<1>0. F!NoFile.state = "absent" BY DEF F!NoFile
<1>1. F!SetupShapes BY <1>0, NoAttemptIs DEF F!SetupShapes, F!DbFields
<1>2. F!StandsOn /\ F!FileFollows BY <1>0, NoAttemptIs DEF F!StandsOn, F!FileFollows, F!SetupSteps
<1>3. F!OnlyItsOwn /\ F!NoOrphans BY DEF F!OnlyItsOwn, F!NoOrphans
<1> QED BY <1>1, <1>2, <1>3 DEF F!SetupInv

LEMMA BeginsStep ==
    ASSUME F!SetupInv, NEW d \in Databases, NEW e \in Emails, F!Setup(d, e) PROVE F!SetupInv'
<1> USE DEF F!SetupInv
<1>1. attempt'.pc = "connect" /\ attempt'.db = d /\ DOMAIN attempt' = F!AttemptFields
  BY DEF F!Setup, F!AttemptFields
<1>2. up /\ attempt.pc = "idle" /\ file.state = "absent" /\ UNCHANGED <<file, conn, dbs, signing, up, excuse>>
  BY DEF F!Setup
<1>3. F!SetupShapes' BY <1>1, <1>2 DEF F!SetupShapes, F!SetupSteps
<1>4. F!StandsOn' /\ F!FileFollows' BY <1>1, <1>2 DEF F!StandsOn, F!FileFollows, F!SetupSteps
<1>5. F!OnlyItsOwn' /\ F!NoOrphans' BY <1>1, <1>2 DEF F!OnlyItsOwn, F!NoOrphans
<1> QED BY <1>3, <1>4, <1>5

LEMMA HangUpStep ==
    ASSUME F!SetupInv, F!HangUp PROVE F!SetupInv'
<1> USE DEF F!SetupInv
<1>1. attempt'.pc = attempt.pc /\ attempt'.db = attempt.db /\ attempt'.n = attempt.n /\ DOMAIN attempt' = F!AttemptFields
  BY DEF F!HangUp, F!SetupShapes, F!AttemptFields
<1>2. UNCHANGED <<file, conn, dbs, signing, up, excuse>> BY DEF F!HangUp
<1>3. F!SetupShapes' BY <1>1, <1>2 DEF F!SetupShapes
<1>4. F!StandsOn' BY <1>1, <1>2 DEF F!StandsOn
<1>5. F!FileFollows' BY <1>1, <1>2 DEF F!FileFollows, F!Administrator
<1>6. F!OnlyItsOwn' /\ F!NoOrphans' BY <1>1, <1>2 DEF F!OnlyItsOwn, F!NoOrphans
<1> QED BY <1>3, <1>4, <1>5, <1>6

LEMMA SetupConnectStep ==
    ASSUME F!SetupInv, F!Connect PROVE F!SetupInv'
<1> USE DEF F!SetupInv
<1>0. attempt.pc = "connect" /\ file.state = "absent" /\ up /\ UNCHANGED <<file, dbs, signing, up, excuse>>
  BY DEF F!Connect, F!At, F!FileFollows
<1>1. CASE F!Onward /\ conn' = attempt.db
  <2>1. attempt'.pc = "migrate" /\ attempt'.db = attempt.db /\ attempt'.n = attempt.n /\ DOMAIN attempt' = F!AttemptFields
    BY <1>0, <1>1, AttemptMoves, StepsAfter DEF F!Onward
  <2>2. F!SetupShapes' BY <1>0, <2>1 DEF F!SetupShapes, F!SetupSteps
  <2>3. F!StandsOn' /\ F!FileFollows' BY <1>0, <1>1, <2>1 DEF F!StandsOn, F!FileFollows, F!SetupSteps
  <2>4. F!OnlyItsOwn' /\ F!NoOrphans' BY <1>0, <2>1 DEF F!OnlyItsOwn, F!NoOrphans
  <2> QED BY <2>2, <2>3, <2>4
<1>2. CASE F!GiveUp /\ UNCHANGED conn
  <2>1. F!SetupShapes' BY <1>0, <1>2, NoAttemptIs DEF F!GiveUp, F!SetupShapes
  <2>2. F!StandsOn' /\ F!FileFollows' BY <1>0, <1>2, NoAttemptIs DEF F!GiveUp, F!StandsOn, F!FileFollows, F!SetupSteps
  <2>3. F!OnlyItsOwn' /\ F!NoOrphans' BY <1>0, <1>2, NoAttemptIs DEF F!GiveUp, F!OnlyItsOwn, F!NoOrphans
  <2> QED BY <2>1, <2>2, <2>3
<1> QED BY <1>1, <1>2 DEF F!Connect

\* An attempt that gives up before it created anything leaves nothing.
LEMMA GiveUpStep ==
    ASSUME F!SetupInv, attempt.pc \in {"migrate", "tenant"}, F!GiveUp,
           UNCHANGED <<file, conn, dbs, signing, up, excuse>>
    PROVE  F!SetupInv'
<1> USE DEF F!SetupInv
<1>0. file.state = "absent" BY DEF F!FileFollows
<1>1. F!SetupShapes' BY NoAttemptIs DEF F!GiveUp, F!SetupShapes
<1>2. F!StandsOn' /\ F!FileFollows' BY <1>0, NoAttemptIs DEF F!GiveUp, F!StandsOn, F!FileFollows, F!SetupSteps
<1>3. F!OnlyItsOwn' /\ F!NoOrphans' BY <1>0, NoAttemptIs DEF F!GiveUp, F!OnlyItsOwn, F!NoOrphans
<1> QED BY <1>1, <1>2, <1>3

LEMMA UndoStep ==
    ASSUME F!SetupInv, attempt.pc \in {"user", "member", "save", "write"}, F!Undo,
           UNCHANGED <<file, conn, dbs, signing, up, excuse>>
    PROVE  F!SetupInv'
<1> USE DEF F!SetupInv
<1>1. attempt'.pc = "undo" /\ attempt'.db = attempt.db /\ attempt'.n = attempt.n /\ DOMAIN attempt' = F!AttemptFields
  BY AttemptMoves DEF F!Undo
<1>2. F!SetupShapes' BY <1>1 DEF F!SetupShapes, F!SetupSteps
<1>3. F!StandsOn' BY <1>1 DEF F!StandsOn, F!SetupSteps
<1>4. F!FileFollows' BY <1>1 DEF F!FileFollows
<1>5. F!OnlyItsOwn' /\ F!NoOrphans' BY <1>1 DEF F!OnlyItsOwn, F!NoOrphans, F!FileFollows
<1> QED BY <1>2, <1>3, <1>4, <1>5

LEMMA SetupMigrateStep ==
    ASSUME F!SetupInv, F!Migrate PROVE F!SetupInv'
<1> USE DEF F!SetupInv
<1>0. attempt.pc = "migrate" /\ file.state = "absent" /\ up /\ UNCHANGED <<file, conn, signing, up, excuse>>
      /\ conn = attempt.db /\ conn \in Databases
  BY DEF F!Migrate, F!At, F!FileFollows, F!StandsOn, F!SetupSteps
<1>1. CASE F!Onward /\ dbs' = [dbs EXCEPT ![conn].schema = TRUE]
  <2>1. attempt'.pc = "tenant" /\ attempt'.db = attempt.db /\ attempt'.n = attempt.n /\ DOMAIN attempt' = F!AttemptFields
    BY <1>0, <1>1, AttemptMoves, StepsAfter DEF F!Onward
  <2>2. /\ DOMAIN dbs' = Databases /\ dbs'[conn].schema
        /\ \A d \in Databases : /\ DOMAIN dbs'[d] = F!DbFields /\ dbs'[d].tenants = dbs[d].tenants
                                /\ dbs'[d].users = dbs[d].users /\ dbs'[d].members = dbs[d].members
    BY <1>0, <1>1 DEF F!SetupShapes, F!DbFields
  <2>3. F!SetupShapes' BY <1>0, <2>1, <2>2 DEF F!SetupShapes, F!SetupSteps
  <2>4. F!StandsOn' /\ F!FileFollows' BY <1>0, <2>1, <2>2 DEF F!StandsOn, F!FileFollows, F!SetupSteps
  <2>5. F!OnlyItsOwn' /\ F!NoOrphans' BY <1>0, <2>1, <2>2 DEF F!OnlyItsOwn, F!NoOrphans
  <2> QED BY <2>3, <2>4, <2>5
<1>2. CASE F!GiveUp /\ UNCHANGED dbs
  BY <1>0, <1>2, GiveUpStep
<1> QED BY <1>1, <1>2 DEF F!Migrate

LEMMA TenantStep ==
    ASSUME F!SetupInv, F!CreateTenant PROVE F!SetupInv'
<1> USE DEF F!SetupInv
<1>0. attempt.pc = "tenant" /\ file.state = "absent" /\ up /\ UNCHANGED <<file, conn, signing, up, excuse>>
      /\ conn = attempt.db /\ conn \in Databases /\ dbs[conn].schema
  BY DEF F!CreateTenant, F!At, F!FileFollows, F!StandsOn, F!SetupSteps
<1>1. CASE F!Onward /\ dbs' = [dbs EXCEPT ![conn].tenants = @ \cup {attempt.n}]
  <2>1. attempt'.pc = "user" /\ attempt'.db = attempt.db /\ attempt'.n = attempt.n /\ DOMAIN attempt' = F!AttemptFields
    BY <1>0, <1>1, AttemptMoves, StepsAfter DEF F!Onward
  <2>2. /\ DOMAIN dbs' = Databases /\ dbs'[conn].schema = dbs[conn].schema
        /\ dbs'[conn].tenants = dbs[conn].tenants \cup {attempt.n}
        /\ \A d \in Databases : /\ DOMAIN dbs'[d] = F!DbFields /\ (d # conn => dbs'[d].tenants = dbs[d].tenants)
                                /\ dbs'[d].users = dbs[d].users /\ dbs'[d].members = dbs[d].members
    BY <1>0, <1>1 DEF F!SetupShapes, F!DbFields
  <2>3. F!SetupShapes' BY <1>0, <2>1, <2>2 DEF F!SetupShapes, F!SetupSteps
  <2>4. F!StandsOn' /\ F!FileFollows' BY <1>0, <2>1, <2>2 DEF F!StandsOn, F!FileFollows, F!SetupSteps
  <2>5. F!OnlyItsOwn' /\ F!NoOrphans' BY <1>0, <2>1, <2>2 DEF F!OnlyItsOwn, F!NoOrphans
  <2> QED BY <2>3, <2>4, <2>5
<1>2. CASE F!GiveUp /\ UNCHANGED dbs
  BY <1>0, <1>2, GiveUpStep
<1> QED BY <1>1, <1>2 DEF F!CreateTenant

LEMMA UserStep ==
    ASSUME F!SetupInv, F!CreateUser PROVE F!SetupInv'
<1> USE DEF F!SetupInv
<1> DEFINE new == [n |-> attempt.n, email |-> attempt.email]
<1>0. attempt.pc = "user" /\ file.state = "absent" /\ up /\ UNCHANGED <<file, conn, signing, up, excuse>>
      /\ conn = attempt.db /\ conn \in Databases /\ dbs[conn].schema /\ attempt.n \in dbs[conn].tenants
  BY DEF F!CreateUser, F!At, F!FileFollows, F!StandsOn, F!SetupSteps
<1>1. CASE F!Onward /\ dbs' = [dbs EXCEPT ![conn].users = @ \cup {new}]
  <2>1. attempt'.pc = "member" /\ attempt'.db = attempt.db /\ attempt'.n = attempt.n /\ DOMAIN attempt' = F!AttemptFields
    BY <1>0, <1>1, AttemptMoves, StepsAfter DEF F!Onward
  <2>2. new.n = attempt.n OBVIOUS
  <2> HIDE DEF new
  <2>3. /\ DOMAIN dbs' = Databases /\ dbs'[conn].schema = dbs[conn].schema
        /\ dbs'[conn].users = dbs[conn].users \cup {new}
        /\ \A d \in Databases : /\ DOMAIN dbs'[d] = F!DbFields /\ (d # conn => dbs'[d].users = dbs[d].users)
                                /\ dbs'[d].tenants = dbs[d].tenants /\ dbs'[d].members = dbs[d].members
    BY <1>0, <1>1 DEF F!SetupShapes, F!DbFields
  <2>4. F!SetupShapes' BY <1>0, <2>1, <2>3 DEF F!SetupShapes, F!SetupSteps
  <2>5. F!StandsOn' /\ F!FileFollows' BY <1>0, <2>1, <2>2, <2>3 DEF F!StandsOn, F!FileFollows, F!SetupSteps
  <2>6. F!OnlyItsOwn' /\ F!NoOrphans' BY <1>0, <2>1, <2>2, <2>3 DEF F!OnlyItsOwn, F!NoOrphans
  <2> QED BY <2>4, <2>5, <2>6
<1>2. CASE F!Undo /\ UNCHANGED dbs
  BY <1>0, <1>2, UndoStep
<1> QED BY <1>1, <1>2 DEF F!CreateUser

LEMMA MemberStep ==
    ASSUME F!SetupInv, F!Assign PROVE F!SetupInv'
<1> USE DEF F!SetupInv
<1>0. attempt.pc = "member" /\ file.state = "absent" /\ up /\ UNCHANGED <<file, conn, signing, up, excuse>>
      /\ conn = attempt.db /\ conn \in Databases /\ dbs[conn].schema /\ attempt.n \in dbs[conn].tenants
      /\ \E u \in dbs[conn].users : u.n = attempt.n
  BY DEF F!Assign, F!At, F!FileFollows, F!StandsOn, F!SetupSteps
<1>1. CASE F!Onward /\ dbs' = [dbs EXCEPT ![conn].members = @ \cup {attempt.n}]
  <2>1. attempt'.pc = "save" /\ attempt'.db = attempt.db /\ attempt'.n = attempt.n /\ DOMAIN attempt' = F!AttemptFields
    BY <1>0, <1>1, AttemptMoves, StepsAfter DEF F!Onward
  <2>2. /\ DOMAIN dbs' = Databases /\ dbs'[conn].schema = dbs[conn].schema
        /\ dbs'[conn].members = dbs[conn].members \cup {attempt.n}
        /\ \A d \in Databases : /\ DOMAIN dbs'[d] = F!DbFields /\ (d # conn => dbs'[d].members = dbs[d].members)
                                /\ dbs'[d].tenants = dbs[d].tenants /\ dbs'[d].users = dbs[d].users
    BY <1>0, <1>1 DEF F!SetupShapes, F!DbFields
  <2>3. F!SetupShapes' BY <1>0, <2>1, <2>2 DEF F!SetupShapes, F!SetupSteps
  <2>4. F!StandsOn' /\ F!FileFollows' BY <1>0, <2>1, <2>2 DEF F!StandsOn, F!FileFollows, F!SetupSteps
  <2>5. F!OnlyItsOwn' /\ F!NoOrphans' BY <1>0, <2>1, <2>2 DEF F!OnlyItsOwn, F!NoOrphans
  <2> QED BY <2>3, <2>4, <2>5
<1>2. CASE F!Undo /\ UNCHANGED dbs
  BY <1>0, <1>2, UndoStep
<1> QED BY <1>1, <1>2 DEF F!Assign

LEMMA SaveStep ==
    ASSUME F!SetupInv, F!Save PROVE F!SetupInv'
<1> USE DEF F!SetupInv
<1>0. attempt.pc = "save" /\ up /\ UNCHANGED <<conn, dbs, signing, up, excuse>>
  BY DEF F!Save, F!At
<1>1. CASE F!Onward /\ file' = F!TornFile
  <2>1. attempt'.pc = "write" /\ attempt'.db = attempt.db /\ attempt'.n = attempt.n /\ DOMAIN attempt' = F!AttemptFields
    BY <1>0, <1>1, AttemptMoves, StepsAfter DEF F!Onward
  <2>2. file'.state = "torn" BY <1>1 DEF F!TornFile, F!NoFile
  <2>3. F!SetupShapes' BY <1>0, <2>1, <2>2 DEF F!SetupShapes, F!SetupSteps
  <2>4. F!StandsOn' /\ F!FileFollows' /\ F!OnlyItsOwn' /\ F!NoOrphans'
    BY <1>0, <2>1, <2>2 DEF F!StandsOn, F!FileFollows, F!OnlyItsOwn, F!NoOrphans, F!SetupSteps
  <2> QED BY <2>3, <2>4
<1>2. CASE F!Undo /\ UNCHANGED file
  BY <1>0, <1>2, UndoStep
<1> QED BY <1>1, <1>2 DEF F!Save

LEMMA WriteFileStep ==
    ASSUME F!SetupInv, F!Write PROVE F!SetupInv'
<1> USE DEF F!SetupInv
<1>0. attempt.pc = "write" /\ up /\ UNCHANGED <<conn, dbs, signing, up, excuse>> /\ conn = attempt.db /\ conn \in Databases
      /\ F!Administrator(conn, attempt.n)
  BY DEF F!Write, F!At, F!StandsOn, F!SetupSteps, F!Administrator
<1>1. CASE F!Onward /\ file' = [state |-> "whole", db |-> conn, key |-> attempt.n]
  <2>1. attempt'.pc = "sign" /\ attempt'.db = attempt.db /\ attempt'.n = attempt.n /\ DOMAIN attempt' = F!AttemptFields
    BY <1>0, <1>1, AttemptMoves, StepsAfter DEF F!Onward
  <2>2. file'.state = "whole" /\ file'.db = conn /\ file'.key = attempt.n BY <1>1
  <2>3. F!Administrator(conn, attempt.n)'  BY <1>0, <2>1 DEF F!Administrator
  <2>4. F!SetupShapes' BY <1>0, <2>1, <2>2 DEF F!SetupShapes, F!SetupSteps
  <2>5. F!StandsOn' BY <1>0, <2>1, <2>2 DEF F!StandsOn, F!SetupSteps
  <2>6. F!FileFollows' BY <1>0, <2>1, <2>2, <2>3 DEF F!FileFollows, F!Administrator
  <2>7. F!OnlyItsOwn' /\ F!NoOrphans' BY <1>0, <2>2 DEF F!OnlyItsOwn, F!NoOrphans
  <2> QED BY <2>4, <2>5, <2>6, <2>7
<1>2. CASE F!Undo /\ UNCHANGED file
  BY <1>0, <1>2, UndoStep
<1> QED BY <1>1, <1>2 DEF F!Write

LEMMA AllThree == 3 > 0 /\ 3 > 1 /\ 3 > 2
  OBVIOUS

LEMMA RemoveStep ==
    ASSUME F!SetupInv, F!RemoveAdmin PROVE F!SetupInv'
<1> USE DEF F!SetupInv
<1>0. attempt.pc = "undo" /\ up /\ UNCHANGED <<file, conn, signing, up>> /\ attempt' = F!Idle
      /\ conn = attempt.db /\ conn \in Databases /\ file.state \in {"absent", "torn"}
  BY DEF F!RemoveAdmin, F!At, F!GiveUp, F!StandsOn, F!FileFollows, F!SetupSteps
<1>1. PICK done \in 0..3 :
         /\ dbs' = [dbs EXCEPT ![conn].members = IF done > 0 THEN @ \ {attempt.n} ELSE @,
                               ![conn].users = IF done > 1 THEN {u \in @ : u.n # attempt.n} ELSE @,
                               ![conn].tenants = IF done > 2 THEN @ \ {attempt.n} ELSE @]
         /\ excuse' = IF done = 3 THEN excuse ELSE excuse \cup {attempt.n}
  BY DEF F!RemoveAdmin
<1>2. /\ DOMAIN dbs' = Databases
      /\ \A d \in Databases : DOMAIN dbs'[d] = F!DbFields /\ (d # conn => dbs'[d] = dbs[d])
  BY <1>0, <1>1 DEF F!SetupShapes, F!DbFields
<1>3. done = 3 => /\ dbs'[conn].members = dbs[conn].members \ {attempt.n}
                  /\ dbs'[conn].users = {u \in dbs[conn].users : u.n # attempt.n}
                  /\ dbs'[conn].tenants = dbs[conn].tenants \ {attempt.n}
  <2> SUFFICES ASSUME done = 3
               PROVE  /\ dbs'[conn].members = dbs[conn].members \ {attempt.n}
                      /\ dbs'[conn].users = {u \in dbs[conn].users : u.n # attempt.n}
                      /\ dbs'[conn].tenants = dbs[conn].tenants \ {attempt.n}
    OBVIOUS
  <2>1. dbs' = [dbs EXCEPT ![conn].members = @ \ {attempt.n}, ![conn].users = {u \in @ : u.n # attempt.n},
                           ![conn].tenants = @ \ {attempt.n}]
    BY <1>1, AllThree, Zenon
  <2> QED BY <1>0, <2>1 DEF F!SetupShapes, F!DbFields
<1>7. /\ dbs'[conn].members \in {dbs[conn].members, dbs[conn].members \ {attempt.n}}
      /\ dbs'[conn].users \in {dbs[conn].users, {u \in dbs[conn].users : u.n # attempt.n}}
      /\ dbs'[conn].tenants \in {dbs[conn].tenants, dbs[conn].tenants \ {attempt.n}}
      /\ dbs'[conn].tenants # dbs[conn].tenants => dbs'[conn].users = {u \in dbs[conn].users : u.n # attempt.n}
      /\ dbs'[conn].users # dbs[conn].users => dbs'[conn].members = dbs[conn].members \ {attempt.n}
  <2>1. /\ dbs'[conn].members = IF done > 0 THEN dbs[conn].members \ {attempt.n} ELSE dbs[conn].members
        /\ dbs'[conn].users = IF done > 1 THEN {u \in dbs[conn].users : u.n # attempt.n} ELSE dbs[conn].users
        /\ dbs'[conn].tenants = IF done > 2 THEN dbs[conn].tenants \ {attempt.n} ELSE dbs[conn].tenants
    BY <1>0, <1>1 DEF F!SetupShapes, F!DbFields
  <2>2. (done > 2 => done > 1) /\ (done > 1 => done > 0) OBVIOUS
  <2> QED BY <2>1, <2>2, Zenon
<1>4. F!SetupShapes' BY <1>0, <1>2, NoAttemptIs DEF F!SetupShapes
<1>5. F!StandsOn' /\ F!FileFollows' BY <1>0, <1>1, NoAttemptIs DEF F!StandsOn, F!FileFollows, F!SetupSteps
<1>6. F!OnlyItsOwn'
  <2> SUFFICES ASSUME file.state = "absent", NEW d \in Databases, NEW n \in dbs'[d].tenants
               PROVE  n \in excuse'
    BY <1>0 DEF F!OnlyItsOwn
  <2>1. n \in dbs[d].tenants /\ (done = 3 /\ d = conn => n # attempt.n) BY <1>2, <1>3, <1>7
  <2>2. n \in excuse \/ (n = attempt.n /\ d = conn) BY <2>1 DEF F!OnlyItsOwn
  <2> QED BY <1>1, <2>1, <2>2
<1>8. F!NoOrphans'
  <2> SUFFICES ASSUME NEW d \in Databases
               PROVE  /\ \A n \in dbs'[d].members : \E u \in dbs'[d].users : u.n = n
                      /\ \A u \in dbs'[d].users : u.n \in dbs'[d].tenants
    BY DEF F!NoOrphans
  <2>1. CASE d # conn BY <1>2, <2>1 DEF F!NoOrphans
  <2>2. CASE d = conn BY <1>7, <2>2 DEF F!NoOrphans
  <2> QED BY <2>1, <2>2
<1> QED BY <1>4, <1>5, <1>6, <1>8

LEMMA SetKeysStep ==
    ASSUME F!SetupInv, F!SetKeys PROVE F!SetupInv'
<1> USE DEF F!SetupInv
<1>0. attempt.pc = "sign" /\ signing' = attempt.n /\ UNCHANGED <<file, conn, dbs, up, excuse>>
  BY DEF F!SetKeys, F!At
<1>1. attempt'.pc = "idle" /\ DOMAIN attempt' = F!AttemptFields
  BY <1>0, AttemptMoves, StepsAfter DEF F!SetKeys, F!Onward
<1>2. F!SetupShapes' BY <1>0, <1>1 DEF F!SetupShapes
<1>3. file.state = "whole" /\ file.db = conn /\ file.key = attempt.n
  BY <1>0 DEF F!FileFollows, F!StandsOn, F!SetupSteps
<1>4. F!StandsOn' /\ F!OnlyItsOwn' /\ F!NoOrphans'
  BY <1>0, <1>1, <1>3 DEF F!StandsOn, F!OnlyItsOwn, F!NoOrphans, F!SetupSteps
<1>5. F!FileFollows' BY <1>0, <1>1, <1>3 DEF F!FileFollows, F!Administrator
<1> QED BY <1>2, <1>4, <1>5

LEMMA SetupCrashStep ==
    ASSUME F!SetupInv, F!Crash PROVE F!SetupInv'
<1> USE DEF F!SetupInv
<1>0. UNCHANGED <<file, dbs>> /\ attempt' = F!Idle /\ up' = FALSE
      /\ excuse \subseteq excuse'
      /\ (attempt.pc \in {"user", "member", "undo", "save", "write"} => attempt.n \in excuse')
  BY DEF F!Crash
<1>1. F!SetupShapes' BY <1>0, NoAttemptIs DEF F!SetupShapes
<1>2. F!StandsOn' BY <1>0, NoAttemptIs DEF F!StandsOn, F!SetupSteps
<1>3. F!FileFollows' BY <1>0, NoAttemptIs DEF F!FileFollows, F!Administrator
<1>4. F!OnlyItsOwn' /\ F!NoOrphans' BY <1>0 DEF F!OnlyItsOwn, F!NoOrphans
<1> QED BY <1>1, <1>2, <1>3, <1>4

LEMMA SetupBootStep ==
    ASSUME F!SetupInv, F!Boot \/ F!BootUnreadable PROVE F!SetupInv'
<1> USE DEF F!SetupInv
<1>0. ~up /\ attempt.pc = "idle" /\ UNCHANGED <<file, attempt, excuse>>
  BY DEF F!Boot, F!BootUnreadable, F!StandsOn
<1>1. CASE F!Boot /\ file.state = "whole"
  <2>1. conn' = file.db /\ signing' = file.key /\ dbs' = [dbs EXCEPT ![file.db].schema = TRUE]
    BY <1>1 DEF F!Boot
  <2>2. file.db \in Databases /\ F!Administrator(file.db, file.key) BY <1>1 DEF F!FileFollows
  <2>3. /\ DOMAIN dbs' = Databases /\ dbs'[file.db].schema
        /\ \A d \in Databases : /\ DOMAIN dbs'[d] = F!DbFields /\ dbs'[d].tenants = dbs[d].tenants
                                /\ dbs'[d].users = dbs[d].users /\ dbs'[d].members = dbs[d].members
    BY <2>1, <2>2 DEF F!SetupShapes, F!DbFields
  <2>4. F!SetupShapes' BY <1>0, <2>3 DEF F!SetupShapes
  <2>5. F!Administrator(file.db, file.key)' BY <1>0, <2>2, <2>3 DEF F!Administrator
  <2>6. F!StandsOn' /\ F!OnlyItsOwn' /\ F!NoOrphans'
    BY <1>0, <1>1, <2>3 DEF F!StandsOn, F!OnlyItsOwn, F!NoOrphans, F!SetupSteps
  <2>7. F!FileFollows' BY <1>0, <1>1, <2>1, <2>2, <2>5 DEF F!FileFollows
  <2> QED BY <2>4, <2>6, <2>7
<1>2. CASE file.state # "whole"
  <2>1. dbs' = dbs BY <1>2 DEF F!Boot, F!BootUnreadable
  <2>2. F!SetupShapes' BY <1>0, <2>1 DEF F!SetupShapes
  <2>3. F!StandsOn' /\ F!OnlyItsOwn' /\ F!NoOrphans'
    BY <1>0, <2>1 DEF F!StandsOn, F!OnlyItsOwn, F!NoOrphans, F!SetupSteps
  <2>4. F!FileFollows' BY <1>0, <1>2, <2>1 DEF F!FileFollows
  <2> QED BY <2>2, <2>3, <2>4
<1> QED BY <1>1, <1>2 DEF F!BootUnreadable, F!SetupShapes

LEMMA SetupStep ==
    ASSUME F!SetupInv, [F!Next]_(F!fvars) PROVE F!SetupInv'
<1>1. CASE UNCHANGED F!fvars
  BY <1>1 DEF F!fvars, F!SetupInv, F!SetupShapes, F!StandsOn, F!FileFollows, F!OnlyItsOwn, F!NoOrphans, F!Administrator
<1> QED
  BY <1>1, BeginsStep, HangUpStep, SetupConnectStep, SetupMigrateStep, TenantStep, UserStep, MemberStep, SaveStep,
     WriteFileStep, RemoveStep, SetKeysStep, SetupCrashStep, SetupBootStep DEF F!Next

LEMMA SetupHolds == ASSUME F!SetupInv PROVE F!SetupSound
<1> USE DEF F!SetupInv
<1>1. file.state = "absent" /\ attempt.pc = "idle" => \A d \in Databases : dbs[d].tenants \subseteq excuse
  BY DEF F!OnlyItsOwn
<1> QED BY <1>1 DEF F!FileFollows, F!SetupSound

-----------------------------------------------------------------------------
(* Readiness.                                                              *)

LEMMA NoCallIs == DOMAIN H!Idle = H!CallerFields /\ H!Idle.pc = "idle" /\ H!Idle.wrong = {}
  BY DEF H!Idle, H!CallerFields

LEMMA NoFlightIs == DOMAIN H!NoFlight = H!FlightFields /\ H!NoFlight.began = 0 /\ ~H!NoFlight.on
  BY DEF H!NoFlight, H!FlightFields

LEMMA ReadyInit == H!KeptAWhile /\ H!Init => H!ReadyInv
<1> SUFFICES ASSUME H!KeptAWhile, H!Init PROVE H!ReadyInv OBVIOUS
<1> USE DEF H!Init
<1>0. H!Long \in Int /\ H!Long <= 0 BY DEF H!Long, H!KeptAWhile
<1>1. H!ReadyShapes BY <1>0, NoCallIs, NoFlightIs DEF H!ReadyShapes
<1>2. H!FlightRecent /\ H!KeptRecent BY NoFlightIs DEF H!FlightRecent, H!KeptRecent
<1>3. H!AskedNow /\ H!AnswersTrue BY NoCallIs DEF H!AskedNow, H!AnswersTrue
<1>4. H!LogFollows /\ H!ChangesLogged BY DEF H!LogFollows, H!ChangesLogged
<1> QED BY <1>1, <1>2, <1>3, <1>4 DEF H!ReadyInv

\* Whatever a dependency does, what was so since t stays so since t.
LEMMA SoStays ==
  ASSUME H!ReadyShapes, now' \in Int, now <= now',
         \/ UNCHANGED <<usable, since>>
         \/ \E e \in Dependencies : usable' = [usable EXCEPT ![e] = ~@] /\ since' = [since EXCEPT ![e] = now]
  PROVE  \A d \in Dependencies : \A t \in Int : \A f : H!SoSince(t, f, d) => H!SoSince(t, f, d)'
<1> SUFFICES ASSUME NEW d \in Dependencies, NEW t \in Int, NEW f, H!SoSince(t, f, d) PROVE H!SoSince(t, f, d)'
  OBVIOUS
<1> DEFINE u == d \notin f
<1>1. H!Last(d, u) >= t BY DEF H!SoSince
<1>2. H!Last(d, u)' = IF usable'[d] = u THEN now' ELSE since'[d] BY DEF H!Last
<1> HIDE DEF u
<1>3. H!Last(d, u)' >= t
  <2>1. CASE UNCHANGED <<usable, since>> BY <1>1, <1>2, <2>1 DEF H!Last, H!ReadyShapes
  <2>2. ASSUME NEW e \in Dependencies, usable' = [usable EXCEPT ![e] = ~@], since' = [since EXCEPT ![e] = now]
        PROVE  H!Last(d, u)' >= t
    <3>1. CASE d = e
      BY <1>1, <1>2, <2>2, <3>1 DEF H!Last, H!ReadyShapes
    <3>2. CASE d # e
      BY <1>1, <1>2, <2>2, <3>2 DEF H!Last, H!ReadyShapes
    <3> QED BY <3>1, <3>2
  <2> QED BY <2>1, <2>2
<1> QED BY <1>3 DEF H!SoSince, u

\* What an answer may say, of the kept evaluation and of one that has ended.
LEMMA RightAnswer ==
  ASSUME H!KeptAWhile, H!ReadyShapes, NEW f, NEW t \in Int, now - t < CacheFor + Timeout,
         \A d \in Dependencies : H!SoSince(t, f, d),
         draining = 0 \/ now - (draining - 1) <= Timeout
  PROVE  H!Wrong(f) = {}
<1>1. ASSUME NEW d \in Dependencies PROVE ~(now - H!Last(d, d \notin f) >= CacheFor + Timeout)
  <2>1. H!Last(d, d \notin f) \in Int BY DEF H!Last, H!ReadyShapes
  <2>2. H!Last(d, d \notin f) >= t BY DEF H!SoSince
  <2> QED BY <2>1, <2>2 DEF H!KeptAWhile, H!ReadyShapes
<1>2. ~(draining # 0 /\ now - (draining - 1) > Timeout) BY DEF H!KeptAWhile, H!ReadyShapes
<1> QED BY <1>1, <1>2 DEF H!Wrong

LEMMA AnsweredIs ==
  ASSUME NEW r, DOMAIN r = H!CallerFields, NEW f
  PROVE  /\ DOMAIN H!Answered(r, f) = H!CallerFields /\ H!Answered(r, f).pc = "answered"
         /\ H!Answered(r, f).wrong = H!Wrong(f)
  BY DEF H!Answered, H!CallerFields

LEMMA ReadyStep ==
  ASSUME H!KeptAWhile, H!ReadyInv, [H!Next]_(H!readyVars) PROVE H!ReadyInv'
<1> USE DEF H!ReadyInv
<1>1. ASSUME NEW c \in Probers, H!ReadyHandler(c) PROVE H!ReadyInv'
  <2>0. UNCHANGED <<now, usable, since, draining, cachedEval, lastFailed, flight, logged>>
    BY <1>1 DEF H!ReadyHandler
  <2>1. DOMAIN caller' = Probers /\ \A b \in Probers : b # c => caller'[b] = caller[b]
    BY <1>1 DEF H!ReadyHandler, H!ReadyShapes
  <2>2. DOMAIN caller'[c] = H!CallerFields /\ caller'[c].wrong = {} /\ (draining = 0 \/ caller'[c].pc = "answered")
    BY <1>1, NoCallIs DEF H!ReadyHandler, H!ReadyShapes, H!CallerFields
  <2>3. H!ReadyShapes' BY <2>0, <2>1, <2>2 DEF H!ReadyShapes
  <2>4. H!AskedNow' /\ H!AnswersTrue' BY <2>0, <2>1, <2>2 DEF H!AskedNow, H!AnswersTrue
  <2>5. H!FlightRecent' /\ H!KeptRecent' BY <2>0 DEF H!FlightRecent, H!KeptRecent, H!SoSince, H!Last
  <2>6. H!LogFollows' /\ H!ChangesLogged' BY <2>0 DEF H!LogFollows, H!ChangesLogged
  <2> QED BY <2>3, <2>4, <2>5, <2>6
<1>2. ASSUME NEW c \in Probers, H!evaluate(c) PROVE H!ReadyInv'
  <2>0. UNCHANGED <<now, usable, since, draining, cachedEval, lastFailed, flight, logged>>
    BY <1>2 DEF H!evaluate
  <2>1. DOMAIN caller' = Probers /\ \A b \in Probers : b # c => caller'[b] = caller[b]
    BY <1>2 DEF H!evaluate, H!ReadyShapes
  <2>2. draining = 0 \/ draining = now + 1 BY <1>2 DEF H!evaluate, H!AskedNow
  <2>3. DOMAIN caller'[c] = H!CallerFields /\ caller'[c].wrong = {}
    <3>1. CASE H!Fresh
      <4>1. caller'[c] = H!Answered(caller[c], cachedEval.failed) BY <1>2, <3>1 DEF H!evaluate, H!ReadyShapes
      <4>2. H!Wrong(cachedEval.failed) = {}
        <5>1. now - (cachedEval.at - Timeout) < CacheFor + Timeout /\ cachedEval.at - Timeout \in Int
          BY <3>1 DEF H!Fresh, H!KeptAWhile, H!ReadyShapes
        <5>2. draining = 0 \/ now - (draining - 1) <= Timeout BY <2>2 DEF H!KeptAWhile, H!ReadyShapes
        <5> QED BY <3>1, <5>1, <5>2, RightAnswer DEF H!KeptRecent, H!Fresh
      <4> QED BY <4>1, <4>2, AnsweredIs DEF H!ReadyShapes
    <3>2. CASE ~H!Fresh
      BY <1>2, <3>2 DEF H!evaluate, H!ReadyShapes, H!CallerFields, H!AnswersTrue
    <3> QED BY <3>1, <3>2
  <2>4. H!ReadyShapes' BY <2>0, <2>1, <2>3 DEF H!ReadyShapes
  <2>5. H!AskedNow' /\ H!AnswersTrue' BY <2>0, <2>1, <2>2, <2>3 DEF H!AskedNow, H!AnswersTrue
  <2>6. H!FlightRecent' /\ H!KeptRecent' BY <2>0 DEF H!FlightRecent, H!KeptRecent, H!SoSince, H!Last
  <2>7. H!LogFollows' /\ H!ChangesLogged' BY <2>0 DEF H!LogFollows, H!ChangesLogged
  <2> QED BY <2>4, <2>5, <2>6, <2>7
<1>3. ASSUME NEW c \in Probers, H!Do(c) PROVE H!ReadyInv'
  <2>0. UNCHANGED <<now, usable, since, draining, cachedEval, lastFailed, logged>>
    BY <1>3 DEF H!Do
  <2>1. /\ DOMAIN caller' = Probers /\ \A b \in Probers : b # c => caller'[b] = caller[b]
        /\ DOMAIN caller'[c] = H!CallerFields /\ caller'[c].wrong = caller[c].wrong /\ caller'[c].pc = "waiting"
    BY <1>3 DEF H!Do, H!ReadyShapes, H!CallerFields
  <2>2. draining = 0 \/ draining = now + 1 BY <1>3 DEF H!Do, H!AskedNow
  <2>3. DOMAIN flight' = H!FlightFields /\ flight'.began \in Int
    BY <1>3 DEF H!Do, H!FlightFields, H!ReadyShapes
  <2>4. H!ReadyShapes' BY <2>0, <2>1, <2>3 DEF H!ReadyShapes
  <2>5. H!AskedNow' /\ H!AnswersTrue' BY <2>0, <2>1 DEF H!AskedNow, H!AnswersTrue
  <2>6. H!KeptRecent' /\ H!LogFollows' /\ H!ChangesLogged' BY <2>0 DEF H!KeptRecent, H!SoSince, H!Last, H!LogFollows, H!ChangesLogged
  <2>7. H!FlightRecent'
    <3>1. CASE flight.on
      <4>1. flight'.began = flight.began /\ flight'.left = flight.left /\ flight'.failed = flight.failed
        BY <1>3, <3>1 DEF H!Do, H!FlightFields, H!ReadyShapes
      <4> QED BY <2>0, <3>1, <4>1 DEF H!FlightRecent, H!SoSince, H!Last
    <3>2. CASE ~flight.on
      <4>1. flight'.began = now /\ flight'.left = Dependencies /\ flight'.failed = {}
        BY <1>3, <3>2 DEF H!Do
      <4> QED BY <2>0, <2>2, <4>1 DEF H!FlightRecent, H!ReadyShapes, H!KeptAWhile
    <3> QED BY <3>1, <3>2
  <2> QED BY <2>4, <2>5, <2>6, <2>7
<1>4. ASSUME NEW c \in Probers, H!HangUp(c) PROVE H!ReadyInv'
  <2>0. UNCHANGED <<now, usable, since, draining, cachedEval, lastFailed, logged>>
    BY <1>4 DEF H!HangUp
  <2>1. DOMAIN caller' = Probers /\ (\A b \in Probers : b # c => caller'[b] = caller[b]) /\ caller'[c] = H!Idle
    BY <1>4 DEF H!HangUp, H!ReadyShapes
  <2>2. DOMAIN flight' = H!FlightFields /\ flight'.began = flight.began /\ flight'.left = flight.left
        /\ flight'.failed = flight.failed /\ flight'.on = flight.on
    BY <1>4 DEF H!HangUp, H!FlightFields, H!ReadyShapes
  <2>3. H!ReadyShapes' BY <2>0, <2>1, <2>2, NoCallIs DEF H!ReadyShapes
  <2>4. H!AskedNow' /\ H!AnswersTrue' BY <2>0, <2>1, NoCallIs DEF H!AskedNow, H!AnswersTrue
  <2>5. H!FlightRecent' /\ H!KeptRecent' BY <2>0, <2>2 DEF H!FlightRecent, H!KeptRecent, H!SoSince, H!Last
  <2>6. H!LogFollows' /\ H!ChangesLogged' BY <2>0 DEF H!LogFollows, H!ChangesLogged
  <2> QED BY <2>3, <2>4, <2>5, <2>6
<1>5. ASSUME NEW c \in Probers, H!Leave(c) PROVE H!ReadyInv'
  <2>0. UNCHANGED <<now, usable, since, draining, cachedEval, lastFailed, flight, logged>>
    BY <1>5 DEF H!Leave
  <2>1. DOMAIN caller' = Probers /\ (\A b \in Probers : b # c => caller'[b] = caller[b]) /\ caller'[c] = H!Idle
    BY <1>5 DEF H!Leave, H!ReadyShapes
  <2>3. H!ReadyShapes' BY <2>0, <2>1, NoCallIs DEF H!ReadyShapes
  <2>4. H!AskedNow' /\ H!AnswersTrue' BY <2>0, <2>1, NoCallIs DEF H!AskedNow, H!AnswersTrue
  <2>5. H!FlightRecent' /\ H!KeptRecent' BY <2>0 DEF H!FlightRecent, H!KeptRecent, H!SoSince, H!Last
  <2>6. H!LogFollows' /\ H!ChangesLogged' BY <2>0 DEF H!LogFollows, H!ChangesLogged
  <2> QED BY <2>3, <2>4, <2>5, <2>6
<1>6. ASSUME NEW d \in Dependencies, H!Probe(d) PROVE H!ReadyInv'
  <2>0. UNCHANGED <<now, usable, since, draining, cachedEval, lastFailed, caller, logged>>
    BY <1>6 DEF H!Probe
  <2>1. DOMAIN flight' = H!FlightFields /\ flight'.began = flight.began /\ flight'.left = flight.left \ {d}
        /\ flight'.failed = (IF usable[d] THEN flight.failed ELSE flight.failed \cup {d})
        /\ flight.on /\ d \in flight.left
    BY <1>6 DEF H!Probe, H!FlightFields, H!ReadyShapes
  <2>3. H!ReadyShapes' BY <2>0, <2>1 DEF H!ReadyShapes
  <2>4. H!AskedNow' /\ H!AnswersTrue' BY <2>0 DEF H!AskedNow, H!AnswersTrue
  <2>5. H!LogFollows' /\ H!ChangesLogged' /\ H!KeptRecent' BY <2>0 DEF H!LogFollows, H!ChangesLogged, H!KeptRecent, H!SoSince, H!Last
  <2>6. (\A e \in Dependencies : e \notin flight.left => H!SoSince(flight.began, flight.failed, e))'
    <3> SUFFICES ASSUME NEW e \in Dependencies, e \notin flight'.left
                 PROVE  H!SoSince(flight.began, flight.failed, e)' OBVIOUS
    <3>1. CASE e = d
      <4>1. (d \notin flight'.failed) = usable[d] BY <2>1 DEF H!FlightRecent, H!ReadyShapes
      <4>2. H!Last(d, d \notin flight.failed)' = now BY <2>0, <4>1 DEF H!Last, H!ReadyShapes
      <4> QED BY <2>1, <3>1, <4>2 DEF H!SoSince, H!FlightRecent
    <3>2. CASE e # d
      <4>1. (e \notin flight'.failed) = (e \notin flight.failed) /\ e \notin flight.left BY <2>1, <3>2
      <4> QED BY <2>0, <2>1, <4>1 DEF H!SoSince, H!FlightRecent, H!Last
    <3> QED BY <3>1, <3>2
  <2>7. H!FlightRecent' BY <2>0, <2>1, <2>6 DEF H!FlightRecent
  <2> QED BY <2>3, <2>4, <2>5, <2>7
<1>7. ASSUME NEW d \in Dependencies, H!Change(d) PROVE H!ReadyInv'
  <2>0. UNCHANGED <<now, draining, cachedEval, lastFailed, flight, caller, logged>>
        /\ usable' = [usable EXCEPT ![d] = ~@] /\ since' = [since EXCEPT ![d] = now]
    BY <1>7 DEF H!Change
  <2>1. H!ReadyShapes' BY <2>0 DEF H!ReadyShapes
  <2>2. \A e \in Dependencies : \A t \in Int : \A f : H!SoSince(t, f, e) => H!SoSince(t, f, e)'
    <3>1. now' \in Int /\ now <= now' BY <2>0 DEF H!ReadyShapes
    <3>2. \E e \in Dependencies : usable' = [usable EXCEPT ![e] = ~@] /\ since' = [since EXCEPT ![e] = now]
      BY <2>0, Zenon
    <3> QED BY <3>1, <3>2, SoStays
  <2>3. H!AskedNow' /\ H!AnswersTrue' BY <2>0 DEF H!AskedNow, H!AnswersTrue
  <2>4. H!LogFollows' /\ H!ChangesLogged' BY <2>0 DEF H!LogFollows, H!ChangesLogged
  <2>5. H!FlightRecent' BY <2>0, <2>2 DEF H!FlightRecent, H!ReadyShapes
  <2>6. H!KeptRecent' BY <2>0, <2>2 DEF H!KeptRecent, H!ReadyShapes, H!KeptAWhile
  <2> QED BY <2>1, <2>3, <2>4, <2>5, <2>6
<1>8. ASSUME H!Finish PROVE H!ReadyInv'
  <2>0. UNCHANGED <<now, usable, since, draining>> /\ flight.on /\ flight.left = {} /\ flight' = H!NoFlight
        /\ cachedEval' = [evaluated |-> TRUE, failed |-> flight.failed, at |-> now]
    BY <1>8 DEF H!Finish
  <2>1. H!Wrong(flight.failed) = {}
    <3>1. now - flight.began < CacheFor + Timeout BY <2>0 DEF H!FlightRecent, H!KeptAWhile, H!ReadyShapes
    <3>2. draining = 0 \/ now - (draining - 1) <= Timeout BY <2>0 DEF H!FlightRecent, H!KeptAWhile, H!ReadyShapes
    <3> QED BY <2>0, <3>1, <3>2, RightAnswer DEF H!FlightRecent, H!ReadyShapes
  <2>2. DOMAIN caller' = Probers
        /\ \A c \in Probers : caller'[c] = caller[c] \/ caller'[c] = H!Answered(caller[c], flight.failed)
    BY <1>8 DEF H!Finish
  <2>3. H!ReadyShapes'
    <3>1. \A c \in Probers : DOMAIN caller'[c] = H!CallerFields BY <2>2, AnsweredIs DEF H!ReadyShapes
    <3> QED BY <2>0, <2>2, <3>1, NoFlightIs DEF H!ReadyShapes
  <2>4. H!AskedNow' /\ H!AnswersTrue'
    BY <2>0, <2>1, <2>2, AnsweredIs DEF H!AskedNow, H!AnswersTrue, H!ReadyShapes
  <2>5. H!FlightRecent' BY <2>0, NoFlightIs DEF H!FlightRecent
  <2>6. H!KeptRecent'
    <3>1. \A d \in Dependencies : H!SoSince(now - Timeout, flight.failed, d)
      <4> SUFFICES ASSUME NEW d \in Dependencies PROVE H!SoSince(now - Timeout, flight.failed, d) OBVIOUS
      <4>1. H!Last(d, d \notin flight.failed) \in Int BY DEF H!Last, H!ReadyShapes
      <4>2. H!Last(d, d \notin flight.failed) >= flight.began BY <2>0 DEF H!SoSince, H!FlightRecent
      <4>3. now <= flight.began + Timeout BY <2>0 DEF H!FlightRecent
      <4> QED BY <4>1, <4>2, <4>3 DEF H!SoSince, H!KeptAWhile, H!ReadyShapes
    <3> QED BY <2>0, <3>1 DEF H!KeptRecent, H!SoSince, H!Last, H!ReadyShapes
  <2>7. H!LogFollows' /\ H!ChangesLogged'
    <3>1. H!logChange(flight.failed) BY <1>8 DEF H!Finish
    <3>2. cachedEval'.evaluated /\ cachedEval'.failed = flight.failed BY <2>0
    <3>3. CASE cachedEval.evaluated /\ flight.failed = lastFailed
      BY <3>1, <3>2, <3>3 DEF H!logChange, H!LogFollows, H!ChangesLogged
    <3>4. CASE flight.failed = {} /\ ~cachedEval.evaluated
      BY <3>1, <3>2, <3>4 DEF H!logChange, H!LogFollows, H!ChangesLogged
    <3>5. CASE ~(cachedEval.evaluated /\ flight.failed = lastFailed) /\ ~(flight.failed = {} /\ ~cachedEval.evaluated)
      <4>1. /\ lastFailed' = flight.failed
            /\ logged' = [failed |-> flight.failed, twice |-> logged.twice \/ flight.failed = logged.failed]
        BY <3>1, <3>5, Zenon DEF H!logChange
      <4>2. flight.failed # logged.failed BY <3>5 DEF H!LogFollows
      <4>3. logged'.failed = flight.failed /\ ~logged'.twice BY <4>1, <4>2 DEF H!ChangesLogged
      <4> QED BY <3>2, <4>1, <4>3 DEF H!LogFollows, H!ChangesLogged
    <3> QED BY <3>3, <3>4, <3>5
  <2> QED BY <2>3, <2>4, <2>5, <2>6, <2>7
<1>9. ASSUME H!Drain PROVE H!ReadyInv'
  <2>0. UNCHANGED <<now, usable, since, cachedEval, lastFailed, flight, caller, logged>> /\ draining' = now + 1
    BY <1>9 DEF H!Drain
  <2>1. H!ReadyShapes' BY <2>0 DEF H!ReadyShapes
  <2>2. H!AskedNow' /\ H!AnswersTrue' BY <2>0 DEF H!AskedNow, H!AnswersTrue
  <2>3. H!KeptRecent' BY <2>0 DEF H!KeptRecent, H!SoSince, H!Last
  <2>4. H!FlightRecent' BY <2>0 DEF H!FlightRecent, H!SoSince, H!Last, H!ReadyShapes
  <2>5. H!LogFollows' /\ H!ChangesLogged' BY <2>0 DEF H!LogFollows, H!ChangesLogged
  <2> QED BY <2>1, <2>2, <2>3, <2>4, <2>5
<1>10. ASSUME H!Tick PROVE H!ReadyInv'
  <2>0. UNCHANGED <<usable, since, draining, cachedEval, lastFailed, flight, caller, logged>> /\ now' = now + 1
        /\ (flight.on => now < flight.began + Timeout) /\ \A c \in Probers : caller[c].pc \in {"idle", "waiting"}
    BY <1>10 DEF H!Tick
  <2>1. H!ReadyShapes' BY <2>0 DEF H!ReadyShapes
  <2>2. \A e \in Dependencies : \A t \in Int : \A f : H!SoSince(t, f, e) => H!SoSince(t, f, e)'
    BY <2>0, SoStays DEF H!ReadyShapes
  <2>3. H!AskedNow' /\ H!AnswersTrue' BY <2>0 DEF H!AskedNow, H!AnswersTrue
  <2>4. H!LogFollows' /\ H!ChangesLogged' BY <2>0 DEF H!LogFollows, H!ChangesLogged
  <2>5. H!FlightRecent' BY <2>0, <2>2 DEF H!FlightRecent, H!ReadyShapes, H!KeptAWhile
  <2>6. H!KeptRecent' BY <2>0, <2>2 DEF H!KeptRecent, H!ReadyShapes, H!KeptAWhile
  <2> QED BY <2>1, <2>3, <2>4, <2>5, <2>6
<1>11. CASE UNCHANGED H!readyVars
  <2> USE DEF H!readyVars
  <2>1. H!ReadyShapes' BY <1>11 DEF H!ReadyShapes
  <2>3. H!AskedNow' /\ H!AnswersTrue' BY <1>11 DEF H!AskedNow, H!AnswersTrue
  <2>4. H!LogFollows' /\ H!ChangesLogged' BY <1>11 DEF H!LogFollows, H!ChangesLogged
  <2>5. H!FlightRecent' /\ H!KeptRecent' BY <1>11 DEF H!FlightRecent, H!KeptRecent, H!SoSince, H!Last
  <2> QED BY <2>1, <2>3, <2>4, <2>5
<1> QED BY <1>1, <1>2, <1>3, <1>4, <1>5, <1>6, <1>7, <1>8, <1>9, <1>10, <1>11 DEF H!Next

-----------------------------------------------------------------------------
(* Setup, start, readiness and stop.                                       *)

\* A build's migrations can be put in order in both instances of Lifecycle.
LEMMA StepsNumbered == L!Numbered /\ D!Numbered
  BY StepsAssumption DEF L!Numbered, D!Numbered

\* Whatever arrives, fails, panics or crashes: a whole configuration file names a
\* database with its own administrator, whose key signs; an open setup holds nothing
\* but what an attempt could not take back out, because its caller had hung up, a
\* delete failed or the process died, and no part of it without the row it refers to;
\* instances that start together apply every migration once, each in the order of its
\* build and before it serves; an instance that stops within its budget closes its pools
\* after the last request is answered and its worker has returned; and what
\* readiness answers and logs was so (setup_usecase.go, migrate.go, shutdown.go,
\* health.go).
THEOREM LivesInOrder == Spec => []LifecycleSound
<1> DEFINE Starts == L!SchemaInv /\ L!StoppedInOrder
           Stops == D!SchemaInv /\ D!StoppedInOrder
           Inv == /\ part = "setup" => F!SetupInv
                  /\ part = "lifecycle" => Starts
                  /\ part = "shutdown" => Stops
                  /\ part = "readiness" => H!ReadyInv
<1>1. Init => Inv
  <2> SUFFICES ASSUME Init PROVE Inv OBVIOUS
  <2>1. part = "setup" => F!SetupInv BY SetupInit DEF Init
  <2>2. part = "lifecycle" => Starts BY L!LifeInit, StepsNumbered DEF Init
  <2>3. part = "shutdown" => Stops BY D!LifeInit, StepsNumbered DEF Init
  <2>4. part = "readiness" => H!ReadyInv BY ReadyInit, ReadyAssumption DEF Init
  <2> QED BY <2>1, <2>2, <2>3, <2>4
<1>2. Inv /\ [Next]_vars => Inv'
  <2> SUFFICES ASSUME Inv, [Next]_vars PROVE Inv' OBVIOUS
  <2>1. ASSUME part' = "setup" PROVE F!SetupInv'
    <3>1. part = "setup" /\ [F!Next]_(F!fvars) BY <2>1 DEF Next, vars, installing, F!fvars
    <3> QED BY <3>1, SetupStep
  <2>2. ASSUME part' = "lifecycle" PROVE Starts'
    <3>1. part = "lifecycle" /\ [L!Next]_(L!yvars) BY <2>2 DEF Next, vars, living, L!yvars
    <3> QED BY <3>1, L!LifeStep, StepsNumbered
  <2>3. ASSUME part' = "shutdown" PROVE Stops'
    <3>1. part = "shutdown" /\ [D!Next]_(D!yvars) BY <2>3 DEF Next, vars, living, D!yvars
    <3> QED BY <3>1, D!LifeStep, StepsNumbered
  <2>4. ASSUME part' = "readiness" PROVE H!ReadyInv'
    <3>1. part = "readiness" /\ [H!Next]_(H!readyVars) BY <2>4 DEF Next, vars, probing, H!readyVars
    <3> QED BY <3>1, ReadyStep, ReadyAssumption
  <2> QED BY <2>1, <2>2, <2>3, <2>4
<1>3. Inv => LifecycleSound
  <2> SUFFICES ASSUME Inv PROVE LifecycleSound OBVIOUS
  <2>1. Starts => L!SchemaReady /\ L!NothingClosedInUse BY L!LifeHolds
  <2>2. Stops => D!SchemaReady /\ D!NothingClosedInUse BY D!LifeHolds
  <2>3. F!SetupInv => F!SetupSound BY SetupHolds
  <2>4. H!ReadyInv => H!AnswersTrue /\ H!ChangesLogged BY DEF H!ReadyInv
  <2> QED BY <2>1, <2>2, <2>3, <2>4 DEF LifecycleSound
<1> QED BY <1>1, <1>2, <1>3, PTL DEF Spec
=============================================================================
