------------------------------ MODULE Accounts ------------------------------
(***************************************************************************)
(* One account as three administrators and its owner change it at once:    *)
(* auth/services/user_service.go and auth_service.go over                  *)
(* auth/usecases/user_usecase.go, membership_usecase.go, auth_usecase.go   *)
(* and pending_two_factor_store.go.                                        *)
(*                                                                         *)
(* Every handler reads the account, judges the caller against what it      *)
(* read, and writes later; nothing holds the row in between.  Roles are    *)
(* numbered as in policy.go's roleLevel: 1 viewer .. 3 administrator,      *)
(* 4 super admin, and 0 is no membership.  The account's home is one       *)
(* tenant; `guest' is another it may be a member of.                       *)
(***************************************************************************)
EXTENDS Naturals, FiniteSets

CONSTANTS Secrets,       \* bound: the second-factor secrets generated
          Roles          \* roles a form may name, the super admin's among them

VARIABLES account,       \* role, memberships, second factor; gone when deleted
          enrolling,     \* pendingTwoFactor: a secret waiting for its code
          request,       \* what each caller's handler has read and will do
          confirmed,     \* history: secrets some code was validated against
          raisedBy,      \* history: who last wrote the account-wide role
          outside        \* history: an administrator changed what is not theirs

uvars == <<account, enrolling, request, confirmed, raisedBy, outside>>

SuperAdmin == 4
Admin == 3
TenantRoles == Roles \ {SuperAdmin}
NoSecret == 0

\* The callers: administrators of the two tenants, a super admin, the owner.
Callers == {"home", "guest", "super", "owner"}
RoleOf(c) == IF c = "super" THEN SuperAdmin ELSE Admin
TenantOf(c) == IF c = "guest" THEN "guest" ELSE "home"

Idle == [op |-> "idle", role |-> 0, saw |-> 0, on |-> FALSE, secret |-> NoSecret]

Init ==
    /\ account \in [alive : {TRUE}, role : {1, SuperAdmin}, home : {1},
                    guest : {0, 1}, on : {FALSE}, secret : {NoSecret}]
    /\ enrolling = NoSecret
    /\ request = [c \in Callers |-> Idle]
    /\ confirmed = {}
    /\ raisedBy = IF account.role = SuperAdmin THEN "super" ELSE "home"
    /\ outside = FALSE

Generated == confirmed \cup {enrolling, account.secret}
              \cup {request[c].secret : c \in Callers}

-----------------------------------------------------------------------------
(* What a handler reads and refuses *)

\* GetInTenant: found at home, or through a membership, as which it then has
\* that membership's role unless the account is a super admin's.
InTenant(c) == account.alive /\ (TenantOf(c) = "home" \/ account.guest # 0)

\* resolveTargetInTenant: a super admin is out of an administrator's reach.
guardTargetInTenant(c) ==
    InTenant(c) /\ (account.role = SuperAdmin => RoleOf(c) = SuperAdmin)

guardTwoFactorInTenant(c) == guardTargetInTenant(c)

\* guardTwoFactorTarget: and the second factor belongs to the home tenant.
guardTwoFactorTarget(c) ==
    guardTargetInTenant(c) /\ (TenantOf(c) = "home" \/ RoleOf(c) = SuperAdmin)

Start(c, req) ==
    /\ request[c] = Idle
    /\ request' = [request EXCEPT ![c] = [req EXCEPT !.saw = account.role]]
    /\ UNCHANGED <<account, enrolling, confirmed, raisedBy, outside>>

\* UpdateUserRole up to its write: only a super admin makes one, and a super
\* admin is not demoted from a guest tenant.
BeginUpdateRole(c, role) ==
    /\ c # "owner"
    /\ role = SuperAdmin => RoleOf(c) = SuperAdmin
    /\ guardTargetInTenant(c)
    /\ role = SuperAdmin \/ account.role # SuperAdmin \/ TenantOf(c) = "home"
    /\ Start(c, [Idle EXCEPT !.op = "role", !.role = role])

\* UpdateUserTwoFactor reads the secret it will write back.
BeginTwoFactor(c, on) ==
    /\ c # "owner"
    /\ guardTwoFactorTarget(c)
    /\ Start(c, [Idle EXCEPT !.op = "twofactor", !.on = on, !.secret = account.secret])

\* DisableTwoFactor, by the owner or by an administrator.
BeginDisable(c) ==
    /\ account.alive
    /\ c = "owner" \/ guardTwoFactorTarget(c)
    /\ Start(c, [Idle EXCEPT !.op = "disable"])

BeginDelete(c) ==
    /\ c # "owner" /\ guardTargetInTenant(c) /\ TenantOf(c) = "home"
    /\ Start(c, [Idle EXCEPT !.op = "delete"])

\* AssignUserToTenant and RemoveUserFromTenant (role 0) are a super admin's, and
\* nobody is removed from home: ErrHomeTenantRemoval.
BeginAssign(tenant, role) ==
    /\ account.alive
    /\ tenant = "home" => role # 0
    /\ Start("super", [Idle EXCEPT !.op = IF tenant = "home" THEN "assignhome" ELSE "assign",
                                   !.role = role])

\* SetupTwoFactor: a fresh secret waits for its code, replacing another.
SetupTwoFactor ==
    /\ account.alive
    /\ \E s \in Secrets \ Generated : enrolling' = s
    /\ UNCHANGED <<account, request, confirmed, raisedBy, outside>>

\* EnableTwoFactor and VerifyTwoFactorLogin: the waiting secret is read and
\* the code validated against it, one budget of tries per account (SignIn).
\* An account that has a secret is checked against that one.
BeginEnable ==
    /\ account.alive /\ enrolling # NoSecret
    /\ request["owner"] = Idle
    /\ request' = [request EXCEPT !["owner"] = [Idle EXCEPT !.op = "enable", !.secret = enrolling]]
    /\ confirmed' = confirmed \cup {enrolling}
    /\ UNCHANGED <<account, enrolling, raisedBy, outside>>

-----------------------------------------------------------------------------
(* What it writes *)

Done(c) == request' = [request EXCEPT ![c] = Idle]

\* An administrator of a visited tenant changes only the membership there, and no
\* administrator changes an account that was a super admin's when it was read.
Beyond(c) ==
    \/ c = "guest" /\ account' # [account EXCEPT !.guest = account'.guest]
    \/ c \in {"home", "guest"} /\ request[c].saw = SuperAdmin /\ account' # account
Touched(c) == outside' = (outside \/ Beyond(c))

\* Where the role goes depends on where the caller acts: super admin is
\* account-wide, the home tenant writes the account and its membership, and
\* any other only its own membership.  The membership is written last, and that
\* may fail.
WriteRole(c, whole) ==
    LET r == request[c].role
        kept(old) == IF old = 0 \/ ~whole THEN old ELSE r
    IN  /\ request[c].op = "role"
        /\ account' = IF ~account.alive THEN account
                      ELSE IF r = SuperAdmin THEN [account EXCEPT !.role = r]
                      ELSE IF TenantOf(c) = "home"
                      THEN [account EXCEPT !.role = r, !.home = kept(account.home)]
                      ELSE [account EXCEPT !.guest = kept(account.guest)]
        /\ raisedBy' = IF account'.role # account.role THEN c ELSE raisedBy
        /\ Done(c) /\ Touched(c)
        /\ UNCHANGED <<enrolling, confirmed>>

WriteTwoFactor(c) ==
    /\ request[c].op = "twofactor"
    /\ account' = IF account.alive
                  THEN [account EXCEPT !.on = request[c].on, !.secret = request[c].secret]
                  ELSE account
    /\ Done(c) /\ Touched(c)
    /\ UNCHANGED <<enrolling, confirmed, raisedBy>>

\* The waiting secret goes first, then the stored one.
DisableTwoFactor(c) ==
    /\ request[c].op = "disable"
    /\ enrolling' = NoSecret
    /\ account' = IF account.alive THEN [account EXCEPT !.on = FALSE, !.secret = NoSecret] ELSE account
    /\ Done(c) /\ Touched(c)
    /\ UNCHANGED <<confirmed, raisedBy>>

EnableTwoFactorAsWaiting ==
    /\ request["owner"].op = "enable"
    /\ account' = IF account.alive THEN [account EXCEPT !.on = TRUE, !.secret = enrolling] ELSE account
    /\ enrolling' = NoSecret
    /\ Done("owner")
    /\ UNCHANGED <<confirmed, raisedBy, outside>>

\* The validated secret is stored and whatever waits is dropped.
EnableTwoFactor ==
    /\ request["owner"].op = "enable"
    /\ account' = IF account.alive
                  THEN [account EXCEPT !.on = TRUE, !.secret = request["owner"].secret]
                  ELSE account
    /\ enrolling' = NoSecret
    /\ Done("owner")
    /\ UNCHANGED <<confirmed, raisedBy, outside>>

\* RemoveAllForUser, then the account, unless that fails.
DeleteUser(c, whole) ==
    /\ request[c].op = "delete"
    /\ account' = [account EXCEPT !.alive = @ /\ ~whole, !.guest = 0, !.home = 0]
    /\ Done(c) /\ Touched(c)
    /\ UNCHANGED <<enrolling, confirmed, raisedBy>>

\* Assigning the guest tenant writes its membership, or removes it.  Assigning the
\* home tenant writes the membership and then, unless the account read was a super
\* admin's, the account's role, which may fail.
AssignUserToTenant(whole) ==
    LET req == request["super"]
    IN  /\ req.op \in {"assign", "assignhome"}
        /\ account' = IF ~account.alive THEN account
                      ELSE IF req.op = "assign" THEN [account EXCEPT !.guest = req.role]
                      ELSE IF req.saw = SuperAdmin \/ ~whole THEN [account EXCEPT !.home = req.role]
                      ELSE [account EXCEPT !.home = req.role, !.role = req.role]
        /\ raisedBy' = IF account'.role # account.role THEN "super" ELSE raisedBy
        /\ Done("super")
        /\ UNCHANGED <<enrolling, confirmed, outside>>

Next ==
    \/ \E c \in Callers :
         \/ \E r \in Roles : BeginUpdateRole(c, r)
         \/ \E on \in BOOLEAN : BeginTwoFactor(c, on)
         \/ BeginDisable(c) \/ BeginDelete(c)
         \/ WriteTwoFactor(c) \/ DisableTwoFactor(c)
         \/ \E whole \in BOOLEAN : WriteRole(c, whole) \/ DeleteUser(c, whole)
    \/ \E tenant \in {"home", "guest"}, r \in {0} \cup TenantRoles : BeginAssign(tenant, r)
    \/ \E whole \in BOOLEAN : AssignUserToTenant(whole)
    \/ SetupTwoFactor \/ BeginEnable \/ EnableTwoFactor

Spec == Init /\ [][Next]_uvars

-----------------------------------------------------------------------------
(* Properties *)

\* However the handlers interleave: a super admin was made by one; the secret
\* an account signs in with is one whose code its owner has shown; and an
\* administrator changes nothing of an account it was shown as a super admin's,
\* nor, from a tenant the account merely visits, anything but what it may do
\* there (user_service.go:56-98, user_usecase.go:141-184, auth_usecase.go:437-460).
AccountSound ==
    /\ account.role = SuperAdmin => raisedBy = "super"
    /\ account.secret # NoSecret => account.secret \in confirmed
    /\ ~outside

\* A super admin is only demoted by a super admin (user_service.go:56-62).  It
\* fails: the guard judges the account as it was read, and one promoted before the
\* administrator's write is demoted by it.  AccountSound says what the guard does give.
OnlySuperAdminsDemote ==
    [][account.role = SuperAdmin /\ account'.role # SuperAdmin => raisedBy' = "super"]_uvars
-----------------------------------------------------------------------------
(* What the proofs of these properties rest on.                            *)

\* What an account, and a handler between its read and its write, may hold.
AccountType == [alive : BOOLEAN, role : {1, SuperAdmin} \cup Roles, home : {0, 1} \cup Roles,
                guest : {0, 1} \cup Roles, on : BOOLEAN, secret : {NoSecret} \cup Secrets]

RequestType == [op : {"idle", "role", "twofactor", "disable", "delete", "assign", "assignhome",
                      "enable"},
                role : {0} \cup Roles, saw : {0, 1, SuperAdmin} \cup Roles, on : BOOLEAN,
                secret : {NoSecret} \cup Secrets]

AccountTypes ==
    /\ account \in AccountType
    /\ enrolling \in {NoSecret} \cup Secrets
    /\ request \in [Callers -> RequestType]

\* A handler that has judged its caller writes for nobody else: what it holds is
\* what its guards let through, however the account has changed since.
Judged(c, req) ==
    /\ req.op = "role" => req.role \in Roles
    /\ req.op = "role" /\ req.role = SuperAdmin => c = "super"
    /\ req.op \in {"twofactor", "disable", "delete", "enable"} => c # "guest"
    /\ req.op = "assignhome" => req.role \in TenantRoles
    /\ c \in {"home", "guest"} => req.saw # SuperAdmin
    /\ req.op \in {"twofactor", "enable"} /\ req.secret # NoSecret => req.secret \in confirmed

AccountInv == AccountTypes /\ AccountSound /\ \A c \in Callers : Judged(c, request[c])
=============================================================================
