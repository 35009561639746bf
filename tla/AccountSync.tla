---------------------------- MODULE AccountSync ----------------------------
(***************************************************************************)
(* Account provisioning through the SSO bridges.                           *)
(*                                                                         *)
(* controllers/console/workspace/sso.py: the tenant SSO login, and the     *)
(* single and batch user sync, which upsert an account by email and a      *)
(* membership in a tenant found or created by name.                        *)
(* controllers/console/auth/magic_link.py, ExternalSSOLoginApi: the        *)
(* external SSO login, which finds or creates the account by employee      *)
(* number and gives it a default tenant; MagicLinkLoginApi and           *)
(* UserSyncApi: the magic-link login by account id, and the user sync,    *)
(* which upserts an account by external user id.                          *)
(* controllers/console/setup.py, SetupApi: the first-run registration.    *)
(* controllers/console/workspace/account.py, AccountCreateApi and         *)
(* ChangeEmailResetApi: an administrator creates an account, and a user   *)
(* changes their email, both after check_email_unique.                    *)
(*                                                                         *)
(* accounts.email and tenants.name have no unique constraint;              *)
(* accounts.employee_number and (tenant_id, account_id) of                 *)
(* tenant_account_joins have one.                                          *)
(***************************************************************************)
EXTENDS Integers, Sequences, FiniteSets

CONSTANTS
    AccountIds,         \* ids the accounts table can hand out
    TenantIds,          \* ids the tenants table can hand out
    Emails,             \* email addresses, already stripped and lowercased
    AdminEmails,        \* emails typed into setup, account creation, email change
    EmpNos,             \* employee numbers of the external SSO
    UserIds,            \* external user ids (accounts.user_id)
    TenantNames,        \* tenant_name arguments of the sync
    RoleArgs,           \* role arguments of the sync, valid or not
    CreateRoles,        \* roles account creation gives the new membership
    DefaultTenantName,  \* DEFAULT_TENANT_PROJECT_SPACE
    WorkspaceName,      \* the name RegisterService gives the first tenant
    MaxBatch,           \* most items in one batch sync request
    Threads,            \* concurrent requests
    None

\* TenantAccountRole and the two AccountStatus values the sync is given.
TenantAccountRoles == {"owner", "admin", "editor", "normal", "dataset_operator"}
Statuses == {"active", "banned"}

ASSUME MaxBatch \in Nat \ {0}
ASSUME CreateRoles \subseteq TenantAccountRoles
ASSUME DefaultTenantName \notin TenantNames
ASSUME WorkspaceName \notin TenantNames \cup {DefaultTenantName}

AllEmails == Emails \cup AdminEmails

VARIABLES
    accounts, email, empNo, userId, status,   \* accounts rows
    tenants, tname,                   \* tenants rows
    joinRole,                         \* tenant_account_joins.role, None for no row
    setupDone,                        \* a dify_setups row exists
    lastStatus,   \* history: the status the last committed sync gave an email
    sessions,     \* history: the accounts a login succeeded for (console sessions)
    th            \* each request's locals between its reads and its commit

dbVars == <<accounts, email, empNo, userId, status, tenants, tname, joinRole, setupDone>>
vars == <<dbVars, lastStatus, sessions, th>>

Idle == [pc |-> "idle"]

\* Mutant: the role argument is not checked.
IsValidRoleAny(r) == TRUE

\* TenantAccountRole.is_valid_role (models/account.py).
IsValidRole(r) == r \in TenantAccountRoles

AccountsByEmail(e) == {a \in accounts : email[a] = e}
TenantsNamed(n) == {t \in tenants : tname[t] = n}
HasJoin(a) == \E t \in tenants : joinRole[t, a] # None

\* The rows `.first()` can return: any match (no ORDER BY), or None.
FirstOf(S) == IF S = {} THEN {None} ELSE S

\* The bound on ids: a request that will add an account or a tenant holds
\* one of the free ids from its reads to its commit, so that a commit
\* always finds a fresh id.  A request starts only if one is left for it.
CreatesAccount(s) == s.pc \in {"sync", "external", "userSync", "create", "setup"} /\ s.acct = None
CreatesTenant(s) == \/ s.pc = "sync" /\ s.tname # None /\ s.tenant = None
                    \/ s.pc = "setup"
ReservedAccounts == Cardinality({p \in Threads : CreatesAccount(th[p])})
ReservedTenants == Cardinality({p \in Threads : CreatesTenant(th[p])})
AccountRoom(acc) == Cardinality(AccountIds \ acc) > ReservedAccounts
TenantRoom(ten) == Cardinality(TenantIds \ ten) > ReservedTenants

Init ==
    /\ accounts = {}
    /\ email = [a \in AccountIds |-> None]
    /\ empNo = [a \in AccountIds |-> None]
    /\ userId = [a \in AccountIds |-> None]
    /\ status = [a \in AccountIds |-> None]
    /\ tenants = {}
    /\ tname = [t \in TenantIds |-> None]
    /\ joinRole = [j \in TenantIds \X AccountIds |-> None]
    /\ setupDone = FALSE
    /\ lastStatus = [e \in AllEmails |-> None]
    /\ sessions = {}
    /\ th = [p \in Threads |-> Idle]

-----------------------------------------------------------------------------
(* SSOSyncUserApi.post (sso.py lines 163-283), one transaction.  The      *)
(* reads: the account by email; with a tenant name, the role must be      *)
(* valid (else "invalid role", nothing written) and the tenant is looked  *)
(* up with one_or_none(), which raises MultipleResultsFound on a name two *)
(* tenants share; then the membership.  The commit inserts what was not   *)
(* found.  A new membership gets the column default role "editor", not    *)
(* the role argument; an existing one gets the role.  The current flag   *)
(* (set_current) is not modelled.                                        *)
SyncUserCheck(p, e, n, r, s) ==
    /\ th[p] = Idle
    /\ n # None => IsValidRole(r) /\ Cardinality(TenantsNamed(n)) <= 1
    /\ \E a \in FirstOf(AccountsByEmail(e)), t \in FirstOf(TenantsNamed(n)) :
          LET tn == IF n = None THEN None ELSE t
          IN  th' = [th EXCEPT ![p] =
                       [pc |-> "sync", email |-> e, tname |-> n, role |-> r,
                        status |-> s, acct |-> a, tenant |-> tn,
                        hadJoin |-> a # None /\ tn # None /\ joinRole[tn, a] # None]]
    /\ CreatesAccount(th'[p]) => AccountRoom(accounts)
    /\ CreatesTenant(th'[p]) => TenantRoom(tenants)
    /\ UNCHANGED <<dbVars, lastStatus, sessions>>

\* A membership row a concurrent request committed after this one found
\* none: the INSERT violates unique_tenant_account_join and the whole
\* transaction rolls back.
JoinConflict(s, t, a) == ~s.hadJoin /\ t # None /\ a \in accounts /\ joinRole[t, a] # None

SyncUserCommit(p) ==
    LET s == th[p] IN
    /\ s.pc = "sync"
    /\ \E a \in IF s.acct = None THEN AccountIds \ accounts ELSE {s.acct},
          t \in IF s.tname = None THEN {None}
                ELSE IF s.tenant = None THEN TenantIds \ tenants ELSE {s.tenant} :
          IF JoinConflict(s, t, a)
          THEN UNCHANGED <<dbVars, lastStatus>>
          ELSE /\ accounts' = accounts \cup {a}
               /\ email' = [email EXCEPT ![a] = s.email]
               /\ status' = [status EXCEPT ![a] = s.status]
               /\ tenants' = IF t = None THEN tenants ELSE tenants \cup {t}
               /\ tname' = IF t = None THEN tname ELSE [tname EXCEPT ![t] = s.tname]
               /\ joinRole' = IF t = None THEN joinRole
                              ELSE [joinRole EXCEPT ![t, a] =
                                      IF s.hadJoin THEN s.role ELSE "editor"]
               /\ lastStatus' = [lastStatus EXCEPT ![s.email] = s.status]
               /\ UNCHANGED <<empNo, userId, setupDone>>
    /\ th' = [th EXCEPT ![p] = Idle]
    /\ UNCHANGED sessions

(* SSOLoginApi.post (sso.py lines 18-91): the token is verified (not      *)
(* modelled), the account `.first()` finds by email logs in; no account,  *)
(* a banned one, or one without any membership is refused with 401 and    *)
(* nothing changes (last_active_at is not modelled).                      *)
SSOLogin(e) ==
    /\ \E a \in FirstOf(AccountsByEmail(e)) :
          IF a # None /\ status[a] # "banned" /\ HasJoin(a)
          THEN sessions' = sessions \cup {a}
          ELSE UNCHANGED sessions
    /\ UNCHANGED <<dbVars, lastStatus, th>>
-----------------------------------------------------------------------------
(* SSOBatchSyncUsersApi.post (sso.py lines 291-394): one transaction for  *)
(* the whole list, committed once.  Each item's queries autoflush the     *)
(* earlier items' rows, so an item sees them.  An item's exception is     *)
(* caught and reported as its failure, but what the item already added to *)
(* the session stays and is committed:                                    *)
(*  - an invalid role is refused after the account upsert;                *)
(*  - the membership query selects (Tenant, TenantAccountJoin) without    *)
(*    joining them: when the membership exists it yields one row per     *)
(*    tenant, so one_or_none() raises MultipleResultsFound, or returns a  *)
(*    Row whose attributes cannot be set.  An existing membership is      *)
(*    never updated and the item fails after its account and tenant      *)
(*    writes.                                                             *)
(* The batch is one step: its reads and its commit are not interleaved    *)
(* with other requests.                                                   *)
DB == [accounts |-> accounts, email |-> email, status |-> status,
       tenants |-> tenants, tname |-> tname, joinRole |-> joinRole,
       last |-> lastStatus]

BatchItems == [email : Emails, tname : TenantNames \cup {None}, role : RoleArgs,
               status : Statuses]

\* Lines 321-346: update the account `.first()` found, or add a new one.
BatchAccount(d, it, a) ==
    [d EXCEPT !.accounts = @ \cup {a}, !.email[a] = it.email,
              !.status[a] = it.status, !.last[it.email] = it.status]

\* Lines 348-380, after the account upsert.
BatchMembership(d, it, a) ==
    LET named == {t \in d.tenants : d.tname[t] = it.tname}
        t == IF named = {} THEN CHOOSE x \in TenantIds \ d.tenants : TRUE
             ELSE CHOOSE x \in named : TRUE
        d2 == [d EXCEPT !.tenants = @ \cup {t}, !.tname[t] = it.tname]
    IN  IF it.tname = None \/ ~IsValidRole(it.role) \/ Cardinality(named) > 1 THEN d
        ELSE IF d2.joinRole[t, a] # None THEN d2
        ELSE [d2 EXCEPT !.joinRole[t, a] = it.role]

\* The states one item can leave, one per account `.first()` may return.
ItemOutcomes(d, it) ==
    LET found == {a \in d.accounts : d.email[a] = it.email}
        cands == IF found # {} THEN found
                 ELSE {CHOOSE x \in AccountIds \ d.accounts : TRUE}
        needsTenant == /\ it.tname # None /\ IsValidRole(it.role)
                       /\ \A t \in d.tenants : d.tname[t] # it.tname
    IN  IF \/ found = {} /\ ~AccountRoom(d.accounts)
           \/ needsTenant /\ ~TenantRoom(d.tenants)
        THEN {}
        ELSE {BatchMembership(BatchAccount(d, it, a), it, a) : a \in cands}

RECURSIVE BatchOutcomes(_, _)
BatchOutcomes(d, items) ==
    IF items = <<>> THEN {d}
    ELSE UNION {BatchOutcomes(d2, Tail(items)) : d2 \in ItemOutcomes(d, Head(items))}

BatchSyncUsers(items) ==
    \E d \in BatchOutcomes(DB, items) :
        /\ accounts' = d.accounts /\ email' = d.email /\ status' = d.status
        /\ tenants' = d.tenants /\ tname' = d.tname
        /\ joinRole' = d.joinRole
        /\ lastStatus' = d.last
        /\ UNCHANGED <<empNo, userId, setupDone, sessions, th>>

-----------------------------------------------------------------------------
(* ExternalSSOLoginApi.post (magic_link.py lines 182-232) after the user  *)
(* info call: _get_or_create_account (lines 279-335) finds the account by *)
(* employee number and commits a changed email, or adds a new active    *)
(* account, whose flush fails on unique_employee_number if a concurrent   *)
(* request committed one.  A banned account is refused with 403.          *)
(* _ensure_tenant_exists (lines 338-356) gives an account without         *)
(* membership a tenant through TenantService, whose exceptions it         *)
(* swallows; then the login.                                              *)
ExternalLoginCheck(p, w, x, e) ==
    /\ th[p] = Idle
    /\ \E a \in FirstOf({b \in accounts : empNo[b] = w}) :
          th' = [th EXCEPT ![p] = [pc |-> "external", emp |-> w, uid |-> x,
                                   email |-> e, acct |-> a]]
    /\ CreatesAccount(th'[p]) => AccountRoom(accounts)
    /\ UNCHANGED <<dbVars, lastStatus, sessions>>

EmpNoTaken(w) == \E b \in accounts : empNo[b] = w

\* TenantService.create_owner_tenant_if_not_exist_with_tenant_name (not in
\* this tree): a new tenant of the configured name with the account its
\* owner; or an exception, swallowed.
EnsureTenant(a) ==
    IF HasJoin(a) THEN UNCHANGED <<tenants, tname, joinRole>>
    ELSE \/ \E t \in TenantIds \ tenants :
              /\ tenants' = tenants \cup {t}
              /\ tname' = [tname EXCEPT ![t] = DefaultTenantName]
              /\ joinRole' = [joinRole EXCEPT ![t, a] = "owner"]
         \/ UNCHANGED <<tenants, tname, joinRole>>

(* _get_or_create_account's writes (lines 290-335): the account found by   *)
(* employee number at the check gets the new email; or a is a new active   *)
(* account with the request's employee number, user id and email.         *)
ExternalAccountWrite(s, a) ==
    IF s.acct # None
    THEN /\ a = s.acct
         /\ email' = [email EXCEPT ![a] = s.email]
         /\ UNCHANGED <<accounts, empNo, userId, status, setupDone>>
    ELSE /\ a \in AccountIds \ accounts
         /\ accounts' = accounts \cup {a}
         /\ email' = [email EXCEPT ![a] = s.email]
         /\ empNo' = [empNo EXCEPT ![a] = s.emp]
         /\ userId' = [userId EXCEPT ![a] = s.uid]
         /\ status' = [status EXCEPT ![a] = "active"]
         /\ UNCHANGED setupDone

\* The rest of post (lines 199-215): the flush of a new account fails if a
\* concurrent request committed its employee number; a banned account is
\* refused with 403; otherwise _ensure_tenant_exists, then the login.
ExternalLoginCommit(p) ==
    LET s == th[p] IN
    /\ s.pc = "external"
    /\ th' = [th EXCEPT ![p] = Idle]
    /\ UNCHANGED lastStatus
    /\ IF s.acct = None /\ EmpNoTaken(s.emp)
       THEN UNCHANGED <<dbVars, sessions>>
       ELSE \E a \in AccountIds :
              /\ ExternalAccountWrite(s, a)
              /\ IF a \in accounts /\ status[a] = "banned"
                 THEN UNCHANGED <<tenants, tname, joinRole, sessions>>
                 ELSE /\ EnsureTenant(a)
                      /\ sessions' = sessions \cup {a}


(* UserSyncApi.post (magic_link.py lines 114-178), one transaction: the   *)
(* account by user_id (.first(); user_id has no unique constraint) gets   *)
(* the new email; or a new account (status defaults to active) is added   *)
(* and TenantService gives it an owner tenant of the configured name.     *)
(* An exception there rolls the whole request back (HTTP 500).            *)
UserSyncCheck(p, x, e) ==
    /\ th[p] = Idle
    /\ \E a \in FirstOf({b \in accounts : userId[b] = x}) :
          th' = [th EXCEPT ![p] = [pc |-> "userSync", uid |-> x, email |-> e, acct |-> a]]
    /\ CreatesAccount(th'[p]) => AccountRoom(accounts)
    /\ UNCHANGED <<dbVars, lastStatus, sessions>>

UserSyncCommit(p) ==
    LET s == th[p] IN
    /\ s.pc = "userSync"
    /\ th' = [th EXCEPT ![p] = Idle]
    /\ UNCHANGED <<lastStatus, sessions>>
    /\ IF s.acct # None
       THEN /\ email' = [email EXCEPT ![s.acct] = s.email]
            /\ UNCHANGED <<accounts, empNo, userId, status, tenants, tname, joinRole, setupDone>>
       ELSE \/ \E a \in AccountIds \ accounts, t \in TenantIds \ tenants :
                 /\ accounts' = accounts \cup {a}
                 /\ email' = [email EXCEPT ![a] = s.email]
                 /\ userId' = [userId EXCEPT ![a] = s.uid]
                 /\ status' = [status EXCEPT ![a] = "active"]
                 /\ tenants' = tenants \cup {t}
                 /\ tname' = [tname EXCEPT ![t] = DefaultTenantName]
                 /\ joinRole' = [joinRole EXCEPT ![t, a] = "owner"]
                 /\ UNCHANGED <<empNo, setupDone>>
            \/ UNCHANGED dbVars

(* MagicLinkGenerateApi and MagicLinkLoginApi (lines 24-111): a token is   *)
(* issued for the account user_id's .first() finds, and its login finds   *)
(* the account by id and logs it in; neither handler looks at the         *)
(* account's status.                                                      *)
MagicLinkLogin(a) ==
    /\ userId[a] # None
    /\ sessions' = sessions \cup {a}
    /\ UNCHANGED <<dbVars, lastStatus, th>>

-----------------------------------------------------------------------------
(* SetupApi.post (setup.py lines 26-53), self-hosted edition: refused      *)
(* when get_setup_status finds the dify_setups row or a tenant exists;     *)
(* the init-validation step is taken as done.  RegisterService.setup is   *)
(* not in this tree: following spec 4.6, it registers the administrator  *)
(* (an active account), their workspace with them as owner, and the      *)
(* setup row, once: the row is a singleton, so a registration that finds *)
(* it committed by a concurrent setup rolls back.                         *)
\* get_setup_status (setup.py lines 56-61): the dify_setups row, self-hosted.
GetSetupStatus == setupDone

SetupCheck(p, e) ==
    /\ th[p] = Idle
    /\ ~GetSetupStatus
    /\ tenants = {}
    /\ th' = [th EXCEPT ![p] = [pc |-> "setup", email |-> e, acct |-> None]]
    /\ AccountRoom(accounts) /\ TenantRoom(tenants)
    /\ UNCHANGED <<dbVars, lastStatus, sessions>>

SetupCommit(p) ==
    LET s == th[p] IN
    /\ s.pc = "setup"
    /\ IF setupDone THEN UNCHANGED <<accounts, email, status, tenants, tname, joinRole, setupDone>>
       ELSE \E a \in AccountIds \ accounts, t \in TenantIds \ tenants :
            /\ accounts' = accounts \cup {a}
            /\ email' = [email EXCEPT ![a] = s.email]
            /\ status' = [status EXCEPT ![a] = "active"]
            /\ tenants' = tenants \cup {t}
            /\ tname' = [tname EXCEPT ![t] = WorkspaceName]
            /\ joinRole' = [joinRole EXCEPT ![t, a] = "owner"]
            /\ setupDone' = TRUE
    /\ th' = [th EXCEPT ![p] = Idle]
    /\ UNCHANGED <<empNo, userId, lastStatus, sessions>>

\* login_required and account_initialization_required: the caller has
\* logged in and its account is active.
LoggedIn(c) == c \in sessions /\ status[c] = "active"

\* AccountService.check_email_unique (not in this tree): no account has e.
CheckEmailUnique(e) == AccountsByEmail(e) = {}

(* AccountCreateApi.post (account.py lines 537-574).  The checks read the  *)
(* accounts table; the account freeze (a Redis key set by account         *)
(* deletion, which no modelled handler performs) never applies.  Then     *)
(* AccountService.create_account commits an active account, and           *)
(* TenantService.create_owner_tenant_if_not_exist2 (not in this tree)     *)
(* joins it to the caller's current tenant with a role, or raises after   *)
(* the account is committed.  The account_roles insert that follows is    *)
(* RoleAssignment's AddAccountRole.                                        *)
AccountCreateCheck(p, c, e) ==
    /\ th[p] = Idle
    /\ LoggedIn(c)
    /\ CheckEmailUnique(e)
    /\ \E t \in tenants :
          /\ joinRole[t, c] # None
          /\ th' = [th EXCEPT ![p] = [pc |-> "create", email |-> e, tenant |-> t,
                                      acct |-> None]]
    /\ AccountRoom(accounts)
    /\ UNCHANGED <<dbVars, lastStatus, sessions>>

AccountCreateCommit(p) ==
    LET s == th[p] IN
    /\ s.pc = "create"
    /\ \E a \in AccountIds \ accounts :
          /\ accounts' = accounts \cup {a}
          /\ email' = [email EXCEPT ![a] = s.email]
          /\ status' = [status EXCEPT ![a] = "active"]
          /\ \/ \E r \in CreateRoles :
                   joinRole' = [joinRole EXCEPT ![s.tenant, a] = r]
             \/ UNCHANGED joinRole
    /\ th' = [th EXCEPT ![p] = Idle]
    /\ UNCHANGED <<empNo, userId, tenants, tname, setupDone, lastStatus, sessions>>

(* ChangeEmailResetApi.post (account.py lines 485-513): refused if the new *)
(* email is taken; the token is checked and revoked (the token steps are *)
(* ChangeEmail's) and names the caller's email as the old one; then       *)
(* AccountService.update_account_email commits the new email.             *)
ChangeEmailResetCheck(p, c, e) ==
    /\ th[p] = Idle
    /\ LoggedIn(c)
    /\ CheckEmailUnique(e)
    /\ th' = [th EXCEPT ![p] = [pc |-> "changeEmail", email |-> e, acct |-> c]]
    /\ UNCHANGED <<dbVars, lastStatus, sessions>>

ChangeEmailResetCommit(p) ==
    LET s == th[p] IN
    /\ s.pc = "changeEmail"
    /\ email' = [email EXCEPT ![s.acct] = s.email]
    /\ th' = [th EXCEPT ![p] = Idle]
    /\ UNCHANGED <<accounts, empNo, userId, status, tenants, tname, joinRole,
                   setupDone, lastStatus, sessions>>

-----------------------------------------------------------------------------
Next ==
    \/ \E p \in Threads :
          \/ \E e \in Emails, n \in TenantNames \cup {None}, r \in RoleArgs,
                s \in Statuses : SyncUserCheck(p, e, n, r, s)
          \/ SyncUserCommit(p)
          \/ \E w \in EmpNos, x \in UserIds, e \in Emails : ExternalLoginCheck(p, w, x, e)
          \/ ExternalLoginCommit(p)
          \/ \E x \in UserIds, e \in Emails : UserSyncCheck(p, x, e)
          \/ UserSyncCommit(p)
          \/ \E e \in AdminEmails : SetupCheck(p, e)
          \/ SetupCommit(p)
          \/ \E c \in accounts, e \in AdminEmails : AccountCreateCheck(p, c, e)
          \/ AccountCreateCommit(p)
          \/ \E c \in accounts, e \in AdminEmails : ChangeEmailResetCheck(p, c, e)
          \/ ChangeEmailResetCommit(p)
    \/ \E k \in 1..MaxBatch : \E items \in [1..k -> BatchItems] : BatchSyncUsers(items)
    \/ \E e \in AllEmails : SSOLogin(e)
    \/ \E a \in accounts : MagicLinkLogin(a)

Spec == Init /\ [][Next]_vars

-----------------------------------------------------------------------------
ThreadOK(s) ==
    \/ s = Idle
    \/ /\ s.pc = "sync" /\ s.email \in Emails /\ s.tname \in TenantNames \cup {None}
       /\ s.role \in RoleArgs /\ s.status \in Statuses
       /\ s.acct \in AccountIds \cup {None} /\ s.tenant \in TenantIds \cup {None}
    \/ /\ s.pc = "external" /\ s.emp \in EmpNos /\ s.uid \in UserIds
       /\ s.email \in Emails /\ s.acct \in AccountIds \cup {None}
    \/ /\ s.pc = "userSync" /\ s.uid \in UserIds /\ s.email \in Emails
       /\ s.acct \in AccountIds \cup {None}
    \/ /\ s.pc \in {"setup", "create", "changeEmail"} /\ s.email \in AdminEmails
       /\ s.acct \in AccountIds \cup {None}
       /\ s.pc = "create" => s.tenant \in TenantIds

\* Every row has columns of the right kinds; in particular every membership
\* role is a TenantAccountRole, which both syncs check before writing one.
TypeOK ==
    /\ accounts \subseteq AccountIds /\ tenants \subseteq TenantIds
    /\ \A a \in accounts : email[a] \in AllEmails /\ status[a] \in Statuses
                           /\ empNo[a] \in EmpNos \cup {None}
                           /\ userId[a] \in UserIds \cup {None}
    /\ \A t \in tenants : tname[t] \in TenantNames \cup {DefaultTenantName, WorkspaceName}
    /\ \A t \in TenantIds, a \in AccountIds :
          /\ joinRole[t, a] \in TenantAccountRoles \cup {None}
          /\ joinRole[t, a] # None => t \in tenants /\ a \in accounts
    /\ setupDone \in BOOLEAN
    /\ sessions \subseteq accounts
    /\ \A p \in Threads : ThreadOK(th[p])

BannedEmailNeverLogsIn ==
    [][\A a \in sessions' \ sessions : lastStatus[email'[a]] # "banned"]_vars

(* Spec property 11: the account-creation endpoint refuses an email that  *)
(* is already registered, even under concurrent requests.  When an       *)
(* AccountCreateApi request commits its account, no account has that     *)
(* email yet.                                                              *)
CreateRefusesTakenEmail ==
    [][\A p \in Threads :
          th[p].pc = "create" /\ th'[p] = Idle => AccountsByEmail(th[p].email) = {}]_vars
=============================================================================
