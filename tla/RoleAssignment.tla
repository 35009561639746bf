--------------------------- MODULE RoleAssignment ---------------------------
(***************************************************************************)
(* Tenant-scoped RBAC: RoleService (services/role_service.py) and          *)
(* RoleAccountService (services/role_account_service.py) over the tables   *)
(* roles, account_roles, role_menus and role_resources, with the menus     *)
(* whose deletion removes role_menus rows.  Each request is a thread with  *)
(* its own session; a handler that reads before it writes is split where   *)
(* its reads end, and add_account_to_role, which commits twice, in three.  *)
(* The caller's current tenant is an input of every request.               *)
(***************************************************************************)
EXTENDS Integers, FiniteSets

CONSTANTS
    Tenants,     \* tenants of the callers and of the roles
    RoleIds,     \* ids the database may hand out to new roles
    Accounts,
    Members,     \* tenant_account_joins: the (tenant, account) pairs
    MenuIds,
    Resources,   \* provider models and datasets, one resource type
    Keys,        \* role_key values
    Names,       \* role_name values
    Threads

ASSUME Members \subseteq Tenants \X Accounts

VARIABLES
    roles,          \* ids of the rows of roles
    allocated,      \* role ids handed out so far
    roleTenant,     \* roles.tenant_id
    roleKey,        \* roles.role_key (no constraint)
    roleName,       \* roles.role_name (unique per tenant)
    roleActive,     \* roles.is_active
    accountRoles,   \* account_roles rows <<tenant, account, role>>
    roleMenus,      \* role_menus rows <<role, menu>>
    roleResources,  \* role_resources rows <<tenant, role, resource>>
    menuLive,       \* ids of the rows of menus
    menuActive,     \* menus.is_active
    th              \* each request's locals between its steps

vars == <<roles, allocated, roleTenant, roleKey, roleName, roleActive,
          accountRoles, roleMenus, roleResources, menuLive, menuActive, th>>

NoValue == "none"
Idle == [pc |-> "idle"]

\* `role` found by db.session.get and of the caller's tenant (the guard
\* every role handler starts with).
RoleOfTenant(r, t) == r \in roles /\ roleTenant[r] = t

IsMember(t, a) == <<t, a>> \in Members

\* account_roles rows of an account in a tenant, and of a role in a tenant.
RowsOfAccount(t, a) == {row \in accountRoles : row[1] = t /\ row[2] = a}
RowsOfRole(t, r) == {row \in accountRoles : row[1] = t /\ row[3] = r}

Init ==
    /\ roles = {}
    /\ allocated = {}
    /\ roleTenant = [r \in RoleIds |-> NoValue]
    /\ roleKey = [r \in RoleIds |-> NoValue]
    /\ roleName = [r \in RoleIds |-> NoValue]
    /\ roleActive = [r \in RoleIds |-> FALSE]
    /\ accountRoles = {}
    /\ roleMenus = {}
    /\ roleResources = {}
    /\ menuLive = MenuIds
    /\ menuActive = [m \in MenuIds |-> TRUE]
    /\ th = [t \in Threads |-> Idle]

RoleVars == <<roles, allocated, roleTenant, roleKey, roleName, roleActive>>
MenuVars == <<menuLive, menuActive>>

-----------------------------------------------------------------------------
(* create_role (lines 21-41): the key must be unused in the tenant (a      *)
(* read); the insert commits later and fails if the tenant has a role of   *)
(* that name (the unique constraint uk_roles_tenant_name).                 *)
CreateRoleCheck(p, t, k, n) ==
    /\ th[p] = Idle
    /\ ~\E r \in roles : roleTenant[r] = t /\ roleKey[r] = k
    /\ th' = [th EXCEPT ![p] = [pc |-> "createRole", tenant |-> t, key |-> k,
                                name |-> n]]
    /\ UNCHANGED <<RoleVars, accountRoles, roleMenus, roleResources, MenuVars>>

NameTaken(t, n, self) ==
    \E o \in roles : o # self /\ roleTenant[o] = t /\ roleName[o] = n

CreateRoleCommit(p) ==
    LET s == th[p] IN
    /\ s.pc = "createRole"
    /\ IF NameTaken(s.tenant, s.name, NoValue)
       THEN UNCHANGED RoleVars
       ELSE \E r \in RoleIds \ allocated :
              /\ roles' = roles \cup {r}
              /\ allocated' = allocated \cup {r}
              /\ roleTenant' = [roleTenant EXCEPT ![r] = s.tenant]
              /\ roleKey' = [roleKey EXCEPT ![r] = s.key]
              /\ roleName' = [roleName EXCEPT ![r] = s.name]
              /\ roleActive' = [roleActive EXCEPT ![r] = TRUE]
    /\ th' = [th EXCEPT ![p] = Idle]
    /\ UNCHANGED <<accountRoles, roleMenus, roleResources, MenuVars>>

(* update_role (lines 44-66): the role must be of the tenant and a new     *)
(* name unused by its other roles; the unique constraint would refuse the  *)
(* same commit, so the check and the write are one step.                   *)
UpdateRole(t, r, n, act) ==
    /\ RoleOfTenant(r, t)
    /\ ~NameTaken(t, n, r)
    /\ roleName' = [roleName EXCEPT ![r] = n]
    /\ roleActive' = [roleActive EXCEPT ![r] = act]
    /\ UNCHANGED <<roles, allocated, roleTenant, roleKey, accountRoles,
                   roleMenus, roleResources, MenuVars, th>>

(* delete_role (lines 69-103).  The check: the role is of the tenant, and  *)
(* without force it has no account_roles rows.  The commit deletes the     *)
(* role's account_roles and role_menus rows and the role; a role_resources *)
(* row still naming the role violates fk_role_resources_role_id and rolls  *)
(* the whole transaction back.                                             *)
RefusesDelete(t, r, force) == RowsOfRole(t, r) # {} /\ ~force

DeleteRoleRows(t, r) ==
    /\ accountRoles' = accountRoles \ RowsOfRole(t, r)
    /\ roleMenus' = {rm \in roleMenus : rm[1] # r}

FkViolated(r) == \E rr \in roleResources : rr[2] = r

\* The steps after delete_role: back to batch_delete_roles, or done.
AfterDelete(s) ==
    IF ~s.inBatch THEN Idle
    ELSE [pc |-> "batchDelete", tenant |-> s.tenant, force |-> s.force,
          pending |-> s.rest]

DeleteRoleCheck(p, t, r, force, inBatch, rest) ==
    LET s == [pc |-> "deleteRole", tenant |-> t, role |-> r, force |-> force,
              inBatch |-> inBatch, rest |-> rest]
    IN  th' = [th EXCEPT ![p] =
                 IF ~RoleOfTenant(r, t) \/ RefusesDelete(t, r, force)
                 THEN AfterDelete(s) ELSE s]

DeleteRole(p, t, r, force) ==
    /\ th[p] = Idle
    /\ DeleteRoleCheck(p, t, r, force, FALSE, {})
    /\ UNCHANGED <<RoleVars, accountRoles, roleMenus, roleResources, MenuVars>>

DeleteRoleCommit(p) ==
    LET s == th[p] IN
    /\ s.pc = "deleteRole"
    /\ IF FkViolated(s.role)
       THEN /\ UNCHANGED <<roles, accountRoles, roleMenus>>
            /\ th' = [th EXCEPT ![p] = Idle]
       ELSE /\ roles' = roles \ {s.role}
            /\ DeleteRoleRows(s.tenant, s.role)
            /\ th' = [th EXCEPT ![p] = AfterDelete(s)]
    /\ UNCHANGED <<allocated, roleTenant, roleKey, roleName, roleActive,
                   roleResources, MenuVars>>

(* batch_delete_roles (lines 140-178): the roles of the tenant among the   *)
(* ids are read once, then delete_role runs for each, committing on its    *)
(* own; its ValueError is caught and the loop goes on, any other error     *)
(* (the foreign key) ends the request.                                     *)
BatchDeleteRoles(p, t, ids, force) ==
    /\ th[p] = Idle
    /\ ids # {}
    /\ th' = [th EXCEPT ![p] =
                [pc |-> "batchDelete", tenant |-> t, force |-> force,
                 pending |-> {r \in ids : RoleOfTenant(r, t)}]]
    /\ UNCHANGED <<RoleVars, accountRoles, roleMenus, roleResources, MenuVars>>

BatchDeleteNext(p) ==
    LET s == th[p] IN
    /\ s.pc = "batchDelete"
    /\ IF s.pending = {}
       THEN th' = [th EXCEPT ![p] = Idle]
       ELSE \E r \in s.pending :
              DeleteRoleCheck(p, s.tenant, r, s.force, TRUE, s.pending \ {r})
    /\ UNCHANGED <<RoleVars, accountRoles, roleMenus, roleResources, MenuVars>>

(* batch_update_role_status (lines 319-346): one UPDATE of is_active for   *)
(* the tenant's roles among the ids.                                       *)
BatchUpdateRoleStatus(t, ids, isActive) ==
    /\ ids # {}
    /\ roleActive' = [r \in RoleIds |->
                        IF r \in ids /\ RoleOfTenant(r, t) THEN isActive
                        ELSE roleActive[r]]
    /\ UNCHANGED <<roles, allocated, roleTenant, roleKey, roleName,
                   accountRoles, roleMenus, roleResources, MenuVars, th>>

-----------------------------------------------------------------------------
(* assign_menus (lines 246-281): the role is of the tenant; the menus     *)
(* among the ids that exist and are active are read; the commit replaces  *)
(* the role's role_menus rows by them (delete, then insert).              *)
AssignMenusCheck(p, t, r, ms) ==
    /\ th[p] = Idle
    /\ RoleOfTenant(r, t)
    /\ th' = [th EXCEPT ![p] = [pc |-> "assignMenus", role |-> r,
                                items |-> {m \in ms : m \in menuLive /\ menuActive[m]}]]
    /\ UNCHANGED <<RoleVars, accountRoles, roleMenus, roleResources, MenuVars>>

AssignMenusCommit(p) ==
    LET s == th[p] IN
    /\ s.pc = "assignMenus"
    /\ roleMenus' = {rm \in roleMenus : rm[1] # s.role} \cup ({s.role} \X s.items)
    /\ th' = [th EXCEPT ![p] = Idle]
    /\ UNCHANGED <<RoleVars, accountRoles, roleResources, MenuVars>>

(* assign_accounts_to_role (role_account_service.py lines 145-185): the   *)
(* role is of the tenant and every account is a member of the tenant      *)
(* (else ValueError); the commit replaces the role's rows in the tenant.  *)
AssignAccountsCheck(p, t, r, as) ==
    /\ th[p] = Idle
    /\ RoleOfTenant(r, t)
    /\ \A a \in as : IsMember(t, a)
    /\ th' = [th EXCEPT ![p] = [pc |-> "assignAccounts", tenant |-> t,
                                role |-> r, items |-> as]]
    /\ UNCHANGED <<RoleVars, accountRoles, roleMenus, roleResources, MenuVars>>

\* Mutant: the columns of the inserted rows in the wrong order.
AssignAccountsCommitSwapped(p) ==
    LET s == th[p] IN
    /\ s.pc = "assignAccounts"
    /\ accountRoles' = (accountRoles \ RowsOfRole(s.tenant, s.role))
                          \cup ({s.tenant} \X {s.role} \X s.items)
    /\ th' = [th EXCEPT ![p] = Idle]
    /\ UNCHANGED <<RoleVars, roleMenus, roleResources, MenuVars>>

AssignAccountsCommit(p) ==
    LET s == th[p] IN
    /\ s.pc = "assignAccounts"
    /\ accountRoles' = (accountRoles \ RowsOfRole(s.tenant, s.role))
                          \cup ({s.tenant} \X s.items \X {s.role})
    /\ th' = [th EXCEPT ![p] = Idle]
    /\ UNCHANGED <<RoleVars, roleMenus, roleResources, MenuVars>>

(* assign_roles_to_user (lines 190-239): the account is a member of the   *)
(* tenant and every role is an active role of the tenant (else            *)
(* ValueError); the commit replaces the account's rows in the tenant.     *)
\* Mutant: the tenant of the roles is not checked.
ValidRoleAnyTenant(r, t) == r \in roles /\ roleActive[r]

ValidRole(r, t) == RoleOfTenant(r, t) /\ roleActive[r]

AssignRolesCheck(p, t, a, rs) ==
    /\ th[p] = Idle
    /\ IsMember(t, a)
    /\ \A r \in rs : ValidRole(r, t)
    /\ th' = [th EXCEPT ![p] = [pc |-> "assignRoles", tenant |-> t,
                                account |-> a, items |-> rs]]
    /\ UNCHANGED <<RoleVars, accountRoles, roleMenus, roleResources, MenuVars>>

AssignRolesCommit(p) ==
    LET s == th[p] IN
    /\ s.pc = "assignRoles"
    /\ accountRoles' = (accountRoles \ RowsOfAccount(s.tenant, s.account))
                          \cup ({s.tenant} \X {s.account} \X s.items)
    /\ th' = [th EXCEPT ![p] = Idle]
    /\ UNCHANGED <<RoleVars, roleMenus, roleResources, MenuVars>>

(* add_account_to_role (lines 242-301): the role is of the tenant, the    *)
(* account a member, and the pair not yet assigned (else a soft "already  *)
(* has the role").  Then, despite its name, all the account's rows in the *)
(* tenant are deleted and committed; then the new row is inserted and     *)
(* committed, which fails on the unique constraint if a concurrent request *)
(* inserted the same row in between.                                      *)
AddAccountCheck(p, t, r, a) ==
    /\ th[p] = Idle
    /\ RoleOfTenant(r, t)
    /\ IsMember(t, a)
    /\ <<t, a, r>> \notin accountRoles
    /\ th' = [th EXCEPT ![p] = [pc |-> "addAccountClear", tenant |-> t,
                                role |-> r, account |-> a]]
    /\ UNCHANGED <<RoleVars, accountRoles, roleMenus, roleResources, MenuVars>>

AddAccountClear(p) ==
    LET s == th[p] IN
    /\ s.pc = "addAccountClear"
    /\ accountRoles' = accountRoles \ RowsOfAccount(s.tenant, s.account)
    /\ th' = [th EXCEPT ![p].pc = "addAccountInsert"]
    /\ UNCHANGED <<RoleVars, roleMenus, roleResources, MenuVars>>

AddAccountInsert(p) ==
    LET s == th[p] IN
    /\ s.pc = "addAccountInsert"
    /\ accountRoles' = accountRoles \cup {<<s.tenant, s.account, s.role>>}
    /\ th' = [th EXCEPT ![p] = Idle]
    /\ UNCHANGED <<RoleVars, roleMenus, roleResources, MenuVars>>

(* remove_user_from_role (lines 304-338): the role is of the tenant; one  *)
(* DELETE of the pair, committed.                                          *)
RemoveUserFromRole(t, r, a) ==
    /\ RoleOfTenant(r, t)
    /\ accountRoles' = accountRoles \ {<<t, a, r>>}
    /\ UNCHANGED <<RoleVars, roleMenus, roleResources, MenuVars, th>>

(* batch_assign_role_to_users (lines 341-392): the role is of the tenant; *)
(* the members among the accounts and their existing rows are read; the   *)
(* commit inserts the others (a row a concurrent request inserted in      *)
(* between fails the whole commit on the unique constraint).              *)
BatchAssignCheck(p, t, r, as) ==
    /\ th[p] = Idle
    /\ RoleOfTenant(r, t)
    /\ th' = [th EXCEPT ![p] =
                [pc |-> "batchAssign", tenant |-> t, role |-> r,
                 items |-> {a \in as : IsMember(t, a) /\ <<t, a, r>> \notin accountRoles}]]
    /\ UNCHANGED <<RoleVars, accountRoles, roleMenus, roleResources, MenuVars>>

BatchAssignCommit(p) ==
    LET s == th[p]
        new == {s.tenant} \X s.items \X {s.role}
    IN  /\ s.pc = "batchAssign"
        /\ accountRoles' = IF new \cap accountRoles # {} THEN accountRoles
                           ELSE accountRoles \cup new
        /\ th' = [th EXCEPT ![p] = Idle]
        /\ UNCHANGED <<RoleVars, roleMenus, roleResources, MenuVars>>

(* TenantAccountRoleService.add_account_role (workspace/account.py lines  *)
(* 605-636), called by account creation with a role id: an active role of *)
(* the tenant, and the pair inserted unless present.  The method does not *)
(* check membership; IsMember is its caller's precondition, since         *)
(* AccountCreateApi joins the account to the tenant just before.          *)
AddAccountRole(t, a, r) ==
    /\ IsMember(t, a)
    /\ ValidRole(r, t)
    /\ accountRoles' = accountRoles \cup {<<t, a, r>>}
    /\ UNCHANGED <<RoleVars, roleMenus, roleResources, MenuVars, th>>

(* update_resource_authorization (role_service.py lines 678-706): the     *)
(* caller's tenant's rows of the role are replaced by the resource ids    *)
(* given.  The role is not looked up: only the foreign key refuses a role *)
(* that does not exist, and a role of another tenant is accepted.         *)
UpdateResourceAuthorization(t, r, xs) ==
    /\ r \in roles
    /\ roleResources' = {rr \in roleResources : ~(rr[1] = t /\ rr[2] = r)}
                           \cup ({t} \X {r} \X xs)
    /\ UNCHANGED <<RoleVars, accountRoles, roleMenus, MenuVars, th>>

(* The menu side (menu_service.py): a delete_menu frame's commit removes  *)
(* the menu and its role_menus rows (lines 109-116), and                  *)
(* batch_update_menu_status sets is_active (lines 330-347).               *)
DeleteMenu(m) ==
    /\ m \in menuLive
    /\ menuLive' = menuLive \ {m}
    /\ roleMenus' = {rm \in roleMenus : rm[2] # m}
    /\ UNCHANGED <<RoleVars, accountRoles, roleResources, menuActive, th>>

SetMenuActive(m, isActive) ==
    /\ menuActive' = [menuActive EXCEPT ![m] = isActive]
    /\ UNCHANGED <<RoleVars, accountRoles, roleMenus, roleResources, menuLive, th>>

-----------------------------------------------------------------------------
(* The read side: the menus a user is shown.  The ids of the existing,    *)
(* and unless includeInactive active, menus that role_menus rows join to  *)
(* the given roles (the query of get_user_menus, menu_service.py lines    *)
(* 272-282; the tree it is then built into is MenuTree's).                *)
MenusOfRoles(rs, includeInactive) ==
    {m \in menuLive : /\ includeInactive \/ menuActive[m]
                      /\ \E r \in rs : <<r, m>> \in roleMenus}

\* get_user_menus (lines 260-286), behind GET .../menus/user: the union
\* over all the account's account_roles rows in the tenant.
GetUserMenus(t, a, includeInactive) ==
    IF RowsOfAccount(t, a) = {} THEN {}
    ELSE MenusOfRoles({row[3] : row \in RowsOfAccount(t, a)}, includeInactive)

\* The row .first() may return: any of them, or None.
FirstRow(t, a) == IF RowsOfAccount(t, a) = {} THEN {NoValue} ELSE RowsOfAccount(t, a)

(* GET /account/tenant-info (workspace/account.py lines 733-791): one     *)
(* account_roles row, by .first(); its role_id split on commas (one id)   *)
(* and looked up among the active roles; the active menus of those.       *)
TenantInfoRoles(row) ==
    IF row = NoValue THEN {} ELSE {r \in {row[3]} : r \in roles /\ roleActive[r]}

TenantInfoMenus(row) == MenusOfRoles(TenantInfoRoles(row), FALSE)

(* GET /account/tenant/users (workspace/account.py lines 880-935): the    *)
(* members of the tenant (inner join on tenant_account_joins), each       *)
(* outer-joined to its account_roles rows of the tenant: one entry per    *)
(* row, or one entry with no row.  An entry's roles are its row's role,   *)
(* looked up by id alone, when that role exists.                          *)
\* Mutant: an inner join, dropping the members without a row.
TenantUsersInner(t) ==
    {[id |-> row[2], row |-> row] : row \in {row \in accountRoles : row[1] = t /\ IsMember(t, row[2])}}

TenantUsers(t) ==
    {[id |-> a, row |-> NoValue] : a \in {a \in Accounts : IsMember(t, a) /\ RowsOfAccount(t, a) = {}}}
    \cup {[id |-> row[2], row |-> row] : row \in {row \in accountRoles : row[1] = t /\ IsMember(t, row[2])}}

TenantUserRoles(e) ==
    IF e.row = NoValue THEN {} ELSE {r \in {e.row[3]} : r \in roles}

(* search_authorized_person (role_service.py lines 459-550): the members  *)
(* of the tenant, narrowed (when a role name is given) to accounts with an *)
(* account_roles row joining a role of that name; each shown with the      *)
(* names of all the roles its rows join to.  Neither join to account_roles *)
(* and roles filters on the tenant.  The email and name filters and the    *)
(* page are left out (a listing is the whole filtered set); NoValue stands *)
(* for no role filter.                                                     *)
RoleNamesOf(a) == {roleName[row[3]] : row \in {row \in accountRoles : row[2] = a /\ row[3] \in roles}}

SearchAuthorizedPerson(t, n) ==
    {[id |-> a, roleNames |-> RoleNamesOf(a)] :
        a \in {a \in Accounts : IsMember(t, a) /\ (n = NoValue \/ n \in RoleNamesOf(a))}}

(* The role dialogs of role_account_service.py, keyword and page left     *)
(* out (a listing is the whole filtered set).  get_account_roles (lines   *)
(* 61-81): nothing for a non-member, else the active roles its rows of   *)
(* the tenant join to.                                                     *)
GetAccountRoles(t, a) ==
    IF ~IsMember(t, a) THEN {}
    ELSE {r \in roles : roleActive[r] /\ <<t, a, r>> \in accountRoles}

\* get_role_accounts (lines 84-143): the role must be of the tenant; the
\* accounts its rows of the tenant join to.
GetRoleAccounts(t, r) == {row[2] : row \in RowsOfRole(t, r)}

\* Mutant: the join on tenant_account_joins left out.
GetAccountsWithoutRoleAnyAccount(t, r) ==
    {a \in Accounts : a \notin GetRoleAccounts(t, r)}

\* get_accounts_without_role (lines 395-456): the members of the tenant
\* not among the accounts of the role's rows of the tenant.
GetAccountsWithoutRole(t, r) ==
    {a \in Accounts : IsMember(t, a) /\ a \notin GetRoleAccounts(t, r)}

\* get_role with include_stats (role_service.py lines 104-135): user_count
\* counts the role's rows of the tenant.
GetRoleUserCount(t, r) == Cardinality(RowsOfRole(t, r))

(* The menu-authorization views.  Menus are named by id: a menu_key names *)
(* one menu as long as keys are unique (MenuTree's UniqueKeys).           *)
ActiveMenus == {m \in menuLive : menuActive[m]}

\* Mutant: the filter on Menu.is_active left out.
CheckMenuAccessAnyStatus(t, a, m) ==
    /\ RowsOfAccount(t, a) # {}
    /\ m \in menuLive
    /\ \E row \in RowsOfAccount(t, a) : <<row[3], m>> \in roleMenus

\* check_menu_access (menu_service.py lines 289-312): False without a row;
\* else whether a role_menus row of one of the rows' roles joins to the
\* active menu.
CheckMenuAccess(t, a, m) ==
    /\ RowsOfAccount(t, a) # {}
    /\ m \in ActiveMenus
    /\ \E row \in RowsOfAccount(t, a) : <<row[3], m>> \in roleMenus

\* get_role_menus (role_service.py lines 283-313): refused unless the role
\* is of the tenant; the active menus its role_menus rows join to.
GetRoleMenus(t, r) ==
    IF r \in roles /\ roleTenant[r] = t
    THEN {m \in ActiveMenus : <<r, m>> \in roleMenus}
    ELSE NoValue

\* get_available_menus_for_role (lines 395-419), GET .../available-menus:
\* refused unless the role is of the tenant; every active menu, marked
\* is_assigned when a role_menus row of the role names it.
GetAvailableMenusForRole(t, r) ==
    IF r \in roles /\ roleTenant[r] = t
    THEN {[id |-> m, is_assigned |-> <<r, m>> \in roleMenus] : m \in ActiveMenus}
    ELSE NoValue

\* get_user_authorized_menu_ids (lines 441-457): the menu ids of the role's
\* role_menus rows, joined to the active menus unless includeInactive.
GetUserAuthorizedMenuIds(r, includeInactive) ==
    {rm[2] : rm \in {rm \in roleMenus :
                        rm[1] = r /\ (includeInactive \/ rm[2] \in ActiveMenus)}}

\* get_menu_tree_with_authorization (lines 421-439), GET .../roles/<id>/menus:
\* the menus (active ones unless includeInactive), each marked
\* is_authorized; no check of the role's tenant.
GetMenuTreeWithAuthorization(r, includeInactive) ==
    {[id |-> m, is_authorized |-> m \in GetUserAuthorizedMenuIds(r, includeInactive)] :
        m \in {m \in menuLive : includeInactive \/ menuActive[m]}}

-----------------------------------------------------------------------------
Next ==
    \/ \E p \in Threads :
          \/ \E t \in Tenants, k \in Keys, n \in Names : CreateRoleCheck(p, t, k, n)
          \/ CreateRoleCommit(p)
          \/ \E t \in Tenants, r \in allocated, f \in BOOLEAN : DeleteRole(p, t, r, f)
          \/ \E t \in Tenants, ids \in SUBSET allocated, f \in BOOLEAN :
                BatchDeleteRoles(p, t, ids, f)
          \/ BatchDeleteNext(p)
          \/ DeleteRoleCommit(p)
          \/ \E t \in Tenants, r \in allocated, ms \in SUBSET MenuIds :
                AssignMenusCheck(p, t, r, ms)
          \/ AssignMenusCommit(p)
          \/ \E t \in Tenants, r \in allocated, as \in SUBSET Accounts :
                AssignAccountsCheck(p, t, r, as)
          \/ AssignAccountsCommit(p)
          \/ \E t \in Tenants, a \in Accounts, rs \in SUBSET allocated :
                AssignRolesCheck(p, t, a, rs)
          \/ AssignRolesCommit(p)
          \/ \E t \in Tenants, r \in allocated, a \in Accounts : AddAccountCheck(p, t, r, a)
          \/ AddAccountClear(p)
          \/ AddAccountInsert(p)
          \/ \E t \in Tenants, r \in allocated, as \in SUBSET Accounts :
                BatchAssignCheck(p, t, r, as)
          \/ BatchAssignCommit(p)
    \/ \E t \in Tenants, r \in allocated :
          \/ \E n \in Names, act \in BOOLEAN : UpdateRole(t, r, n, act)
          \/ \E ids \in SUBSET allocated, act \in BOOLEAN :
                BatchUpdateRoleStatus(t, ids, act)
          \/ \E a \in Accounts :
                \/ RemoveUserFromRole(t, r, a)
                \/ AddAccountRole(t, a, r)
          \/ \E xs \in SUBSET Resources : UpdateResourceAuthorization(t, r, xs)
    \/ \E m \in MenuIds :
          \/ DeleteMenu(m)
          \/ \E b \in BOOLEAN : SetMenuActive(m, b)

Spec == Init /\ [][Next]_vars

-----------------------------------------------------------------------------
ThreadOK(s) ==
    \/ s = Idle
    \/ s.pc = "createRole" /\ s.tenant \in Tenants /\ s.key \in Keys /\ s.name \in Names
    \/ /\ s.pc \in {"deleteRole", "batchDelete"}
       /\ s.tenant \in Tenants /\ s.force \in BOOLEAN
    \/ s.pc = "assignMenus" /\ s.role \in RoleIds /\ s.items \subseteq MenuIds
    \/ /\ s.pc \in {"assignAccounts", "batchAssign"}
       /\ s.tenant \in Tenants /\ s.role \in RoleIds /\ s.items \subseteq Accounts
    \/ /\ s.pc = "assignRoles"
       /\ s.tenant \in Tenants /\ s.account \in Accounts /\ s.items \subseteq RoleIds
    \/ /\ s.pc \in {"addAccountClear", "addAccountInsert"}
       /\ s.tenant \in Tenants /\ s.role \in RoleIds /\ s.account \in Accounts

\* Every row has columns of the right kinds and every request is in a state
\* a handler can be in.
TypeOK ==
    /\ roles \subseteq allocated /\ allocated \subseteq RoleIds
    /\ \A r \in allocated : roleTenant[r] \in Tenants /\ roleName[r] \in Names
    /\ accountRoles \subseteq Tenants \X Accounts \X RoleIds
    /\ roleMenus \subseteq RoleIds \X MenuIds
    /\ roleResources \subseteq Tenants \X RoleIds \X Resources
    /\ menuLive \subseteq MenuIds /\ menuActive \in [MenuIds -> BOOLEAN]
    /\ \A p \in Threads : ThreadOK(th[p])

(* Tenant isolation of RBAC membership: every account_roles row joins a   *)
(* member of its tenant to a role of that same tenant (while the role     *)
(* exists).  Every handler that inserts rows checks the role's tenant and *)
(* the account's membership, in whatever order their steps interleave.    *)
TenantIsolation ==
    \A row \in accountRoles :
        /\ IsMember(row[1], row[2])
        /\ row[3] \in roles => roleTenant[row[3]] = row[1]

(* Spec 4.9 and 4.10: delete_role and delete_menu remove the role_menus   *)
(* and account_roles rows that name them, so every such row names a role *)
(* and a menu that exist.                                                  *)
NoDanglingAssignments ==
    /\ \A row \in accountRoles : row[3] \in roles
    /\ \A rm \in roleMenus : rm[1] \in roles /\ rm[2] \in menuLive

(* Spec 4.8 and property 5: tenant-info's menus and menu_key list are the *)
(* union of the menus reachable through the caller's roles, the same menus *)
(* get_user_menus resolves for them, whichever account_roles row the      *)
(* handler's .first() returns.                                             *)
TenantInfoMatchesUserMenus ==
    \A mb \in Members :
        \A row \in FirstRow(mb[1], mb[2]) :
            TenantInfoMenus(row) = GetUserMenus(mb[1], mb[2], FALSE)

=============================================================================
