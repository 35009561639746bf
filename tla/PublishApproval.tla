--------------------------- MODULE PublishApproval ---------------------------
(***************************************************************************)
(* The publish-to-square pipeline of controllers/console/app/publish.py    *)
(* and services/publish_application_service.py.                            *)
(*                                                                         *)
(* An editor submits an application for one workflow or agent version     *)
(* (Published2SquareApi.post).  An administrator answers it through       *)
(* Published2SquareSysApproveApi.post, which runs in two database sessions *)
(* opened one after the other: session 1 looks the application and its     *)
(* version up (committing a failure notification when one is missing),    *)
(* session 2 writes the decision.  Each HTTP request runs on its own       *)
(* thread, so the steps of concurrent requests, and the deletion of a      *)
(* version elsewhere in the platform, interleave between the two sessions. *)
(***************************************************************************)
EXTENDS Integers, Sequences, FiniteSets

CONSTANTS
    AppIds,            \* ids the database may hand out to new applications
    Accounts,          \* editors that submit applications
    Reqs,              \* concurrent sys-approve request threads
    WorkflowVersions,  \* published Workflow rows
    AgentVersions,     \* published AppModelConfig rows
    TypeInputs,        \* apply_app_type strings a client may send
    TenantInputs,      \* tenant_id strings a client may send ("" the default)
    AdminTenant,       \* current_tenant.id of the administrator
    VersionTenant,     \* tenant_id of each Workflow / AppModelConfig row
    MaxNotifications   \* bound on system_notification rows

ASSUME WorkflowVersions \cap AgentVersions = {}
ASSUME MaxNotifications \in Nat
ASSUME "" \in TenantInputs /\ AdminTenant \in TenantInputs \ {""}

Versions == WorkflowVersions \cup AgentVersions

VARIABLES
    status,        \* publish_application.status, NoApp before the row exists
    appType,       \* publish_application.apply_app_type (an Integer column)
    appVersion,    \* publish_application.apply_app_version_id
    applicant,     \* publish_application.applicant_id
    appTenant,     \* publish_application.tenant_id
    history,       \* publish_application_history rows of each application
    notifications, \* system_notification rows, in insertion (id) order
    snapshots,     \* publish_workflows and publish_app_model_configs rows
    versionExists, \* whether the Workflow / AppModelConfig row still exists
    publishSquare, \* versions whose source row has publish_square = true
    rq,            \* local state of each sys-approve request thread
    resp           \* last response each request thread returned

vars == <<status, appType, appVersion, applicant, appTenant, history, notifications,
          snapshots, versionExists, publishSquare, rq, resp>>

\* PublishApplicationStatus and ApplyAppType of models/publish.py.  The
\* ApplyAppType members are IntEnum members built from "1" and "2", so they
\* are the integers 1 and 2.
NoApp == 0
APPLYING == 1
COMPLETED == 4
REJECTED == 5
WORKFLOW == 1
AGENT == 2

\* PublicApplicationAction and NotificationMsgType.
SUBMIT == "SUBMIT"
APPROVE == "APPROVE"
REJECT == "REJECT"
APPROVAL_TODO == 2
APPROVAL_RESULT == 3

\* The title of a notification, abstracted to what it reports.
Titles == {"todo", "failed", "approved", "rejected"}
Roles == {"admin", "owner"}

\* The Integer column coerces the apply_app_type string it is given.
StoredType(t) == CASE t = "1" -> 1 [] t = "2" -> 2 [] t = "3" -> 3

\* Python's == between a str argument and an IntEnum member: int.__eq__
\* does not compare with a str, so the result is False for every string.
PyStrEqualsEnum(s, e) == FALSE

\* WorkflowService.get_published_workflow_by_id and
\* AppModelConfigService.get_published_agent_by_id: the row with that id.
WorkflowFound(v) == v \in WorkflowVersions /\ versionExists[v]
AgentFound(v) == v \in AgentVersions /\ versionExists[v]

\* Mutant: the account and role lists passed to create_notification swapped.
NoteSwapped(title, type, accts, roles, a, tn) ==
    [title |-> title, msgType |-> type, accounts |-> roles, roles |-> accts,
     app |-> a, tenant |-> tn, isDeal |-> FALSE]

\* PublishApplicationService.create_notification.
Note(title, type, accts, roles, a, tn) ==
    [title |-> title, msgType |-> type, accounts |-> accts, roles |-> roles,
     app |-> a, tenant |-> tn, isDeal |-> FALSE]

\* Published2SquareSysApproveApi.post, lines 390-397: the notification whose
\* id the request carries is marked handled; 0 stands for no id.
MarkDeal(ns, nid) ==
    IF nid \in 1..Len(ns) THEN [ns EXCEPT ![nid].isDeal = TRUE] ELSE ns

\* Mutant: the history row records the status the application had before.
HistoryRowPrevious(a, act, st) == [action |-> act, to |-> status[a]]

\* srv.add_history(action=act, to_status=str(st)).
HistoryRow(a, act, st) == [action |-> act, to |-> st]

\* Room for the notifications the running requests are still to add.
Room == Len(notifications) + Cardinality({q \in Reqs : rq[q].pc = "checked"})
            < MaxNotifications

IdleReq == [pc |-> "idle", app |-> NoApp, approve |-> FALSE, nid |-> 0,
            workflowBound |-> FALSE]

Init ==
    /\ status = [a \in AppIds |-> NoApp]
    /\ appType = [a \in AppIds |-> 0]
    /\ appVersion = [a \in AppIds |-> CHOOSE v \in Versions : TRUE]
    /\ applicant = [a \in AppIds |-> CHOOSE u \in Accounts : TRUE]
    /\ appTenant = [a \in AppIds |-> ""]
    /\ history = [a \in AppIds |-> <<>>]
    /\ notifications = <<>>
    /\ snapshots = <<>>
    /\ versionExists = [v \in Versions |-> TRUE]
    /\ publishSquare = {}
    /\ rq = [r \in Reqs |-> IdleReq]
    /\ resp = [r \in Reqs |-> "none"]

-----------------------------------------------------------------------------
(* Published2SquareApi.post: the version checks compare the str argument   *)
(* with ApplyAppType members, then one session creates the application,    *)
(* its SUBMIT history row and an APPROVAL_TODO notification to the admin   *)
(* and owner roles, and commits once.                                      *)
SubmitVersionCheck(t, v) ==
    /\ PyStrEqualsEnum(t, WORKFLOW) => WorkflowFound(v)
    /\ PyStrEqualsEnum(t, AGENT) => AgentFound(v)

\* PublishApplicationService.create: the status is a valid member, and the
\* row takes the applicant, the version and the type string, which the
\* Integer column apply_app_type stores as a number.
Create(a, u, t, v, tn) ==
    /\ status' = [status EXCEPT ![a] = APPLYING]
    /\ appType' = [appType EXCEPT ![a] = StoredType(t)]
    /\ appVersion' = [appVersion EXCEPT ![a] = v]
    /\ applicant' = [applicant EXCEPT ![a] = u]
    /\ appTenant' = [appTenant EXCEPT ![a] = tn]

Submit(a, u, t, v, tn) ==
    /\ status[a] = NoApp
    /\ Room
    /\ SubmitVersionCheck(t, v)
    /\ Create(a, u, t, v, tn)
    /\ history' = [history EXCEPT ![a] = <<HistoryRow(a, SUBMIT, APPLYING)>>]
    /\ notifications' = Append(notifications,
                               Note("todo", APPROVAL_TODO, {}, Roles, a, tn))
    /\ UNCHANGED <<snapshots, versionExists, publishSquare, rq, resp>>

(* Published2SquareSysApproveApi.post, session 1 (lines 157-248).  A      *)
(* missing application gets a failure notification to the admin and owner *)
(* roles, committed, and then _load_app_model(application.apply_app_id)   *)
(* dereferences None: the request fails with an AttributeError.  A missing *)
(* workflow or agent version gets a failure notification to the applicant  *)
(* and a soft "fail"; the notification named by the request is then marked *)
(* handled (lines 390-397).  Otherwise the local `workflow` (bound only on  *)
(* the WORKFLOW branch) is kept for session 2.                             *)
VersionMissing(a) ==
    \/ appType[a] = WORKFLOW /\ ~WorkflowFound(appVersion[a])
    \/ appType[a] = AGENT /\ ~AgentFound(appVersion[a])

Lookup(r, a, approve, nid) ==
    /\ rq[r].pc = "idle"
    /\ Room
    /\ \/ /\ status[a] = NoApp
          /\ notifications' = Append(notifications,
                                Note("failed", APPROVAL_RESULT, {}, Roles, a, AdminTenant))
          /\ resp' = [resp EXCEPT ![r] = "error"]
          /\ UNCHANGED rq
       \/ /\ status[a] # NoApp
          /\ VersionMissing(a)
          /\ notifications' = MarkDeal(Append(notifications,
                Note("failed", APPROVAL_RESULT, {applicant[a]}, {}, a, AdminTenant)),
                nid)
          /\ resp' = [resp EXCEPT ![r] = "fail"]
          /\ UNCHANGED rq
       \/ /\ status[a] # NoApp
          /\ ~VersionMissing(a)
          /\ rq' = [rq EXCEPT ![r] = [pc |-> "checked", app |-> a,
                                      approve |-> approve, nid |-> nid,
                                      workflowBound |-> appType[a] = WORKFLOW]]
          /\ resp' = [resp EXCEPT ![r] = "none"]
          /\ UNCHANGED notifications
    /\ UNCHANGED <<status, appType, appVersion, applicant, appTenant, history, snapshots,
                   versionExists, publishSquare>>

(* Session 2, approve branch (lines 252-353): update sets COMPLETED        *)
(* whatever the status is, an APPROVE history row and an APPROVAL_RESULT    *)
(* notification to the applicant are added, a square snapshot of the       *)
(* version is built from the row read in session 1, and publish_square is  *)
(* set on the source row (an UPDATE that matches no row once it is gone).  *)
(* One commit; then the request's notification is marked handled.         *)
SnapshotKind(a) == IF appType[a] = WORKFLOW THEN "workflow" ELSE "agent"

\* Mutant: only the WORKFLOW branch materialises a snapshot.
ListedWorkflowOnly(a) == appType[a] = WORKFLOW

\* The WORKFLOW and AGENT branches of the approve path; another stored type
\* takes neither.
Listed(a) == appType[a] \in {WORKFLOW, AGENT}

\* Mutant: the status update without its srv.add_history row.
DecideWithoutHistory(a, act, st) ==
    /\ status' = [status EXCEPT ![a] = st]
    /\ UNCHANGED history

Decide(a, act, st) ==
    /\ status' = [status EXCEPT ![a] = st]
    /\ history' = [history EXCEPT ![a] = Append(@, HistoryRow(a, act, st))]

\* session.add(PublishWorkflow(...)) or session.add(PublishAppModelConfig(...)).
MaterialiseSnapshot(a) ==
    IF Listed(a)
    THEN Append(snapshots, [kind |-> SnapshotKind(a), app |-> a,
                            version |-> appVersion[a], enable |-> TRUE])
    ELSE snapshots

\* Mutant: the AppModelConfig UPDATE of the AGENT branch is missing.
SetPublishSquareWorkflowOnly(a) ==
    IF appType[a] = WORKFLOW /\ versionExists[appVersion[a]]
    THEN publishSquare \cup {appVersion[a]} ELSE publishSquare

\* The UPDATE ... SET publish_square = true on the source row.
SetPublishSquare(a) ==
    IF Listed(a) /\ versionExists[appVersion[a]]
    THEN publishSquare \cup {appVersion[a]} ELSE publishSquare

Approve(r) ==
    LET a == rq[r].app IN
    /\ rq[r].pc = "checked"
    /\ rq[r].approve
    /\ Decide(a, APPROVE, COMPLETED)
    /\ notifications' = MarkDeal(Append(notifications,
            Note("approved", APPROVAL_RESULT, {applicant[a]}, {}, a, appTenant[a])),
            rq[r].nid)
    /\ snapshots' = MaterialiseSnapshot(a)
    /\ publishSquare' = SetPublishSquare(a)
    /\ rq' = [rq EXCEPT ![r] = IdleReq]
    /\ resp' = [resp EXCEPT ![r] = "success"]
    /\ UNCHANGED <<appType, appVersion, applicant, appTenant, versionExists>>

(* Session 2, reject branch (lines 354-388): update sets REJECTED, then    *)
(* add_history reads workflow.tenant_id.  When session 1 did not bind      *)
(* `workflow` (an AGENT or unknown type) this raises UnboundLocalError      *)
(* before the commit, so the session rolls back and the request fails.    *)
Reject(r) ==
    LET a == rq[r].app IN
    /\ rq[r].pc = "checked"
    /\ ~rq[r].approve
    /\ rq' = [rq EXCEPT ![r] = IdleReq]
    /\ \/ /\ rq[r].workflowBound
          /\ Decide(a, REJECT, REJECTED)
          /\ notifications' = MarkDeal(Append(notifications,
                  Note("rejected", APPROVAL_RESULT, {applicant[a]}, {}, a,
                       VersionTenant[appVersion[a]])),
                  rq[r].nid)
          /\ resp' = [resp EXCEPT ![r] = "success"]
       \/ /\ ~rq[r].workflowBound
          /\ resp' = [resp EXCEPT ![r] = "error"]
          /\ UNCHANGED <<status, history, notifications>>
    /\ UNCHANGED <<appType, appVersion, applicant, appTenant, snapshots, versionExists,
                   publishSquare>>

(* The Workflow or AppModelConfig row is deleted elsewhere in the platform. *)
DeleteVersion(v) ==
    /\ versionExists[v]
    /\ versionExists' = [versionExists EXCEPT ![v] = FALSE]
    /\ publishSquare' = publishSquare \ {v}
    /\ UNCHANGED <<status, appType, appVersion, applicant, appTenant, history,
                   notifications, snapshots, rq, resp>>

(* UpdatePublishWorkflowEnableApi / UpdatePublishAppModelConfigEnableApi   *)
(* via update_publish_workflow / update_publish_app_model_config: set the  *)
(* enable flag of one listing and commit.                                  *)
SetEnable(i, b) ==
    /\ snapshots' = [snapshots EXCEPT ![i].enable = b]
    /\ UNCHANGED <<status, appType, appVersion, applicant, appTenant, history,
                   notifications, versionExists, publishSquare, rq, resp>>

(* SystemNotificationClearApi via batch_update_notifications_to_deal: an  *)
(* empty tenant_id is refused (400); otherwise the unhandled notifications  *)
(* of the given types and tenant whose account array contains the caller,  *)
(* or (when roles are given) whose role array contains all of them, are    *)
(* marked handled in one commit.                                           *)
Addressed(n, u, roles) == u \in n.accounts \/ (roles # {} /\ roles \subseteq n.roles)

ClearMatches(n, u, roles, types, tn) ==
    /\ Addressed(n, u, roles)
    /\ n.msgType \in types
    /\ ~n.isDeal
    /\ n.tenant = tn

ClearNotifications(u, roles, types, tn) ==
    /\ tn # ""
    /\ notifications' = [i \in 1..Len(notifications) |->
            IF ClearMatches(notifications[i], u, roles, types, tn)
            THEN [notifications[i] EXCEPT !.isDeal = TRUE]
            ELSE notifications[i]]
    /\ UNCHANGED <<status, appType, appVersion, applicant, appTenant, history,
                   snapshots, versionExists, publishSquare, rq, resp>>

RoleInputs == {{}, {"admin"}, Roles}
TypeSetInputs == {{APPROVAL_TODO}, {APPROVAL_RESULT},
                  {APPROVAL_TODO, APPROVAL_RESULT}}

Next ==
    \/ \E a \in AppIds, u \in Accounts, t \in TypeInputs, v \in Versions,
          tn \in TenantInputs : Submit(a, u, t, v, tn)
    \/ \E r \in Reqs, a \in AppIds, ap \in BOOLEAN,
          nid \in 0..Len(notifications) : Lookup(r, a, ap, nid)
    \/ \E r \in Reqs : Approve(r) \/ Reject(r)
    \/ \E v \in Versions : DeleteVersion(v)
    \/ \E i \in 1..Len(snapshots), b \in BOOLEAN : SetEnable(i, b)
    \/ \E u \in Accounts, roles \in RoleInputs, types \in TypeSetInputs,
          tn \in TenantInputs : ClearNotifications(u, roles, types, tn)

Spec == Init /\ [][Next]_vars

-----------------------------------------------------------------------------
TypeOK ==
    /\ status \in [AppIds -> {NoApp, APPLYING, COMPLETED, REJECTED}]
    /\ appType \in [AppIds -> 0..3]
    /\ appVersion \in [AppIds -> Versions]
    /\ applicant \in [AppIds -> Accounts]
    /\ appTenant \in [AppIds -> TenantInputs]
    /\ \A a \in AppIds : history[a] \in Seq([action : {SUBMIT, APPROVE, REJECT},
                                             to : {APPLYING, COMPLETED, REJECTED}])
    /\ \A i \in DOMAIN notifications :
           notifications[i] \in [title : Titles,
                                 msgType : {APPROVAL_TODO, APPROVAL_RESULT},
                                 accounts : SUBSET Accounts,
                                 roles : SUBSET Roles, app : AppIds,
                                 tenant : TenantInputs, isDeal : BOOLEAN]
    /\ \A i \in DOMAIN snapshots :
           snapshots[i] \in [kind : {"workflow", "agent"}, app : AppIds,
                             version : Versions, enable : BOOLEAN]
    /\ versionExists \in [Versions -> BOOLEAN]
    /\ publishSquare \subseteq Versions
    /\ resp \in [Reqs -> {"none", "success", "fail", "error"}]

ApprovalsOf(a) == {i \in DOMAIN history[a] : history[a][i].action = APPROVE}
SnapshotsOf(a) == {i \in DOMAIN snapshots : snapshots[i].app = a}

(* The status of an application and its history ledger are written in the *)
(* same session: whatever approve and reject requests interleave, the last *)
(* history row of a submitted application records its current status and  *)
(* the first records the submission.                                      *)
HistoryMirrorsStatus ==
    \A a \in AppIds : status[a] # NoApp =>
        /\ history[a][1].action = SUBMIT
        /\ history[a][Len(history[a])].to = status[a]

(* Each committed approval of a workflow or agent application materialises *)
(* exactly one square snapshot of the application's own kind and version:  *)
(* the snapshot and the APPROVE history row share one commit.              *)
SnapshotPerApproval ==
    \A a \in AppIds :
        /\ appType[a] \in {WORKFLOW, AGENT} =>
               Cardinality(SnapshotsOf(a)) = Cardinality(ApprovalsOf(a))
        /\ \A i \in SnapshotsOf(a) :
               /\ snapshots[i].kind = SnapshotKind(a)
               /\ snapshots[i].version = appVersion[a]

(* The publish_square flag of a source Workflow or AppModelConfig row that *)
(* still exists is set exactly when the square holds a snapshot of it.     *)
SquareFlagMatchesSnapshots ==
    \A v \in Versions : versionExists[v] =>
        (v \in publishSquare <=> \E i \in DOMAIN snapshots : snapshots[i].version = v)

ResultsOf(a) == {i \in DOMAIN notifications :
                    /\ notifications[i].app = a
                    /\ notifications[i].title \in {"approved", "rejected"}}
DecisionsOf(a) == {i \in DOMAIN history[a] :
                      history[a][i].action \in {APPROVE, REJECT}}

(* Session 2 writes the decision, its history row and the applicant's      *)
(* result notification and commits once; a reject that raises on the      *)
(* unbound `workflow` rolls all three back.  So every application has as   *)
(* many approved or rejected notifications as decision rows, each in the   *)
(* tenant the handler names: the application's on approve, the version's  *)
(* on reject.                                                              *)
ResultNotificationPerDecision ==
    \A a \in AppIds :
        /\ Cardinality(ResultsOf(a)) = Cardinality(DecisionsOf(a))
        /\ \A i \in ResultsOf(a) :
               notifications[i].tenant =
                   IF notifications[i].title = "approved" THEN appTenant[a]
                   ELSE VersionTenant[appVersion[a]]

-----------------------------------------------------------------------------
(* Spec property 3: approving an application yields exactly one square     *)
(* snapshot; the approve branch of sys-approve never looks at the status.   *)
AtMostOneSnapshotPerApplication ==
    \A a \in AppIds : Cardinality(SnapshotsOf(a)) <= 1
=============================================================================
