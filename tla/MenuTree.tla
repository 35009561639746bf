------------------------------ MODULE MenuTree ------------------------------
(***************************************************************************)
(* The menus table and MenuService of services/menu_service.py, reached    *)
(* through controllers/console/workspace/menu.py.  Each request is a       *)
(* thread with its own session: it reads (key and parent checks, the cycle *)
(* walk, the list of children) and commits later, so the reads of one      *)
(* request and the commits of another interleave.  delete_menu with        *)
(* cascade calls itself for every child it read and every call commits on  *)
(* its own; the recursion is the stack of frames of a request.             *)
(***************************************************************************)
EXTENDS Integers, Sequences, FiniteSets

CONSTANTS
    MenuIds,         \* ids the database may hand out to new menus
    Keys,            \* menu_key values
    Threads,         \* concurrent requests
    None,            \* a NULL parent_id
    Keep,            \* a field absent from the update's menu_data
    RecursionLimit   \* Python's recursion limit, in delete_menu frames

ASSUME None \notin MenuIds /\ Keep \notin MenuIds \cup Keys
\* A limit above the depth of any tree of MenuIds is only hit on a cycle.
ASSUME RecursionLimit \in Nat /\ RecursionLimit > Cardinality(MenuIds)

VARIABLES
    menus,      \* ids of the rows of the menus table
    allocated,  \* ids handed out so far (a uuid is never reused)
    parent,     \* menus.parent_id (no foreign key)
    key,        \* menus.menu_key (indexed, not unique)
    active,     \* menus.is_active
    th          \* each request's locals between its reads and its commits

vars == <<menus, allocated, parent, key, active, th>>

Idle == [pc |-> "idle"]

\* db.session.get(Menu, id).parent_id, or None when the row is gone.
ParentOf(c) == IF c \in menus THEN parent[c] ELSE None

(* The menu_id update_menu receives: its only caller, MenuDetailApi.put  *)
(* on the route <uuid:menu_id> (menu.py line 160), hands it a uuid.UUID,  *)
(* a value of another type than the str ids of the JSON body and of the   *)
(* rows, so Python's == between it and any of them is false.  The queries *)
(* that bind it (db.session.get, the key check) convert it through the    *)
(* StringUUID column type and find the row as with a str.                 *)
ArgId(m) == [uuid |-> m]

(* _would_create_cycle (lines 78-87): walk up from parent_id, with the set *)
(* of visited ids, until the walk reaches menu_id, a missing parent or an  *)
(* id it has already visited.                                              *)
RECURSIVE CycleWalk(_, _, _)
CycleWalk(m, cur, visited) ==
    IF cur = None \/ cur \in visited THEN FALSE
    ELSE IF cur = m THEN TRUE
    ELSE CycleWalk(m, ParentOf(cur), visited \cup {cur})

\* Mutant: only the parent and the grandparent are looked at.
WouldCreateCycleTwoLevels(m, p) == p = m \/ ParentOf(p) = m

\* Mutant: the walk starts above the proposed parent.
WouldCreateCycleSkipsParent(m, p) == CycleWalk(m, ParentOf(p), {p})

WouldCreateCycle(m, p) == CycleWalk(m, p, {})

\* Another menu already has key k (the pre-checks of create and update).
KeyTaken(k, m) == \E o \in menus : o # m /\ key[o] = k

\* Mutant: update_menu does not check the new key against other menus.
KeyConflictNever(m, nk) == FALSE

\* update_menu lines 47-54: the new key differs from the menu's own and
\* another menu has it.
KeyConflict(m, nk) == nk # Keep /\ nk # key[m] /\ KeyTaken(nk, m)

\* update_menu lines 57-67: a truthy parent_id must not be the menu
\* itself, must exist and must not close a cycle.
ParentRejected(m, np) ==
    /\ np \in MenuIds
    /\ \/ np = ArgId(m)
       \/ np \notin menus
       \/ WouldCreateCycle(ArgId(m), np)

\* Mutant: parent_id written even when menu_data does not carry it.
NewParentIgnoresKeep(m, np, old) == IF np = old THEN parent[m] ELSE np

(* update_menu lines 70-75: setattr only for the keys menu_data has, and  *)
(* the flush writes a column only if the value differs from the one       *)
(* loaded at the check; otherwise the committed value stays.              *)
NewParent(m, np, old) == IF np = Keep \/ np = old THEN parent[m] ELSE np

Init ==
    /\ menus = {}
    /\ allocated = {}
    /\ parent = [m \in MenuIds |-> None]
    /\ key = [m \in MenuIds |-> None]
    /\ active = [m \in MenuIds |-> FALSE]
    /\ th = [t \in Threads |-> Idle]

-----------------------------------------------------------------------------
(* create_menu (lines 15-39): the key must be unused and a given parent    *)
(* must exist; then the row is inserted and committed.                     *)
\* The bound of the model: a create starts only while a fresh id is left
\* for it and for every create already past its check (uuids never run out).
FreshIdLeft ==
    Cardinality(MenuIds \ allocated) > Cardinality({u \in Threads : th[u].pc = "create"})

CreateCheck(t, k, p) ==
    /\ th[t] = Idle
    /\ FreshIdLeft
    /\ ~KeyTaken(k, None)
    /\ p = None \/ p \in menus
    /\ th' = [th EXCEPT ![t] = [pc |-> "create", key |-> k, parent |-> p]]
    /\ UNCHANGED <<menus, allocated, parent, key, active>>

CreateCommit(t) ==
    /\ th[t].pc = "create"
    /\ \E m \in MenuIds \ allocated :
          /\ menus' = menus \cup {m}
          /\ allocated' = allocated \cup {m}
          /\ parent' = [parent EXCEPT ![m] = th[t].parent]
          /\ key' = [key EXCEPT ![m] = th[t].key]
          /\ active' = [active EXCEPT ![m] = TRUE]
    /\ th' = [th EXCEPT ![t] = Idle]

(* update_menu (lines 42-75): the menu must exist, then the key and parent *)
(* checks; the fields are written at the commit.  A row deleted meanwhile  *)
(* makes the flush match no row (StaleDataError): nothing is written.      *)
UpdateCheck(t, m, nk, np) ==
    /\ th[t] = Idle
    /\ m \in menus
    /\ ~KeyConflict(m, nk)
    /\ ~ParentRejected(m, np)
    /\ th' = [th EXCEPT ![t] = [pc |-> "update", menu |-> m, key |-> nk,
                                parent |-> np, oldKey |-> key[m],
                                oldParent |-> parent[m]]]
    /\ UNCHANGED <<menus, allocated, parent, key, active>>

UpdateCommit(t) ==
    LET m == th[t].menu IN
    /\ th[t].pc = "update"
    /\ IF m \in menus
       THEN /\ parent' = [parent EXCEPT ![m] =
                              NewParent(m, th[t].parent, th[t].oldParent)]
            /\ key' = [key EXCEPT ![m] =
                  IF th[t].key \in {Keep, th[t].oldKey} THEN @ ELSE th[t].key]
       ELSE UNCHANGED <<parent, key>>
    /\ th' = [th EXCEPT ![t] = Idle]
    /\ UNCHANGED <<menus, allocated, active>>

-----------------------------------------------------------------------------
(* delete_menu (lines 90-121).  A frame is one call: the menu it deletes  *)
(* and the children it read and has not yet recursed into.  The request's *)
(* session keeps the rows it loaded until its next commit, so while no    *)
(* commit has happened since a frame read its children (fresh), the get   *)
(* of line 93 returns a child from the identity map even if another       *)
(* request has deleted its row meanwhile.                                 *)
Frame == [menu : MenuIds, pending : SUBSET MenuIds]

\* Mutant: children never stop a delete without cascade.
RefusesDeleteNever(children, cascade) == FALSE

\* Lines 97-99: children and no cascade is a ValueError.
RefusesDelete(children, cascade) == children # {} /\ ~cascade

(* One call of delete_menu(m): RecursionError at the limit, ValueError if *)
(* the menu is not found or has children without cascade; otherwise the   *)
(* children query of line 97 becomes the frame's pending set.  An error   *)
(* ends the whole request, whatever earlier frames have committed.        *)
Enter(m, cascade, stack, fresh) ==
    LET children == {c \in menus : parent[c] = m}
    IN  IF \/ Len(stack) = RecursionLimit
           \/ ~(fresh \/ m \in menus)
           \/ RefusesDelete(children, cascade)
        THEN Idle
        ELSE [pc |-> "delete", cascade |-> cascade, fresh |-> TRUE,
              stack |-> Append(stack, [menu |-> m,
                                       pending |-> IF cascade THEN children
                                                   ELSE {}])]

DeleteStart(t, m, cascade) ==
    /\ th[t] = Idle
    /\ th' = [th EXCEPT ![t] = Enter(m, cascade, <<>>, FALSE)]
    /\ UNCHANGED <<menus, allocated, parent, key, active>>

\* Mutant: the recursive call leaves out cascade=True.
DeleteChildNoCascade(t) ==
    LET st  == th[t].stack
        top == st[Len(st)]
    IN  /\ th[t].pc = "delete"
        /\ top.pending # {}
        /\ \E c \in top.pending :
              th' = [th EXCEPT ![t] =
                       Enter(c, FALSE,
                             [st EXCEPT ![Len(st)].pending = @ \ {c}],
                             th[t].fresh)]
        /\ UNCHANGED <<menus, allocated, parent, key, active>>

(* The loop of lines 104-107: recurse into the next child read.  Python  *)
(* iterates the query's rows in an order the model leaves open.           *)
DeleteChild(t) ==
    LET st  == th[t].stack
        top == st[Len(st)]
    IN  /\ th[t].pc = "delete"
        /\ top.pending # {}
        /\ \E c \in top.pending :
              th' = [th EXCEPT ![t] =
                       Enter(c, TRUE,
                             [st EXCEPT ![Len(st)].pending = @ \ {c}],
                             th[t].fresh)]
        /\ UNCHANGED <<menus, allocated, parent, key, active>>

(* Lines 109-121: delete the menu's role_menus rows and the menu, commit, *)
(* return to the caller.  If another request deleted the row meanwhile    *)
(* the DELETE matches nothing: the flush either warns and goes on, or,    *)
(* when the object was expired by an earlier commit of this request and   *)
(* must be reloaded, raises and ends the request.                         *)
DeleteCommit(t) ==
    LET st  == th[t].stack
        top == st[Len(st)]
        rest == SubSeq(st, 1, Len(st) - 1)
        Return == IF rest = <<>> THEN Idle
                  ELSE [th[t] EXCEPT !.stack = rest, !.fresh = FALSE]
    IN  /\ th[t].pc = "delete"
        /\ top.pending = {}
        /\ menus' = menus \ {top.menu}
        /\ \/ th' = [th EXCEPT ![t] = Return]
           \/ /\ top.menu \notin menus
              /\ ~th[t].fresh
              /\ th' = [th EXCEPT ![t] = Idle]
        /\ UNCHANGED <<allocated, parent, key, active>>

(* batch_update_menu_status (lines 330-347): one UPDATE of is_active for  *)
(* the rows among the ids given, one commit.  The controller refuses an  *)
(* empty list.                                                             *)
BatchUpdateStatus(ids, isActive) ==
    /\ ids # {}
    /\ active' = [m \in MenuIds |->
                    IF m \in ids /\ m \in menus THEN isActive ELSE active[m]]
    /\ UNCHANGED <<menus, allocated, parent, key, th>>

-----------------------------------------------------------------------------
BuildMenuTree(ms) ==
    [roots |-> {m \in ms : parent[m] \notin ms},
     children |-> [m \in ms |-> {c \in ms : parent[c] = m}]]

(* The menus a client finds walking the tree down from its roots, as      *)
(* sort_tree and the recursive collect_menu_keys of the tenant-info       *)
(* handler (workspace/account.py lines 809-816) do.  A walk down from a   *)
(* root never enters a cycle, so the recursion ends.                      *)
RECURSIVE Reached(_, _)
Reached(tree, level) ==
    IF level = {} THEN {}
    ELSE level \cup Reached(tree, UNION {tree.children[m] : m \in level})

TreeMenus(tree) == Reached(tree, tree.roots)

\* get_menu_tree (lines 219-230): the active rows, or all, as a tree.
GetMenuTree(includeInactive) ==
    BuildMenuTree({m \in menus : includeInactive \/ active[m]})

-----------------------------------------------------------------------------
Next ==
    \/ \E t \in Threads :
          \/ \E k \in Keys, p \in MenuIds \cup {None} : CreateCheck(t, k, p)
          \/ CreateCommit(t)
          \/ \E m \in menus, nk \in Keys \cup {Keep},
                np \in MenuIds \cup {None, Keep} : UpdateCheck(t, m, nk, np)
          \/ UpdateCommit(t)
          \/ \E m \in MenuIds, cascade \in BOOLEAN : DeleteStart(t, m, cascade)
          \/ DeleteChild(t)
          \/ DeleteCommit(t)
    \* Ids of no menu in the list change nothing, so the lists drawn are the
    \* non-empty sets of existing menus (a list of only such ids stutters).
    \/ \E ids \in SUBSET menus, isActive \in BOOLEAN :
          BatchUpdateStatus(ids, isActive)

Spec == Init /\ [][Next]_vars

(* A request, once its thread runs, keeps running until it returns: the   *)
(* steps after a request's reads are weakly fair.  New requests and the   *)
(* status updates are the clients' and are not.                           *)
FairSpec ==
    /\ Spec
    /\ \A t \in Threads :
          /\ WF_vars(CreateCommit(t))
          /\ WF_vars(UpdateCommit(t))
          /\ WF_vars(DeleteChild(t) \/ DeleteCommit(t))

-----------------------------------------------------------------------------
ThreadOK(s) ==
    \/ s = Idle
    \/ /\ s.pc = "create"
       /\ s.key \in Keys /\ s.parent \in MenuIds \cup {None}
    \/ /\ s.pc = "update"
       /\ s.menu \in MenuIds
       /\ s.key \in Keys \cup {Keep} /\ s.oldKey \in Keys \cup {None}
       /\ s.parent \in MenuIds \cup {None, Keep}
       /\ s.oldParent \in MenuIds \cup {None}
    \/ /\ s.pc = "delete"
       /\ s.cascade \in BOOLEAN /\ s.fresh \in BOOLEAN
       /\ s.stack \in Seq(Frame)
       /\ 1 <= Len(s.stack) /\ Len(s.stack) <= RecursionLimit

\* Every column holds a value of its type and every request is in a state
\* the handlers can be in.
TypeOK ==
    /\ menus \subseteq allocated /\ allocated \subseteq MenuIds
    /\ parent \in [MenuIds -> MenuIds \cup {None}]
    /\ key \in [MenuIds -> Keys \cup {None}]
    /\ active \in [MenuIds -> BOOLEAN]
    /\ \A t \in Threads : ThreadOK(th[t])

(* The menus of the set A that menu m reaches by following one or more  *)
(* parent pointers without leaving A: the ancestors of m in the graph of   *)
(* the parent pointers between the menus of A, computed as a fixpoint.     *)
RECURSIVE Climb(_, _)
Climb(A, S) ==
    LET T == S \cup ({parent[x] : x \in S} \cap A)
    IN  IF T = S THEN S ELSE Climb(A, T)

AncestorsIn(A, m) == Climb(A, {parent[m]} \cap A)

(* No menu points at a parent that is gone: delete_menu refuses a menu    *)
(* with children unless cascade, and cascade deletes the children first.  *)
NoOrphans == \A c \in menus : parent[c] \in menus \cup {None}

(* menu_key is unique among menus: create_menu and update_menu reject a  *)
(* key another menu has.                                                  *)
UniqueKeys == \A m1, m2 \in menus : m1 # m2 => key[m1] # key[m2]

\* Menu m is its own ancestor: its parent chain runs into a cycle through m.
OnParentCycle(m) == m \in AncestorsIn(menus, m)

\* The active menus.
ActiveMenus == {m \in menus : active[m]}

CycleWalkMatchesReachability ==
    \A m, p \in menus :
        WouldCreateCycle(m, p) <=> m \in {p} \cup AncestorsIn(menus, p)

(* A cascade delete, once delete_menu has found a menu that is not on a  *)
(* parent cycle, ends with that menu deleted: the recursion into the       *)
(* children (lines 102-105) reaches the leaves, every frame commits, and   *)
(* the first call's commit removes the menu.  A menu on a cycle (H16)      *)
(* instead recurses until RecursionError with nothing of the cycle         *)
(* deleted, which is why the premise leaves it out.                        *)
CascadeDeleteRemovesMenu ==
    \A t \in Threads, m \in MenuIds :
        (/\ th[t].pc = "delete" /\ th[t].cascade /\ th[t].stack[1].menu = m
         /\ ~OnParentCycle(m))
            ~> m \notin menus

(* The refinement mapping: the abstract store is the concrete columns;   *)
(* the ids allocated so far and the requests' locals have no abstract     *)
(* counterpart.                                                           *)
Store == INSTANCE MenuStore
              WITH live <- menus, parentOf <- parent, keyOf <- key,
                   activeOf <- active

=============================================================================
