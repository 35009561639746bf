----------------------------- MODULE MenuStore -----------------------------
(***************************************************************************)
(* What MenuService promises of the menus table, one request at a time     *)
(* through its HTTP routes: a store of uniquely keyed menus, each under no  *)
(* parent or an existing one.  A menu is added under no parent or an       *)
(* existing one; an update may give a menu a new unused key and any        *)
(* existing parent (the route's uuid.UUID menu_id defeats the self-parent   *)
(* and cycle checks, so the menu itself and the menus below it are allowed); *)
(* only a menu without children is removed; the active flags change        *)
(* freely.  MenuTree, the requests with their reads and commits, implements *)
(* it under the mapping of its Store instance.                              *)
(***************************************************************************)
CONSTANTS MenuIds, Keys, None

VARIABLES
    live,       \* the ids of the existing menus
    parentOf,   \* the parent column of each id
    keyOf,      \* the key column of each id
    activeOf    \* the active column of each id

(* The columns of an id outside live are those it had when it was removed *)
(* and constrain nothing: no action reads them.                            *)
store == <<live, parentOf, keyOf, activeOf>>

KeyUnused(k, m) == \A o \in live \ {m} : keyOf[o] # k

Init ==
    /\ live = {}
    /\ parentOf = [m \in MenuIds |-> None]
    /\ keyOf = [m \in MenuIds |-> None]
    /\ activeOf = [m \in MenuIds |-> FALSE]

AddMenu(m, k, p) ==
    /\ m \notin live
    /\ KeyUnused(k, m)
    /\ p \in live \cup {None}
    /\ live' = live \cup {m}
    /\ parentOf' = [parentOf EXCEPT ![m] = p]
    /\ keyOf' = [keyOf EXCEPT ![m] = k]
    /\ activeOf' = [activeOf EXCEPT ![m] = TRUE]

Rearrange(m, k, p) ==
    /\ m \in live
    /\ KeyUnused(k, m)
    /\ p \in live \cup {None}
    /\ parentOf' = [parentOf EXCEPT ![m] = p]
    /\ keyOf' = [keyOf EXCEPT ![m] = k]
    /\ UNCHANGED <<live, activeOf>>

RemoveLeaf(m) ==
    /\ m \in live
    /\ \A c \in live : parentOf[c] # m
    /\ live' = live \ {m}
    /\ UNCHANGED <<parentOf, keyOf, activeOf>>

SetActive(ids, b) ==
    /\ ids \subseteq live
    /\ activeOf' = [m \in MenuIds |-> IF m \in ids THEN b ELSE activeOf[m]]
    /\ UNCHANGED <<live, parentOf, keyOf>>

Next ==
    \/ \E m \in MenuIds \ live, k \in Keys, p \in live \cup {None} :
          AddMenu(m, k, p)
    \/ \E m \in live :
          \/ \E k \in Keys, p \in live \cup {None} : Rearrange(m, k, p)
          \/ RemoveLeaf(m)
    \/ \E ids \in SUBSET live, b \in BOOLEAN : SetActive(ids, b)

Spec == Init /\ [][Next]_store
=============================================================================
