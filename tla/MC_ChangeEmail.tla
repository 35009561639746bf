--------------------------- MODULE MC_ChangeEmail ---------------------------
(* Instantiates ChangeEmail for TLC: two accounts with their own mailboxes, *)
(* a second mailbox of u1's (e3), an address nobody reads (e4), and four    *)
(* token uuids, enough for the full send, check, send-new, check, reset    *)
(* sequence of one account.                                                *)
EXTENDS ChangeEmail, TLC

CONSTANTS u1, u2, e1, e2, e3, e4, t1, t2, t3, t4

MCAccts == {u1, u2}
MCEmails == {e1, e2, e3, e4}
MCInitialEmail == [u \in MCAccts |-> IF u = u1 THEN e1 ELSE e2]
MCOwner == (e1 :> u1) @@ (e2 :> u2) @@ (e3 :> u1) @@ (e4 :> NoOwner)
MCTokenIds == {t1, t2, t3, t4}
=============================================================================
