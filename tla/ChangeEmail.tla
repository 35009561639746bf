---------------------------- MODULE ChangeEmail ----------------------------
(***************************************************************************)
(* The three-step email change of controllers/console/workspace/account.py *)
(* (ChangeEmailSendEmailApi, ChangeEmailCheckApi, ChangeEmailResetApi) and  *)
(* the change-email tokens they keep in Redis through AccountService.       *)
(*                                                                         *)
(* A token is a uuid returned in the response to the caller who asked for *)
(* it, so only that caller (its holder) ever presents it; its data are the *)
(* email the verification code was mailed to, the old email and the code. *)
(* Knowing the code is abstracted as owning the mailbox of the token's     *)
(* email: only the mailbox's owner can answer a check correctly, anyone    *)
(* can answer it wrongly.  Each account sends its requests one after the   *)
(* other, and requests of different accounts interleave; the reset is     *)
(* split where its checks end and update_account_email commits.            *)
(***************************************************************************)
EXTENDS Naturals, FiniteSets

CONSTANTS
    Accts,          \* logged-in, initialized accounts
    Emails,         \* addresses a client may submit
    InitialEmail,   \* accounts.email of each account at the start
    Owner,          \* who reads each mailbox (an account or NoOwner)
    NoOwner,
    Unused,         \* a uuid not handed out yet
    Gone,           \* a token revoked, or expired by its Redis TTL (uuids are not reused)
    TokenIds,       \* uuids AccountService may hand out as tokens
    MaxErrors       \* the error count at which is_change_email_error_rate_limit refuses

ASSUME InitialEmail \in [Accts -> Emails]
ASSUME Owner \in [Emails -> Accts \cup {NoOwner}]
ASSUME MaxErrors \in Nat \ {0}

VARIABLES
    email,     \* accounts.email
    token,     \* the Redis change-email token of each uuid: Unused, Gone or its data
    errors,    \* the change-email error count of each address
    verified,  \* history: <<account, address>> whose code the account answered in a check
    th         \* the reset request of each account, between its checks and its commit

vars == <<email, token, errors, verified, th>>

TokenData == [holder : Accts, email : Emails, old : Emails]

Idle == [pc |-> "idle", new |-> CHOOSE e \in Emails : TRUE]

Live(t, u) == token[t] \in TokenData /\ token[t].holder = u

\* AccountService.generate_change_email_token on a fresh uuid.
Issue(u, e, old) ==
    \E t \in TokenIds :
        /\ token[t] = Unused
        /\ token' = [token EXCEPT ![t] = [holder |-> u, email |-> e, old |-> old]]

\* AccountService.check_email_unique: no account has the address.
CheckEmailUnique(e) == \A a \in Accts : email[a] # e

Init ==
    /\ email = InitialEmail
    /\ token = [t \in TokenIds |-> Unused]
    /\ errors = [e \in Emails |-> 0]
    /\ verified = {}
    /\ th = [u \in Accts |-> Idle]

-----------------------------------------------------------------------------
(* ChangeEmailSendEmailApi.post without phase "new_email": the account    *)
(* with the submitted email is looked up (scalar_one_or_none: none raises *)
(* AccountNotFound, two raise MultipleResultsFound), and a token with      *)
(* email and old email both the submitted one is issued to the caller; the *)
(* code goes to that mailbox.                                              *)
SendOldEmail(u, e) ==
    /\ th[u] = Idle
    /\ Cardinality({a \in Accts : email[a] = e}) = 1
    /\ Issue(u, e, e)
    /\ UNCHANGED <<email, errors, verified, th>>

(* Phase "new_email": the presented token must still be there and name the *)
(* caller's current email; a token for the new address, with the caller's  *)
(* email as the old one, is issued and its code mailed to the new address. *)
SendNewEmail(u, e, t) ==
    /\ th[u] = Idle
    /\ Live(t, u)
    /\ token[t].email = email[u]
    /\ Issue(u, e, email[u])
    /\ UNCHANGED <<email, errors, verified, th>>

(* ChangeEmailCheckApi.post: refused once the address has MaxErrors wrong *)
(* codes; the token must be there and carry the submitted email.  A wrong *)
(* code adds one to the error count.  The right code revokes the token,    *)
(* issues a new one with the same email and old email, and resets the     *)
(* count.                                                                  *)
CheckWrongCode(u, t) ==
    /\ th[u] = Idle
    /\ Live(t, u)
    /\ errors[token[t].email] < MaxErrors
    /\ errors' = [errors EXCEPT ![token[t].email] = @ + 1]
    /\ UNCHANGED <<email, token, verified, th>>

CheckRightCode(u, t) ==
    LET e == token[t].email IN
    /\ th[u] = Idle
    /\ Live(t, u)
    /\ errors[e] < MaxErrors
    /\ Owner[e] = u
    /\ \E n \in TokenIds :
          /\ token[n] = Unused
          /\ token' = [token EXCEPT ![t] = Gone,
                                    ![n] = [holder |-> u, email |-> e, old |-> token[t].old]]
    /\ errors' = [errors EXCEPT ![e] = 0]
    /\ verified' = verified \cup {<<u, e>>}
    /\ UNCHANGED <<email, th>>

(* ChangeEmailResetApi.post up to update_account_email: the new email must *)
(* be free; the token must be there, and is revoked; the caller's email    *)
(* must be the token's old email, else AccountNotFound.  Nothing compares  *)
(* the new email with the token's email, nor tells a checked token from    *)
(* one that was only sent.                                                 *)
ResetCheck(u, e, t) ==
    /\ th[u] = Idle
    /\ CheckEmailUnique(e)
    /\ Live(t, u)
    /\ token' = [token EXCEPT ![t] = Gone]
    /\ th' = [th EXCEPT ![u] = IF email[u] = token[t].old
                                THEN [pc |-> "reset", new |-> e] ELSE Idle]
    /\ UNCHANGED <<email, errors, verified>>

(* update_account_email commits the new address.                           *)
ResetCommit(u) ==
    /\ th[u].pc = "reset"
    /\ email' = [email EXCEPT ![u] = th[u].new]
    /\ th' = [th EXCEPT ![u] = Idle]
    /\ UNCHANGED <<token, errors, verified>>

(* Redis drops a token or an error count when its TTL runs out.            *)
TokenExpires(t) ==
    /\ token[t] \in TokenData
    /\ token' = [token EXCEPT ![t] = Gone]
    /\ UNCHANGED <<email, errors, verified, th>>

ErrorCountExpires(e) ==
    /\ errors[e] > 0
    /\ errors' = [errors EXCEPT ![e] = 0]
    /\ UNCHANGED <<email, token, verified, th>>

Next ==
    \/ \E u \in Accts :
          \/ \E e \in Emails : SendOldEmail(u, e)
          \/ \E e \in Emails, t \in TokenIds : SendNewEmail(u, e, t) \/ ResetCheck(u, e, t)
          \/ \E t \in TokenIds : CheckWrongCode(u, t) \/ CheckRightCode(u, t)
          \/ ResetCommit(u)
    \/ \E t \in TokenIds : TokenExpires(t)
    \/ \E e \in Emails : ErrorCountExpires(e)

Spec == Init /\ [][Next]_vars

-----------------------------------------------------------------------------
TypeOK ==
    /\ email \in [Accts -> Emails]
    /\ token \in [TokenIds -> TokenData \cup {Unused, Gone}]
    /\ errors \in [Emails -> 0..MaxErrors]
    /\ verified \subseteq Accts \times Emails
    /\ th \in [Accts -> [pc : {"idle", "reset"}, new : Emails]]

(* Spec 4.8: the reset consumes the token the check step issued, which     *)
(* carries the verified email.  So an account's email changes only to an   *)
(* address whose code that account answered in ChangeEmailCheckApi.        *)
EmailChangesOnlyToVerifiedAddress ==
    [][\A u \in Accts : email'[u] # email[u] => <<u, email'[u]>> \in verified]_vars
=============================================================================
