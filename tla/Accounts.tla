---- MODULE Accounts ----
(***************************************************************************)
(* The sessions of one user: refresh tokens in the database, rotated by    *)
(* /refresh, removed by /logout, by a password reset and with the user.    *)
(*                                                                         *)
(* Every operation is one READ COMMITTED transaction.  A row another       *)
(* transaction has deleted but not committed is still found by SELECT; a   *)
(* DELETE waits for it, and then finds nothing; of the rows another        *)
(* transaction inserts meanwhile the DELETE sees none.                     *)
(***************************************************************************)
EXTENDS Naturals, FiniteSets

CONSTANTS
    Op,             \* operations
    Mixtures,       \* functions from Op to what each of them does
    Free            \* nobody has deleted the row

Operation == {"login", "refresh", "logout", "reset", "delete"}
ASSUME MixturesAssumption == Mixtures \subseteq [Op -> Operation]
ASSUME FreeAssumption == Free \notin Op
ASSUME OpAssumption == IsFiniteSet(Op)

VARIABLES
    does,       \* one of Mixtures, for good
    user,       \* does the user exist?
    userLock,   \* transaction that changes or deletes the users row
    password,   \* numbers the passwords the user has had
    tokens,     \* committed refresh tokens
    root,       \* the password a token's session goes back to
    deleting,   \* transaction that has deleted a token
    at,         \* where each operation is
    with,       \* token presented, or the password it was typed with
    sees,       \* tokens in the snapshot of a DELETE that is running
    dead        \* operations that began with a token that was already gone

\* A token is named by the operation that issued it; Free names the session
\* the user starts with.
Token == Op \cup {Free}

accountsVars == <<does, user, userLock, password, tokens, root, deleting, at, with, sees, dead>>

AccountsInit ==
    /\ does \in Mixtures
    /\ user = TRUE
    /\ userLock = Free
    /\ password = 1
    /\ tokens = {Free}
    /\ root = [t \in Token |-> IF t = Free THEN 1 ELSE 0]
    /\ deleting = [t \in Token |-> Free]
    /\ at = [o \in Op |-> "idle"]
    /\ with = [o \in Op |-> 0]
    /\ sees = [o \in Op |-> {}]
    /\ dead = {}

Move(o, label) == at' = [at EXCEPT ![o] = label]

\* The caller presents a token that was handed out some time, or the password
\* that was right when he typed it.
Present(o) ==
    /\ at[o] = "idle"
    /\ CASE does[o] = "login" ->
              with' = [with EXCEPT ![o] = password] /\ UNCHANGED dead
         [] does[o] \in {"refresh", "logout"} ->
              \E t \in {Free} \cup {p \in Op : at[p] = "done" /\ does[p] \in {"login", "refresh"}} :
                 /\ with' = [with EXCEPT ![o] = t]
                 /\ dead' = IF t \in tokens THEN dead ELSE dead \cup {o}
         [] OTHER -> UNCHANGED <<with, dead>>
    /\ Move(o, CASE does[o] \in {"login", "refresh"} -> "find"
                 [] does[o] = "logout" -> "remove"
                 [] OTHER -> "purge")
    /\ UNCHANGED <<does, user, userLock, password, tokens, deleting, sees, root>>

\* Mutant: a signed token is believed without looking it up.
FindNothing(o) ==
    /\ at[o] = "find"
    /\ user
    /\ root' = [root EXCEPT ![o] = IF does[o] = "login" THEN with[o] ELSE root[with[o]]]
    /\ Move(o, IF does[o] = "login" THEN "issue" ELSE "remove")
    /\ UNCHANGED <<does, user, userLock, password, tokens, deleting, with, sees, dead>>

\* find_by_username and verify_password; find_by_hash and find_by_id.
Known(o) == user /\ IF does[o] = "login" THEN with[o] = password ELSE with[o] \in tokens

Find(o) ==
    /\ at[o] = "find"
    /\ Known(o)
    /\ root' = [root EXCEPT ![o] = IF does[o] = "login" THEN with[o] ELSE root[with[o]]]
    /\ Move(o, IF does[o] = "login" THEN "issue" ELSE "remove")
    /\ UNCHANGED <<does, user, userLock, password, tokens, deleting, with, sees, dead>>

NotFound(o) ==
    /\ at[o] = "find"
    /\ ~Known(o)
    /\ Move(o, "refused")
    /\ UNCHANGED <<does, user, userLock, password, tokens, deleting, with, sees, dead, root>>

\* delete_by_hash: nobody asks how many rows it deleted.
Remove(o) ==
    /\ at[o] = "remove"
    /\ deleting[with[o]] \in {Free, o}
    /\ deleting' = IF with[o] \in tokens THEN [deleting EXCEPT ![with[o]] = o] ELSE deleting
    /\ Move(o, IF does[o] = "refresh" THEN "issue" ELSE "commit")
    /\ UNCHANGED <<does, user, userLock, password, tokens, with, sees, dead, root>>

\* The DELETE of delete_all_for_user, or the one of the user, which locks the
\* row before it cascades, begins: it will delete the tokens it sees now.
StartPurge(o) ==
    /\ at[o] = "purge"
    /\ user
    /\ does[o] = "delete" => userLock = Free
    /\ userLock' = IF does[o] = "delete" THEN o ELSE userLock
    /\ sees' = [sees EXCEPT ![o] = tokens]
    /\ Move(o, "purging")
    /\ UNCHANGED <<does, user, password, tokens, deleting, with, dead, root>>

\* It has waited for whoever else had deleted one of them.  The UPDATE of the
\* password comes later: the session flushes it at the commit.
Purge(o) ==
    LET left == sees[o] \cap tokens
    IN  /\ at[o] = "purging"
        /\ \A t \in left : deleting[t] = Free
        /\ deleting' = [t \in Token |-> IF t \in left THEN o ELSE deleting[t]]
        /\ sees' = [sees EXCEPT ![o] = {}]
        /\ Move(o, "commit")
        /\ UNCHANGED <<does, user, userLock, password, tokens, with, dead, root>>

NoUser(o) ==
    /\ at[o] = "purge"
    /\ ~user
    /\ Move(o, "refused")
    /\ UNCHANGED <<does, user, userLock, password, tokens, deleting, with, sees, dead, root>>

Undelete(o) == deleting' = [t \in Token |-> IF deleting[t] = o THEN Free ELSE deleting[t]]
Kept(o) == {t \in tokens : deleting[t] # o}

\* Mutant: no foreign key from refresh_tokens to users.
IssueBlindly(o) ==
    /\ at[o] = "issue"
    /\ tokens' = Kept(o) \cup {o}
    /\ Undelete(o)
    /\ Move(o, "done")
    /\ UNCHANGED <<does, user, userLock, password, root, with, sees, dead>>

\* issue_tokens and the COMMIT, which flushes the INSERT: the foreign key
\* waits for a deletion of the user, and fails after it.
Issue(o) ==
    /\ at[o] = "issue"
    /\ user
    /\ userLock = Free
    /\ tokens' = Kept(o) \cup {o}
    /\ Undelete(o)
    /\ Move(o, "done")
    /\ UNCHANGED <<does, user, userLock, password, root, with, sees, dead>>

ForeignKey(o) ==
    /\ at[o] = "issue"
    /\ ~user
    /\ Undelete(o)
    /\ Move(o, "refused")
    /\ UNCHANGED <<does, user, userLock, password, tokens, with, sees, dead, root>>

\* COMMIT of a logout, a reset or a deletion.
End(o) ==
    /\ at[o] = "commit"
    /\ does[o] = "reset" => user /\ userLock = Free
    /\ tokens' = Kept(o)
    /\ password' = IF does[o] = "reset" THEN password + 1 ELSE password
    /\ user' = (user /\ does[o] # "delete")
    /\ userLock' = IF userLock = o THEN Free ELSE userLock
    /\ Undelete(o)
    /\ Move(o, "done")
    /\ UNCHANGED <<does, with, sees, dead, root>>

\* The transaction fails: everything it did is undone.
GiveUp(o) ==
    /\ at[o] \in {"remove", "purging", "issue", "commit"}
    /\ userLock' = IF userLock = o THEN Free ELSE userLock
    /\ sees' = [sees EXCEPT ![o] = {}]
    /\ Undelete(o)
    /\ Move(o, "refused")
    /\ UNCHANGED <<does, user, password, tokens, with, dead, root>>

AccountsNext ==
    \E o \in Op :
        \/ Present(o) \/ Find(o) \/ NotFound(o) \/ Remove(o) \/ NoUser(o)
        \/ StartPurge(o) \/ Purge(o) \/ Issue(o) \/ ForeignKey(o) \/ End(o) \/ GiveUp(o)

AccountsSpec == AccountsInit /\ [][AccountsNext]_accountsVars

-----------------------------------------------------------------------------
\* Types, and every session belongs to a user who exists: a refresh that has
\* found the user does not leave a token behind when the user is deleted.
SessionsOfUser ==
    /\ password \in 1..(Cardinality(Op) + 1)
    /\ tokens \subseteq Token /\ \A t \in tokens : root[t] \in 1..password
    /\ deleting \in [Token -> Op \cup {Free}]
    /\ ~user => tokens = {}

\* A token that had been rotated, logged out or reset away before a refresh
\* began buys nothing, however many operations run at once.
DeadTokenRefused == \A o \in dead : does[o] = "refresh" => at[o] # "done"

\* A password reset invalidates all refresh tokens of the user: every session
\* that is left goes back to a login with the current password.
ResetEndsSessions == \A t \in tokens : root[t] = password
====
