---- MODULE IdentityProofs ----
(***************************************************************************)
(* Proofs about modules Setup, for any number of callers, any endpoints    *)
(* they call, and any number of crashes, and Accounts, for any number of   *)
(* operations of any kind on the sessions of a user.                       *)
(***************************************************************************)
EXTENDS Setup, Accounts, FiniteSetTheorems, TLAPS

-----------------------------------------------------------------------------
(* Setup: what holds in every state.                                       *)

Working == {"check", "unlink", "create", "commit"}

\* A request past the lock holds it.
LockHeld == \A c \in Caller : step[c] \in Working => lock = c

\* A request that will write an account has seen that there is none, and
\* nobody can have written one since.
NoneYet ==
    \A c \in Caller :
        step[c] \in Working \ {"check"} /\ AccountWritten(c) => admins = {}

AtMostOne == admins = {} \/ \E c \in Caller : admins = {c}

\* A one-step setup that has passed its checks has its master key in force.
KeyBeforeAccount ==
    \A c \in Caller :
        step[c] \in Working \ {"check"} /\ mode.route[c] = "first_admin" => Readable(active)

SetupInv ==
    /\ SetupTypeOK
    /\ LockHeld /\ NoneYet /\ AtMostOne
    /\ KeyBeforeAccount /\ AdminHasKey
    /\ TokenOffered

-----------------------------------------------------------------------------
(* Types.                                                                  *)

\* A file holds nothing, a torn write, or a key or token made so far, and what
\* has been made so far stays so.
LEMMA FilesGrow ==
    ASSUME NEW m \in Nat
    PROVE  /\ m + 1 \in Nat
           /\ 1..m \subseteq 1..(m + 1) /\ m + 1 \in 1..(m + 1)
OBVIOUS

\* A crash leaves types and an unlocked setup behind.
LEMMA DieTyped ==
    ASSUME SetupTypeOK, Die
    PROVE  /\ mode' \in Modes /\ proc' = "down"
           /\ crashes' \in 0..MaxCrashes
           /\ admins' \subseteq Caller /\ legacy' \in BOOLEAN /\ placeholder' \in BOOLEAN
           /\ lock' = None
           /\ step' \in [Caller -> {"idle", "wait", "check", "unlink", "create",
                                    "commit", "done", "failed"}]
           /\ \A c \in Caller : step'[c] \notin Working
           /\ got' = got /\ spent' = spent
BY CrashesAssumption DEF SetupTypeOK, Die, database, Working

\* Every variable keeps its type, and the lock belongs to a request that is
\* still at work.
LEMMA TypeStep ==
    ASSUME SetupTypeOK, [SetupNext]_setupVars
    PROVE  SetupTypeOK'
<1> USE CrashesAssumption, LockAssumption DEF SetupTypeOK
<1>1. CASE EnsureKey
  BY <1>1, FilesGrow DEF EnsureKey, database, requests
<1>2. CASE PromoteAtStart
  BY <1>2 DEF PromoteAtStart, database, requests
<1>3. CASE UnlinkAtStart
  BY <1>3 DEF UnlinkAtStart, database, requests
<1>4. CASE EnsureToken
  BY <1>4, FilesGrow DEF EnsureToken, database
<1>5. CASE TearKey
  BY <1>5, DieTyped DEF TearKey
<1>6. CASE TearPromotion
  BY <1>6, DieTyped DEF TearPromotion
<1>7. CASE TearToken
  BY <1>7, DieTyped DEF TearToken
<1>8. CASE Crash
  BY <1>8, DieTyped DEF Crash, files
<1>9. ASSUME NEW c \in Caller, Call(c) PROVE SetupTypeOK'
  BY <1>9 DEF Call, Go, files, database
<1>10. ASSUME NEW c \in Caller, Lock(c) PROVE SetupTypeOK'
  BY <1>10 DEF Lock, Go, files, database
<1>11. ASSUME NEW c \in Caller, Refuse(c) PROVE SetupTypeOK'
  BY <1>11 DEF Refuse, Go, files, database
<1>12. ASSUME NEW c \in Caller, Pass(c) PROVE SetupTypeOK'
  BY <1>12 DEF Pass, Go, database
<1>13. ASSUME NEW c \in Caller, Unlink(c) PROVE SetupTypeOK'
  BY <1>13 DEF Unlink, Go, database
<1>14. ASSUME NEW c \in Caller, Create(c) PROVE SetupTypeOK'
  BY <1>14 DEF Create, Go, database
<1>15. ASSUME NEW c \in Caller, Migrate(c) PROVE SetupTypeOK'
  BY <1>15 DEF Migrate, Go, files, database
<1>16. ASSUME NEW c \in Caller, Commit(c) PROVE SetupTypeOK'
  BY <1>16 DEF Commit, Go, files
<1>17. ASSUME NEW c \in Caller, Abort(c) PROVE SetupTypeOK'
  BY <1>17 DEF Abort, Go, files, database
<1>18. CASE UNCHANGED setupVars
  BY <1>18 DEF setupVars, files, database, requests
<1> QED
  BY <1>1, <1>2, <1>3, <1>4, <1>5, <1>6, <1>7, <1>8, <1>9, <1>10, <1>11, <1>12,
     <1>13, <1>14, <1>15, <1>16, <1>17, <1>18
  DEF SetupNext, Start, Handle

\* An installation begins without files, keys and requests.
LEMMA InitTyped == SetupInit => SetupTypeOK
<1> SUFFICES ASSUME SetupInit PROVE SetupTypeOK
  OBVIOUS
<1>1. mode \in Modes /\ proc = "down" /\ lock = None /\ admins = {} /\ spent = FALSE
  BY DEF SetupInit
<1>2. made \in Nat /\ crashes \in 0..MaxCrashes
  BY CrashesAssumption DEF SetupInit
<1>3. {active, pending, token} \subseteq {NoFile, Torn} \cup 1..made
  BY DEF SetupInit
<1>4. /\ step \in [Caller -> {"idle"}] /\ got \in [Caller -> {NoFile}]
      /\ legacy \in BOOLEAN /\ placeholder \in BOOLEAN
  BY DEF SetupInit
<1> QED
  BY <1>1, <1>2, <1>3, <1>4 DEF SetupTypeOK

\* Every variable keeps its type, and the lock belongs to a request that is
\* still at work.
THEOREM TypeCorrect == SetupSpec => []SetupTypeOK
<1>1. SetupInit => SetupTypeOK
  BY InitTyped
<1> QED
  BY <1>1, TypeStep, PTL DEF SetupSpec

-----------------------------------------------------------------------------
(* The lock, and the first account.                                        *)

\* The installation starts within the invariant.
LEMMA SetupInvInit == SetupInit => SetupInv
<1> SUFFICES ASSUME SetupInit PROVE SetupInv
  OBVIOUS
<1>1. SetupTypeOK
  BY InitTyped
<1>2. LockHeld /\ NoneYet /\ AtMostOne /\ KeyBeforeAccount /\ AdminHasKey /\ TokenOffered
  BY DEF SetupInit, LockHeld, NoneYet, AtMostOne, KeyBeforeAccount, AdminHasKey,
         TokenOffered, Working
<1> QED
  BY <1>1, <1>2 DEF SetupInv

\* The steps of a start and of a caller who has not locked yet leave the lock,
\* the accounts and the requests at work alone; a crash ends all of them.
LEMMA LockStep ==
    ASSUME SetupInv, [SetupNext]_setupVars
    PROVE  LockHeld'
<1> USE LockAssumption DEF SetupInv, SetupTypeOK, LockHeld, Working, requests, database
<1>1. CASE Start
  BY <1>1 DEF Start, EnsureKey, PromoteAtStart, UnlinkAtStart, EnsureToken
<1>2. CASE TearKey \/ TearPromotion \/ TearToken \/ Crash
  BY <1>2, DieTyped DEF TearKey, TearPromotion, TearToken, Crash
<1>3. ASSUME NEW c \in Caller, Call(c) \/ Lock(c) PROVE LockHeld'
  BY <1>3 DEF Call, Lock, Go
<1>4. ASSUME NEW c \in Caller, Pass(c) \/ Unlink(c) \/ Create(c) \/ Migrate(c)
      PROVE  LockHeld'
  BY <1>4 DEF Pass, Unlink, Create, Migrate, Go
<1>5. ASSUME NEW c \in Caller, Refuse(c) \/ Commit(c) \/ Abort(c) PROVE LockHeld'
  BY <1>5 DEF Refuse, Commit, Abort, Go
<1>6. CASE UNCHANGED setupVars
  BY <1>6 DEF setupVars
<1> QED
  BY <1>1, <1>2, <1>3, <1>4, <1>5, <1>6 DEF SetupNext, Handle

\* Whoever writes an account has checked, under the lock, that there is none.
LEMMA AccountStep ==
    ASSUME SetupInv, [SetupNext]_setupVars
    PROVE  NoneYet' /\ AtMostOne'
<1> USE LockAssumption
    DEF SetupInv, SetupTypeOK, LockHeld, NoneYet, AtMostOne, Working, AccountWritten,
        requests, database
<1>1. CASE Start
  BY <1>1 DEF Start, EnsureKey, PromoteAtStart, UnlinkAtStart, EnsureToken
<1>2. CASE TearKey \/ TearPromotion \/ TearToken \/ Crash
  BY <1>2, DieTyped DEF TearKey, TearPromotion, TearToken, Crash, Die
<1>3. ASSUME NEW c \in Caller, Call(c) \/ Lock(c) \/ Refuse(c) \/ Abort(c)
      PROVE  NoneYet' /\ AtMostOne'
  BY <1>3 DEF Call, Lock, Refuse, Abort, Go
<1>4. ASSUME NEW c \in Caller, Pass(c) PROVE NoneYet' /\ AtMostOne'
  <2>1. AccountWritten(c) => admins = {}
    BY <1>4 DEF Pass, Accepted, FirstAdminMay, RegisterMay, MigrateMay
  <2> QED
    BY <1>4, <2>1 DEF Pass, Go
<1>5. ASSUME NEW c \in Caller, Unlink(c) \/ Create(c) \/ Migrate(c)
      PROVE  NoneYet' /\ AtMostOne'
  BY <1>5 DEF Unlink, Create, Migrate, Go
<1>6. ASSUME NEW c \in Caller, Commit(c) PROVE NoneYet' /\ AtMostOne'
  BY <1>6 DEF Commit, Go
<1>7. CASE UNCHANGED setupVars
  BY <1>7 DEF setupVars
<1> QED
  BY <1>1, <1>2, <1>3, <1>4, <1>5, <1>6, <1>7 DEF SetupNext, Handle

-----------------------------------------------------------------------------
(* The key and the token.                                                  *)

\* The active key file is only written while it holds no key.
LEMMA KeyStep ==
    ASSUME [SetupNext]_setupVars, Readable(active)
    PROVE  active' = active
<1>1. CASE Start
  BY <1>1 DEF Start, EnsureKey, PromoteAtStart, UnlinkAtStart, EnsureToken
<1>2. CASE TearKey \/ TearPromotion \/ TearToken \/ Crash
  BY <1>2 DEF TearKey, TearPromotion, TearToken, Crash, files, Readable
<1>3. ASSUME NEW c \in Caller, Call(c) \/ Handle(c) PROVE active' = active
  BY <1>3 DEF Call, Handle, Lock, Refuse, Pass, Unlink, Create, Migrate, Commit, Abort,
              ConfirmRequired, files
<1> QED
  BY <1>1, <1>2, <1>3 DEF SetupNext, setupVars, files

\* What the one-step setup passes with is a readable key.
LEMMA PassedWithKey ==
    ASSUME SetupInv, NEW c \in Caller, Pass(c), mode.route[c] = "first_admin"
    PROVE  Readable(active')
BY DEF Pass, Accepted, FirstAdminMay, ConfirmRequired, Readable

\* A one-step setup carries its key from its checks to its account.
LEMMA AdminKeyStep ==
    ASSUME SetupInv, [SetupNext]_setupVars
    PROVE  KeyBeforeAccount' /\ AdminHasKey'
<1> USE DEF SetupInv, SetupTypeOK, KeyBeforeAccount, AdminHasKey, Working, requests, database
<1>1. Readable(active) => Readable(active)'
  BY KeyStep DEF Readable
<1>2. mode' = mode
  BY DEF SetupNext, setupVars, Start, EnsureKey, PromoteAtStart, UnlinkAtStart,
         EnsureToken, TearKey, TearPromotion, TearToken, Crash, Die, Call, Handle,
         Lock, Refuse, Pass, Unlink, Create, Migrate, Commit, Abort
<1>3. CASE Start
  BY <1>1, <1>2, <1>3 DEF Start, EnsureKey, PromoteAtStart, UnlinkAtStart, EnsureToken
<1>4. CASE TearKey \/ TearPromotion \/ TearToken \/ Crash
  BY <1>1, <1>2, <1>4, DieTyped DEF TearKey, TearPromotion, TearToken, Crash, Die
<1>5. ASSUME NEW c \in Caller,
             Call(c) \/ Lock(c) \/ Refuse(c) \/ Abort(c) \/ Unlink(c) \/ Create(c) \/ Migrate(c)
      PROVE  KeyBeforeAccount' /\ AdminHasKey'
  BY <1>1, <1>2, <1>5 DEF Call, Lock, Refuse, Abort, Unlink, Create, Migrate, Go
<1>6. ASSUME NEW c \in Caller, Pass(c) PROVE KeyBeforeAccount' /\ AdminHasKey'
  <2>1. mode.route[c] = "first_admin" => Readable(active)'
    BY <1>6, PassedWithKey DEF Readable
  <2> QED
    BY <1>1, <1>2, <1>6, <2>1 DEF Pass, Go
<1>7. ASSUME NEW c \in Caller, Commit(c) PROVE KeyBeforeAccount' /\ AdminHasKey'
  BY <1>1, <1>2, <1>7 DEF Commit, Go
<1>8. CASE UNCHANGED setupVars
  BY <1>8 DEF setupVars, files, Readable
<1> QED
  BY <1>3, <1>4, <1>5, <1>6, <1>7, <1>8 DEF SetupNext, Handle

\* The token file goes only with an account or at a start that needs none, and
\* nothing takes the installation back to needing one.
LEMMA TokenStep ==
    ASSUME SetupInv, [SetupNext]_setupVars
    PROVE  TokenOffered'
<1> USE FilesAssumption
    DEF SetupInv, SetupTypeOK, TokenOffered, NeedsBootstrap, requests, database, files
<1>1. CASE EnsureKey \/ PromoteAtStart \/ UnlinkAtStart
  BY <1>1 DEF EnsureKey, PromoteAtStart, UnlinkAtStart
<1>2. CASE EnsureToken
  BY <1>2 DEF EnsureToken
<1>3. CASE TearKey \/ TearPromotion \/ TearToken \/ Crash
  BY <1>3 DEF TearKey, TearPromotion, TearToken, Crash, Die
<1>4. ASSUME NEW c \in Caller, Call(c) \/ Handle(c) PROVE TokenOffered'
  BY <1>4 DEF Call, Handle, Lock, Refuse, Pass, Unlink, Create, Migrate, Commit, Abort
<1>5. CASE UNCHANGED setupVars
  BY <1>5 DEF setupVars
<1> QED
  BY <1>1, <1>2, <1>3, <1>4, <1>5 DEF SetupNext, Start

-----------------------------------------------------------------------------
\* The invariant holds throughout.
LEMMA SetupInductive == SetupSpec => []SetupInv
<1>1. SetupInv /\ [SetupNext]_setupVars => SetupInv'
  BY TypeStep, LockStep, AccountStep, AdminKeyStep, TokenStep DEF SetupInv
<1> QED
  BY <1>1, SetupInvInit, PTL DEF SetupSpec

\* However many callers and endpoints race for it, through crashes and
\* restarts, an installation gets at most one first administrator.
THEOREM FirstAdminUnique == SetupSpec => []OneFirstAdmin
<1>1. SetupInv => OneFirstAdmin
  <2> SUFFICES ASSUME SetupInv PROVE Cardinality(admins) <= 1
    BY DEF OneFirstAdmin
  <2>1. CASE admins = {}
    BY <2>1, FS_EmptySet
  <2>2. CASE \E c \in Caller : admins = {c}
    BY <2>2, FS_Singleton
  <2> QED
    BY <2>1, <2>2 DEF SetupInv, AtMostOne
<1> QED
  BY <1>1, SetupInductive, PTL

\* Whoever got in through the one-step setup has a usable master key.
THEOREM AdminsHaveKey == SetupSpec => []AdminHasKey
BY SetupInductive, PTL DEF SetupInv

\* A running process that still needs its first account offers a token or has
\* spent it itself.
THEOREM TokenIsOffered == SetupSpec => []TokenOffered
BY SetupInductive, PTL DEF SetupInv

\* No start, crash, promotion or request ever replaces a key in force.
THEOREM KeysAreStable == SetupSpec => KeyStable
<1>1. [SetupNext]_setupVars => [Readable(active) => active' = active]_setupVars
  BY KeyStep
<1> QED
  BY <1>1, PTL DEF SetupSpec, KeyStable

-----------------------------------------------------------------------------
(* Accounts: what holds in every state.                                    *)

\* Resets that have changed the password.
ResetsDone == {o \in Op : does[o] = "reset" /\ at[o] = "done"}

\* Types.  The password counts the resets; a session goes back to a password
\* the user has had.
Typed ==
    /\ does \in [Op -> Operation]
    /\ user \in BOOLEAN
    /\ userLock \in Token
    /\ password = 1 + Cardinality(ResetsDone)
    /\ tokens \subseteq Token
    /\ root \in [Token -> Nat]
    /\ deleting \in [Token -> Token]
    /\ at \in [Op -> {"idle", "find", "remove", "purge", "purging", "issue", "commit", "done",
                   "refused"}]
    /\ with \in [Op -> Nat \cup Token]
    /\ sees \in [Op -> SUBSET Token]
    /\ dead \subseteq Op

\* Only an operation that is done has issued its token, and it stands on a
\* password the user has had.
Issued ==
    /\ \A o \in Op : o \in tokens => at[o] = "done"
    /\ \A t \in tokens : root[t] \in 1..password
    /\ \A o \in Op :
         /\ at[o] \in {"find", "issue"} => does[o] \in {"login", "refresh"}
         /\ at[o] = "remove" => does[o] \in {"refresh", "logout"}
         /\ at[o] = "issue" \/ (at[o] = "remove" /\ does[o] = "refresh") =>
              root[o] \in 1..password
         /\ does[o] = "login" /\ at[o] # "idle" => with[o] \in 1..password

\* A token once presented is some operation's that is done, or the first one.
Presented ==
    \A o \in Op : does[o] \in {"refresh", "logout"} /\ at[o] # "idle" =>
        with[o] \in {Free} \cup {p \in Op : at[p] = "done"}

\* A deletion of the user has the row from its start, has every token in its
\* snapshot while it waits for them, and then every token until its COMMIT.
DeletionHolds ==
    /\ \A o \in Op : at[o] = "purging" /\ does[o] = "delete" =>
         userLock = o /\ tokens \subseteq sees[o]
    /\ \A o \in Op : at[o] = "commit" /\ does[o] = "delete" =>
         userLock = o /\ \A t \in tokens : deleting[t] = o
    /\ userLock # Free => at[userLock] \in {"purging", "commit"} /\ does[userLock] = "delete"

\* What was gone when a refresh began stays gone.
DeadStaysDead ==
    \A o \in dead : does[o] = "refresh" =>
        at[o] \in {"find", "refused"} /\ with[o] \notin tokens

AccountsInv ==
    /\ Typed
    /\ Issued /\ Presented /\ DeletionHolds /\ DeadStaysDead
    /\ ~user => tokens = {}

-----------------------------------------------------------------------------
\* The resets that are done can be counted.
LEMMA ResetsFinite == IsFiniteSet(ResetsDone) /\ Cardinality(ResetsDone) \in Nat
BY OpAssumption, FS_Subset, FS_CardinalityType DEF ResetsDone

\* The password has a number, from 1 on.
LEMMA PasswordPositive == Typed => password \in Nat /\ 1 <= password
BY ResetsFinite DEF Typed

\* A user with one session and no operation under way is within the invariant.
LEMMA AccountsInvInit == AccountsInit => AccountsInv
<1> SUFFICES ASSUME AccountsInit PROVE AccountsInv
  OBVIOUS
<1> USE FreeAssumption
<1>1. Typed
  <2>1. ResetsDone = {}
    BY DEF AccountsInit, ResetsDone
  <2>2. Cardinality(ResetsDone) = 0
    BY <2>1, FS_EmptySet
  <2>3. does \in [Op -> Operation]
    BY MixturesAssumption DEF AccountsInit
  <2> QED
    BY <2>2, <2>3 DEF AccountsInit, Typed, Token
<1>2. Issued /\ Presented /\ DeletionHolds /\ DeadStaysDead
  BY DEF AccountsInit, Issued, Presented, DeletionHolds, DeadStaysDead, Token
<1> QED
  BY <1>1, <1>2 DEF AccountsInv, AccountsInit

\* One reset more that is done.
LEMMA OneMoreReset ==
    ASSUME Typed, NEW o \in Op, at[o] # "done", does' = does,
           at' = [at EXCEPT ![o] = "done"]
    PROVE  Cardinality(ResetsDone') =
             Cardinality(ResetsDone) + IF does[o] = "reset" THEN 1 ELSE 0
<1>1. CASE does[o] = "reset"
  <2>1. ResetsDone' = ResetsDone \cup {o} /\ o \notin ResetsDone
    BY <1>1 DEF ResetsDone, Typed
  <2> QED
    BY <1>1, <2>1, ResetsFinite, FS_AddElement
<1>2. CASE does[o] # "reset"
  <2>1. ResetsDone' = ResetsDone
    BY <1>2 DEF ResetsDone, Typed
  <2> QED
    BY <1>2, <2>1, ResetsFinite
<1> QED
  BY <1>1, <1>2

\* A step to anywhere else does not change how many resets are done.
LEMMA NoMoreResets ==
    ASSUME Typed, NEW o \in Op, NEW label, label # "done", at[o] # "done",
           does' = does, at' = [at EXCEPT ![o] = label]
    PROVE  ResetsDone' = ResetsDone
BY DEF ResetsDone, Typed

-----------------------------------------------------------------------------
(* What each operation does to the invariant.                              *)

\* An operation begins: it takes the password, or a token, of that moment.
LEMMA PresentStep ==
    ASSUME AccountsInv, NEW o \in Op, Present(o) PROVE AccountsInv'
<1> USE FreeAssumption DEF AccountsInv
<1>1. ResetsDone' = ResetsDone
  BY NoMoreResets DEF Present, Move
<1>2. /\ UNCHANGED <<does, user, userLock, password, tokens, deleting, sees, root>>
      /\ at[o] = "idle" /\ at'[o] \in {"find", "remove", "purge"}
      /\ does[o] \in {"login", "refresh"} => at'[o] = "find"
      /\ does[o] = "logout" => at'[o] = "remove"
      /\ does[o] \in {"reset", "delete"} => at'[o] = "purge"
      /\ \A p \in Op : p # o => at'[p] = at[p] /\ with'[p] = with[p]
      /\ at' \in [Op -> {"find", "remove", "purge"} \cup {at[p] : p \in Op}]
  BY DEF Present, Move, Typed
<1>3. /\ does[o] = "login" => with'[o] = password /\ dead' = dead
      /\ does[o] \in {"refresh", "logout"} =>
           /\ with'[o] \in {Free} \cup {p \in Op : at[p] = "done"}
           /\ dead' = dead \/ (dead' = dead \cup {o} /\ with'[o] \notin tokens)
      /\ dead \subseteq dead' /\ dead' \subseteq dead \cup {o}
      /\ with' \in [Op -> Nat \cup Token]
  <2>1. CASE does[o] = "login"
    BY <2>1, PasswordPositive DEF Present, Typed
  <2>2. CASE does[o] \in {"refresh", "logout"}
    <3>1. PICK t \in {Free} \cup {p \in Op : at[p] = "done"} :
             /\ with' = [with EXCEPT ![o] = t]
             /\ dead' = IF t \in tokens THEN dead ELSE dead \cup {o}
      BY <2>2 DEF Present
    <3> QED
      BY <2>2, <3>1 DEF Typed, Token
  <2>3. CASE does[o] \in {"reset", "delete"}
    BY <2>3 DEF Present, Typed
  <2> QED
    BY <2>1, <2>2, <2>3 DEF Typed, Operation
<1>4. Typed'
  BY <1>1, <1>2, <1>3 DEF Typed
<1>5. Issued'
  BY <1>2, <1>3, PasswordPositive DEF Issued, Typed, Operation
<1>6. Presented' /\ DeletionHolds' /\ DeadStaysDead'
  BY <1>2, <1>3 DEF Presented, DeletionHolds, DeadStaysDead, Typed, Token
<1> QED
  BY <1>2, <1>4, <1>5, <1>6

\* A login or refresh finds its user and the token, or is refused.
LEMMA FindStep ==
    ASSUME AccountsInv, NEW o \in Op, Find(o) \/ NotFound(o) PROVE AccountsInv'
<1> USE FreeAssumption DEF AccountsInv
<1>1. ResetsDone' = ResetsDone
  BY NoMoreResets DEF Find, NotFound, Move
<1>2. CASE NotFound(o)
  BY <1>1, <1>2
  DEF NotFound, Move, Typed, Issued, Presented, DeletionHolds, DeadStaysDead, Token
<1>3. CASE Find(o)
  <2>1. /\ UNCHANGED <<does, user, userLock, password, tokens, deleting, with, sees, dead>>
        /\ at[o] = "find" /\ at' = [at EXCEPT ![o] = IF does[o] = "login" THEN "issue" ELSE "remove"]
        /\ does[o] = "login" => with[o] = password
        /\ does[o] # "login" => with[o] \in tokens
    BY <1>3 DEF Find, Known, Move
  <2>2. \E n \in 1..password : root' = [root EXCEPT ![o] = n]
    BY <1>3, PasswordPositive DEF Find, Known, Typed, Issued
  <2>3. PICK n \in 1..password : root' = [root EXCEPT ![o] = n]
    BY <2>2
  <2>4. Typed'
    BY <1>1, <2>1, <2>3, PasswordPositive DEF Typed, Token
  <2>5. Issued'
    BY <2>1, <2>3, PasswordPositive DEF Typed, Issued, Token
  <2>6. Presented' /\ DeletionHolds' /\ DeadStaysDead'
    BY <2>1 DEF Typed, Presented, DeletionHolds, DeadStaysDead, Token
  <2> QED
    BY <2>1, <2>4, <2>5, <2>6
<1> QED
  BY <1>2, <1>3

\* A refresh or logout deletes the token it presented.
LEMMA RemoveStep ==
    ASSUME AccountsInv, NEW o \in Op, Remove(o) PROVE AccountsInv'
<1> USE FreeAssumption DEF AccountsInv
<1>1. ResetsDone' = ResetsDone
  BY NoMoreResets DEF Remove, Move
<1>2. /\ UNCHANGED <<does, user, userLock, password, tokens, with, sees, dead, root>>
      /\ at[o] = "remove"
      /\ at' = [at EXCEPT ![o] = IF does[o] = "refresh" THEN "issue" ELSE "commit"]
  BY DEF Remove, Move
<1>3. /\ deleting' \in [Token -> Token]
      /\ \A t \in tokens : deleting'[t] = deleting[t] \/ deleting[t] \in {Free, o}
  BY DEF Remove, Typed, Token
<1>4. Typed'
  BY <1>1, <1>2, <1>3 DEF Typed
<1>5. Issued' /\ Presented' /\ DeadStaysDead'
  BY <1>2 DEF Typed, Issued, Presented, DeadStaysDead
<1>6. DeletionHolds'
  BY <1>2, <1>3 DEF Typed, Issued, DeletionHolds, Token
<1> QED
  BY <1>2, <1>4, <1>5, <1>6

\* A reset or deletion of the user begins to delete what it sees, deletes what
\* is left of it, or finds no user.
LEMMA PurgeStep ==
    ASSUME AccountsInv, NEW o \in Op, StartPurge(o) \/ Purge(o) \/ NoUser(o)
    PROVE  AccountsInv'
<1> USE FreeAssumption DEF AccountsInv
<1>1. ResetsDone' = ResetsDone
  BY NoMoreResets DEF StartPurge, Purge, NoUser, Move
<1>2. CASE NoUser(o)
  BY <1>1, <1>2
  DEF NoUser, Move, Typed, Issued, Presented, DeletionHolds, DeadStaysDead, Token
<1>3. CASE Purge(o)
  <2>1. Typed'
    BY <1>1, <1>3 DEF Purge, Move, Typed, Token
  <2>2. Issued' /\ Presented' /\ DeadStaysDead'
    BY <1>3 DEF Purge, Move, Typed, Issued, Presented, DeadStaysDead
  <2>3. DeletionHolds'
    BY <1>3 DEF Purge, Move, Typed, DeletionHolds, Token
  <2> QED
    BY <1>3, <2>1, <2>2, <2>3 DEF Purge
<1>4. CASE StartPurge(o)
  <2>1. Typed'
    BY <1>1, <1>4 DEF StartPurge, Move, Typed, Token
  <2>2. Issued' /\ Presented' /\ DeadStaysDead'
    BY <1>4 DEF StartPurge, Move, Typed, Issued, Presented, DeadStaysDead
  <2>3. DeletionHolds'
    BY <1>4 DEF StartPurge, Move, Typed, DeletionHolds, Token
  <2> QED
    BY <1>4, <2>1, <2>2, <2>3 DEF StartPurge
<1> QED
  BY <1>2, <1>3, <1>4

\* A login or refresh writes its new token, as long as the user is there.
LEMMA IssueStep ==
    ASSUME AccountsInv, NEW o \in Op, Issue(o) PROVE AccountsInv'
<1> USE FreeAssumption DEF AccountsInv
<1>1. Cardinality(ResetsDone') = Cardinality(ResetsDone)
  <2>1. does[o] # "reset" /\ at[o] = "issue"
    BY DEF Issue, Issued
  <2>2. Cardinality(ResetsDone') = Cardinality(ResetsDone) + 0
    BY <2>1, OneMoreReset DEF Issue, Move
  <2> QED
    BY <2>2, ResetsFinite
<1>2. Typed'
  BY <1>1 DEF Issue, Move, Kept, Undelete, Typed, Token
<1>3. Issued'
  BY DEF Issue, Move, Kept, Typed, Issued, Token
<1>4. Presented' /\ DeadStaysDead'
  BY DEF Issue, Move, Kept, Typed, Presented, DeadStaysDead, Token
<1>5. DeletionHolds'
  BY DEF Issue, Move, Typed, DeletionHolds
<1> QED
  BY <1>2, <1>3, <1>4, <1>5 DEF Issue

\* A transaction that fails takes its deletions back.
LEMMA UndoStep ==
    ASSUME AccountsInv, NEW o \in Op, ForeignKey(o) \/ GiveUp(o) PROVE AccountsInv'
<1> USE FreeAssumption DEF AccountsInv
<1>1. ResetsDone' = ResetsDone
  BY NoMoreResets DEF ForeignKey, GiveUp, Move
<1>2. Typed'
  BY <1>1 DEF ForeignKey, GiveUp, Move, Undelete, Typed, Token
<1>3. Issued' /\ Presented' /\ DeadStaysDead'
  BY DEF ForeignKey, GiveUp, Move, Typed, Issued, Presented, DeadStaysDead
<1>4. DeletionHolds'
  BY DEF ForeignKey, GiveUp, Move, Undelete, Typed, DeletionHolds, Token
<1> QED
  BY <1>2, <1>3, <1>4 DEF ForeignKey, GiveUp

\* A transaction commits: only now does a reset change the password.
LEMMA EndStep ==
    ASSUME AccountsInv, NEW o \in Op, End(o) PROVE AccountsInv'
<1> USE FreeAssumption DEF AccountsInv
<1>1. Cardinality(ResetsDone') =
        Cardinality(ResetsDone) + IF does[o] = "reset" THEN 1 ELSE 0
  BY OneMoreReset DEF End, Move
<1>2. password' = 1 + Cardinality(ResetsDone')
  BY <1>1, ResetsFinite DEF End, Typed
<1>3. Typed'
  BY <1>2 DEF End, Move, Kept, Undelete, Typed, Token
<1>4. password' \in Nat /\ password <= password'
  BY PasswordPositive DEF End
<1>5. Issued'
  BY <1>4, PasswordPositive DEF End, Move, Kept, Typed, Issued
<1>6. Presented' /\ DeadStaysDead'
  BY DEF End, Move, Kept, Typed, Presented, DeadStaysDead
<1>7. DeletionHolds'
  BY DEF End, Move, Kept, Undelete, Typed, DeletionHolds, Token
<1>8. ~user' => tokens' = {}
  BY DEF End, Kept, DeletionHolds, Typed
<1> QED
  BY <1>3, <1>5, <1>6, <1>7, <1>8

\* The invariant holds throughout.
LEMMA AccountsInductive == AccountsSpec => []AccountsInv
<1>1. AccountsInv /\ [AccountsNext]_accountsVars => AccountsInv'
  <2> SUFFICES ASSUME AccountsInv, [AccountsNext]_accountsVars PROVE AccountsInv'
    OBVIOUS
  <2>1. CASE UNCHANGED accountsVars
    BY <2>1
    DEF accountsVars, AccountsInv, Typed, Issued, Presented, DeletionHolds, DeadStaysDead, ResetsDone
  <2> QED
    BY <2>1, PresentStep, FindStep, RemoveStep, PurgeStep, IssueStep, UndoStep, EndStep
    DEF AccountsNext
<1> QED
  BY <1>1, AccountsInvInit, PTL DEF AccountsSpec

-----------------------------------------------------------------------------
\* Every session belongs to a user who exists and goes back to a password the
\* user has had: nothing races past the deletion of the user.
THEOREM SessionsHaveUser == AccountsSpec => []SessionsOfUser
<1>1. AccountsInv => SessionsOfUser
  <2> SUFFICES ASSUME AccountsInv PROVE SessionsOfUser
    OBVIOUS
  <2>1. password \in 1..(Cardinality(Op) + 1)
    <3>1. /\ Cardinality(ResetsDone) <= Cardinality(Op)
          /\ Cardinality(Op) \in Nat
      BY OpAssumption, FS_Subset, FS_CardinalityType DEF ResetsDone
    <3> QED
      BY <3>1, ResetsFinite DEF AccountsInv, Typed
  <2> QED
    BY <2>1 DEF AccountsInv, Typed, Issued, SessionsOfUser, Token
<1> QED
  BY <1>1, AccountsInductive, PTL

\* A token that was gone before a refresh began buys nothing.
THEOREM DeadTokensRefused == AccountsSpec => []DeadTokenRefused
<1>1. AccountsInv => DeadTokenRefused
  BY DEF AccountsInv, DeadStaysDead, DeadTokenRefused
<1> QED
  BY <1>1, AccountsInductive, PTL
====
