---- MODULE Setup ----
(***************************************************************************)
(* The first start of an installation: the master key files, the bootstrap *)
(* token file, and the requests that create the first account.             *)
(*                                                                         *)
(* Files and database are not one transaction.  A file operation is done   *)
(* when it is executed, an account only when its transaction commits, and  *)
(* the process may die between any two of them, or while it writes a file. *)
(* The setup requests of one process interleave at their awaits; they share *)
(* an advisory lock, held to the end of the transaction.                   *)
(***************************************************************************)
EXTENDS Naturals, FiniteSets

CONSTANTS
    Caller,             \* setup requests
    Modes,              \* settings, and which endpoint each caller calls
    None,
    NoFile, Torn,       \* a file that is not there; a file cut off by a crash
    MaxCrashes          \* bound: how often the process dies

Endpoint == {"first_admin", "register", "migrate", "initial", "confirm"}
ASSUME ModesAssumption ==
    Modes \subseteq [
        paranoid : BOOLEAN,         \* FREEAI_REQUIRE_BOOTSTRAP_HEADER
        legacySetup : BOOLEAN,      \* settings.legacy_initial_setup
        route : [Caller -> Endpoint],
        takesAdmin : SUBSET Caller] \* who asks for the user name "admin"
ASSUME CrashesAssumption == MaxCrashes \in Nat
ASSUME FilesAssumption ==       \* keys and tokens are numbered
    NoFile \notin Nat /\ Torn \notin Nat /\ NoFile # Torn
ASSUME LockAssumption == None \notin Caller

VARIABLES
    mode,           \* one of Modes, for good
    proc,           \* where the process is in its start, or "up"
    active,         \* .master_key
    pending,        \* .master_key.pending
    token,          \* .bootstrap_token
    made,           \* numbers the keys and tokens generated so far
    crashes,
    admins,         \* committed accounts, named by the request that made them
    legacy,         \* an admin token is configured (hash in app_config, or env)
    placeholder,    \* the account of migration 0013 is there
    lock,           \* holder of the setup lock
    step,           \* where each request is
    got,            \* the bootstrap token each request presents
    spent           \* has a request of this process removed the token file?

files == <<active, pending, token, made>>
database == <<admins, legacy, placeholder>>
requests == <<lock, step, got, spent>>
setupVars == <<mode, proc, files, crashes, database, requests>>

SetupInit ==
    /\ mode \in Modes
    /\ proc = "down"
    /\ active = NoFile /\ pending = NoFile /\ token = NoFile
    /\ made = 0
    /\ crashes = 0
    /\ admins = {}
    /\ legacy \in BOOLEAN /\ placeholder \in BOOLEAN
    /\ placeholder => legacy
    /\ lock = None
    /\ step = [c \in Caller |-> "idle"]
    /\ got = [c \in Caller |-> NoFile]
    /\ spent = FALSE

\* is_master_key_ready, read_pending_..., read_bootstrap_token: an empty file
\* counts as none.
Readable(file) == file \notin {NoFile, Torn}

NeedsBootstrap == admins = {} /\ ~legacy

\* master_key_confirmation_required.
ConfirmRequired == pending # NoFile /\ ~Readable(active)

Die ==
    /\ crashes < MaxCrashes
    /\ crashes' = crashes + 1
    /\ proc' = "down"
    /\ lock' = None
    /\ step' = [d \in Caller |-> IF step[d] \in {"idle", "done"} THEN step[d] ELSE "failed"]
    /\ UNCHANGED <<mode, database, got, spent>>

-----------------------------------------------------------------------------
(* lifespan.  The database is only read here, before anybody is served.    *)

\* Mutant: the start does not look for an active key.
EnsureKeyAlways ==
    /\ proc = "down"
    /\ made' = made + 1
    /\ active' = made'
    /\ pending' = NoFile
    /\ proc' = "token"
    /\ UNCHANGED <<mode, token, crashes, database, requests>>

\* ensure_pending_master_key; a pending key left beside an active one goes.
EnsureKey ==
    /\ proc = "down"
    /\ LET left == IF Readable(active) THEN NoFile ELSE pending IN
         IF active # NoFile \/ left # NoFile
         THEN pending' = left /\ UNCHANGED made
         ELSE made' = made + 1 /\ pending' = made'
    /\ proc' = "promote"
    /\ UNCHANGED <<mode, active, token, crashes, database, requests>>

TearKey ==
    /\ proc = "down" /\ active = NoFile /\ pending = NoFile
    /\ pending' = Torn
    /\ Die
    /\ UNCHANGED <<active, token, made>>

\* Default mode, a new or left-over pending key: auto_confirm_pending_master_key
\* writes the active file, then removes the pending one.
PromoteAtStart ==
    /\ proc = "promote"
    /\ IF ~mode.paranoid /\ ~Readable(active) /\ Readable(pending)
       THEN active' = pending /\ proc' = "unlink"
       ELSE UNCHANGED active /\ proc' = "token"
    /\ UNCHANGED <<mode, pending, token, made, crashes, database, requests>>

TearPromotion ==
    /\ proc = "promote" /\ ~mode.paranoid /\ ~Readable(active) /\ Readable(pending)
    /\ active' = Torn
    /\ Die
    /\ UNCHANGED <<pending, token, made>>

UnlinkAtStart ==
    /\ proc = "unlink"
    /\ pending' = NoFile
    /\ proc' = "token"
    /\ UNCHANGED <<mode, active, token, made, crashes, database, requests>>

\* Mutant: the token is only made on a start that also made the key.
EnsureTokenOnce ==
    /\ proc = "token"
    /\ token' = IF ~NeedsBootstrap THEN NoFile
                ELSE IF token # NoFile \/ made > 1 THEN token
                ELSE made + 1
    /\ made' = made + 1
    /\ proc' = "up"
    /\ spent' = FALSE
    /\ UNCHANGED <<mode, active, pending, crashes, database, lock, step, got>>

\* ensure_bootstrap_token, and the process begins to serve.
EnsureToken ==
    /\ proc = "token"
    /\ \/ NeedsBootstrap /\ token = NoFile /\ made' = made + 1 /\ token' = made'
       \/ NeedsBootstrap /\ token # NoFile /\ UNCHANGED <<token, made>>
       \/ ~NeedsBootstrap /\ token' = NoFile /\ UNCHANGED made
    /\ proc' = "up"
    /\ spent' = FALSE
    /\ UNCHANGED <<mode, active, pending, crashes, database, lock, step, got>>

TearToken ==
    /\ proc = "token" /\ NeedsBootstrap /\ token = NoFile
    /\ token' = Torn
    /\ Die
    /\ UNCHANGED <<active, pending, made>>

Crash ==
    /\ proc # "down"
    /\ Die
    /\ UNCHANGED files

-----------------------------------------------------------------------------
(* The setup requests.                                                      *)

Go(c, label) == step' = [step EXCEPT ![c] = label]

\* The caller reads the token from the panel (loopback) or from the log.
Call(c) ==
    /\ proc = "up"
    /\ step[c] = "idle"
    /\ got' = [got EXCEPT ![c] = token]
    /\ Go(c, "wait")
    /\ UNCHANGED <<mode, proc, files, crashes, database, lock, spent>>

\* Mutant: the endpoints forget acquire_setup_lock.
NoLock(c) ==
    /\ step[c] = "wait"
    /\ Go(c, "check")
    /\ UNCHANGED <<mode, proc, files, crashes, database, lock, got, spent>>

\* acquire_setup_lock.
Lock(c) ==
    /\ step[c] = "wait"
    /\ lock = None
    /\ lock' = c
    /\ Go(c, "check")
    /\ UNCHANGED <<mode, proc, files, crashes, database, got, spent>>

TokenOk(c) == Readable(token) /\ got[c] = token

\* _needs_initial_setup, of an installation without provider keys.
NeedsInitial == ~legacy /\ Readable(active) /\ (admins # {} \/ mode.legacySetup)

\* What each endpoint demands before it changes anything.  The caller of a
\* paranoid installation pastes the pending key; otherwise it is confirmed for
\* him.  Both fail when the pending file cannot be read.
FirstAdminMay(c) == admins = {} /\ TokenOk(c) /\ (Readable(active) \/ Readable(pending))
RegisterMay(c) == admins = {} /\ TokenOk(c)
MigrateMay == admins = {} /\ legacy
InitialMay(c) == NeedsInitial /\ TokenOk(c)
ConfirmMay(c) == ConfirmRequired /\ TokenOk(c) /\ Readable(pending)

Accepted(c) ==
    CASE mode.route[c] = "first_admin" -> FirstAdminMay(c)
      [] mode.route[c] = "register" -> RegisterMay(c)
      [] mode.route[c] = "migrate" -> MigrateMay
      [] mode.route[c] = "initial" -> InitialMay(c)
      [] OTHER -> ConfirmMay(c)

Refuse(c) ==
    /\ step[c] = "check"
    /\ ~Accepted(c)
    /\ lock' = None
    /\ Go(c, "failed")
    /\ UNCHANGED <<mode, proc, files, crashes, database, got, spent>>

\* Mutant: the account is created although the key is not active yet.
PassUnready(c) ==
    /\ step[c] = "check"
    /\ Accepted(c)
    /\ Go(c, "create")
    /\ UNCHANGED <<mode, proc, files, crashes, database, lock, got, spent>>

\* The checks pass; a key that waits for confirmation becomes the active one.
Pass(c) ==
    /\ step[c] = "check"
    /\ Accepted(c)
    /\ IF mode.route[c] \in {"first_admin", "confirm"} /\ ConfirmRequired
       THEN active' = pending /\ Go(c, "unlink")
       ELSE UNCHANGED active /\ Go(c, "create")
    /\ UNCHANGED <<mode, proc, pending, token, made, crashes, database, lock, got, spent>>

Unlink(c) ==
    /\ step[c] = "unlink"
    /\ pending' = NoFile
    /\ Go(c, IF mode.route[c] = "confirm" THEN "commit" ELSE "create")
    /\ UNCHANGED <<mode, proc, active, token, made, crashes, database, lock, got, spent>>

\* The INSERT of a user named like the placeholder, which is deleted only
\* afterwards, breaks the UNIQUE constraint; migrate renames it instead.
NameClash(c) ==
    placeholder /\ c \in mode.takesAdmin /\ mode.route[c] \in {"first_admin", "register"}

\* The account is written, and the placeholder's data moved to it, or the token
\* of an administrator; then the token file is removed.  Nothing is committed.
Create(c) ==
    /\ step[c] = "create"
    /\ mode.route[c] # "migrate" /\ ~NameClash(c)
    /\ token' = NoFile /\ spent' = TRUE
    /\ Go(c, "commit")
    /\ UNCHANGED <<mode, proc, active, pending, made, crashes, database, lock, got>>

\* The placeholder is renamed, or an account created; the token file stays.
Migrate(c) ==
    /\ step[c] = "create"
    /\ mode.route[c] = "migrate"
    /\ Go(c, "commit")
    /\ UNCHANGED <<mode, proc, files, crashes, database, lock, got, spent>>

\* COMMIT of an account, of the administrator's token, or of nothing.
AccountWritten(c) == mode.route[c] \in {"first_admin", "register", "migrate"}
AdminTokenWritten(c) == mode.route[c] = "initial"

Commit(c) ==
    /\ step[c] = "commit"
    /\ admins' = IF AccountWritten(c) THEN admins \cup {c} ELSE admins
    /\ placeholder' = (placeholder /\ ~AccountWritten(c))
    /\ legacy' = (legacy \/ AdminTokenWritten(c))
    /\ lock' = None
    /\ Go(c, "done")
    /\ UNCHANGED <<mode, proc, files, crashes, got, spent>>

\* A statement or the COMMIT fails: the database is rolled back, files stay.
Abort(c) ==
    /\ \/ step[c] = "create" /\ NameClash(c)
       \/ step[c] = "commit" /\ crashes < MaxCrashes
    /\ crashes' = IF step[c] = "commit" THEN crashes + 1 ELSE crashes
    /\ lock' = None
    /\ Go(c, "failed")
    /\ UNCHANGED <<mode, proc, files, database, got, spent>>

Start == EnsureKey \/ PromoteAtStart \/ UnlinkAtStart \/ EnsureToken
Handle(c) ==
    Lock(c) \/ Refuse(c) \/ Pass(c) \/ Unlink(c) \/ Create(c) \/ Migrate(c)
    \/ Commit(c) \/ Abort(c)

SetupNext ==
    \/ Start \/ TearKey \/ TearPromotion \/ TearToken \/ Crash
    \/ \E c \in Caller : Call(c) \/ Handle(c)

SetupSpec == SetupInit /\ [][SetupNext]_setupVars

\* The orchestration restarts a pod that died, and a start runs to its end;
\* the requests that were made are carried on.
SetupFairness ==
    /\ WF_setupVars(Start)
    /\ \A c \in Caller : WF_setupVars(Handle(c))

-----------------------------------------------------------------------------
\* Types of the variables; a request that has ended holds no lock.
SetupTypeOK ==
    /\ mode \in Modes
    /\ proc \in {"down", "promote", "unlink", "token", "up"}
    /\ {active, pending, token} \subseteq {NoFile, Torn} \cup 1..made
    /\ made \in Nat /\ crashes \in 0..MaxCrashes
    /\ admins \subseteq Caller /\ legacy \in BOOLEAN /\ placeholder \in BOOLEAN
    /\ lock \in Caller \cup {None}
    /\ lock # None => step[lock] \in {"check", "unlink", "create", "commit"}
    /\ step \in [Caller -> {"idle", "wait", "check", "unlink", "create", "commit",
                            "done", "failed"}]
    /\ got \in [Caller -> {NoFile, Torn} \cup 1..made]
    /\ spent \in BOOLEAN

\* However many callers and endpoints race for it, an installation gets at
\* most one first administrator.
OneFirstAdmin == Cardinality(admins) <= 1

\* Whoever got in through the one-step setup has a usable master key, even when
\* the process died right after, or a confirmation was cut off.
AdminHasKey ==
    \A c \in admins : mode.route[c] = "first_admin" => Readable(active)

\* Once a master key is in force (secrets may have been encrypted with it), no
\* start, crash, promotion or setup request ever replaces it.
KeyStable == [][Readable(active) => active' = active]_setupVars

\* A running process that still needs its first account offers a token, unless
\* a crash cut the file off, or a setup request of this very process used it
\* up: then the next start makes a new one.
TokenOffered ==
    proc = "up" /\ NeedsBootstrap => token # NoFile \/ spent

\* Nothing the process may die of closes the way into an empty installation:
\* there is always a start to come after which somebody is in or can get in,
\* but for files cut off in the middle of a write.
SetupStaysOpen ==
    [](proc = "down" => <>(/\ proc = "up"
                           /\ \/ ~NeedsBootstrap
                              \/ Readable(token) /\ (Readable(active) \/ Readable(pending))
                              \/ Torn \in {pending, token}))
====
