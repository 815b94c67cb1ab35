---- MODULE MCIdentity ----
(***************************************************************************)
(* Setup and Accounts share no variable: a behaviour of this run is one of *)
(* the one or of the other, chosen at the start.                           *)
(***************************************************************************)
EXTENDS Setup, Accounts

CONSTANTS c1, c2, c3, o1, o2, o3

Callers(paranoid, legacySetup, named, e1, e2) ==
    [paranoid |-> paranoid, legacySetup |-> legacySetup, takesAdmin |-> named,
     route |-> [c \in Caller |-> CASE c = c1 -> e1 [] c = c2 -> e2 [] OTHER -> "register"]]

\* Three callers at once, one of them at the register endpoint: the one-step
\* setup against each other endpoint, in default mode and in paranoid mode, and
\* the older endpoints among themselves.
Races ==
    {Callers(p, FALSE, n, "first_admin", e) :
        p \in BOOLEAN, n \in {{}, {c1}}, e \in {"first_admin", "register", "migrate", "confirm"}}
    \cup {Callers(FALSE, TRUE, {}, "first_admin", "initial"),
          Callers(TRUE, TRUE, {}, "confirm", "initial"),
          Callers(TRUE, FALSE, {}, "migrate", "migrate"),
          Callers(TRUE, FALSE, {}, "register", "confirm")}

\* Three operations on the sessions of one user, two of which present tokens.
Mixed ==
    {[o \in Op |-> CASE o = o1 -> a [] o = o2 -> b [] OTHER -> c] :
        a \in {"login", "refresh"}, b \in {"refresh", "logout"}, c \in Operation}
ResetRace == {[o \in Op |-> IF o = o1 THEN "refresh" ELSE "reset"]}
VARIABLE part

mcVars == <<part, setupVars, accountsVars>>

Init ==
    /\ SetupInit /\ AccountsInit
    /\ \/ part = "setup" /\ does = CHOOSE d \in Mixtures : TRUE
       \/ /\ part = "accounts"
          /\ mode = CHOOSE m \in Modes : TRUE
          /\ ~legacy /\ ~placeholder

Next ==
    /\ UNCHANGED part
    /\ \/ part = "setup" /\ SetupNext /\ UNCHANGED accountsVars
       \/ part = "accounts" /\ AccountsNext /\ UNCHANGED setupVars

Spec == Init /\ [][Next]_mcVars
FairSpec == Spec /\ (part = "setup" => SetupFairness)

\* The liveness property of Setup, of the behaviours that are its own.
SetupOpen == part = "setup" => SetupStaysOpen
====
