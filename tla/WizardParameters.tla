-------------------------- MODULE WizardParameters ---------------------------
(***************************************************************************)
(* The constants shared by the modules of the remediation wizard.          *)
(***************************************************************************)
EXTENDS Naturals, FiniteSets

CONSTANTS
    Sessions,       \* tokens of wizard sessions
    Actions,        \* action ids: one per accepted POST /authorize
    Cands,          \* the fix candidates of the scanned repository
    Viewers,        \* browser tabs that follow an action's event stream
    NoAction,       \* a session that has not been authorized yet; no tab open
    NoSession,      \* no session carries the action id looked up
    Slots,          \* settings.mode_c_concurrency
    MayLeave,       \* a browser may close or reload a page with an open stream
    MayCrash,       \* the process may stop and start again
    DbMayFail,      \* a mirrored write may raise (the database is locked)
    TailMayFail     \* the steps after scan_complete may raise

ASSUME SlotsAssumption == Slots \in Nat \ {0}

ASSUME NoneAssumption == NoAction \notin Actions /\ NoSession \notin Sessions

ASSUME SwitchAssumption == {MayLeave, MayCrash, DbMayFail, TailMayFail} \subseteq BOOLEAN
==============================================================================
