--------------------------- MODULE WizardSessions ----------------------------
(***************************************************************************)
(* The wizard_sessions table (arguss/web/wizard_session.py): where a        *)
(* person is on the way from an assessment to opened pull requests.  Rows   *)
(* are looked up by their token, kept in the browser's cookie, or by the    *)
(* action they started; a row past expires_at is treated as missing.        *)
(***************************************************************************)
EXTENDS WizardParameters

VARIABLE session    \* session[s]: the row with token s

STEP_ASSESSMENT_VIEWED == "assessment"
STEP_SELECTED == "selected"
STEP_AUTHORIZED == "authorized"
STEP_COMPLETED == "completed"
STEP_AUTHORIZE_FAILED == "authorize_failed"

Steps ==
    {STEP_ASSESSMENT_VIEWED, STEP_SELECTED, STEP_AUTHORIZED, STEP_COMPLETED,
     STEP_AUTHORIZE_FAILED}

\* Step "absent" stands for "no such row".
WizardSession ==
    [step : Steps \cup {"absent"}, action : Actions \cup {NoAction}, expired : BOOLEAN,
     selected : SUBSET Cands]

SessionsTypeOK == session \in [Sessions -> WizardSession]

SessionsInit ==
    session = [s \in Sessions |->
        [step |-> "absent", action |-> NoAction, expired |-> FALSE, selected |-> {}]]

\* load_session returns a row.
Loaded(s) == session[s].step # "absent" /\ ~session[s].expired

\* The row find_session_by_action_id returns.
SessionOfAction(a) ==
    LET found == {s \in Sessions : Loaded(s) /\ session[s].action = a}
    IN  IF found = {} THEN NoSession ELSE CHOOSE s \in found : TRUE

\* update_step writes whatever the row holds by then.
UpdateStep(s, step) == session' = [session EXCEPT ![s].step = step]

-----------------------------------------------------------------------------

\* POST /assessment/{scan_hash}/plan
CreateSession(s) ==
    /\ session[s].step = "absent"
    /\ UpdateStep(s, STEP_ASSESSMENT_VIEWED)

\* POST /select with candidates the cached assessment knows.
Select(s, ids) ==
    /\ Loaded(s)
    /\ session[s].step \in {STEP_ASSESSMENT_VIEWED, STEP_SELECTED}
    /\ ids # {}
    /\ session' = [session EXCEPT ![s].selected = ids, ![s].step = STEP_SELECTED]

\* SESSION_TTL has passed.
Expire(s) ==
    /\ Loaded(s)
    /\ session' = [session EXCEPT ![s].expired = TRUE]
==============================================================================
