--------------------------- MODULE PipingWorkspace ---------------------------
(***************************************************************************)
(* piping-workspace.tsx: the workspace of ArchitectureWorkspace for piping *)
(* plans, without a generation: every answer is shown when it comes.  An   *)
(* edit clears the verdict and lets the user run again, so several         *)
(* requests may be under way.                                              *)
(***************************************************************************)
EXTENDS EditHistory

VARIABLES drag,          \* the design a drag began with, if one is under way
          hydrated,      \* the stored draft was loaded, or there is none
          verification,  \* "idle", "running", "passed" or "failed"
          result,        \* the answer shown, if any
          requests       \* the requests under way

workspaceVars == <<historyVars, drag, hydrated, verification, result, requests>>

Init ==
    /\ draft \in Drafts
    /\ history = <<>> /\ future = <<>>
    /\ drag = {}
    /\ hydrated = FALSE
    /\ verification = "idle"
    /\ result = {}
    /\ requests = {}

ClearVerification == verification' = "idle" /\ result' = {}

\* loadDraft resolves, with a stored draft or without one.
Load ==
    /\ ~hydrated
    /\ hydrated' = TRUE
    /\ draft' \in Drafts
    /\ UNCHANGED <<history, future, drag, verification, result, requests>>

Commit ==
    /\ draft' \in Drafts
    /\ SaveStep(draft)
    /\ ClearVerification
    /\ UNCHANGED <<drag, hydrated, requests>>

\* With nothing to undo or redo nothing changes.
Undo ==
    /\ UndoEdit
    /\ ClearVerification
    /\ UNCHANGED <<drag, hydrated, requests>>

Redo ==
    /\ RedoEdit
    /\ ClearVerification
    /\ UNCHANGED <<drag, hydrated, requests>>

BeginDrag ==
    /\ drag' = {draft}
    /\ UNCHANGED <<historyVars, hydrated, verification, result, requests>>

\* pointerMove
DragMove ==
    /\ drag # {}
    /\ draft' \in Drafts
    /\ UNCHANGED <<history, future, drag, hydrated, verification, result, requests>>

\* pointerUp
DragEnd ==
    /\ \E base \in drag : SaveStep(base)
    /\ drag' = {}
    /\ ClearVerification
    /\ UNCHANGED <<draft, hydrated, requests>>

\* runVerification with the engine ready; its button is disabled while it runs.
RunVerification ==
    /\ verification # "running"
    /\ verification' = "running"
    /\ result' = {}
    /\ requests' = requests \cup {[of |-> draft, early |-> ~hydrated]}
    /\ UNCHANGED <<historyVars, drag, hydrated>>

ShowAnswer ==
    /\ \E r \in requests, passed \in BOOLEAN :
         /\ requests' = requests \ {r}
         /\ result' = {[of |-> r.of, passed |-> passed, early |-> r.early]}
         /\ verification' = IF passed THEN "passed" ELSE "failed"
    /\ UNCHANGED <<historyVars, drag, hydrated>>

\* The request fails or times out; an answer shown before stays.
ShowError ==
    /\ \E r \in requests : requests' = requests \ {r}
    /\ verification' = "failed"
    /\ UNCHANGED <<historyVars, drag, hydrated, result>>

Next ==
    \/ Load \/ Commit \/ Undo \/ Redo \/ BeginDrag \/ DragMove \/ DragEnd
    \/ RunVerification \/ ShowAnswer \/ ShowError

Spec == Init /\ [][Next]_workspaceVars
-----------------------------------------------------------------------------
(* Properties *)

\* A pass that is shown and can be downloaded is of the design on the canvas ("Wrong
\* PASS, stale download", growth-and-launch-roadmap.md:317), also without counting
\* designs that were sent before the stored draft was loaded.
PassedIsOfDraft ==
    verification = "passed" /\ drag = {} =>
        \E r \in result : r.passed /\ (r.of = draft \/ r.early)
=============================================================================
