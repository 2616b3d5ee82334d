------------------------ MODULE ArchitectureWorkspace ------------------------
(***************************************************************************)
(* architecture-workspace.tsx: one user edits a plan, drags its parts,     *)
(* undoes and redoes, and asks the server to verify it.  Answers come when *)
(* they come; verificationGeneration tells an answer whose design was      *)
(* edited since from the one that is awaited.  An event handler runs whole *)
(* before the next one.                                                    *)
(*                                                                         *)
(* Only whether a request has the current generation matters, so a request *)
(* carries that instead of the number.  Panning, zooming and selecting     *)
(* change no draft and are left out; so is the autosave, which only reads. *)
(***************************************************************************)
EXTENDS EditHistory

VARIABLES drag,          \* the design a drag began with, if one is under way
          hydrated,      \* the stored draft was loaded, or there is none
          verification,  \* "idle", "running", "passed" or "failed"
          result,        \* the answer shown, if any
          requests       \* the requests under way

workspaceVars == <<historyVars, drag, hydrated, verification, result, requests>>

WorkspaceInit ==
    /\ draft \in Drafts
    /\ history = <<>> /\ future = <<>>
    /\ drag = {}
    /\ hydrated = FALSE
    /\ verification = "idle"
    /\ result = {}
    /\ requests = {}

\* Mutant of Invalidate: the generation stays.
InvalidateNothing == UNCHANGED requests

\* verificationGeneration.current += 1: no request has the current generation.
Invalidate == requests' = {[r EXCEPT !.current = FALSE] : r \in requests}

\* loadDraft resolves, with a stored draft or without one.
Load ==
    /\ ~hydrated
    /\ hydrated' = TRUE
    /\ draft' \in Drafts
    /\ UNCHANGED <<history, future, drag, verification, result, requests>>

\* commit(next): an edit in the inspector, a preset, a project file.
Commit ==
    /\ draft' \in Drafts
    /\ SaveStep(draft)
    /\ Invalidate
    /\ verification' = "idle"
    /\ result' = {}
    /\ UNCHANGED <<drag, hydrated>>

\* Ctrl+Z and Ctrl+Shift+Z reach undo() and redo() with nothing to undo as well.
Undo ==
    /\ Invalidate
    /\ \/ UndoEdit /\ verification' = "idle"
       \/ history = <<>> /\ UNCHANGED <<historyVars, verification>>
    /\ UNCHANGED <<drag, hydrated, result>>

Redo ==
    /\ Invalidate
    /\ \/ RedoEdit /\ verification' = "idle"
       \/ future = <<>> /\ UNCHANGED <<historyVars, verification>>
    /\ UNCHANGED <<drag, hydrated, result>>

BeginDrag ==
    /\ drag' = {draft}
    /\ UNCHANGED <<historyVars, hydrated, verification, result, requests>>

\* pointerMove
DragMove ==
    /\ drag # {}
    /\ draft' \in Drafts
    /\ Invalidate
    /\ UNCHANGED <<history, future, drag, hydrated, verification, result>>

\* pointerUp
DragEnd ==
    /\ \E base \in drag : SaveStep(base)
    /\ drag' = {}
    /\ verification' = "idle"
    /\ result' = {}
    /\ UNCHANGED <<draft, hydrated, requests>>

\* runVerification with the engine ready; its button is disabled while it runs.
RunVerification ==
    /\ verification # "running"
    /\ verification' = "running"
    /\ result' = {}
    /\ requests' = {[r EXCEPT !.current = FALSE] : r \in requests}
                     \cup {[of |-> draft, current |-> TRUE, early |-> ~hydrated]}
    /\ UNCHANGED <<historyVars, drag, hydrated>>

\* An answer of another generation is dropped.
DropAnswer ==
    /\ \E r \in requests : ~r.current /\ requests' = requests \ {r}
    /\ UNCHANGED <<historyVars, drag, hydrated, verification, result>>

ShowAnswer ==
    /\ \E r \in requests, passed \in BOOLEAN :
         /\ r.current
         /\ requests' = requests \ {r}
         /\ result' = {[of |-> r.of, passed |-> passed, early |-> r.early]}
         /\ verification' = IF passed THEN "passed" ELSE "failed"
    /\ UNCHANGED <<historyVars, drag, hydrated>>

\* The request fails or times out.
ShowError ==
    /\ \E r \in requests : r.current /\ requests' = requests \ {r}
    /\ verification' = "failed"
    /\ UNCHANGED <<historyVars, drag, hydrated, result>>

WorkspaceNext ==
    \/ Load \/ Commit \/ Undo \/ Redo \/ BeginDrag \/ DragMove \/ DragEnd
    \/ RunVerification \/ DropAnswer \/ ShowAnswer \/ ShowError

WorkspaceSpec == WorkspaceInit /\ [][WorkspaceNext]_workspaceVars
-----------------------------------------------------------------------------
(* Properties *)

\* "VERIFIED / PASS", and with it the download, stand for the design on the canvas,
\* whatever was edited, undone or sent again while the answer was on its way.  Two
\* exceptions: while a drag is under way, and when the design was sent before the
\* stored draft was loaded.
PassedIsOfDraft ==
    verification = "passed" =>
        \E r \in result : r.passed /\ (r.of = draft \/ drag # {} \/ r.early)

\* Undoing and redoing loses no design, at the limit of the history either.
UndoLosesNothing == [][Undo \/ Redo => Timeline' = Timeline]_workspaceVars
=============================================================================
