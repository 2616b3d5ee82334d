----------------------------- MODULE EditHistory -----------------------------
(***************************************************************************)
(* The undo history of the CAD workspaces of the web application: the      *)
(* draft on the canvas, the drafts before it and the drafts undone.  Both  *)
(* lists are cut to MaxHistory entries whenever they grow.                 *)
(***************************************************************************)
EXTENDS Naturals, Sequences, SequencesExt

CONSTANTS Drafts,     \* the designs a user may draw
          MaxHistory  \* the 50 of slice(-50) and slice(0, 50)

ASSUME HistoryAssumption == MaxHistory \in Nat \ {0}

VARIABLES draft,    \* the design on the canvas
          history,  \* the designs before it, the newest last
          future    \* the designs undone, the next one first

historyVars == <<draft, history, future>>

Newest(s) == IF Len(s) <= MaxHistory THEN s ELSE SubSeq(s, Len(s) - MaxHistory + 1, Len(s))
Oldest(s) == IF Len(s) <= MaxHistory THEN s ELSE SubSeq(s, 1, MaxHistory)

\* Mutant of SaveStep: what was undone can still be done again after an edit.
SaveStepKeepsFuture(base) ==
    /\ history' = Newest(Append(history, base))
    /\ UNCHANGED future

\* An edit of the design base ends: it can be undone, and nothing can be redone.
SaveStep(base) ==
    /\ history' = Newest(Append(history, base))
    /\ future' = <<>>

UndoEdit ==
    /\ history # <<>>
    /\ draft' = Last(history)
    /\ history' = Front(history)
    /\ future' = Oldest(<<draft>> \o future)

RedoEdit ==
    /\ future # <<>>
    /\ draft' = Head(future)
    /\ history' = Newest(Append(history, draft))
    /\ future' = Tail(future)

\* All designs that undoing and redoing can reach, in order.
Timeline == history \o <<draft>> \o future
=============================================================================
