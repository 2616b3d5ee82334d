\* Three designs and a history of two.
SPECIFICATION WorkspaceSpec
CONSTANTS
  studio = studio
  openLoop = openLoop
  edited = edited
  Drafts <- ThreeDrafts
  MaxHistory = 2
INVARIANTS PassedIsOfDraft
PROPERTY UndoLosesNothing
