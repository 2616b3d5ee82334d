\* Three designs and a history of two, for answers that come after an edit.
SPECIFICATION Spec
CONSTANTS
  utility = utility
  clash = clash
  edited = edited
  Drafts <- ThreeDrafts
  MaxHistory = 2
INVARIANT PassedIsOfDraft
