SPECIFICATION Spec
CONSTANTS
  MaxPosts = 3
  MaxSent = 3
INVARIANTS TypeOK EndIsPrompt CloseLosesNothing
PROPERTIES TerminateEndsThread ClosedIsUnregistered
