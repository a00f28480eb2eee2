SPECIFICATION Spec
CONSTANTS
  Start <- Starts0
  ItemsOf <- Items
  MaxItems <- Limits
CHECK_DEADLOCK FALSE
INVARIANT SameSystemPromptSkipsPrefill
