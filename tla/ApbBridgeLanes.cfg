CONSTANTS
  Form = {TRUE}
  None = None
SPECIFICATION Spec
INVARIANT OnlySelectedLanes
