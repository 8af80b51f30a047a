SPECIFICATION Spec
CONSTANTS
  Others = {"Accept"}
  MaxValues = 2
INVARIANTS TypeOK ResponseHeaders
