SPECIFICATION Spec
CONSTANTS
  messy = messy
  tidy = tidy
  other = other
  NoFile = NoFile
  Torn = Torn
  Contents <- MCContents
  Format <- MCFormat
  Allowed <- AllOptions
  Failures = {"crash", "ioError", "reject", "lateEdit"}
  FreshEdits = FALSE
INVARIANTS TypeOK SourceNeverTorn NoLeftover
PROPERTIES BackedUp UntouchedUnlessChanged Atomic
