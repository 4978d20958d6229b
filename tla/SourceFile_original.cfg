SPECIFICATION Spec
CONSTANTS
  messy = messy
  tidy = tidy
  other = other
  NoFile = NoFile
  Torn = Torn
  Contents <- MCContents
  Format <- MCFormat
  Allowed <- ReplaceOptions
  Failures = {}
  FreshEdits = TRUE
INVARIANT OriginalKept
