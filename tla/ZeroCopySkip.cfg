SPECIFICATION Spec
CONSTANTS
  top = top
  sub = sub
  Looped = TRUE
  Dirs <- MCDirs
  Root = top
  Entries <- MCEntries
  Flags <- MCFlags
  MaxDepth = 2
INVARIANTS
  SkipIsNotAnAbort
\* The process may be gone after RtlCreateUnicodeString(NULL).
CHECK_DEADLOCK FALSE
