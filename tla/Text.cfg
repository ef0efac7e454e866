CONSTANTS
  Profiles <- MCProfiles
  ProfileOf <- MCProfileOf
  Edits <- MCEdits
  Generated <- MCGenerated
  Applied <- MCApplied
  FieldParsed <- MCFieldParsed
  FieldsResolved <- MCFieldsResolved
  Resolved <- MCResolved
  HasErrors <- MCHasErrors
SPECIFICATION Spec
INVARIANTS TextRoundTrip NamesInverse NothingSkipped AcceptedTyped
CHECK_DEADLOCK FALSE
