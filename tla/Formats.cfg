CONSTANTS
  Profiles <- MCProfiles
  ProfileOf <- MCProfileOf
  Damage <- MCDamage
  Written <- MCWritten
  SectionRead <- MCSectionRead
  Validates <- MCValidates
SPECIFICATION Spec
INVARIANTS RoundTrip RelocsExact TruncationDetected ValidatedClosed
CHECK_DEADLOCK FALSE
