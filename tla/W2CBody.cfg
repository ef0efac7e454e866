CONSTANTS
  Profiles <- MCProfiles
  ProfileOf <- MCProfileOf
  CCode <- MCCCode
SPECIFICATION Spec
INVARIANTS GotosDeclared NoUndefinedBehaviour ResultsAgree TailCallsBounded
