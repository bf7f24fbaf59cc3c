SPECIFICATION DecisionSpec
CONSTANTS
  Catalogue <- SomeRules
  Bases = {5, 47}
  Targets <- SomeTargets
  MaxRules = 3
  MaxMatches = 2
INVARIANTS EffectiveAsDocumented RefusalReachesTarget ApprovalReleases
PROPERTY MoreRulesNeverLoosen
