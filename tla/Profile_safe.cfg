SPECIFICATION ProfileSpec
CONSTANTS
  Tasks = {t1, t2}
  Profiles <- MCProfiles
  Choices <- MCChoices
  Balanced = "balanced"
  Unknown = Unknown
  Nobody = Nobody
INVARIANT ProfileTypeOK
INVARIANT CacheFollowsEc
