SPECIFICATION Spec
INVARIANTS
    VersionMatchesSchema
    RefusalsAreAboutData
