SPECIFICATION Spec
CONSTANTS
    monitor = monitor
    operator = operator
    viewer = viewer
    report = report
    search = search
    Unknown = Unknown
    Keep = Keep
    Deployed = Deployed
    Torn = Torn
    None = None
    Name <- MCName
    Role <- MCRole
    Skill <- MCSkill
    Tool <- MCTool
    AllowedSkills <- MCAllowedSkills
    AllowedTools <- MCAllowedTools
INVARIANT RegistryFollowsFiles
INVARIANT NothingLeftBehind
INVARIANT SavedWithinRole
