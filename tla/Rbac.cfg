SPECIFICATION RbacSpec
CONSTANTS
    admin = admin
    viewer = viewer
    report = report
    enterprise = enterprise
    github = github
    database = database
    search = search
    query = query
    thread = thread
    All = All
    Nothing = Nothing
    Role <- MCRole
    Skill <- MCSkill
    Server <- MCServer
    Tool <- MCTool
    ServerOf <- MCServerOf
    LevelOf <- MCLevelOf
    Reader <- MCReader
    InitialFile <- MCInitialFile
    MaxSaves = 1
\* The updates and look-ups of an instance come to an end.
CHECK_DEADLOCK FALSE
INVARIANT StaleOnlyIfOverlapped
PROPERTY UpdatesExact
