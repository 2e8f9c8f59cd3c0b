SPECIFICATION Spec
CONSTANTS
    Workers = {w1, w2}
    Timer = timer
    NoKey = nokey
    MaxKey = 3
    Fragments = {1, 2}
    EmitMayRaise = TRUE
    Watchers = {1, 2}
    MaxFailures = 2
    MaxSubmits = 2
    SettingsFaults = 2
    Folders = {"a", "b"}
    MaxEdits = 3
    MaxActs = 1
    Procs = {1, 2, 3}
    Misses = 2
    MaxGames = 3
    UserActs = 3
    LifecycleFaults = 1
    MaxAttempts = 2
    MaxChecks = 2
    Events = {1, 2}
    Retries = 1
    MaxToggles = 3
    UsageFaults = 1
    MaxRestarts = 1
CHECK_DEADLOCK FALSE
INVARIANTS
    PublicationIsSafe
    StoppedOnce
    SettingsAreSound
    NobodyLeftBehind
    UpdateIsSafe
    FileHoldsTheChoice
PROPERTIES
    NothingTooLate
    WhatBeganEnds
    EverythingArrives
    FollowsTheGame
