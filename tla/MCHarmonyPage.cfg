SPECIFICATION PageSpec
CONSTANTS
    i1 = i1
    u1 = u1
    u2 = u2
    v1 = v1
    v2 = v2
    refused = refused
    a = a
    b = b
    any = any
    onlyA = onlyA
    Images <- OneImage
    Urls <- TwoUrls
    MaxRequests = 4
    MaxUpdates = 3
    FadeIn = TRUE
    MediaKinds = {"video", "audio"}
    Sources <- ThreeSources
    Refused <- OneRefused
    MaxSources = 3
    MaxClicks = 1
    MaxWindows = 2
    InputKinds = {"text", "single", "multiple"}
    Items <- TwoItems
    Patterns <- TwoPatterns
    NoPattern = any
    Matches <- WhatMatches
    MaxEdits = 3
    MaxAgentUpdates = 1
INVARIANTS RequestsAreOwned ShownIsCurrent PlaysItsUrl InputsAgree
PROPERTIES EverythingSettles LastUrlIsTakenUp
CHECK_DEADLOCK FALSE
