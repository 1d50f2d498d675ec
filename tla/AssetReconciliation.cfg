SPECIFICATION Spec
CONSTANTS
    film = film
    logo = logo
    x = x
    y = y
    top = top
    sub = sub
    None = None
    Directory = Directory
    Assets = {1, 2}
    Paths = {film, logo}
    Contents = {x, y}
    Observers = {1, 2}
    Sources = {"trusted"}
    Trusted = {"trusted"}
    Kinds = {"full_content_hash"}
    Roots = {top, sub}
    Beneath <- MCBeneath
    Depth <- MCDepth
    Size <- OtherSize
    MaxGroup = 2
    ScopeChoices <- MCScopes
    Claims = {2, 3}
    MaxWrites = 4
    MaxCaptured = 2
    MaxEdits = 1
    MaxEvidence = 2
SYMMETRY Symmetry
VIEW MCView
CHECK_DEADLOCK FALSE
INVARIANTS
    LivePathsUnique
    MatchingNeverBreaks
    EverySubjectDecided
    TrustedClaimDecides
