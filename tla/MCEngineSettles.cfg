CONSTANTS
    vim = vim
    git = git
    Nothing = Nothing
    Segments = {vim}
    Vim = vim
    Explicit = {vim}
    TimesOut = {vim}
    MaxGens = 2
    MaxModes = 1
    Overlap = {"hard", "soft"}
SPECIFICATION FairSpec
PROPERTY
    EveryRenderSettles
CHECK_DEADLOCK FALSE
