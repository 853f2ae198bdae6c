CONSTANTS
    vim = vim
    git = git
    Nothing = Nothing
    Segments = {vim, git}
    Vim = vim
    Explicit = {git}
    TimesOut = {}
    MaxGens = 2
    MaxModes = 1
    Overlap = {"soft"}
SPECIFICATION Spec
INVARIANT
    PendingIsOwed
    NothingOutlivesTheEnd
    VimShowsLatestMode
    AnswersAreShownUnrepainted
PROPERTY
    ImplementsRenders
CHECK_DEADLOCK FALSE
