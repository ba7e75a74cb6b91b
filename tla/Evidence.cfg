SPECIFICATION EvidenceSpec
CONSTANTS
    today = today
    past = past
    cli = cli
    dash = dash
    btc = btc
    eth = eth
    w1 = w1
    w2 = w2
    Days = {today, past}
    Live = today
    Checkers = {cli}
    Statuses = {"PASS"}
    Alone = FALSE
    RewriteLive = TRUE
    Restores = FALSE
    Crashes = TRUE
    MaxBlocks = 2
    MaxChecks = 3
CHECK_DEADLOCK FALSE
INVARIANTS
    NothingForgotten
    PassIsEarned
PROPERTIES
    ToldIsTrue
