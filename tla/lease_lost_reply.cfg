CONSTANTS
    g1 = g1
    g2 = g2
    Ground <- Single
    NoSource = NoSource
    MaxSeq = 4
    MaxRestarts = 1
    LossyReplies = TRUE
SPECIFICATION FairSpec
PROPERTIES AuthorityRegained
CHECK_DEADLOCK FALSE
