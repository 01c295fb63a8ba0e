\* One station over a whole session: releases, a restart, re-acquisition.
CONSTANTS
    g1 = g1
    g2 = g2
    Ground <- Single
    NoSource = NoSource
    MaxSeq = 4
    MaxRestarts = 1
    LossyReplies = FALSE
SPECIFICATION FairSpec
INVARIANTS TypeOK NoResurrection
PROPERTIES AuthorityRegained
CHECK_DEADLOCK FALSE
