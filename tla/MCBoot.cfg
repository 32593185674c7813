\* Two connections at a time.
CONSTANT Client = {c1, c2}
SPECIFICATION FairSpec
INVARIANTS TypeOK SetUp Whole NeverStuck
PROPERTIES LedTells ComesUp
