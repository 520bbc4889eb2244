CONSTANT MaxRetries = 3
SPECIFICATION FairSpec
PROPERTY PromiseKept
