SPECIFICATION RunSpec
CONSTANT MaxRuns = 3
INVARIANT InterruptStrandsNothing
CHECK_DEADLOCK FALSE
