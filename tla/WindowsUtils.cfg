SPECIFICATION WSpec
INVARIANT WaitedForProcess
