SPECIFICATION FairSpec
CONSTANT NREQ = 3
INVARIANTS IInv BoundedWait
PROPERTIES HeldAccess ImplementsPortService
