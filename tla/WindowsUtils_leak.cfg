SPECIFICATION WSpec
INVARIANT NoHandleLeak
