SPECIFICATION Spec
INVARIANTS TraceNamesWhatRan NamedWordsDecode
CHECK_DEADLOCK FALSE
