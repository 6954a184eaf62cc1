SPECIFICATION SchemaSpec
INVARIANT UnchangedIsConsistent
CHECK_DEADLOCK FALSE
