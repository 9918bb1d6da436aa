SPECIFICATION Spec
CONSTANT Runs = {r1}
INVARIANT SessionOutlivesRun
CHECK_DEADLOCK FALSE
