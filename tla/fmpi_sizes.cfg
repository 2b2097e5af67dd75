SPECIFICATION Spec
INVARIANTS Safe
PROPERTIES Implements Termination
