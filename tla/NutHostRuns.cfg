SPECIFICATION Spec
INVARIANTS TypeOK EndsAsPromised
