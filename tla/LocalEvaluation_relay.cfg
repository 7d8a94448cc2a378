\* A configuration with a relay, and RestrictRelay given as false.
CONSTANTS
    b1 = b1
    Builder = {b1}
    NoBuilder = NoBuilder
    Strategy = {}
    OperationsOf <- SomeOperations
    ValuesOf <- SomeValues
    InputsOf <- SomeInputs
    Shapes <- RelayShapes
    Conditions = {}
SPECIFICATION Spec
INVARIANTS
    RelayOptional
