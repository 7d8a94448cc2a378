\* Every strategy on its own, snapshots of two groups, and a mocked switcher.
CONSTANTS
    b1 = b1
    b2 = b2
    Builder = {b1, b2}
    NoBuilder = NoBuilder
    Strategy <- EveryStrategy
    OperationsOf <- SomeOperations
    ValuesOf <- SomeValues
    InputsOf <- SomeInputs
    Shapes <- SomeShapes
    Conditions <- SomeConditions
SPECIFICATION Spec
SYMMETRY BuilderSymmetry
INVARIANTS
    TypeOK
    ResolverDecides
    SwitchersChecked
    FailsClosed
    OperationsAreDual
    BoundariesAgree
PROPERTIES
    ImplementsAssumptions
