SPECIFICATION Spec
CONSTANTS
    ByteBits = 2
    Samples = {0, 65535, 39314, 24773}
    Immediates = {1, 2}
    Counts = {0, 1, 2, 4, 9, 17}
    FlagSamples = {{}, {"CF", "SF", "PF"}, {"ZF", "AF", "OF", "DF", "IF"}}
    MaxSteps = 1
    Groups = {"alu", "shift", "bits", "wide", "move", "flag"}
INVARIANTS
    TypeOK
    RegistersAreRight
    FlagsAreRight
    JumpsAreRight
    ComparisonsDecideBranches
CHECK_DEADLOCK FALSE
