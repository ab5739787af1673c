SPECIFICATION Spec
CONSTANTS
    Unset = Unset  Rejected = Rejected  NoDir = NoDir
    Bitness <- MCBitness  Protocol <- MCProtocol
    Flags = {"-m32", Unset}
INVARIANTS SwitchesAgree  
