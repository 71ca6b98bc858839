\* Carry chains over two registers of three bits, all operands
CONSTANTS
    WordBits = 3
    Limbs = 2
    Jobs = {"ADDC", "SUBC", "NEGC", "ROTCL", "ROTCR"}
SPECIFICATION ChainSpec
INVARIANTS
    CarriesChain
    AgreesWithIntegers
\* a chain ends
CHECK_DEADLOCK FALSE
