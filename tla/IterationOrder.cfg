CONSTANTS
    IntKeys <- SignedKeys
    Modulus = 8
    BadKeys <- LeastKey
    BadValues <- One
    NoKey = NoKey
    PageSizes = {1, 2}
    PageNumbers = {0, 1}
    NoJob = NoJob
    NoReader = NoReader
SPECIFICATION Spec
INVARIANTS
    YieldsTheRest
    DumpIsThePage
CHECK_DEADLOCK FALSE
