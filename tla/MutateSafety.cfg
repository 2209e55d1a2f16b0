SPECIFICATION Spec
CONSTANTS
    Bytes <- MCBytes
    Records <- MCRecords
    Mutators <- MCMutators
    RepeatAmounts <- MCRepeatAmounts
    None = None
INVARIANT MutateTypeOK
PROPERTY MutatorRefinesStream
