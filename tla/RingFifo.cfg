SPECIFICATION Spec
CONSTANTS
    Data <- MCData
    Zero = 0
    Size = 5
INVARIANT TypeOK
PROPERTY IsBoundedFifo
