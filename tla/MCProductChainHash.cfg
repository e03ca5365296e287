SPECIFICATION Spec
CONSTANTS
    NoValue = NoValue
    Requests <- MCRequests
    MaxOperations <- MCMaxOperations
    MaxDepth <- MCMaxDepth
    MaxRawName <- MCMaxRawName
    MaxName <- MCMaxName
    MaxDigits <- MCMaxDigits
    MaxExponent <- MCMaxExponent
    MaxHalfPoints <- MCMaxHalfPoints
    MaxLineTwips <- MCMaxLineTwips
INVARIANT
    ResultsDescribeTheirTarget
