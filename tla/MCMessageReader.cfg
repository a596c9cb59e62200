SPECIFICATION Spec
CONSTANTS
 Types <- MCTypes
 Enums <- MCEnums
 Undefined = Undefined
 Null = Null
 Throw = Throw
 MaxSafe = 7
 MaxSet = 2
 ReadTypes <- AllTypes
 Styles <- MCStyles
CHECK_DEADLOCK FALSE
INVARIANTS TypeOK DecodedIsWhatWasWritten ThrowsExactlyOnUnsafeIntegers NestedReadsStayInside JsonRoundTrip JsonAgreesWithWire
PROPERTY DecodeEnds
