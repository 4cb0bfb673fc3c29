SPECIFICATION Spec
CONSTANTS
    Docs <- MCDocs
    Height <- MCHeight
    Names <- MCNames
    Values <- MCValues
    Depth <- MCDepth
    GoTypes <- MCGoTypes
    Nesting <- MCNesting
    FieldTypes <- MCFieldTypes
    Foreign <- MCForeign
    Args <- MCArgs
    FloatMax = 8
    IntMax = 15
    NormSchema <- MCNormSchema
    Evaluated <- MCEvaluated
    Valid <- MCValid
    NoBooleans <- MCNoBooleans
    LooksAtAll <- MCLooksAtAll
    LosesAnnotation <- MCLosesAnnotation
    ForType <- MCForType
    UnmarshalAny <- MCUnmarshalAny
    Scalars <- MCScalarsOf
    Decodable <- MCDecodable
    Decoded <- MCDecoded
    CoerceValue <- MCCoerceValue
    Meant <- MCMeant
INVARIANTS  MeantIsServed
CHECK_DEADLOCK FALSE
