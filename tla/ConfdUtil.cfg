CONSTANTS
    Bytes = {0, 1}
    WordMod = 4
    Nil = Nil
    NaN = NaN
    Reals = {0, 1, NaN}
    HeaderSize = 2
    EnvelopeSize = 1
    ReadLimit = 5
    LengthMod = 9
    MaxStray = 1
    MaxLength = 8
    Inputs <- MCInputs
    BufferSizes = {0, 1, 2, 4}
    Texts <- MCTexts
    Invocations <- MCInvocations
    StringBuffer = 7
    BlobBuffer = 8
SPECIFICATION UtilSpec
INVARIANTS
    NumbersRoundTrip
    GettersMatchSetters
    BlobsKeepTheirBytes
    StringsKeepTheirText
    RepliesFit
    ReadsShowConfirmedWrites
PROPERTY UtilEnds
