SPECIFICATION ReadsSpec
CONSTANTS
    Byte = {nl, a}
    Newline = nl
    Entropy <- MCEntropy
    Config <- MCConfig
    Capacity <- MCCapacity
    MaxLen = 5
    N = 5
    B = 2
    EncLayers = 2
    GlobalLayers = 2
    DecLayers = 2
    Modulus = 9973
    HashPrime = 7
    HashModulus = 11
    Weights <- MCWeights
    Passes <- MCPasses
INVARIANTS
    Tiling
    PrefixDecidable
    LatentCausal
    BlockReadsItsPrefix
    CleanCausal
    DocumentsIsolated
    GradientFollowsReads
