SPECIFICATION Spec
CONSTANTS
    Signature <- MCSignature
    Width <- MCWidth
    ByteBits = 3
    MaxBlock = 7
    MappedPrefix <- MCMappedPrefix
    Handshake <- MCHandshake
    MaxHead = 8
    Clients <- MCClients
    Lists <- MCLists
    MaxChunk = 3
    PathOf <- MCPathOf
PROPERTIES HeaderNeverFatal
