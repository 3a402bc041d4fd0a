SPECIFICATION ServiceSpec
CONSTANTS
    Passphrases <- SomePassphrases
    Salts = {s1, s2}
    Names <- SomeNames
    Values = {v1, v2}
    KeyPairs <- SomeKeyPairs
    None = None
    Clients = {c1, c2}
SYMMETRY ClientSymmetry
INVARIANTS
    VaultTypeOK
    OneKey
    RememberedOpens
    CredentialAnswers
PROPERTIES
    EnsureNeverFails
    KeyAnswers
    ImplementsStore
