-------------------------------- MODULE Vault -------------------------------
(***************************************************************************)
(* The credential vault (core/internal/vault/vault.go).  Every operation    *)
(* holds Vault.mu from beginning to end, so each is one action.             *)
(*                                                                         *)
(* Argon2id and AES-GCM are external.  A derived key stands for exactly the *)
(* passphrase and the salt it came from, and a ciphertext opens with the    *)
(* key that sealed it and with no other.                                    *)
(***************************************************************************)
CONSTANTS
    Passphrases,   \* what callers may pass to Unlock; "" is one of them
    Salts,         \* what rand.Reader may give
    Names,         \* the names callers pass; "" is one of them
    Values,        \* plaintexts of credentials
    KeyPairs,      \* plaintexts of SSH keys: <<public, private>>
    None           \* nil

VARIABLES
    isUnlocked,    \* Vault.isUnlocked
    masterKey,     \* Vault.masterKey
    salt,          \* Vault.salt
    passHash,      \* Vault.passHash
    credentials,   \* Vault.credentials: name -> ciphertext
    sshKeys        \* Vault.sshKeys: name -> pair of ciphertexts

vaultVars == <<isUnlocked, masterKey, salt, passHash, credentials, sshKeys>>

IDKey(secret, s)       == <<secret, s>>
Seal(key, text)        == [key |-> key, text |-> text]
Opens(key, ciphertext) == ciphertext.key = key

DefaultName == "default"
Named(name) == IF name = "" THEN DefaultName ELSE name
Stored      == {Named(name) : name \in Names}

Keys        == (Passphrases \ {""}) \X Salts
Sealed(T)   == [key : Keys, text : T]

\* nil is none of the things that may stand in its place.
ASSUME NoneAssumption ==
    /\ None \notin Keys /\ None \notin Salts /\ None \notin Passphrases
    /\ None \notin Keys \X Salts
    /\ None \notin Sealed(Values) /\ None \notin Sealed(KeyPairs)
ASSUME InputsAssumption ==
    {"", DefaultName} \subseteq Passphrases /\ "" \in Names

VaultInit ==
    /\ isUnlocked = FALSE
    /\ masterKey = None
    /\ salt = None
    /\ passHash = None
    /\ credentials = [n \in Stored |-> None]
    /\ sshKeys = [n \in Stored |-> None]

\* Slip_*: plausible slips in the code, which the properties must notice.
Slip_LockForgetsSalt ==
    /\ isUnlocked' = FALSE
    /\ masterKey' = None
    /\ salt' = None
    /\ UNCHANGED <<passHash, credentials, sshKeys>>

Lock ==
    /\ isUnlocked' = FALSE
    /\ masterKey' = None
    /\ UNCHANGED <<salt, passHash, credentials, sshKeys>>

\* Unlock succeeds: the first one chooses the salt and so the passphrase, a
\* later one must reproduce passHash.
FirstUnlock(passphrase) ==
    /\ salt = None
    /\ \E s \in Salts :
          /\ salt' = s
          /\ masterKey' = IDKey(passphrase, s)
          /\ passHash' = IDKey(IDKey(passphrase, s), s)

Slip_NoCompare(passphrase) ==
    /\ salt # None
    /\ masterKey' = IDKey(passphrase, salt)
    /\ UNCHANGED <<salt, passHash>>

Verifies(passphrase) == IDKey(IDKey(passphrase, salt), salt) = passHash

UnlockAgain(passphrase) ==
    /\ salt # None
    /\ Verifies(passphrase)
    /\ masterKey' = IDKey(passphrase, salt)
    /\ UNCHANGED <<salt, passHash>>

UnlockSucceeds(passphrase) ==
    /\ passphrase # ""
    /\ FirstUnlock(passphrase) \/ UnlockAgain(passphrase)
    /\ isUnlocked' = TRUE
    /\ UNCHANGED <<credentials, sshKeys>>

\* Unlock fails, with ErrPassphraseReq or ErrInvalidPassphrase, and the vault
\* stays as it was: also unlocked, if it was.
UnlockFails(passphrase) ==
    /\ passphrase = "" \/ (salt # None /\ ~Verifies(passphrase))
    /\ UNCHANGED vaultVars

Unlock(passphrase) == UnlockSucceeds(passphrase) \/ UnlockFails(passphrase)

\* The locked case returns ErrLocked and changes nothing.
AddCredential(name, value) ==
    /\ credentials' = IF isUnlocked
                      THEN [credentials EXCEPT ![Named(name)] = Seal(masterKey, value)]
                      ELSE credentials
    /\ UNCHANGED <<isUnlocked, masterKey, salt, passHash, sshKeys>>

\* The two halves are sealed one after the other with the same key.
AddSSHKey(name, pair) ==
    /\ sshKeys' = IF isUnlocked
                  THEN [sshKeys EXCEPT ![Named(name)] = Seal(masterKey, pair)]
                  ELSE sshKeys
    /\ UNCHANGED <<isUnlocked, masterKey, salt, passHash, credentials>>

Answer(status, text) == [status |-> status, text |-> text]

Decrypt(ciphertext) ==
    IF Opens(masterKey, ciphertext) THEN Answer("ok", ciphertext.text)
                                    ELSE Answer("cannot_decrypt", None)

\* What a caller of GetCredential gets.  Unlike the other operations it does
\* not take "" for the default name.
GetCredential(name) ==
    IF ~isUnlocked THEN Answer("locked", None)
    ELSE IF name \notin Stored \/ credentials[name] = None THEN Answer("not_found", None)
    ELSE Decrypt(credentials[name])

\* What a caller of GetSSHKey gets: a name without a key has a placeholder
\* pair, and no error.
GetSSHKey(name) ==
    IF ~isUnlocked THEN Answer("locked", None)
    ELSE IF sshKeys[Named(name)] = None THEN Answer("placeholder", None)
    ELSE Decrypt(sshKeys[Named(name)])
=============================================================================
