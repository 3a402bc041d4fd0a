-------------------------- MODULE VaultProofs --------------------------
(***************************************************************************)
(* Proofs about the vault and its RPCs, for any number of clients, names,   *)
(* passphrases and secrets.  The inductive invariant is the conjunction of  *)
(* VaultTypeOK, OneKey and RememberedOpens: no part of it is inductive      *)
(* alone, because ensureUnlocked chooses the vault's passphrase when it is  *)
(* the first to unlock, and then relies on what it chose.                   *)
(***************************************************************************)
EXTENDS VaultService, TLAPS

\* The part of the invariant that is about the vault itself.
VaultOK ==
    /\ isUnlocked \in BOOLEAN
    /\ masterKey \in Keys \cup {None}
    /\ salt \in Salts \cup {None}
    /\ IF salt = None THEN passHash = None
                      ELSE passHash \in {IDKey(IDKey(p, salt), salt) : p \in Passphrases \ {""}}
    /\ credentials \in [Stored -> Sealed(Values) \cup {None}]
    /\ sshKeys \in [Stored -> Sealed(KeyPairs) \cup {None}]
    /\ OneKey

CallsOK == calls \in [Clients -> Call] /\ \A c \in Clients : CallOK(calls[c])

Inv == VaultOK /\ RememberedOpens /\ lastPassphrase \in Passphrases /\ CallsOK

LEMMA InvParts == Inv <=> VaultTypeOK /\ OneKey /\ RememberedOpens
  BY DEF Inv, VaultOK, VaultTypeOK, CallsOK

LEMMA KeyType ==
    ASSUME NEW p \in Passphrases \ {""}, NEW s \in Salts
    PROVE  IDKey(p, s) \in Keys /\ IDKey(p, s) # None /\ s # None
<1>1. IDKey(p, s) \in Keys
  BY DEF IDKey, Keys
<1> QED
  BY <1>1, NoneAssumption

\* The owner's key is the key of its passphrase, and its hash verifies it.
LEMMA Owner ==
    ASSUME VaultOK, salt # None
    PROVE  \E p \in Passphrases \ {""} :
              /\ OwnerKey = IDKey(p, salt)
              /\ passHash = IDKey(IDKey(p, salt), salt)
              /\ OwnerKey \in Keys
<1>1. PICK p \in Passphrases \ {""} : passHash = IDKey(IDKey(p, salt), salt)
  BY DEF VaultOK
<1>2. salt \in Salts
  BY DEF VaultOK
<1>3. OwnerKey = IDKey(p, salt)
  BY <1>1 DEF OwnerKey, IDKey
<1> QED
  BY <1>1, <1>2, <1>3, KeyType

\* A successful unlock yields the owner's key, old or new.
LEMMA UnlockYieldsKey ==
    ASSUME VaultOK, NEW p \in Passphrases, UnlockSucceeds(p)
    PROVE  /\ VaultOK'
           /\ isUnlocked' /\ salt' # None /\ Verifies(p)'
           /\ salt # None => salt' = salt /\ passHash' = passHash
<1>0. p \in Passphrases \ {""} /\ isUnlocked' = TRUE /\ UNCHANGED <<credentials, sshKeys>>
  BY DEF UnlockSucceeds
<1>1. CASE FirstUnlock(p)
  <2>1. PICK s \in Salts : /\ salt' = s
                           /\ masterKey' = IDKey(p, s)
                           /\ passHash' = IDKey(IDKey(p, s), s)
    BY <1>1 DEF FirstUnlock
  <2>2. s # None /\ IDKey(p, s) \in Keys /\ IDKey(p, s) # None
    BY <1>0, KeyType
  <2>3. passHash' \in {IDKey(IDKey(q, s), s) : q \in Passphrases \ {""}} /\ OwnerKey' = IDKey(p, s)
    BY <1>0, <2>1 DEF OwnerKey, IDKey
  <2>4. \A x \in Ciphertexts : x = None
    BY <1>1 DEF FirstUnlock, VaultOK, OneKey
  <2>5. Ciphertexts' = Ciphertexts
    BY <1>0 DEF Ciphertexts
  <2>6. OneKey'
    BY <1>0, <2>1, <2>2, <2>3, <2>4, <2>5 DEF OneKey
  <2>7. VaultOK'
    BY <1>0, <2>1, <2>2, <2>3, <2>6 DEF VaultOK
  <2>8. Verifies(p)'
    BY <2>1 DEF Verifies
  <2>9. salt = None
    BY <1>1 DEF FirstUnlock
  <2> QED
    BY <1>0, <2>1, <2>2, <2>7, <2>8, <2>9
<1>2. CASE UnlockAgain(p)
  <2>1. /\ salt # None /\ salt' = salt /\ passHash' = passHash
        /\ masterKey' = IDKey(p, salt) /\ passHash = IDKey(IDKey(p, salt), salt)
    BY <1>2 DEF UnlockAgain, Verifies
  <2>2. OwnerKey = IDKey(p, salt) /\ OwnerKey' = OwnerKey
    BY <2>1 DEF OwnerKey, IDKey
  <2>3. IDKey(p, salt) \in Keys /\ IDKey(p, salt) # None
    BY <1>0, <2>1, KeyType DEF VaultOK
  <2>4. Ciphertexts' = Ciphertexts
    BY <1>0 DEF Ciphertexts
  <2>5. OneKey'
    BY <1>0, <2>1, <2>2, <2>3, <2>4 DEF VaultOK, OneKey
  <2>6. VaultOK'
    BY <1>0, <2>1, <2>3, <2>5 DEF VaultOK
  <2>7. Verifies(p)'
    BY <2>1 DEF Verifies
  <2> QED
    BY <1>0, <2>1, <2>6, <2>7
<1> QED
  BY <1>1, <1>2 DEF UnlockSucceeds

LEMMA QuietVault ==
    ASSUME VaultOK, UNCHANGED vaultVars
    PROVE  VaultOK' /\ (RememberedOpens /\ UNCHANGED lastPassphrase => RememberedOpens')
  BY ZenonT(60) DEF vaultVars, VaultOK, OneKey, Ciphertexts, OwnerKey, RememberedOpens, Verifies, Remembered

\* ensureUnlocked leaves the vault unlocked: if it chooses the passphrase it
\* remembers it, and otherwise what it remembers verifies.
LEMMA EnsureUnlocks ==
    ASSUME VaultOK, RememberedOpens, lastPassphrase \in Passphrases, EnsureUnlocked,
           UNCHANGED lastPassphrase
    PROVE  VaultOK' /\ RememberedOpens' /\ isUnlocked'
<1>1. CASE isUnlocked
  BY <1>1, QuietVault DEF EnsureUnlocked, vaultVars
<1>2. CASE ~isUnlocked
  <2>1. Remembered \in Passphrases /\ Remembered # "" /\ Remembered' = Remembered
    BY InputsAssumption DEF Remembered, DefaultName
  <2>2. PICK p \in Passphrases : p = Remembered
    BY <2>1
  <2>3. ~UnlockFails(p)
    BY <2>1, <2>2 DEF UnlockFails, RememberedOpens
  <2>4. UnlockSucceeds(p)
    <3>1. Unlock(Remembered)
      BY <1>2 DEF EnsureUnlocked
    <3>2. Unlock(p)
      BY <2>2, <3>1 DEF Unlock, UnlockSucceeds, UnlockFails, FirstUnlock, UnlockAgain, Verifies
    <3> QED
      BY <2>3, <3>2 DEF Unlock
  <2>5. VaultOK' /\ isUnlocked' /\ Verifies(p)'
    BY <2>4, UnlockYieldsKey
  <2> QED
    BY <2>1, <2>2, <2>5 DEF RememberedOpens, Verifies
<1> QED
  BY <1>1, <1>2

\* Sealing a secret with the key of an unlocked vault.
LEMMA SealedType ==
    ASSUME VaultOK, isUnlocked, NEW T, NEW text \in T
    PROVE  /\ Seal(masterKey, text) \in Sealed(T)
           /\ Seal(masterKey, text).key = OwnerKey
           /\ Seal(masterKey, text).text = text
           /\ salt # None
<1>1. masterKey \in Keys /\ masterKey = OwnerKey /\ salt # None
  BY DEF VaultOK, OneKey
<1> QED
  BY <1>1 DEF Seal, Sealed

LEMMA NamedStored == ASSUME NEW n \in Names PROVE Named(n) \in Stored
  BY DEF Stored

LEMMA NamedTwice == ASSUME NEW n \in Stored PROVE Named(n) = n
  BY DEF Stored, Named, DefaultName

LEMMA AddCredentialKeeps ==
    ASSUME VaultOK, NEW n \in Names \cup Stored, NEW v \in Values, AddCredential(n, v)
    PROVE  VaultOK'
<1>1. Named(n) \in Stored
  BY NamedStored, NamedTwice
<1>2. CASE ~isUnlocked
  BY <1>2, QuietVault DEF AddCredential, vaultVars
<1>3. CASE isUnlocked
  <2> DEFINE x == Seal(masterKey, v)
  <2>1. x \in Sealed(Values) /\ x.key = OwnerKey /\ salt # None
    BY <1>3, SealedType
  <2>2. credentials' = [credentials EXCEPT ![Named(n)] = x]
        /\ UNCHANGED <<isUnlocked, masterKey, salt, passHash, sshKeys>>
    BY <1>3 DEF AddCredential
  <2> HIDE DEF x
  <2>3. credentials' \in [Stored -> Sealed(Values) \cup {None}]
    BY <1>1, <2>1, <2>2 DEF VaultOK
  <2>4. \A y \in Ciphertexts' : y = x \/ y \in Ciphertexts
    BY <1>1, <2>2 DEF Ciphertexts, VaultOK
  <2>5. OneKey'
    BY <2>1, <2>2, <2>4 DEF VaultOK, OneKey, OwnerKey
  <2> QED
    BY <2>2, <2>3, <2>5 DEF VaultOK
<1> QED
  BY <1>2, <1>3

LEMMA AddSSHKeyKeeps ==
    ASSUME VaultOK, NEW n \in Names, NEW v \in KeyPairs, AddSSHKey(n, v)
    PROVE  VaultOK'
<1>1. Named(n) \in Stored
  BY NamedStored
<1>2. CASE ~isUnlocked
  BY <1>2, QuietVault DEF AddSSHKey, vaultVars
<1>3. CASE isUnlocked
  <2> DEFINE x == Seal(masterKey, v)
  <2>1. x \in Sealed(KeyPairs) /\ x.key = OwnerKey /\ salt # None
    BY <1>3, SealedType
  <2>2. sshKeys' = [sshKeys EXCEPT ![Named(n)] = x]
        /\ UNCHANGED <<isUnlocked, masterKey, salt, passHash, credentials>>
    BY <1>3 DEF AddSSHKey
  <2> HIDE DEF x
  <2>3. sshKeys' \in [Stored -> Sealed(KeyPairs) \cup {None}]
    BY <1>1, <2>1, <2>2 DEF VaultOK
  <2>4. \A y \in Ciphertexts' : y = x \/ y \in Ciphertexts
    BY <1>1, <2>2 DEF Ciphertexts, VaultOK
  <2>5. OneKey'
    BY <2>1, <2>2, <2>4 DEF VaultOK, OneKey, OwnerKey
  <2> QED
    BY <2>2, <2>3, <2>5 DEF VaultOK
<1> QED
  BY <1>2, <1>3

LEMMA LockKeeps ==
    ASSUME VaultOK, Lock
    PROVE  VaultOK'
<1>1. /\ isUnlocked' = FALSE /\ masterKey' = None
      /\ UNCHANGED <<salt, passHash, credentials, sshKeys>>
  BY DEF Lock
<1>2. Ciphertexts' = Ciphertexts /\ OwnerKey' = OwnerKey
  BY <1>1 DEF Ciphertexts, OwnerKey
<1> QED
  BY <1>1, <1>2 DEF VaultOK, OneKey

\* What the client gets is an answer.
LEMMA ReturnedType ==
    ASSUME NEW st \in {"none", "ok", "failed", "locked", "placeholder", "cannot_decrypt"},
           NEW text \in KeyPairs \cup {None}
    PROVE  Returned(Answer(st, text)) \in Call /\ CallOK(Returned(Answer(st, text)))
  BY DEF Returned, Answer, Call, CallOK

LEMMA GetSSHKeyType ==
    ASSUME VaultOK, NEW n \in Stored
    PROVE  Returned(GetSSHKey(n)) \in Call /\ CallOK(Returned(GetSSHKey(n)))
<1>1. sshKeys[n] # None => sshKeys[n].text \in KeyPairs
  BY DEF VaultOK, Sealed
<1>2. Named(n) = n
  BY NamedTwice
<1> QED
  BY <1>1, <1>2, ReturnedType DEF GetSSHKey, Decrypt

LEMMA CallReplaced ==
    ASSUME CallsOK, NEW c \in Clients, NEW new \in Call, CallOK(new),
           calls' = [calls EXCEPT ![c] = new]
    PROVE  CallsOK'
  BY DEF CallsOK, CallOK

\* The vault is unchanged where its passphrase is concerned.
LEMMA StillRemembered ==
    ASSUME RememberedOpens, UNCHANGED <<salt, passHash, lastPassphrase>>
    PROVE  RememberedOpens'
  BY DEF RememberedOpens, Verifies, Remembered

LEMMA InvStep ==
    ASSUME Inv, [ServiceNext]_serviceVars
    PROVE  Inv'
<1> USE DEF Inv
<1>1. ASSUME NEW c \in Clients, NEW p \in Passphrases, UnlockRPC(c, p)
      PROVE  Inv'
  <2>1. CASE UnlockSucceeds(p) /\ lastPassphrase' = p
             /\ calls' = [calls EXCEPT ![c] = Returned(Answer("ok", None))]
    <3>1. VaultOK' /\ Verifies(p)' /\ p # ""
      BY <2>1, UnlockYieldsKey DEF UnlockSucceeds
    <3>2. RememberedOpens'
      BY <2>1, <3>1 DEF RememberedOpens, Remembered, Verifies
    <3>3. CallsOK'
      BY <2>1, ReturnedType, CallReplaced
    <3> QED
      BY <2>1, <3>1, <3>2, <3>3
  <2>2. CASE UnlockFails(p) /\ UNCHANGED lastPassphrase
             /\ calls' = [calls EXCEPT ![c] = Returned(Answer("failed", None))]
    <3>1. CallsOK'
      BY <2>2, ReturnedType, CallReplaced
    <3> QED
      BY <2>2, <3>1, QuietVault DEF UnlockFails
  <2> QED
    BY <1>1, <2>1, <2>2 DEF UnlockRPC
<1>2. ASSUME NEW c \in Clients, LockRPC(c)
      PROVE  Inv'
  <2>1. VaultOK' /\ RememberedOpens'
    BY <1>2, LockKeeps, StillRemembered DEF LockRPC, Lock
  <2>2. CallsOK'
    BY <1>2, ReturnedType, CallReplaced DEF LockRPC
  <2> QED
    BY <1>2, <2>1, <2>2 DEF LockRPC
<1>3. ASSUME NEW c \in Clients, NEW n \in Names, NEW v \in Values,
             BeginAddCredential(c, n, v)
      PROVE  Inv'
  <2> DEFINE new == [calls[c] EXCEPT !.pc = "adding", !.name = n, !.value = v]
  <2>1. VaultOK' /\ RememberedOpens' /\ lastPassphrase' = lastPassphrase
    BY <1>3, EnsureUnlocks DEF BeginAddCredential
  <2>2. new \in Call /\ CallOK(new)
    BY DEF CallsOK, Call, CallOK
  <2>3. calls' = [calls EXCEPT ![c] = new]
    BY <1>3 DEF BeginAddCredential
  <2> HIDE DEF new
  <2> QED
    BY <2>1, <2>2, <2>3, CallReplaced
<1>4. ASSUME NEW c \in Clients, EndAddCredential(c)
      PROVE  Inv'
  <2>1. calls[c].name \in Names /\ calls[c].value \in Values
    BY <1>4 DEF EndAddCredential, CallsOK, CallOK
  <2>2. PICK n \in Names, v \in Values : n = calls[c].name /\ v = calls[c].value
    BY <2>1
  <2>3. AddCredential(n, v)
    BY <1>4, <2>2 DEF EndAddCredential, AddCredential
  <2>4. VaultOK' /\ RememberedOpens' /\ lastPassphrase' = lastPassphrase
    BY <1>4, <2>3, AddCredentialKeeps, StillRemembered DEF EndAddCredential, AddCredential
  <2>5. CallsOK'
    BY <1>4, ReturnedType, CallReplaced DEF EndAddCredential
  <2> QED
    BY <2>4, <2>5
<1>5. ASSUME NEW c \in Clients, NEW n \in Names, BeginGetSSHKey(c, n)
      PROVE  Inv'
  <2> DEFINE new == [calls[c] EXCEPT !.pc = "reading", !.name = Named(n)]
  <2>1. VaultOK' /\ RememberedOpens' /\ lastPassphrase' = lastPassphrase
    BY <1>5, EnsureUnlocks DEF BeginGetSSHKey
  <2>2. new \in Call /\ CallOK(new)
    BY NamedStored DEF CallsOK, Call, CallOK
  <2>3. calls' = [calls EXCEPT ![c] = new]
    BY <1>5 DEF BeginGetSSHKey
  <2> HIDE DEF new
  <2> QED
    BY <2>1, <2>2, <2>3, CallReplaced
<1>6. ASSUME NEW c \in Clients, EndGetSSHKey(c)
      PROVE  Inv'
  <2>1. VaultOK' /\ RememberedOpens' /\ lastPassphrase' = lastPassphrase
    BY <1>6, QuietVault DEF EndGetSSHKey, vaultVars
  <2>2. CallsOK'
    <3>1. calls[c].name \in Stored
      BY <1>6 DEF EndGetSSHKey, CallsOK, CallOK
    <3> QED
      BY <1>6, <3>1, GetSSHKeyType, CallReplaced DEF EndGetSSHKey
  <2> QED
    BY <2>1, <2>2
<1>7. ASSUME NEW n \in Names, NEW pair \in KeyPairs, StoreSSHKey(n, pair)
      PROVE  Inv'
  <2>1. VaultOK' /\ RememberedOpens'
    BY <1>7, AddSSHKeyKeeps, StillRemembered DEF StoreSSHKey, AddSSHKey
  <2> QED
    BY <1>7, <2>1 DEF StoreSSHKey, CallsOK
<1>8. CASE UNCHANGED serviceVars
  <2>1. UNCHANGED <<lastPassphrase, calls>> /\ UNCHANGED vaultVars
    BY <1>8 DEF serviceVars, vaultVars
  <2> QED
    BY <2>1, QuietVault DEF CallsOK
<1> QED
  BY <1>1, <1>2, <1>3, <1>4, <1>5, <1>6, <1>7, <1>8 DEF ServiceNext

LEMMA InvInit == ServiceInit => Inv
<1> SUFFICES ASSUME ServiceInit PROVE Inv
  OBVIOUS
<1>1. VaultOK
  BY DEF ServiceInit, VaultInit, VaultOK, OneKey, Ciphertexts
<1>2. CallsOK
  BY ReturnedType DEF ServiceInit, CallsOK
<1> QED
  BY <1>1, <1>2, InputsAssumption DEF ServiceInit, VaultInit, Inv, RememberedOpens

\* Types, keys and the remembered passphrase are right in every reachable
\* state, of any instance.
THEOREM VaultInvariant == ServiceSpec => [](VaultTypeOK /\ OneKey /\ RememberedOpens)
<1>1. ServiceInit => Inv
  BY InvInit
<1>2. Inv /\ [ServiceNext]_serviceVars => Inv'
  BY InvStep
<1> QED
  BY <1>1, <1>2, InvParts, PTL DEF ServiceSpec

\* Everything in the vault was sealed with the key of its one passphrase,
\* whatever clients do concurrently.
THEOREM EverythingUnderOneKey == ServiceSpec => []OneKey
  BY VaultInvariant, PTL

\* The passphrase ensureUnlocked falls back on always opens the vault.
THEOREM FallbackAlwaysOpens == ServiceSpec => []RememberedOpens
  BY VaultInvariant, PTL

\* The error that ensureUnlocked drops never occurs: no RPC passes it with the
\* vault still locked.
THEOREM DroppedErrorNeverOccurs == ServiceSpec => EnsureNeverFails
<1> DEFINE Opened == \A c \in Clients :
                        calls[c].pc = "idle" /\ calls'[c].pc # "idle" => isUnlocked'
<1>1. Inv /\ [ServiceNext]_serviceVars => [Opened]_serviceVars
  <2> SUFFICES ASSUME Inv, ServiceNext, NEW c \in Clients,
                      calls[c].pc = "idle", calls'[c].pc # "idle"
               PROVE  isUnlocked'
    OBVIOUS
  <2>1. calls \in [Clients -> Call]
    BY DEF Inv, CallsOK
  <2>2. \A d \in Clients : \A r : calls' = [calls EXCEPT ![d] = Returned(r)] => FALSE
    BY <2>1 DEF Returned
  <2>3. EnsureUnlocked /\ UNCHANGED lastPassphrase
    BY <2>2 DEF ServiceNext, UnlockRPC, LockRPC, EndAddCredential, EndGetSSHKey, StoreSSHKey,
                BeginAddCredential, BeginGetSSHKey
  <2> QED
    BY <2>3, EnsureUnlocks DEF Inv
<1>2. ServiceInit => Inv
  BY InvInit
<1>3. Inv /\ [ServiceNext]_serviceVars => Inv'
  BY InvStep
<1> QED
  BY <1>1, <1>2, <1>3, PTL DEF ServiceSpec, EnsureNeverFails

\* What GetSSHKey says of a stored name, in a vault under one key.
LEMMA KeyAnswered ==
    ASSUME VaultOK, NEW n \in Stored
    PROVE  GetSSHKey(n) = CASE ~isUnlocked                     -> Answer("locked", None)
                            [] isUnlocked /\ sshKeys[n] = None -> Answer("placeholder", None)
                            [] isUnlocked /\ sshKeys[n] # None -> Answer("ok", sshKeys[n].text)
<1>1. Named(n) = n
  BY NamedTwice
<1>2. isUnlocked /\ sshKeys[n] # None => Opens(masterKey, sshKeys[n])
  <2>1. sshKeys[n] \in Ciphertexts
    BY DEF Ciphertexts
  <2> QED
    BY <2>1 DEF VaultOK, OneKey, Opens
<1> QED
  BY <1>1, <1>2 DEF GetSSHKey, Decrypt

\* GetSSHKey answers with what is stored when the vault is asked, whatever
\* other clients did since ensureUnlocked, and never fails to decrypt.
THEOREM KeysAlwaysAnswered == ServiceSpec => KeyAnswers
<1> DEFINE Right(c) == LET stored == sshKeys[calls[c].name]
                       IN  calls'[c].reply =
                              CASE ~isUnlocked                 -> Answer("locked", None)
                                [] isUnlocked /\ stored = None  -> Answer("placeholder", None)
                                [] isUnlocked /\ stored # None  -> Answer("ok", stored.text)
           Answered == \A c \in Clients :
                          calls[c].pc = "reading" /\ calls'[c].pc = "idle" => Right(c)
<1>1. Inv /\ [ServiceNext]_serviceVars => [Answered]_serviceVars
  <2> SUFFICES ASSUME Inv, ServiceNext, NEW c \in Clients,
                      calls[c].pc = "reading", calls'[c].pc = "idle"
               PROVE  Right(c)
    OBVIOUS
  <2>1. calls \in [Clients -> Call] /\ calls[c].name \in Stored
    BY DEF Inv, CallsOK, CallOK
  <2>2. \A d \in Clients : \A new : calls' = [calls EXCEPT ![d] = new] => d = c
    BY <2>1
  <2>3. EndGetSSHKey(c)
    BY <2>1, <2>2 DEF ServiceNext, UnlockRPC, LockRPC, BeginAddCredential, EndAddCredential,
                      BeginGetSSHKey, EndGetSSHKey, StoreSSHKey
  <2>4. calls'[c].reply = GetSSHKey(calls[c].name)
    BY <2>1, <2>3 DEF EndGetSSHKey, Returned
  <2> QED
    BY <2>1, <2>4, KeyAnswered DEF Inv
<1>2. ServiceInit => Inv
  BY InvInit
<1>3. Inv /\ [ServiceNext]_serviceVars => Inv'
  BY InvStep
<1> QED
  BY <1>1, <1>2, <1>3, PTL DEF ServiceSpec, KeyAnswers

-----------------------------------------------------------------------------
(***************************************************************************)
(* The vault RPCs implement SecretStore, and the two reading operations     *)
(* answer with what the store holds, for every instance.  OneKey makes the  *)
(* mapping simple: what the owner's key reveals of a stored ciphertext is   *)
(* its plaintext, before and after every step.                              *)
(***************************************************************************)

StoreSlots == {"credential", "ssh"} \X Stored
InSlot(s)  == IF s[1] = "ssh" THEN sshKeys[s[2]] ELSE credentials[s[2]]
Plain(x)   == IF x = None THEN None ELSE x.text

MapOwner   == IF salt = None THEN None ELSE OwnerKey[1]
MapSecrets == [s \in StoreSlots |-> Reveal(InSlot(s))]

\* Nothing in the vault is beyond the owner's key.
LEMMA RevealIsPlain ==
    ASSUME VaultOK
    PROVE  /\ \A n \in Stored : Reveal(credentials[n]) = Plain(credentials[n])
           /\ \A n \in Stored : Reveal(sshKeys[n]) = Plain(sshKeys[n])
           /\ MapSecrets = [s \in StoreSlots |-> Plain(InSlot(s))]
<1>1. \A n \in Stored : credentials[n] \in Ciphertexts /\ sshKeys[n] \in Ciphertexts
  BY DEF Ciphertexts
<1>2. \A n \in Stored : /\ Reveal(credentials[n]) = Plain(credentials[n])
                        /\ Reveal(sshKeys[n]) = Plain(sshKeys[n])
  BY <1>1 DEF VaultOK, OneKey, Reveal, Plain
<1>3. \A s \in StoreSlots : Reveal(InSlot(s)) = Plain(InSlot(s))
  BY <1>2 DEF StoreSlots, InSlot
<1> QED
  BY <1>2, <1>3 DEF MapSecrets

LEMMA RevealNext ==
    ASSUME VaultOK'
    PROVE  MapSecrets' = [s \in StoreSlots |-> Plain(InSlot(s)')]
<1>1. \A n \in Stored : credentials'[n] \in Ciphertexts' /\ sshKeys'[n] \in Ciphertexts'
  BY DEF Ciphertexts
<1>2. \A n \in Stored : /\ Reveal(credentials[n])' = Plain(credentials'[n])
                        /\ Reveal(sshKeys[n])' = Plain(sshKeys'[n])
  BY <1>1 DEF VaultOK, OneKey, Reveal, Plain
<1>3. \A s \in StoreSlots : Reveal(InSlot(s))' = Plain(InSlot(s)')
  BY <1>2 DEF StoreSlots, InSlot
<1> QED
  BY <1>3 DEF MapSecrets

LEMMA SecretsKept ==
    ASSUME VaultOK, VaultOK', UNCHANGED <<credentials, sshKeys>>
    PROVE  MapSecrets' = MapSecrets
  BY RevealIsPlain, RevealNext DEF InSlot

StoreStep == Store!StoreNext \/ UNCHANGED <<MapOwner, isUnlocked, MapSecrets>>

LEMMA QuietStore ==
    ASSUME UNCHANGED vaultVars
    PROVE  StoreStep
  BY DEF vaultVars, StoreStep, MapOwner, MapSecrets, OwnerKey, Reveal, InSlot

\* A successful unlock opens the store for its owner.
LEMMA UnlockOpens ==
    ASSUME VaultOK, VaultOK', NEW p \in Passphrases, UnlockSucceeds(p)
    PROVE  StoreStep
<1>1. p \in Passphrases \ {""} /\ isUnlocked' = TRUE /\ UNCHANGED <<credentials, sshKeys>>
  BY DEF UnlockSucceeds
<1>2. MapSecrets' = MapSecrets
  BY <1>1, SecretsKept
<1>3. MapOwner \in {None, p} /\ MapOwner' = p
  <2>1. CASE FirstUnlock(p)
    <3>1. PICK s \in Salts : salt' = s /\ passHash' = IDKey(IDKey(p, s), s)
      BY <2>1 DEF FirstUnlock
    <3>2. salt' # None
      BY <3>1, NoneAssumption
    <3>3. OwnerKey'[1] = p
      BY <3>1 DEF OwnerKey, IDKey
    <3> QED
      BY <2>1, <3>2, <3>3 DEF FirstUnlock, MapOwner
  <2>2. CASE UnlockAgain(p)
    <3>1. salt # None /\ salt' = salt /\ passHash' = passHash
          /\ passHash = IDKey(IDKey(p, salt), salt)
      BY <2>2 DEF UnlockAgain, Verifies
    <3>2. OwnerKey[1] = p /\ OwnerKey'[1] = p
      BY <3>1 DEF OwnerKey, IDKey
    <3> QED
      BY <3>1, <3>2 DEF MapOwner
  <2> QED
    BY <2>1, <2>2 DEF UnlockSucceeds
<1>4. Store!Open(p)
  BY <1>1, <1>2, <1>3 DEF Store!Open, MapOwner, MapSecrets, StoreSlots, InSlot
<1> QED
  BY <1>1, <1>4 DEF StoreStep, Store!StoreNext

\* Storing a secret in an unlocked vault puts it in its slot.
LEMMA SealingPuts ==
    ASSUME VaultOK, VaultOK', isUnlocked, NEW s \in StoreSlots, NEW v \in Values \cup KeyPairs,
           \A r \in StoreSlots : Plain(InSlot(r)') = IF r = s THEN v ELSE Plain(InSlot(r)),
           UNCHANGED <<isUnlocked, salt, passHash>>
    PROVE  StoreStep
<1>1. MapSecrets' = [MapSecrets EXCEPT ![s] = v]
  <2>1. MapSecrets = [r \in StoreSlots |-> Plain(InSlot(r))]
    BY RevealIsPlain
  <2>2. MapSecrets' = [r \in StoreSlots |-> Plain(InSlot(r)')]
    BY RevealNext
  <2>3. [MapSecrets EXCEPT ![s] = v] =
          [r \in StoreSlots |-> IF r = s THEN v ELSE Plain(InSlot(r))]
    BY <2>1
  <2> QED
    BY <2>2, <2>3
<1>2. MapOwner' = MapOwner
  BY DEF MapOwner, OwnerKey
<1>3. Store!Put(s, v)
  BY <1>1, <1>2 DEF Store!Put, MapOwner, MapSecrets, StoreSlots, InSlot
<1> QED
  BY <1>3 DEF StoreStep, Store!StoreNext, StoreSlots

LEMMA AddCredentialPuts ==
    ASSUME VaultOK, VaultOK', NEW n \in Names, NEW v \in Values, AddCredential(n, v)
    PROVE  StoreStep
<1>1. CASE ~isUnlocked
  BY <1>1, QuietStore DEF AddCredential, vaultVars
<1>2. CASE isUnlocked
  <2> DEFINE x == Seal(masterKey, v)
             s == <<"credential", Named(n)>>
  <2>1. x \in Sealed(Values) /\ x.text = v /\ x # None
    BY <1>2, SealedType, NoneAssumption
  <2>2. s \in StoreSlots /\ Named(n) \in Stored
    BY NamedStored DEF StoreSlots
  <2>3. credentials' = [credentials EXCEPT ![Named(n)] = x]
        /\ UNCHANGED <<isUnlocked, salt, passHash, sshKeys>>
    BY <1>2 DEF AddCredential
  <2> HIDE DEF x
  <2>4. ASSUME NEW r \in StoreSlots
        PROVE  Plain(InSlot(r)') = IF r = s THEN v ELSE Plain(InSlot(r))
    <3>1. PICK k \in {"credential", "ssh"}, m \in Stored : r = <<k, m>>
      BY DEF StoreSlots
    <3>2. InSlot(r) = (IF k = "ssh" THEN sshKeys[m] ELSE credentials[m])
          /\ InSlot(r)' = (IF k = "ssh" THEN sshKeys'[m] ELSE credentials'[m])
      BY <3>1 DEF InSlot
    <3>3. r = s <=> k = "credential" /\ m = Named(n)
      BY <3>1
    <3>4. \A q \in Stored : credentials'[q] = IF q = Named(n) THEN x ELSE credentials[q]
      BY <2>2, <2>3 DEF VaultOK
    <3> HIDE DEF s
    <3> QED
      BY <2>1, <2>3, <3>2, <3>3, <3>4 DEF Plain
  <2> HIDE DEF s
  <2> QED
    BY <1>2, <2>2, <2>3, <2>4, SealingPuts
<1> QED
  BY <1>1, <1>2

LEMMA AddSSHKeyPuts ==
    ASSUME VaultOK, VaultOK', NEW n \in Names, NEW v \in KeyPairs, AddSSHKey(n, v)
    PROVE  StoreStep
<1>1. CASE ~isUnlocked
  BY <1>1, QuietStore DEF AddSSHKey, vaultVars
<1>2. CASE isUnlocked
  <2> DEFINE x == Seal(masterKey, v)
             s == <<"ssh", Named(n)>>
  <2>1. x \in Sealed(KeyPairs) /\ x.text = v /\ x # None
    BY <1>2, SealedType, NoneAssumption
  <2>2. s \in StoreSlots /\ Named(n) \in Stored
    BY NamedStored DEF StoreSlots
  <2>3. sshKeys' = [sshKeys EXCEPT ![Named(n)] = x]
        /\ UNCHANGED <<isUnlocked, salt, passHash, credentials>>
    BY <1>2 DEF AddSSHKey
  <2> HIDE DEF x
  <2>4. ASSUME NEW r \in StoreSlots
        PROVE  Plain(InSlot(r)') = IF r = s THEN v ELSE Plain(InSlot(r))
    <3>1. PICK k \in {"credential", "ssh"}, m \in Stored : r = <<k, m>>
      BY DEF StoreSlots
    <3>2. InSlot(r) = (IF k = "ssh" THEN sshKeys[m] ELSE credentials[m])
          /\ InSlot(r)' = (IF k = "ssh" THEN sshKeys'[m] ELSE credentials'[m])
      BY <3>1 DEF InSlot
    <3>3. r = s <=> k = "ssh" /\ m = Named(n)
      BY <3>1
    <3>4. \A q \in Stored : sshKeys'[q] = IF q = Named(n) THEN x ELSE sshKeys[q]
      BY <2>2, <2>3 DEF VaultOK
    <3> HIDE DEF s
    <3> QED
      BY <2>1, <2>3, <3>2, <3>3, <3>4 DEF Plain
  <2> HIDE DEF s
  <2> QED
    BY <1>2, <2>2, <2>3, <2>4, SealingPuts
<1> QED
  BY <1>1, <1>2

LEMMA LockCloses ==
    ASSUME VaultOK, VaultOK', Lock
    PROVE  StoreStep
<1>1. MapSecrets' = MapSecrets /\ MapOwner' = MapOwner /\ isUnlocked' = FALSE
  BY SecretsKept DEF Lock, MapOwner, OwnerKey
<1>2. Store!Close
  BY <1>1 DEF Store!Close, MapOwner, MapSecrets, StoreSlots, InSlot
<1> QED
  BY <1>2 DEF StoreStep, Store!StoreNext

LEMMA EnsureOpens ==
    ASSUME Inv, VaultOK', EnsureUnlocked
    PROVE  StoreStep
<1>1. CASE isUnlocked
  BY <1>1, QuietStore DEF EnsureUnlocked
<1>2. CASE ~isUnlocked
  <2>1. PICK p \in Passphrases : p = Remembered
    BY InputsAssumption DEF Inv, Remembered, DefaultName
  <2>2. Unlock(p)
    BY <1>2, <2>1 DEF EnsureUnlocked, Unlock, UnlockSucceeds, UnlockFails, FirstUnlock,
                      UnlockAgain, Verifies
  <2> QED
    BY <2>2, UnlockOpens, QuietStore DEF Unlock, UnlockFails, Inv
<1> QED
  BY <1>1, <1>2

LEMMA StoreRefinementStep ==
    ASSUME Inv, Inv', [ServiceNext]_serviceVars
    PROVE  StoreStep
<1>0. VaultOK /\ VaultOK'
  BY DEF Inv
<1>1. ASSUME NEW c \in Clients, NEW p \in Passphrases, UnlockRPC(c, p)
      PROVE  StoreStep
  BY <1>0, <1>1, UnlockOpens, QuietStore DEF UnlockRPC, UnlockFails
<1>2. ASSUME NEW c \in Clients, LockRPC(c)
      PROVE  StoreStep
  BY <1>0, <1>2, LockCloses DEF LockRPC
<1>3. ASSUME EnsureUnlocked
      PROVE  StoreStep
  BY <1>0, <1>3, EnsureOpens
<1>4. ASSUME NEW c \in Clients, EndAddCredential(c)
      PROVE  StoreStep
  <2>1. PICK n \in Names, v \in Values : n = calls[c].name /\ v = calls[c].value
    BY <1>4 DEF EndAddCredential, Inv, CallsOK, CallOK
  <2>2. AddCredential(n, v)
    BY <1>4, <2>1 DEF EndAddCredential, AddCredential
  <2> QED
    BY <1>0, <2>2, AddCredentialPuts
<1>5. ASSUME NEW c \in Clients, EndGetSSHKey(c)
      PROVE  StoreStep
  BY <1>5, QuietStore DEF EndGetSSHKey, vaultVars
<1>6. ASSUME NEW n \in Names, NEW pair \in KeyPairs, StoreSSHKey(n, pair)
      PROVE  StoreStep
  BY <1>0, <1>6, AddSSHKeyPuts DEF StoreSSHKey
<1>7. CASE UNCHANGED serviceVars
  BY <1>7, QuietStore DEF serviceVars, vaultVars
<1> QED
  BY <1>1, <1>2, <1>3, <1>4, <1>5, <1>6, <1>7
     DEF ServiceNext, BeginAddCredential, BeginGetSSHKey

\* The vault RPCs keep the promises of SecretStore in every instance: the
\* first passphrase owns the vault for good, and no lock, unlock or failed
\* attempt of any client loses or changes a secret.
THEOREM VaultImplementsStore == ServiceSpec => ImplementsStore
<1>1. ServiceInit => Store!StoreInit
  <2> SUFFICES ASSUME ServiceInit PROVE Store!StoreInit
    OBVIOUS
  <2>1. MapSecrets = [s \in StoreSlots |-> None]
    BY DEF ServiceInit, VaultInit, MapSecrets, StoreSlots, InSlot, Reveal
  <2> QED
    BY <2>1 DEF ServiceInit, VaultInit, Store!StoreInit, MapSecrets, StoreSlots, InSlot
<1>2. Inv /\ Inv' /\ [ServiceNext]_serviceVars => [Store!StoreNext]_(Store!storeVars)
  <2> SUFFICES ASSUME StoreStep PROVE [Store!StoreNext]_(Store!storeVars)
    BY StoreRefinementStep
  <2> QED
    BY DEF StoreStep, Store!storeVars, MapOwner, MapSecrets, StoreSlots, InSlot
<1>3. ServiceInit => Inv
  BY InvInit
<1>4. Inv /\ [ServiceNext]_serviceVars => Inv'
  BY InvStep
<1> QED
  BY <1>1, <1>2, <1>3, <1>4, PTL DEF ServiceSpec, ImplementsStore, Store!StoreSpec

\* GetCredential answers every name with the value last added under it.
THEOREM CredentialsAlwaysReadable == ServiceSpec => []CredentialAnswers
<1>1. Inv => CredentialAnswers
  <2> SUFFICES ASSUME Inv, isUnlocked, NEW n \in Stored
               PROVE  GetCredential(n) =
                         IF credentials[n] = None THEN Answer("not_found", None)
                         ELSE Answer("ok", Reveal(credentials[n]))
    BY DEF CredentialAnswers
  <2>1. credentials[n] # None => credentials[n].key = masterKey
    BY DEF Inv, VaultOK, OneKey, Ciphertexts
  <2>2. credentials[n] # None => Reveal(credentials[n]) = credentials[n].text
    BY <2>1 DEF Inv, VaultOK, OneKey, Reveal
  <2> QED
    BY <2>1, <2>2 DEF GetCredential, Decrypt, Opens
<1>2. ServiceInit => Inv
  BY InvInit
<1>3. Inv /\ [ServiceNext]_serviceVars => Inv'
  BY InvStep
<1> QED
  BY <1>1, <1>2, <1>3, PTL DEF ServiceSpec
=============================================================================
