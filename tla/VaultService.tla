---------------------------- MODULE VaultService ----------------------------
(***************************************************************************)
(* The vault RPCs (VaultService in core/internal/server/server.go) over the *)
(* vault.  Unlock and Lock hold VaultService.mu throughout and are one      *)
(* action each.  AddCredential and GetSSHKey are two: ensureUnlocked under  *)
(* the mutex, then the vault operation without it, so that a Lock of        *)
(* another client may come between.                                         *)
(*                                                                         *)
(* Code in the server process reaches the same vault through Vault(); it    *)
(* may add SSH keys (no RPC does).  Only the RPCs lock and unlock.          *)
(***************************************************************************)
EXTENDS Vault

CONSTANT Clients   \* concurrent RPC callers

VARIABLES
    lastPassphrase,   \* VaultService.lastPassphrase
    calls             \* client -> its call and the last answer it got

serviceVars == <<isUnlocked, masterKey, salt, passHash, credentials, sshKeys,
                 lastPassphrase, calls>>

\* "adding", "reading": behind ensureUnlocked, before the vault operation.
Call == [pc : {"idle", "adding", "reading"}, name : Names \cup Stored \cup {None},
         value : Values \cup {None},
         reply : [status : {"none", "ok", "failed", "locked", "placeholder",
                            "cannot_decrypt"},
                  text : KeyPairs \cup {None}]]

Returned(reply) == [pc |-> "idle", name |-> None, value |-> None, reply |-> reply]

ServiceInit ==
    /\ VaultInit
    /\ lastPassphrase = ""
    /\ calls = [c \in Clients |-> Returned(Answer("none", None))]

\* Slip_*: plausible slips in the code, which the properties must notice.
Slip_RememberAlways(c, passphrase) ==
    /\ calls[c].pc = "idle"
    /\ lastPassphrase' = passphrase
    /\ \/ /\ UnlockSucceeds(passphrase)
          /\ calls' = [calls EXCEPT ![c] = Returned(Answer("ok", None))]
       \/ /\ UnlockFails(passphrase)
          /\ calls' = [calls EXCEPT ![c] = Returned(Answer("failed", None))]

\* An empty passphrase is refused before, and again by, the vault.
UnlockRPC(c, passphrase) ==
    /\ calls[c].pc = "idle"
    /\ \/ /\ UnlockSucceeds(passphrase)
          /\ lastPassphrase' = passphrase
          /\ calls' = [calls EXCEPT ![c] = Returned(Answer("ok", None))]
       \/ /\ UnlockFails(passphrase)
          /\ calls' = [calls EXCEPT ![c] = Returned(Answer("failed", None))]
          /\ UNCHANGED lastPassphrase

Slip_LockForgetsPassphrase(c) ==
    /\ calls[c].pc = "idle"
    /\ Lock
    /\ lastPassphrase' = ""
    /\ calls' = [calls EXCEPT ![c] = Returned(Answer("ok", None))]

LockRPC(c) ==
    /\ calls[c].pc = "idle"
    /\ Lock
    /\ calls' = [calls EXCEPT ![c] = Returned(Answer("ok", None))]
    /\ UNCHANGED lastPassphrase

Remembered == IF lastPassphrase = "" THEN DefaultName ELSE lastPassphrase

\* The error of Unlock is dropped.
EnsureUnlocked == IF isUnlocked THEN UNCHANGED vaultVars ELSE Unlock(Remembered)

BeginAddCredential(c, name, value) ==
    /\ calls[c].pc = "idle"
    /\ EnsureUnlocked
    /\ calls' = [calls EXCEPT ![c] =
                   [@ EXCEPT !.pc = "adding", !.name = name, !.value = value]]
    /\ UNCHANGED lastPassphrase

EndAddCredential(c) ==
    /\ calls[c].pc = "adding"
    /\ AddCredential(calls[c].name, calls[c].value)
    /\ calls' = [calls EXCEPT ![c] =
                   Returned(Answer(IF isUnlocked THEN "ok" ELSE "failed", None))]
    /\ UNCHANGED lastPassphrase

BeginGetSSHKey(c, name) ==
    /\ calls[c].pc = "idle"
    /\ EnsureUnlocked
    /\ calls' = [calls EXCEPT ![c] = [@ EXCEPT !.pc = "reading", !.name = Named(name)]]
    /\ UNCHANGED lastPassphrase

\* The reply keeps the error apart that the handler drops: the response to the
\* client has an empty pair for "locked" and for "cannot_decrypt".
EndGetSSHKey(c) ==
    /\ calls[c].pc = "reading"
    /\ calls' = [calls EXCEPT ![c] = Returned(GetSSHKey(calls[c].name))]
    /\ UNCHANGED <<isUnlocked, masterKey, salt, passHash, credentials, sshKeys,
                   lastPassphrase>>

StoreSSHKey(name, pair) == AddSSHKey(name, pair) /\ UNCHANGED <<lastPassphrase, calls>>

ServiceNext ==
    \/ \E c \in Clients :
          \/ \E p \in Passphrases : UnlockRPC(c, p)
          \/ LockRPC(c)
          \/ \E n \in Names, v \in Values : BeginAddCredential(c, n, v)
          \/ EndAddCredential(c)
          \/ \E n \in Names : BeginGetSSHKey(c, n)
          \/ EndGetSSHKey(c)
    \/ \E n \in Names, pair \in KeyPairs : StoreSSHKey(n, pair)

ServiceSpec == ServiceInit /\ [][ServiceNext]_serviceVars

-----------------------------------------------------------------------------
(* Properties                                                              *)

Ciphertexts == {credentials[n] : n \in Stored} \cup {sshKeys[n] : n \in Stored}

\* The key that the vault's passphrase yields, in the hash kept to verify it.
OwnerKey == passHash[1]

CallOK(call) ==
    /\ call.pc = "adding" => call.name \in Names /\ call.value \in Values
    /\ call.pc = "reading" => call.name \in Stored

\* Types, and that salt and passHash are set together.
VaultTypeOK ==
    /\ isUnlocked \in BOOLEAN
    /\ masterKey \in Keys \cup {None}
    /\ salt \in Salts \cup {None}
    /\ IF salt = None THEN passHash = None
                      ELSE passHash \in {IDKey(IDKey(p, salt), salt) : p \in Passphrases \ {""}}
    /\ credentials \in [Stored -> Sealed(Values) \cup {None}]
    /\ sshKeys \in [Stored -> Sealed(KeyPairs) \cup {None}]
    /\ lastPassphrase \in Passphrases
    /\ calls \in [Clients -> Call]
    /\ \A c \in Clients : CallOK(calls[c])

\* The vault is unlocked exactly while it holds a key, the key is the one of
\* its passphrase, and everything stored was sealed with that key: whatever
\* the order of locks, unlocks and failed unlocks, no secret is ever sealed
\* with a key that the passphrase does not give back.
OneKey ==
    /\ isUnlocked <=> masterKey # None
    /\ isUnlocked => salt # None /\ masterKey = OwnerKey
    /\ \A x \in Ciphertexts : x # None => salt # None /\ x.key = OwnerKey

\* ensureUnlocked drops the error of Unlock.  It may: the passphrase it falls
\* back on, the last good one or "default", always opens the vault.
RememberedOpens == salt # None => Verifies(Remembered)

\* So no RPC goes on from ensureUnlocked with a vault that is still locked.
EnsureNeverFails ==
    [][\A c \in Clients : calls[c].pc = "idle" /\ calls'[c].pc # "idle"
          => isUnlocked']_serviceVars

\* GetSSHKey answers with the pair last stored under the name, with the
\* placeholder if there is none, or finds the vault locked behind its back;
\* it never fails to decrypt.
KeyAnswers ==
    [][\A c \in Clients : calls[c].pc = "reading" /\ calls'[c].pc = "idle" =>
          LET stored == sshKeys[calls[c].name]
          IN  calls'[c].reply =
                 CASE ~isUnlocked                 -> Answer("locked", None)
                   [] isUnlocked /\ stored = None  -> Answer("placeholder", None)
                   [] isUnlocked /\ stored # None  -> Answer("ok", stored.text)]_serviceVars

\* What the owner's key makes of a ciphertext.
Reveal(x) == IF x # None /\ x.key = OwnerKey THEN x.text ELSE None

\* GetCredential gives every name the value last added under it, as the
\* owner's key reveals it, and never fails to decrypt.
CredentialAnswers ==
    isUnlocked => \A n \in Stored :
        GetCredential(n) = IF credentials[n] = None THEN Answer("not_found", None)
                           ELSE Answer("ok", Reveal(credentials[n]))

\* The vault with its keys and ciphertexts is a SecretStore: a slot shows what
\* the owner's key makes of it.
Store == INSTANCE SecretStore WITH
    Owners  <- Passphrases \ {""},
    Slots   <- {"credential", "ssh"} \X Stored,
    Secrets <- Values \cup KeyPairs,
    Nothing <- None,
    owner   <- IF salt = None THEN None ELSE OwnerKey[1],
    open    <- isUnlocked,
    secrets <- [s \in {"credential", "ssh"} \X Stored |->
                  Reveal(IF s[1] = "ssh" THEN sshKeys[s[2]] ELSE credentials[s[2]])]

\* The RPCs keep the promises of SecretStore: one owner for good, and no
\* secret lost or changed by locking, unlocking or a failed attempt.
ImplementsStore == Store!StoreSpec
=============================================================================
