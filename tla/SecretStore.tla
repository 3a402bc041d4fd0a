----------------------------- MODULE SecretStore ----------------------------
(***************************************************************************)
(* What the vault promises, without keys, salts or ciphertexts: the first   *)
(* passphrase to open the store owns it for good, no other one opens it,    *)
(* and a secret that was put stays what it is, through any number of        *)
(* closings, until the same slot is put again.                              *)
(***************************************************************************)
CONSTANTS Owners,    \* the passphrases
          Slots,     \* where a secret can be put
          Secrets,   \* what can be put
          Nothing    \* no owner, no secret

VARIABLES owner, open, secrets

storeVars == <<owner, open, secrets>>

StoreInit ==
    /\ owner = Nothing
    /\ open = FALSE
    /\ secrets = [s \in Slots |-> Nothing]

Open(p) ==
    /\ owner \in {Nothing, p}
    /\ owner' = p
    /\ open' = TRUE
    /\ UNCHANGED secrets

Close ==
    /\ open' = FALSE
    /\ UNCHANGED <<owner, secrets>>

Put(s, v) ==
    /\ open
    /\ secrets' = [secrets EXCEPT ![s] = v]
    /\ UNCHANGED <<owner, open>>

StoreNext ==
    \/ \E p \in Owners : Open(p)
    \/ Close
    \/ \E s \in Slots, v \in Secrets : Put(s, v)

StoreSpec == StoreInit /\ [][StoreNext]_storeVars
=============================================================================
