------------------------------ MODULE MCEngine ------------------------------
(* The suite of wallet-engine: the transaction monitor, the pocket wallet,   *)
(* the two storages its record can be kept in, and the signer in a worker. A *)
(* behaviour is one of its subject; the others keep one initial state.       *)
EXTENDS TxMonitor, PocketWallet, EncryptedStorage, KeyStoreStorage, IsolatedSigner, TLC

CONSTANTS c1, c2, c3, \* calls, and polls of the monitor
          k1, k2,     \* keys, and entries of the monitor
          p1, p2, r1, s1, \* seed phrases, raw EVM and Solana keys
          a1, a2, right, typo, empty, \* authenticators and passphrases
          t1, w1, chain

VARIABLE subject
suiteVars == <<subject, txVars, walletVars, vaultVars, storeVars, signerVars>>

MCChainOf == [t \in Txs |-> chain]

\* A record is sealed under a passphrase, perhaps the empty one, and perhaps a passkey.
MCFirstRecords ==
  [pass : {right, empty}, prf : {a1, None}]

Symmetry == Permutations({c1, c2}) \cup Permutations({k1, k2})

SuiteInit ==
  /\ subject \in {"monitor", "wallet", "vault", "keystore", "signer"}
  /\ TxInit /\ WalletInit /\ VaultInit /\ StoreInit /\ SignerInit
  /\ subject # "monitor" => \A t \in Txs : txStored[t] = None
  /\ subject # "wallet" => isolated /\ record = None
  /\ subject # "vault" => vault = None

\* Only the monitor must never be stuck; the others stop at their bounds.
SuiteNext ==
  /\ UNCHANGED subject
  /\ \/ subject # "monitor" /\ UNCHANGED suiteVars
     \/ subject = "monitor" /\ TxNext
        /\ UNCHANGED <<walletVars, vaultVars, storeVars, signerVars>>
     \/ subject = "wallet" /\ WalletNext
        /\ UNCHANGED <<txVars, vaultVars, storeVars, signerVars>>
     \/ subject = "vault" /\ VaultNext
        /\ UNCHANGED <<txVars, walletVars, storeVars, signerVars>>
     \/ subject = "keystore" /\ StoreNext
        /\ UNCHANGED <<txVars, walletVars, vaultVars, signerVars>>
     \/ subject = "signer" /\ SignerNext
        /\ UNCHANGED <<txVars, walletVars, vaultVars, storeVars>>
SuiteSpec == SuiteInit /\ [][SuiteNext]_suiteVars

\* The types of the variables of the part a behaviour is of.
TypeOK ==
  CASE subject = "monitor" -> TxTypeOK
    [] subject = "wallet" -> WalletTypeOK
    [] subject = "vault" -> VaultTypeOK
    [] subject = "keystore" -> StoreTypeOK
    [] subject = "signer" -> SignerTypeOK

\* No signature is made with another key than that of the account the app was shown
\* or the request named, while accounts, wallets and workers change under the calls
\* (PocketWallet and IsolatedSigner).
SignedAsShown == SignedByItsAccount /\ SignatureOfTheRequest

\* The wallet can be recovered from what is stored: the passphrase of the record was
\* proven by who set it, and a record sealed by the key store never outlives its key,
\* but for a clear that overtook a save or deleted the key and failed (EncryptedStorage
\* and KeyStoreStorage).
StorageRecovers == RecoveryProven /\ RecordHasItsKey
=============================================================================
