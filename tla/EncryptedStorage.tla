--------------------------- MODULE EncryptedStorage ---------------------------
(* The wallet record at rest (wallet-engine/src/storage/encrypted.ts): sealed *)
(* under a data key that a passphrase wrap always opens and a PRF wrap opens  *)
(* on the authenticator that made it. A record is its two wraps; a passphrase *)
(* wrap is the passphrase, a PRF wrap the authenticator. What is unlocked is  *)
(* remembered for the session, and loads, saves and locks overlap.            *)
EXTENDS ConnectLib

CONSTANTS Passphrases,    \* what the user may type; Empty is one of them
          Empty,          \* the empty passphrase
          Authenticators, \* passkeys that may answer
          VaultCalls,     \* loads and saves running at a time
          FirstRecords    \* records an earlier session left

VARIABLES vault,    \* the stored record, or None
          verified, \* verifiedPassphrase
          viaPrf,   \* openedViaPrf
          prfKey,   \* prfKeyCache: the authenticator whose key is cached
          sealed,   \* sealedWith: the wraps the security report names
          vaultTasks,
          typed     \* history: passphrases typed where none had to be proven
vaultVars == <<vault, verified, viaPrf, prfKey, sealed, vaultTasks, typed>>

Records == [pass: Passphrases, prf: Authenticators \union {None}]
ASSUME FirstRecordsAssumption == FirstRecords \subseteq Records
Wraps(r) == {"passphrase"} \union (IF r.prf = None THEN {} ELSE {"prf"})

VaultInit ==
  /\ vault \in FirstRecords \union {None} /\ verified = None /\ viaPrf = FALSE
  /\ prfKey = None /\ sealed = None /\ typed = {}
  /\ vaultTasks = [c \in VaultCalls |-> Idle]

InVault(c, pc) == vaultTasks[c].pc = pc
Vaults(c, t) == vaultTasks' = [vaultTasks EXCEPT ![c] = t]

\* prfKeyFor(): the cached key, or what the authenticator present answers.
PrfAnswers == IF prfKey # None THEN {prfKey} ELSE Authenticators \union {None}

\* load() reads the record; loadV2 tries the PRF wrap first.
VaultLoad(c) ==
  /\ InVault(c, "idle") /\ vault # None
  /\ Vaults(c, [pc |-> IF vault.prf = None THEN "typing" ELSE "touching", rec |-> vault])
  /\ sealed' = Wraps(vault)
  /\ UNCHANGED <<vault, verified, viaPrf, prfKey, typed>>
\* A wrap that does not open falls through to the passphrase; the key that did
\* not fit is dropped.
LoadTouched(c) ==
  /\ InVault(c, "touching")
  /\ \E a \in PrfAnswers :
       IF a = vaultTasks[c].rec.prf
       THEN prfKey' = a /\ viaPrf' = TRUE /\ Vaults(c, Idle)
       ELSE /\ prfKey' = None /\ viaPrf' = viaPrf
            /\ Vaults(c, [vaultTasks[c] EXCEPT !.pc = "typing"])
  /\ UNCHANGED <<vault, verified, sealed, typed>>
\* rememberVerified(): the empty passphrase opens an old record and is never
\* reused.
LoadTyped(c) ==
  /\ InVault(c, "typing") /\ Vaults(c, Idle)
  /\ \E p \in Passphrases :
       IF p = vaultTasks[c].rec.pass
       THEN viaPrf' = FALSE /\ verified' = IF p = Empty THEN None ELSE p
       ELSE UNCHANGED <<verified, viaPrf>>
  /\ UNCHANGED <<vault, prfKey, sealed, typed>>

\* passphraseForSave(): the one proven in this session, or one that is asked
\* for; it is proven against the stored wrap if the session was opened by PRF.
SaveAsks(c) ==
  /\ InVault(c, "idle")
  /\ Vaults(c, IF verified # None THEN [pc |-> "sealing", pass |-> verified]
              ELSE [pc |-> "asking"])
  /\ UNCHANGED <<vault, verified, viaPrf, prfKey, sealed, typed>>
\* A mutant of MustProve.
Bad_MustProve == FALSE
MustProve == viaPrf
SaveTyped(c) ==
  /\ InVault(c, "asking")
  /\ \E p \in Passphrases :
       /\ Vaults(c, IF p = Empty THEN Idle
                   ELSE [pc |-> IF MustProve THEN "proving" ELSE "sealing", pass |-> p])
       /\ typed' = IF p = Empty \/ viaPrf THEN typed ELSE typed \union {p}
  /\ UNCHANGED <<vault, verified, viaPrf, prfKey, sealed>>
\* opensStoredPassphraseWrap(): a wrap under the empty passphrase protects
\* nothing and needs no proof.
SaveProves(c) ==
  /\ InVault(c, "proving")
  /\ LET p == vaultTasks[c].pass
         open == vault # None /\ vault.pass \in {p, Empty}
     IN /\ Vaults(c, IF open THEN [pc |-> "sealing", pass |-> p] ELSE Idle)
        /\ typed' = IF open /\ vault.pass = Empty THEN typed \union {p} ELSE typed
  /\ UNCHANGED <<vault, verified, viaPrf, prfKey, sealed>>
SaveSeals(c) ==
  /\ InVault(c, "sealing")
  /\ \E a \in PrfAnswers :
       LET r == [pass |-> vaultTasks[c].pass, prf |-> a]
       IN prfKey' = a /\ sealed' = Wraps(r) /\ Vaults(c, [pc |-> "writing", rec |-> r])
  /\ UNCHANGED <<vault, verified, viaPrf, typed>>
SaveWrites(c) ==
  /\ InVault(c, "writing") /\ Vaults(c, Idle)
  /\ vault' = vaultTasks[c].rec /\ verified' = vaultTasks[c].rec.pass
  /\ UNCHANGED <<viaPrf, prfKey, sealed, typed>>
\* A prompt the user cancels, or a storage that refuses.
VaultCallFails(c) ==
  /\ ~InVault(c, "idle") /\ Vaults(c, Idle)
  /\ UNCHANGED <<vault, verified, viaPrf, prfKey, sealed, typed>>

\* forgetUnlock() and clear(): calls that are running go on.
ForgetUnlock ==
  /\ verified' = None /\ viaPrf' = FALSE /\ prfKey' = None
  /\ UNCHANGED <<vault, sealed, vaultTasks, typed>>
ClearVault ==
  /\ vault' = None /\ sealed' = None /\ verified' = None /\ viaPrf' = FALSE /\ prfKey' = None
  /\ UNCHANGED <<vaultTasks, typed>>

VaultNext ==
  \/ ForgetUnlock \/ ClearVault
  \/ \E c \in VaultCalls :
       \/ VaultLoad(c) \/ LoadTouched(c) \/ LoadTyped(c) \/ SaveAsks(c) \/ SaveTyped(c)
       \/ SaveProves(c) \/ SaveSeals(c) \/ SaveWrites(c) \/ VaultCallFails(c)

(* --------------------------------------------------------------- properties *)
VaultTypeOK ==
  /\ vault \in Records \union {None} /\ verified \in (Passphrases \ {Empty}) \union {None}
  /\ viaPrf \in BOOLEAN /\ prfKey \in Authenticators \union {None}
  /\ typed \subseteq Passphrases

\* A session that a passkey opened never makes an unproven passphrase the way
\* back: the stored recovery passphrase is one an earlier session left, or one
\* typed where the record was not opened by PRF (or was sealed under "").
RecoveryProven ==
  vault # None => vault.pass \in typed \union {r.pass : r \in FirstRecords}
===============================================================================
