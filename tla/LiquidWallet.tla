---------------------------- MODULE LiquidWallet ----------------------------
(***************************************************************************)
(* The LiquidWallet of src/liquid/wallet.rs and the Arc<Mutex<..>> that    *)
(* serialises the service's blocking tasks and the refund worker.          *)
(* tip_height is a cache: the height seen by the last sync.                *)
(***************************************************************************)
EXTENDS LiquidChain

CONSTANTS
    Call,       \* slots for requests in progress
    Worker      \* the refund worker

ASSUME OwnerAssumption == Worker \notin Call /\ None \notin Call \cup {Worker}

VARIABLES
    owner,      \* who holds the wallet mutex, or None
    walletTip   \* wollet.tip().height()

walletVars == <<owner, walletTip>>

WalletTypeOK ==
    /\ owner \in Call \cup {Worker, None}
    /\ walletTip \in 1..MaxTip

WalletInit == owner = None /\ walletTip = 1

Lock(p) == owner = None /\ owner' = p
Unlock(p) == owner = p /\ owner' = None

sync == walletTip' = tip

LockAndSync(p) == Lock(p) /\ sync

\* Variant: a transaction in the mempool is not told from a mined one.
ConfirmationsOfMempool(s) ==
    IF walletTip < height[s] THEN 0 ELSE walletTip - height[s] + 1

\* tx_confirmations_for_script.  The history is read from the server when it is
\* asked for, the tip is the wallet's: a block in between gives no confirmation.
Confirmations(s) ==
    IF height[s] = 0 \/ walletTip < height[s] THEN 0 ELSE walletTip - height[s] + 1
=============================================================================
