---------------------------- MODULE LiquidChain ----------------------------
(***************************************************************************)
(* The Liquid chain and mempool as the electrum server shows them          *)
(* (external): the outputs of each swap's funding transaction and the one  *)
(* transaction that spends them.  No reorganisation and no eviction.  The  *)
(* spending rule is the witness script HtlcSpec::witness_script builds.    *)
(***************************************************************************)
EXTENDS SwapTypes

CONSTANT MaxTip     \* bound on the chain's height
ASSUME MaxTipAssumption == MaxTip \in Nat \ {0}

VARIABLES
    tip,        \* height of the best block
    htlc,       \* htlc[s]: the script that swap s funded, or None
    height,     \* height[s]: height of the funding transaction, 0 in the mempool
    spend,      \* spend[s]: the transaction that spends the HTLC, or None
    mined       \* the swaps whose spend is in a block

chainVars == <<tip, htlc, height, spend, mined>>

ChainTypeOK ==
    /\ tip \in 1..MaxTip
    /\ htlc \in [SwapId -> HtlcSpec \cup {None}]
    /\ height \in [SwapId -> 0..MaxTip]
    /\ spend \in [SwapId -> SpendTx \cup {None}]
    /\ mined \in SUBSET SwapId

ChainInit ==
    /\ tip = 1
    /\ htlc = [s \in SwapId |-> None]
    /\ height = [s \in SwapId |-> 0]
    /\ spend = [s \in SwapId |-> None]
    /\ mined = {}

Unspent(s) == htlc[s] # None /\ spend[s] = None

\* OP_IF branch: the preimage of the payment hash and the claimer's signature.
ClaimPathValid(s, tx, preimage) ==
    /\ tx.path = "claim"
    /\ tx.key = htlc[s].claimer
    /\ preimage = htlc[s].payment_hash

\* OP_ELSE branch: OP_CLTV against the transaction's nLockTime, which is the
\* refund height, and the refunder's signature.  Such a transaction is final
\* for the next block once the tip has the height.
RefundPathValid(s, tx) ==
    /\ tx.path = "refund"
    /\ tx.key = htlc[s].refunder
    /\ tip >= htlc[s].refund_lock_height

\* A spend is taken when its inputs are unspent; one that is already in the
\* mempool is taken again; a conflicting or a mined one is refused (neither
\* kind of spend signals replacement).
Accepts(s, tx, preimage) ==
    /\ htlc[s] # None
    /\ ClaimPathValid(s, tx, preimage) \/ RefundPathValid(s, tx)
    /\ spend[s] = None \/ (spend[s] = tx /\ s \notin mined)

BroadcastFunding(s, spec) ==
    /\ htlc' = [htlc EXCEPT ![s] = spec]
    /\ UNCHANGED <<tip, height, spend, mined>>

BroadcastSpend(s, tx) ==
    /\ spend' = [spend EXCEPT ![s] = tx]
    /\ UNCHANGED <<tip, htlc, height, mined>>

\* A block: any part of the mempool goes in, a spend not before its funding.
Mine ==
    /\ tip < MaxTip
    /\ tip' = tip + 1
    /\ \E F \in SUBSET {s \in SwapId : htlc[s] # None /\ height[s] = 0} :
         /\ height' = [s \in SwapId |-> IF s \in F THEN tip + 1 ELSE height[s]]
         /\ \E S \in SUBSET {s \in SwapId : spend[s] # None /\ height'[s] # 0} :
              mined' = mined \cup S
    /\ UNCHANGED <<htlc, spend>>
=============================================================================
