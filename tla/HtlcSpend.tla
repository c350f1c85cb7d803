----------------------------- MODULE HtlcSpend ------------------------------
(***************************************************************************)
(* One HTLC from its funding to the block that spends it, at the level of  *)
(* transactions: the outputs the wallet builds and looks up, the claim and *)
(* refund transactions of src/liquid/htlc.rs with their signatures, and    *)
(* the network running the witness script on them, one instruction a step. *)
(* LiquidChain states the rule this must come to.                          *)
(***************************************************************************)
EXTENDS HtlcScript, SwapTypes

CONSTANTS
    SellAsset,          \* assets the server may be started to sell
    StartTip,           \* heights of the chain at the start
    MaxTip,             \* bound on the chain's height
    LockTimeThreshold,  \* nLockTime is a height below it (500000000)
    AssetAmount,        \* amount of the asset in the HTLC
    Order,              \* orders the wallet puts three outputs in
    sha256,             \* sha256[i]: the payment hash of invoice i
    hash160             \* hash160[k]: the hash of key k's public key

Lbtc == "lbtc"          \* the policy asset
ASSUME DigestAssumption ==
    /\ DOMAIN sha256 = Invoice /\ IsInjective(sha256)
    /\ DOMAIN hash160 = Key /\ IsInjective(hash160)
    /\ \A i \in Invoice : Len(sha256[i]) = 32
    /\ \A k \in Key : Len(hash160[k]) = 20
ASSUME HeightAssumption ==
    /\ MaxTip \in Nat /\ LockTimeThreshold \in 0..MaxU32
    /\ StartTip \subseteq 1..MaxTip
ASSUME HtlcAssumption == AssetAmount \in Nat /\ SwapId # {}
ASSUME OrderAssumption == Order \subseteq Bijection(1..3, 1..3) /\ Order # {}

VARIABLES
    tip,        \* height of the best block
    funding,    \* the funding transaction, with the terms it was made on
    row,        \* what the swap's row keeps of it
    tx,         \* the transaction the network is asked to take
    vm,         \* the script interpreter, at one input of tx
    verdict     \* of the network on tx

vars == <<tip, funding, row, tx, vm, verdict>>

NotFunded == [outputs |-> <<>>]
NoRow == [witness_script |-> <<>>]
NoTx == [path |-> "none"]

Init ==
    /\ tip \in StartTip
    /\ funding = NotFunded /\ row = NoRow /\ tx = NoTx /\ vm = None
    /\ verdict = "none"

-----------------------------------------------------------------------------
(* build_and_broadcast_funding and the row made of its result.             *)

\* Variant: the sum is not cut off.
RefundLockHeightUnbounded(delta) == tip + delta

\* Variant: the sum wraps.
RefundLockHeightWraps(delta) == (tip + delta) % (MaxU32 + 1)

RefundLockHeight(delta) == SaturatingAdd(tip, delta)

\* The wallet's addresses and the buyer's are P2WPKH: OP_0 and the key's hash.
AddressHash(key) ==
    pubkey_hash160_from_p2wpkh_script(<<push_slice(<<>>), push_slice(hash160[key])>>)

ScriptOf(spec) ==
    witness_script([payment_hash |-> sha256[spec.payment_hash],
                    claimer_pubkey_hash160 |-> AddressHash(spec.claimer),
                    refunder_pubkey_hash160 |-> AddressHash(spec.refunder),
                    refund_lock_height |-> spec.refund_lock_height])

\* Variant: the outputs are told apart by their asset only.
HtlcVoutAnyScript(outputs, script, assets) ==
    {i \in DOMAIN outputs : outputs[i].asset \in assets}

\* The outputs locked by the script, of one of the assets.
HtlcVout(outputs, script, assets) ==
    {i \in DOMAIN outputs : outputs[i].script = script /\ outputs[i].asset \in assets}

\* The two explicit outputs and the change, in an order of the builder's.
Outputs(script, sold, amount, subsidy, change, order) ==
    LET Output(locked_by, asset, value) ==
            [script |-> locked_by, asset |-> asset, value |-> value]
        built == << Output(script, sold, amount), Output(script, Lbtc, subsidy),
                    Output(<<>>, change, 1) >>
    IN [i \in 1..3 |-> built[order[i]]]

\* build_and_broadcast_funding; the network fee is its last output.  A lookup
\* that finds nothing is an error after the broadcast.
Fund(sold, offer, direction, invoice, address) ==
    LET lock == RefundLockHeight(offer.refund_delta_blocks)
        spec == HtlcSpecFor(direction, invoice, address, lock)
        script == ScriptOf(spec)
    IN
    /\ funding = NotFunded
    /\ direction = "LnToLiquid" <=> invoice \in SwapId
    /\ \E change \in {sold, Lbtc}, order \in Order :
        LET outputs == Outputs(script, sold, AssetAmount, offer.fee_subsidy_sats,
                               change, order)
            asset_vout == HtlcVout(outputs, script, {sold})
            lbtc_vout == HtlcVout(outputs, script, {Lbtc} \ {sold})
        IN
        /\ funding' = [outputs |-> outputs, spec |-> spec, asset |-> sold, offer |-> offer,
                       tip |-> tip]
        /\ row' = IF asset_vout = {} \/ lbtc_vout = {} THEN NoRow
                  ELSE [asset_vout |-> Max(asset_vout), lbtc_vout |-> Max(lbtc_vout),
                        asset |-> sold, asset_amount |-> AssetAmount,
                        fee_subsidy_sats |-> offer.fee_subsidy_sats,
                        refund_lock_height |-> lock, witness_script |-> script]
    /\ UNCHANGED <<tip, tx, vm, verdict>>

-----------------------------------------------------------------------------
(* claim_tx_from_witness_script and refund_tx_from_witness_script.         *)

SEQUENCE_MAX == "max"
ENABLE_LOCKTIME_NO_RBF == "enable_locktime_no_rbf"

Body(key, fee, sequence, lock_time) ==
    [inputs |-> << [vout |-> row.asset_vout, sequence |-> sequence],
                   [vout |-> row.lbtc_vout, sequence |-> sequence] >>,
     outputs |-> << [key |-> key, asset |-> row.asset, value |-> row.asset_amount],
                    [key |-> key, asset |-> Lbtc, value |-> row.fee_subsidy_sats - fee],
                    [key |-> "fee", asset |-> Lbtc, value |-> fee] >>,
     lock_time |-> lock_time]

\* Variant: both inputs are signed with the asset's amount.
segwit_v0_sign_amount(key, body, input) ==
    [key |-> key,
     sighash |-> [body |-> body, input |-> input, script |-> row.witness_script,
                  value |-> row.asset_amount]]

\* SIGHASH_ALL commits to the whole transaction, the input, the script it opens
\* and the value it spends.
segwit_v0_sign(key, body, input) ==
    [key |-> key,
     sighash |-> [body |-> body, input |-> input, script |-> row.witness_script,
                  value |-> IF input = 1 THEN row.asset_amount ELSE row.fee_subsidy_sats]]

\* The witness stack of an input, the last item first.
StartScript(input, witness) ==
    [input |-> input, pc |-> 1, live |-> TRUE, ok |-> TRUE, stack |-> Reverse(witness)]

Submit(path, key, fee, body, tail) ==
    LET witness == [i \in 1..2 |-> <<segwit_v0_sign(key, body, i), key>> \o tail] IN
    /\ tx' = [path |-> path, key |-> key, fee |-> fee, body |-> body,
              preimage |-> IF path = "claim" THEN Head(tail) ELSE None,
              script |-> row.witness_script, witness |-> witness]
    /\ vm' = StartScript(1, witness[1])
    /\ UNCHANGED <<tip, funding, row, verdict>>

claim_tx(key, preimage, fee) ==
    /\ row # NoRow /\ tx = NoTx
    /\ fee < row.fee_subsidy_sats
    /\ Submit("claim", key, fee, Body(key, fee, SEQUENCE_MAX, 0), << preimage, <<1>> >>)

\* Variant: the inputs' sequence numbers are final.
refund_tx_final(key, fee) ==
    /\ row # NoRow /\ tx = NoTx
    /\ fee < row.fee_subsidy_sats
    /\ row.refund_lock_height < LockTimeThreshold
    /\ Submit("refund", key, fee,
              Body(key, fee, SEQUENCE_MAX, row.refund_lock_height), << <<>> >>)

\* LockTime::from_height refuses what is not a height.
refund_tx(key, fee) ==
    /\ row # NoRow /\ tx = NoTx
    /\ fee < row.fee_subsidy_sats
    /\ row.refund_lock_height < LockTimeThreshold
    /\ Submit("refund", key, fee,
              Body(key, fee, ENABLE_LOCKTIME_NO_RBF, row.refund_lock_height), << <<>> >>)

-----------------------------------------------------------------------------
(* The network (external): the script interpreter and the other rules a    *)
(* transaction is held to.                                                 *)

Spent(input) == funding.outputs[tx.body.inputs[input].vout]

\* OP_CHECKLOCKTIMEVERIFY: five bytes, a height as the transaction's own.
LockTimeReached(number, input) ==
    LET lock == decode_script_num(number) IN
    /\ Len(number) <= 5 /\ lock >= 0
    /\ lock < LockTimeThreshold <=> tx.body.lock_time < LockTimeThreshold
    /\ lock <= tx.body.lock_time
    /\ tx.body.inputs[input].sequence # SEQUENCE_MAX

SignatureValid(signature, key) ==
    /\ signature.key = key
    /\ signature.sighash = [body |-> tx.body, input |-> vm.input, script |-> tx.script,
                            value |-> Spent(vm.input).value]

\* One instruction on the machine m; the branch not taken is skipped.
Exec(instruction, m) ==
    LET top == Head(m.stack)
        rest == Tail(m.stack)
        Stack(s) == [m EXCEPT !.stack = s]
        Verify(condition, s) == [m EXCEPT !.stack = s, !.ok = condition]
        op == instruction.op
    IN IF ~m.live /\ op \notin {"IF", "ELSE", "ENDIF"} THEN m ELSE
       CASE op = "IF"     -> [m EXCEPT !.live = top # <<>>, !.stack = rest]
         [] op = "ELSE"   -> [m EXCEPT !.live = ~m.live]
         [] op = "ENDIF"  -> [m EXCEPT !.live = TRUE]
         [] op \in {"PUSHBYTES", "PUSHNUM"} -> Stack(<<instruction.data>> \o m.stack)
         [] op = "SIZE"        -> Stack(<<build_scriptint(32)>> \o m.stack)
         [] op = "EQUALVERIFY" -> Verify(top = Head(rest), Tail(rest))
         [] op = "SHA256"      -> Stack(<<sha256[top]>> \o rest)
         [] op = "DUP"         -> Stack(<<top>> \o m.stack)
         [] op = "HASH160"     -> Stack(<<hash160[top]>> \o rest)
         [] op = "CLTV"        -> Verify(LockTimeReached(top, m.input), m.stack)
         [] op = "DROP"        -> Stack(rest)
         [] op = "CHECKSIG"    ->
                Stack(<<IF SignatureValid(Head(rest), top) THEN <<1>> ELSE <<>> >>
                        \o Tail(rest))

Running == vm # None /\ vm.ok /\ vm.pc <= Len(tx.script)

Execute ==
    /\ Running
    /\ vm' = [Exec(tx.script[vm.pc], vm) EXCEPT !.pc = vm.pc + 1]
    /\ UNCHANGED <<tip, funding, row, tx, verdict>>

ScriptTrue == vm.ok /\ vm.stack = << <<1>> >> /\ tx.script = Spent(vm.input).script

NextInput ==
    /\ vm # None /\ ~Running
    /\ ScriptTrue /\ vm.input = 1
    /\ vm' = StartScript(2, tx.witness[2])
    /\ UNCHANGED <<tip, funding, row, tx, verdict>>

\* What comes in goes out again, asset by asset.
Balanced ==
    \A a \in {funding.asset, Lbtc} :
        LET Spends(i) == IF Spent(i).asset = a THEN Spent(i).value ELSE 0
            Pays(i) == IF tx.body.outputs[i].asset = a THEN tx.body.outputs[i].value ELSE 0
        IN Spends(1) + Spends(2) = Pays(1) + Pays(2) + Pays(3)

\* In the next block, for which the median rules are not modelled.
Final ==
    \/ tx.body.lock_time <= tip
    \/ \A i \in 1..2 : tx.body.inputs[i].sequence = SEQUENCE_MAX

Judge ==
    /\ vm # None /\ ~Running
    /\ ~(ScriptTrue /\ vm.input = 1)
    /\ verdict' = IF ScriptTrue /\ Balanced /\ Final THEN "accepted" ELSE "refused"
    /\ vm' = None
    /\ UNCHANGED <<tip, funding, row, tx>>

\* The sender of a refused transaction is told so.
Refused ==
    /\ verdict = "refused"
    /\ tx' = NoTx /\ verdict' = "none"
    /\ UNCHANGED <<tip, funding, row, vm>>

\* A transaction is checked against one tip.
Mine ==
    /\ tip < MaxTip /\ tx = NoTx
    /\ tip' = tip + 1
    /\ UNCHANGED <<funding, row, tx, vm, verdict>>

Next ==
    \/ \E sold \in SellAsset, offer \in Offer, direction \in Direction,
          invoice \in Invoice, address \in BuyerAddress :
            Fund(sold, offer, direction, invoice, address)
    \/ \E key \in Key, invoice \in Invoice, fee \in ClaimFee : claim_tx(key, invoice, fee)
    \/ \E key \in Key : refund_tx(key, RefundFee)
    \/ Execute
    \/ NextInput
    \/ Judge
    \/ Refused
    \/ Mine

Spec == Init /\ [][Next]_vars

TypeOK ==
    /\ tip \in 1..MaxTip
    /\ funding # NotFunded =>
          /\ funding.spec \in HtlcSpec /\ funding.spec.refund_lock_height \in U32
          /\ funding.asset \in SellAsset /\ funding.tip \in 1..tip
    /\ row # NoRow => {row.asset_vout, row.lbtc_vout} \subseteq DOMAIN funding.outputs
    /\ tx # NoTx => [path |-> tx.path, key |-> tx.key, fee |-> tx.fee] \in SpendTx
    /\ vm # None => vm.pc \in 1..(Len(tx.script) + 1) /\ vm.input \in 1..2
    /\ verdict \in {"none", "accepted", "refused"}

-----------------------------------------------------------------------------
(* Properties.                                                             *)

Chain == INSTANCE LiquidChain WITH
            htlc <- [s \in SwapId |-> IF funding = NotFunded THEN None ELSE funding.spec],
            height <- [s \in SwapId |-> 0], spend <- [s \in SwapId |-> None],
            mined <- {}

\* The network's verdict on a transaction that claim_tx or refund_tx built is
\* the rule LiquidChain states, whichever key signs, whichever preimage it
\* carries, at whatever height: script, witness order, selector, sequence
\* numbers, lock time, sighash values and outputs fit one another.
VerdictIsChainRule ==
    verdict # "none" =>
        LET spend == [path |-> tx.path, key |-> tx.key, fee |-> tx.fee]
            valid == \A s \in SwapId : \/ Chain!ClaimPathValid(s, spend, tx.preimage)
                                      \/ Chain!RefundPathValid(s, spend)
        IN verdict = "accepted" <=> valid

\* The refund path stays shut for refund_delta_blocks after the funding, at the
\* end of the range of heights too, where the sum of service.rs saturates.
NoRefundBeforeDelta ==
    (verdict = "accepted" /\ tx.path = "refund")
        => tip >= funding.tip + funding.offer.refund_delta_blocks

\* What the wallet looks up after the broadcast are the two outputs of the
\* HTLC, and nothing but the policy asset for sale makes the lookup fail (the
\* HTLC is then on the network and in no row).
RowFindsHtlc ==
    /\ row # NoRow =>
          /\ funding.outputs[row.asset_vout] =
                [script |-> row.witness_script, asset |-> row.asset, value |-> row.asset_amount]
          /\ funding.outputs[row.lbtc_vout] =
                [script |-> row.witness_script, asset |-> Lbtc, value |-> row.fee_subsidy_sats]
    /\ (funding # NotFunded /\ row = NoRow) => funding.asset = Lbtc

\* HtlcSpec::parse_witness_script reads back what witness_script wrote.
ParseInvertsBuild ==
    row # NoRow =>
        parse_witness_script(row.witness_script) =
            [payment_hash |-> sha256[funding.spec.payment_hash],
             claimer_pubkey_hash160 |-> hash160[funding.spec.claimer],
             refunder_pubkey_hash160 |-> hash160[funding.spec.refunder],
             refund_lock_height |-> row.refund_lock_height]

\* A script that differs from one of ours in one instruction is read only for
\* what it is: building again gives the same script, but for a number padded
\* with zero bytes, which the reader takes and the network does not.
OtherInstruction ==
    {Op(name) : name \in {"IF", "CLTV", "DROP", "CHECKSIG"}}
        \cup {push_slice(b) : b \in BoundedSeq(0..(Byte - 1), 2)}
        \cup {push_slice(sha256[i]) : i \in Invoice} \cup {push_slice(hash160[k]) : k \in Key}
Padded(instruction) ==
    LET bytes == instruction.data  n == Len(bytes) IN
    /\ instruction.op = "PUSHBYTES" /\ n > 0
    /\ bytes[n] % (Byte \div 2) = 0
    /\ n = 1 \/ bytes[n - 1] < Byte \div 2
ParseIsExact ==
    (row # NoRow /\ tx = NoTx) =>
        \A i \in DOMAIN Shape, other \in OtherInstruction :
            LET script == [row.witness_script EXCEPT ![i] = other]
                spec == parse_witness_script(script)
            IN spec # NoSpec => \/ witness_script(spec) = script
                                \/ Shape[i] = "number" /\ Padded(other)

\* Blocks come, the network answers, and the refund worker comes back to a row
\* whose height has passed.
Fairness ==
    /\ WF_vars(Execute) /\ WF_vars(NextInput) /\ WF_vars(Judge) /\ WF_vars(Refused)
    /\ SF_vars(Mine)
    /\ SF_vars(/\ row # NoRow /\ tip >= row.refund_lock_height
               /\ refund_tx(funding.spec.refunder, RefundFee))
FairSpec == Spec /\ Fairness

\* No HTLC in a row stays locked for ever, if its height is one that the chain
\* reaches and that a transaction can be locked to.
HtlcIsSpent ==
    (/\ row # NoRow /\ row.refund_lock_height < Min({MaxTip + 1, LockTimeThreshold})
     /\ RefundFee < row.fee_subsidy_sats)
        ~> verdict = "accepted"
=============================================================================
