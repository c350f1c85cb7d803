-------------------------- MODULE MCStoreMigration --------------------------
(* StoreMigration for TLC.                                                 *)
EXTENDS StoreMigration

\* Tables from before the quotes, before the directions, half migrated, current.
SwapsVersions ==
    {{"base"}, {"base", "quote_id", "claim_txid"},
     Columns.swaps \ {"direction", "buyer_liquid_address"}, Columns.swaps}
QuotesVersions == {{"base"}, {"base", "direction"}, {"base", "swap_id"}, Columns.quotes}
=============================================================================
