------------------------------ MODULE SwapApi -------------------------------
(***************************************************************************)
(* The contract of the RPC interface: swap_cli (src/bin/swap_cli.rs) run   *)
(* by a person, the service's authorization, checks, status codes and      *)
(* messages (src/swap/service.rs), the integer columns of the store, and   *)
(* answers that get lost.  A handler is one step here: SwapService has its *)
(* interleavings.                                                          *)
(***************************************************************************)
EXTENDS Integers

CONSTANTS
    QuoteId, SwapId,    \* the uuids the server draws
    BadId,              \* an id that is no uuid; EmptyId is blank
    EmptyId,
    Token,              \* bearer tokens, with Blank among them
    Blank,
    Offer,              \* configurations: [asset, price, subsidy]
    Asset,              \* assets a client may name
    Amount, Confs,      \* asset_amount and min_funding_confs of --create-quote
    InvoiceMsat,        \* amounts of buyers' invoices
    Fee,                \* values of --claim-fee-sats
    Stock,              \* the seller's inventory
    U64Max, I64Max,     \* u64::MAX and i64::MAX
    None

MAX_MIN_FUNDING_CONFS == 6
DEFAULT_CLAIM_FEE_SATS == 2     \* 500 in the code, among subsidies of this size
Direction == {"LnToLiquid", "LiquidToLn"}
Person == {"seller", "buyer", "stranger"}
Status == {"Created", "Funded", "Paid", "Claimed"}

ASSUME WidthAssumption == U64Max \in Nat /\ I64Max \in 0..U64Max
ASSUME OfferAssumption ==
    /\ Offer # {}
    /\ Offer \subseteq [asset: Asset, price: 0..U64Max, subsidy: 0..U64Max]
ASSUME AmountAssumption ==
    Amount \subseteq 0..U64Max /\ Stock \in Nat /\ Confs \subseteq Nat /\ Fee \subseteq Nat
ASSUME TokenAssumption == Blank \in Token

\* What a buyer's BOLT11 text comes to: NoInvoice is the CLI's default "", and
\* an unusable one does not parse or has no amount.
NoInvoice == [kind |-> "empty", msat |-> 0]
BuyerInvoice == {NoInvoice, [kind |-> "unusable", msat |-> 0]} \cup
    [kind: {"valid", "expired"}, msat: InvoiceMsat]
\* own: the server's wallet's address at buyer_key_index; unusable: not P2WPKH,
\* or of another network.
BuyerAddress == {"own", "foreign", "empty", "unusable"}

\* The rows of the store, whose numbers are within their columns.
QuoteRecord ==
    [offer: Offer, direction: Direction, asset_amount: 0..I64Max,
     min_funding_confs: 0..MAX_MIN_FUNDING_CONFS, total_price_msat: 0..I64Max,
     swap_id: SwapId \cup {None}]
SwapRecord ==
    [quote_id: QuoteId, direction: Direction, asset: Asset, asset_amount: 0..I64Max,
     total_price_msat: 0..I64Max, subsidy: 0..U64Max, address: BuyerAddress,
     payment: 1..2 \cup {None}, claim: Nat \cup {None}, status: Status]
Code == {"OK", "UNAUTHENTICATED", "PERMISSION_DENIED", "INVALID_ARGUMENT",
         "FAILED_PRECONDITION", "NOT_FOUND", "INTERNAL"}
ASSUME NoneAssumption == None \notin QuoteRecord /\ None \notin SwapRecord /\ None \notin Nat

VARIABLES
    cfg,        \* the running server's tokens and offer, None when it is down
    quotes,     \* quotes[q]: the row of quote q, or None
    swaps,      \* swaps[s]: the row of swap s, or None
    stock,      \* what is left of the inventory
    request,    \* the request of the CLI that is running, or None
    answer,     \* its answer: a code and a message, or None
    printed     \* the messages the CLI has printed

vars == <<cfg, quotes, swaps, stock, request, answer, printed>>

Init ==
    /\ cfg = None
    /\ quotes = [q \in QuoteId |-> None]
    /\ swaps = [s \in SwapId |-> None]
    /\ stock = Stock
    /\ request = None /\ answer = None
    /\ printed = {}

-----------------------------------------------------------------------------
(* The server's start: main of src/bin/swap_server.rs.                     *)

\* Variant: the tokens are not compared.
TokensUsableEqual(seller, buyer) == seller # Blank /\ buyer # Blank

TokensUsable(seller, buyer) == seller # Blank /\ buyer # Blank /\ seller # buyer

\* The process starts, or dies and starts again: requests are lost with it.
Start(seller, buyer, offer) ==
    /\ cfg' = IF TokensUsable(seller, buyer)
              THEN [seller_token |-> seller, buyer_token |-> buyer, offer |-> offer]
              ELSE None
    /\ request' = None /\ answer' = None
    /\ UNCHANGED <<quotes, swaps, stock, printed>>

-----------------------------------------------------------------------------
(* swap_cli.                                                               *)

\* with_auth puts --auth-token in every request: the one the person was given.
TokenOf(person) ==
    CASE person = "seller" -> cfg.seller_token
      [] person = "buyer" -> cfg.buyer_token
      [] person = "stranger" -> Blank

Command ==
    [rpc: {"CreateQuote"}, direction: Direction, asset: Asset, amount: Amount, confs: Confs]
      \cup [rpc: {"GetQuote"}, id: QuoteId \cup {BadId, EmptyId}]
      \cup [rpc: {"CreateSwap"}, id: QuoteId \cup {BadId, EmptyId},
            address: BuyerAddress, invoice: BuyerInvoice]
      \cup [rpc: {"GetSwap", "CreateLightningPayment"}, id: SwapId \cup {BadId, EmptyId}]
      \cup [rpc: {"CreateAssetClaim"}, id: SwapId \cup {BadId, EmptyId}, fee: Fee]

Send(person, command) ==
    /\ cfg # None /\ request = None
    /\ request' = [person |-> person, token |-> TokenOf(person), command |-> command]
    /\ UNCHANGED <<cfg, quotes, swaps, stock, answer, printed>>

\* The CLI prints an answer that is a message, and ends in any case.
Finish ==
    /\ answer # None
    /\ printed' = IF answer.code = "OK" THEN printed \cup {answer.message} ELSE printed
    /\ request' = None /\ answer' = None
    /\ UNCHANGED <<cfg, quotes, swaps, stock>>

\* The connection breaks, before or after the server is done.
Disconnect ==
    /\ request # None
    /\ request' = None /\ answer' = None
    /\ UNCHANGED <<cfg, quotes, swaps, stock, printed>>

-----------------------------------------------------------------------------
(* Authorization.                                                          *)

\* require_authenticated: the seller's token is looked at first.
Caller ==
    CASE request.token = cfg.seller_token -> "seller"
      [] request.token # cfg.seller_token /\ request.token = cfg.buyer_token -> "buyer"
      [] OTHER -> "nobody"

LnPayer(direction) == IF direction = "LnToLiquid" THEN "buyer" ELSE "seller"
LiquidClaimer(direction) == IF direction = "LnToLiquid" THEN "buyer" ELSE "seller"

\* The checks of a handler are made in their order: the first that fails gives
\* the code of the answer.
Check(failed, code) == IF failed THEN code ELSE "OK"
first ?? next == IF first # "OK" THEN first ELSE next

Unauthenticated == Check(Caller = "nobody", "UNAUTHENTICATED")
RequireRole(role) == Check(Caller # role, "PERMISSION_DENIED")

Reply(code, message) == answer' = [code |-> code, message |-> message]
Refuse(code) == Reply(code, None) /\ UNCHANGED <<quotes, swaps, stock>>

-----------------------------------------------------------------------------
(* The messages: quote_record_to_proto and swap_record_to_proto.           *)

\* Variant: the offer shown is the one the server has now.
quote_record_to_proto_current(q, row) ==
    [type |-> "quote", quote_id |-> q, offer |-> cfg.offer, direction |-> row.direction,
     asset_amount |-> row.asset_amount, min_funding_confs |-> row.min_funding_confs,
     total_price_msat |-> row.total_price_msat]

quote_record_to_proto(q, row) ==
    [type |-> "quote", quote_id |-> q, offer |-> row.offer, direction |-> row.direction,
     asset_amount |-> row.asset_amount, min_funding_confs |-> row.min_funding_confs,
     total_price_msat |-> row.total_price_msat]

swap_record_to_proto(s, row) ==
    [type |-> "swap", swap_id |-> s, quote_id |-> row.quote_id, direction |-> row.direction,
     invoice_msat |-> row.total_price_msat, asset |-> row.asset,
     asset_amount |-> row.asset_amount, subsidy |-> row.subsidy, status |-> row.status]

\* A column is an i64: rusqlite refuses to write a u64 above its range, and
\* get_quote and row_to_swap_record refuse to read a negative one.
Fits(n) == n <= I64Max
QuoteFits(row) ==
    /\ Fits(row.asset_amount) /\ Fits(row.total_price_msat)
    /\ Fits(row.offer.price) /\ Fits(row.offer.subsidy)
Readable(n) == n >= 0
QuoteReadable(row) == Readable(row.asset_amount) /\ Readable(row.total_price_msat)

-----------------------------------------------------------------------------
(* The handlers.                                                           *)

Serving(rpc) == cfg # None /\ request # None /\ answer = None /\ request.command.rpc = rpc
Kept == UNCHANGED <<cfg, request, printed>>
Quoted(q) == q \in QuoteId /\ quotes[q] # None
Stored(s) == s \in SwapId /\ swaps[s] # None

\* Variant: the product is computed modulo 2^64.
total_price_wraps(amount, price) == (amount * price) % (U64Max + 1)

\* checked_mul: what it gives is compared with U64Max below.
total_price(amount, price) == amount * price

\* Variant: the value is cast to the column's type before it is written.
insert_quote_casts(q, row) ==
    LET cast(n) == IF n > I64Max THEN n - (U64Max + 1) ELSE n IN
    quotes' = [quotes EXCEPT ![q] = [row EXCEPT !.total_price_msat = cast(@)]]

insert_quote(q, row) ==
    /\ QuoteFits(row)
    /\ quotes' = [quotes EXCEPT ![q] = row]

\* Variant: the bound is off by one.
ConfsTooManyOff(confs) == confs > MAX_MIN_FUNDING_CONFS + 1

ConfsTooMany(confs) == confs > MAX_MIN_FUNDING_CONFS

CreateQuoteError(c) ==
    Unauthenticated
    ?? RequireRole("seller")
    ?? Check(c.amount = 0, "INVALID_ARGUMENT")
    ?? Check(c.asset # cfg.offer.asset, "FAILED_PRECONDITION")
    ?? Check(ConfsTooMany(c.confs), "INVALID_ARGUMENT")
    ?? Check(total_price(c.amount, cfg.offer.price) > U64Max, "INVALID_ARGUMENT")

QuoteRow(c) ==
    [offer |-> cfg.offer, direction |-> c.direction, asset_amount |-> c.amount,
     min_funding_confs |-> c.confs,
     total_price_msat |-> total_price(c.amount, cfg.offer.price), swap_id |-> None]

create_quote ==
    LET c == request.command
        row == QuoteRow(c)
        error == CreateQuoteError(c)
    IN
    /\ Serving("CreateQuote")
    /\ \/ error # "OK" /\ Refuse(error)
       \/ /\ error = "OK"
          /\ \E q \in QuoteId :
                /\ quotes[q] = None
                /\ \/ /\ insert_quote(q, row)
                      /\ Reply("OK", quote_record_to_proto(q, row))
                      /\ UNCHANGED <<swaps, stock>>
                   \/ ~QuoteFits(row) /\ Refuse("INTERNAL")
    /\ Kept

GetQuoteError(q) ==
    Unauthenticated
    ?? Check(q = EmptyId, "INVALID_ARGUMENT")
    ?? Check(Quoted(q) /\ ~QuoteReadable(quotes[q]), "INTERNAL")
    ?? Check(~Quoted(q), "NOT_FOUND")

get_quote ==
    LET id == request.command.id
        error == GetQuoteError(id)
    IN
    /\ Serving("GetQuote")
    /\ IF error = "OK"
       THEN Reply("OK", quote_record_to_proto(id, quotes[id])) /\ UNCHANGED <<quotes, swaps, stock>>
       ELSE Refuse(error)
    /\ Kept

\* The buyer's invoice, if the LN payee is the buyer.
InvoiceError(row, invoice) ==
    IF row.direction = "LnToLiquid" THEN invoice # NoInvoice
    ELSE invoice.kind # "valid" \/ invoice.msat # row.total_price_msat

SwapRow(q, address) ==
    [quote_id |-> q, direction |-> quotes[q].direction, asset |-> cfg.offer.asset,
     asset_amount |-> quotes[q].asset_amount, total_price_msat |-> quotes[q].total_price_msat,
     subsidy |-> cfg.offer.subsidy, address |-> address,
     payment |-> None, claim |-> None, status |-> "Created"]

OfferChanged(row) == row.offer # cfg.offer

\* A quote that has its swap needs no checks of the terms any more.
CreateSwapError(c) ==
    LET q == c.id
        Fresh(failed) == quotes[q].swap_id = None /\ failed
    IN
    Unauthenticated
    ?? RequireRole("buyer")
    ?? Check(q = EmptyId \/ c.address = "empty", "INVALID_ARGUMENT")
    ?? Check(Quoted(q) /\ ~QuoteReadable(quotes[q]), "INTERNAL")
    ?? Check(~Quoted(q), "NOT_FOUND")
    ?? Check(Fresh(OfferChanged(quotes[q])), "FAILED_PRECONDITION")
    ?? Check(Fresh(c.address = "unusable"), "INVALID_ARGUMENT")
    ?? Check(Fresh(InvoiceError(quotes[q], c.invoice)), "INVALID_ARGUMENT")

\* Funding may fail, and the wait for confirmations may time out: then the row
\* stays Created.
create_swap ==
    LET c == request.command
        q == c.id
        linked == quotes[q].swap_id # None
        error == CreateSwapError(c)
    IN
    /\ Serving("CreateSwap")
    /\ \/ error # "OK" /\ Refuse(error)
       \/ /\ error = "OK" /\ linked
          /\ LET s == quotes[q].swap_id IN Reply("OK", swap_record_to_proto(s, swaps[s]))
          /\ UNCHANGED <<quotes, swaps, stock>>
       \/ error = "OK" /\ ~linked /\ Refuse("INTERNAL")
       \/ /\ error = "OK" /\ ~linked
          /\ stock >= quotes[q].asset_amount
          /\ \E s \in SwapId, confirmed \in BOOLEAN :
                LET row == [SwapRow(q, c.address) EXCEPT
                              !.status = IF confirmed THEN "Funded" ELSE "Created"]
                IN
                /\ swaps[s] = None
                /\ swaps' = [swaps EXCEPT ![s] = row]
                /\ quotes' = [quotes EXCEPT ![q].swap_id = s]
                /\ stock' = stock - row.asset_amount
                /\ IF confirmed THEN Reply("OK", swap_record_to_proto(s, row))
                                ELSE Reply("INTERNAL", None)
    /\ Kept

GetSwapError(s) ==
    Unauthenticated
    ?? Check(s = EmptyId, "INVALID_ARGUMENT")
    ?? Check(~Stored(s), "NOT_FOUND")

get_swap ==
    LET id == request.command.id
        error == GetSwapError(id)
    IN
    /\ Serving("GetSwap")
    /\ IF error = "OK"
       THEN Reply("OK", swap_record_to_proto(id, swaps[id])) /\ UNCHANGED <<quotes, swaps, stock>>
       ELSE Refuse(error)
    /\ Kept

PaymentError(s) ==
    Unauthenticated
    ?? Check(s = EmptyId, "INVALID_ARGUMENT")
    ?? Check(~Stored(s), "NOT_FOUND")
    ?? RequireRole(LnPayer(swaps[s].direction))
    ?? Check(swaps[s].payment = None /\ swaps[s].status # "Funded", "FAILED_PRECONDITION")

Payment(s, id) == [type |-> "payment", swap_id |-> s, payment_id |-> id]

\* The payment goes through or fails; its id is the LN node's, drawn anew for
\* each one that is sent.
create_lightning_payment ==
    LET s == request.command.id
        error == PaymentError(s)
    IN
    /\ Serving("CreateLightningPayment")
    /\ \/ error # "OK" /\ Refuse(error)
       \/ /\ error = "OK" /\ swaps[s].payment # None
          /\ Reply("OK", Payment(s, swaps[s].payment))
          /\ UNCHANGED <<quotes, swaps, stock>>
       \/ error = "OK" /\ swaps[s].payment = None /\ Refuse("INTERNAL")
       \/ /\ error = "OK" /\ swaps[s].payment = None
          /\ \E id \in 1..2 :
                /\ swaps' = [swaps EXCEPT ![s].payment = id, ![s].status = "Paid"]
                /\ Reply("OK", Payment(s, id))
          /\ UNCHANGED <<quotes, stock>>
    /\ Kept

\* 0 stands for the default.
ClaimFee(fee) == IF fee = 0 THEN DEFAULT_CLAIM_FEE_SATS ELSE fee

ClaimError(s, fee) ==
    LET Unclaimed(failed) == swaps[s].claim = None /\ failed IN
    Unauthenticated
    ?? Check(s = EmptyId, "INVALID_ARGUMENT")
    ?? Check(~Stored(s), "NOT_FOUND")
    ?? RequireRole(LiquidClaimer(swaps[s].direction))
    ?? Check(Unclaimed(swaps[s].payment = None), "FAILED_PRECONDITION")
    ?? Check(Unclaimed(swaps[s].direction = "LnToLiquid" /\ swaps[s].address # "own"),
             "INTERNAL")
    ?? Check(Unclaimed(fee >= swaps[s].subsidy), "INTERNAL")

\* A transaction is named by its fee.
Claim(s, txid) == [type |-> "claim", swap_id |-> s, claim_txid |-> txid]

create_asset_claim ==
    LET s == request.command.id
        fee == ClaimFee(request.command.fee)
        error == ClaimError(s, fee)
        claimed == swaps[s].claim # None
    IN
    /\ Serving("CreateAssetClaim")
    /\ \/ error # "OK" /\ Refuse(error)
       \/ /\ error = "OK" /\ claimed
          /\ Reply("OK", Claim(s, swaps[s].claim))
          /\ UNCHANGED <<quotes, swaps, stock>>
       \/ error = "OK" /\ ~claimed /\ Refuse("INTERNAL")
       \/ /\ error = "OK" /\ ~claimed
          /\ swaps' = [swaps EXCEPT ![s].claim = fee, ![s].status = "Claimed"]
          /\ Reply("OK", Claim(s, fee))
          /\ UNCHANGED <<quotes, stock>>
    /\ Kept

Serve ==
    \/ create_quote \/ get_quote \/ create_swap \/ get_swap
    \/ create_lightning_payment \/ create_asset_claim

Next ==
    \/ \E seller, buyer \in Token, offer \in Offer : Start(seller, buyer, offer)
    \/ \E person \in Person, command \in Command : Send(person, command)
    \/ Serve
    \/ Finish
    \/ Disconnect

Spec == Init /\ [][Next]_vars

TypeOK ==
    /\ cfg # None => cfg \in [seller_token: Token, buyer_token: Token, offer: Offer]
    /\ quotes \in [QuoteId -> QuoteRecord \cup {None}]
    /\ swaps \in [SwapId -> SwapRecord \cup {None}]
    /\ stock \in 0..Stock
    /\ request # None => request \in [person: Person, token: Token, command: Command]
    /\ answer # None => answer.code \in Code /\ request # None

-----------------------------------------------------------------------------
(* Properties.                                                             *)

\* Two answers about one thing agree, whoever asked, however often, over
\* retries of calls whose answer was lost and restarts on other terms: a quote
\* is printed the same each time, a swap up to its status, and there is one
\* payment and one claim of a swap.
AnswersAgree ==
    \A m, n \in printed :
        /\ (m.type = "quote" /\ n.type = "quote" /\ m.quote_id = n.quote_id) => m = n
        /\ (m.type = "swap" /\ n.type = "swap" /\ m.swap_id = n.swap_id)
              => [m EXCEPT !.status = None] = [n EXCEPT !.status = None]
        /\ (m.type = "payment" /\ n.type = "payment" /\ m.swap_id = n.swap_id) => m = n
        /\ (m.type = "claim" /\ n.type = "claim" /\ m.swap_id = n.swap_id) => m = n

\* What is paid is what was quoted: the total a quote shows is the product of
\* its own amount and price, not a remainder of it, and the swap made of it has
\* its total, its asset and its subsidy, whatever the server sells by then.
PricesAreExact ==
    \A m \in printed :
        /\ m.type = "quote" => m.total_price_msat = m.asset_amount * m.offer.price
        /\ m.type = "swap" =>
              LET quote == quotes[m.quote_id] IN
              /\ m.invoice_msat = quote.asset_amount * quote.offer.price
              /\ m.asset = quote.offer.asset /\ m.subsidy = quote.offer.subsidy

\* A quote that was handed out is found again: no value passes the checks of
\* create_quote and comes back from SQLite as something that cannot be read.
QuotesAreServed ==
    \A m \in printed :
        (/\ m.type = "quote" /\ answer # None
         /\ request.command.rpc \in {"GetQuote", "CreateSwap"}
         /\ request.command.id = m.quote_id)
            => /\ answer.code # "NOT_FOUND"
               /\ request.command.rpc = "GetQuote" => answer.code # "INTERNAL"

\* Only the seller's calls make quotes and only the buyer's swaps; a payment and
\* a claim are made for the party the direction names, not for whoever's token
\* happens to match.
EffectsByRole ==
    /\ \A q \in QuoteId : (quotes[q] = None /\ quotes'[q] # None) => request.person = "seller"
    /\ \A s \in SwapId :
        /\ (swaps[s] = None /\ swaps'[s] # None) => request.person = "buyer"
        /\ swaps[s] # None =>
              /\ swaps'[s].payment # swaps[s].payment
                    => request.person = LnPayer(swaps[s].direction)
              /\ swaps'[s].claim # swaps[s].claim
                    => request.person = LiquidClaimer(swaps[s].direction)
EffectsOnlyByRole == [][EffectsByRole]_vars

=============================================================================
