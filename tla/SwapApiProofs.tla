---------------------------- MODULE SwapApiProofs ----------------------------
(***************************************************************************)
(* SwapApi keeps its invariants for every set of tokens, offers, amounts   *)
(* and column widths.  What the CLI prints is a function of rows whose     *)
(* terms never change; the inductive invariant says so of every answer     *)
(* from the moment it is made.                                             *)
(***************************************************************************)
EXTENDS SwapApi, TLAPS

\* A quote's total is its own product, and it names the swap made of it.
QuotesAddUp ==
    \A q \in QuoteId : quotes[q] # None =>
        /\ quotes[q].total_price_msat = quotes[q].asset_amount * quotes[q].offer.price
        /\ quotes[q].swap_id # None =>
              swaps[quotes[q].swap_id] # None /\ swaps[quotes[q].swap_id].quote_id = q

\* A swap has the terms of its quote.
OnTerms(swap, quote) ==
    /\ swap.direction = quote.direction
    /\ swap.asset_amount = quote.asset_amount
    /\ swap.total_price_msat = quote.total_price_msat
    /\ swap.asset = quote.offer.asset
    /\ swap.subsidy = quote.offer.subsidy
SwapsOnTerms ==
    \A s \in SwapId : swaps[s] # None =>
        quotes[swaps[s].quote_id] # None /\ OnTerms(swaps[s], quotes[swaps[s].quote_id])

\* Where a message comes from: a row, a swap's up to the status it had by then.
OfQuote(m) == \E q \in QuoteId : quotes[q] # None /\ m = quote_record_to_proto(q, quotes[q])
OfSwap(m) ==
    \E s \in SwapId, status \in Status :
        swaps[s] # None /\ m = [swap_record_to_proto(s, swaps[s]) EXCEPT !.status = status]
OfPayment(m) ==
    \E s \in SwapId :
        swaps[s] # None /\ swaps[s].payment # None /\ m = Payment(s, swaps[s].payment)
OfClaim(m) ==
    \E s \in SwapId :
        swaps[s] # None /\ swaps[s].claim # None /\ m = Claim(s, swaps[s].claim)
Faithful(m) == OfQuote(m) \/ OfSwap(m) \/ OfPayment(m) \/ OfClaim(m)
MessagesFaithful ==
    /\ \A m \in printed : Faithful(m)
    /\ (answer # None /\ answer.code = "OK") => Faithful(answer.message)

\* The tokens tell the seller, the buyer and a stranger apart.
TokensApart ==
    /\ cfg # None => TokensUsable(cfg.seller_token, cfg.buyer_token)
    /\ request # None => cfg # None /\ request.token = TokenOf(request.person)

\* A quote that is stored is found and read.
Served ==
    (/\ answer # None
     /\ request.command.rpc \in {"GetQuote", "CreateSwap"}
     /\ Quoted(request.command.id))
        => /\ answer.code # "NOT_FOUND"
           /\ request.command.rpc = "GetQuote" => answer.code # "INTERNAL"

IInv ==
    TypeOK /\ QuotesAddUp /\ SwapsOnTerms /\ MessagesFaithful /\ TokensApart /\ Served

-----------------------------------------------------------------------------
(* The checks of a handler: what is known when all of them passed.         *)

\* The codes of the checks are codes of the interface.
LEMMA ErrorsAreCodes ==
    \A c, id, fee :
        /\ CreateQuoteError(c) \in Code /\ GetQuoteError(id) \in Code
        /\ CreateSwapError(c) \in Code /\ GetSwapError(id) \in Code
        /\ PaymentError(id) \in Code /\ ClaimError(id, fee) \in Code
<1> TAKE c, id, fee
<1> USE DEF Check, ??, Unauthenticated, RequireRole, Code
<1>1. CreateQuoteError(c) \in Code  BY DEF CreateQuoteError
<1>2. GetQuoteError(id) \in Code  BY DEF GetQuoteError
<1>3. CreateSwapError(c) \in Code  BY DEF CreateSwapError
<1>4. GetSwapError(id) \in Code  BY DEF GetSwapError
<1>5. PaymentError(id) \in Code  BY DEF PaymentError
<1>6. ClaimError(id, fee) \in Code  BY DEF ClaimError
<1> QED  BY <1>1, <1>2, <1>3, <1>4, <1>5, <1>6

LEMMA CreateQuoteChecks ==
    ASSUME NEW c, CreateQuoteError(c) = "OK"
    PROVE  /\ Caller = "seller"
           /\ ~ConfsTooMany(c.confs)
           /\ ~(total_price(c.amount, cfg.offer.price) > U64Max)
BY DEF CreateQuoteError, Check, ??, Unauthenticated, RequireRole

LEMMA GetQuoteChecks ==
    ASSUME NEW q
    PROVE  /\ GetQuoteError(q) = "OK" => Quoted(q)
           /\ GetQuoteError(q) = "NOT_FOUND" => ~Quoted(q)
           /\ GetQuoteError(q) = "INTERNAL" => Quoted(q) /\ ~QuoteReadable(quotes[q])
BY DEF GetQuoteError, Check, ??, Unauthenticated

LEMMA CreateSwapChecks ==
    ASSUME NEW c
    PROVE  /\ CreateSwapError(c) = "OK" =>
                 /\ Caller = "buyer" /\ Quoted(c.id)
                 /\ quotes[c.id].swap_id = None => ~OfferChanged(quotes[c.id])
           /\ CreateSwapError(c) = "NOT_FOUND" => ~Quoted(c.id)
BY DEF CreateSwapError, Check, ??, Unauthenticated, RequireRole

LEMMA GetSwapChecks == \A s : GetSwapError(s) = "OK" => Stored(s)
BY DEF GetSwapError, Check, ??

LEMMA PaymentChecks ==
    ASSUME NEW s, PaymentError(s) = "OK"
    PROVE  Stored(s) /\ Caller = LnPayer(swaps[s].direction)
BY DEF PaymentError, Check, ??, RequireRole

LEMMA ClaimChecks ==
    ASSUME NEW s, NEW fee, ClaimError(s, fee) = "OK"
    PROVE  Stored(s) /\ Caller = LiquidClaimer(swaps[s].direction)
BY DEF ClaimError, Check, ??, RequireRole

\* A token that passes for a role's is that of the person who has the role:
\* the tokens differ and none is blank.
LEMMA CallerIsPerson ==
    ASSUME TypeOK, TokensApart, request # None
    PROVE  Caller \in {"seller", "buyer"} => request.person = Caller
<1>1. request.person \in Person  BY DEF TypeOK
<1>2. request.token = TokenOf(request.person) /\ TokensUsable(cfg.seller_token, cfg.buyer_token)
  BY DEF TokensApart
<1>3. CASE request.person = "seller"  BY <1>2, <1>3 DEF TokenOf, TokensUsable, Caller
<1>4. CASE request.person = "buyer"  BY <1>2, <1>4 DEF TokenOf, TokensUsable, Caller
<1>5. CASE request.person = "stranger"  BY <1>2, <1>5 DEF TokenOf, TokensUsable, Caller
<1> QED  BY <1>1, <1>3, <1>4, <1>5 DEF Person

LEMMA PartiesAreRoles ==
    \A d : LnPayer(d) \in {"seller", "buyer"} /\ LiquidClaimer(d) \in {"seller", "buyer"}
BY DEF LnPayer, LiquidClaimer

-----------------------------------------------------------------------------
(* Rows are written once.                                                  *)

\* What two rows of a quote or of a swap have in common: all but the link, and
\* all but the status, the payment and the claim.
SameQuote(a, b) ==
    /\ a.offer = b.offer /\ a.direction = b.direction /\ a.asset_amount = b.asset_amount
    /\ a.min_funding_confs = b.min_funding_confs
    /\ a.total_price_msat = b.total_price_msat
SameSwap(a, b) ==
    /\ a.quote_id = b.quote_id /\ a.direction = b.direction /\ a.asset = b.asset
    /\ a.asset_amount = b.asset_amount /\ a.total_price_msat = b.total_price_msat
    /\ a.subsidy = b.subsidy

\* No step deletes a row or changes its terms, and a payment and a claim are
\* recorded once.
RowsKept ==
    /\ \A q \in QuoteId : quotes[q] # None =>
          quotes'[q] # None /\ SameQuote(quotes'[q], quotes[q])
    /\ \A s \in SwapId : swaps[s] # None =>
          /\ swaps'[s] # None /\ SameSwap(swaps'[s], swaps[s])
          /\ swaps[s].payment # None => swaps'[s].payment = swaps[s].payment
          /\ swaps[s].claim # None => swaps'[s].claim = swaps[s].claim

LEMMA UnchangedRows == UNCHANGED <<quotes, swaps>> => RowsKept
BY DEF RowsKept, SameQuote, SameSwap

\* Hence what was faithful stays so.
LEMMA FaithfulStays ==
    ASSUME RowsKept, NEW m, Faithful(m)
    PROVE  Faithful(m)'
<1>1. CASE OfQuote(m)
  <2>1. PICK q \in QuoteId : quotes[q] # None /\ m = quote_record_to_proto(q, quotes[q])
    BY <1>1 DEF OfQuote
  <2>2. quotes'[q] # None /\ m = quote_record_to_proto(q, quotes'[q])
    BY <2>1 DEF RowsKept, SameQuote, quote_record_to_proto
  <2> QED  BY <2>2 DEF Faithful, OfQuote, quote_record_to_proto
<1>2. CASE OfSwap(m)
  <2>1. PICK s \in SwapId, status \in Status :
          swaps[s] # None /\ m = [swap_record_to_proto(s, swaps[s]) EXCEPT !.status = status]
    BY <1>2 DEF OfSwap
  <2>2. /\ swaps'[s] # None
        /\ m = [swap_record_to_proto(s, swaps'[s]) EXCEPT !.status = status]
    BY <2>1 DEF RowsKept, SameSwap, swap_record_to_proto
  <2> QED  BY <2>2 DEF Faithful, OfSwap, swap_record_to_proto
<1>3. CASE OfPayment(m)
  BY <1>3 DEF OfPayment, RowsKept, Faithful, Payment
<1>4. CASE OfClaim(m)
  BY <1>4 DEF OfClaim, RowsKept, Faithful, Claim
<1> QED  BY <1>1, <1>2, <1>3, <1>4 DEF Faithful

\* So only a new answer has to be looked at.
LEMMA MessagesStayFaithful ==
    ASSUME MessagesFaithful, RowsKept, UNCHANGED printed,
           (answer # None /\ answer.code = "OK" => Faithful(answer.message))'
    PROVE  MessagesFaithful'
<1>1. ASSUME NEW m \in printed'
      PROVE  Faithful(m)'
  BY <1>1, FaithfulStays DEF MessagesFaithful
<1> QED  BY <1>1 DEF MessagesFaithful

\* The other invariants speak of the tokens and of a served quote.
LEMMA TokensStayApart ==
    ASSUME TokensApart, UNCHANGED <<cfg, request>>
    PROVE  TokensApart'
BY DEF TokensApart, TokenOf

-----------------------------------------------------------------------------
(* The steps.                                                              *)

\* A handler that changes no row: all that matters is its answer.
LEMMA Answered ==
    ASSUME IInv, NEW code \in Code, NEW message,
           cfg # None, request # None, Kept, Reply(code, message),
           UNCHANGED <<quotes, swaps, stock>>,
           code = "OK" => Faithful(message),
           (/\ request.command.rpc \in {"GetQuote", "CreateSwap"}
            /\ Quoted(request.command.id))
              => /\ code # "NOT_FOUND"
                 /\ request.command.rpc = "GetQuote" => code # "INTERNAL"
    PROVE  IInv' /\ RowsKept /\ EffectsByRole
<1> USE DEF Kept, Reply, IInv
<1>1. TypeOK'  BY DEF TypeOK
<1>2. RowsKept  BY UnchangedRows
<1>3. QuotesAddUp' /\ SwapsOnTerms'  BY DEF QuotesAddUp, SwapsOnTerms, OnTerms
<1>4. MessagesFaithful'
  <2>1. code = "OK" => Faithful(message)'  BY <1>2, FaithfulStays
  <2>2. answer'.code = code /\ answer'.message = message  OBVIOUS
  <2>3. (answer.code = "OK" => Faithful(answer.message))'
    BY <2>1, <2>2 DEF Faithful, OfQuote, OfSwap, OfPayment, OfClaim
  <2> QED  BY <1>2, <2>3, MessagesStayFaithful
<1>5. TokensApart'  BY TokensStayApart
<1>6. Served'  BY DEF Served, Quoted
<1>7. EffectsByRole  BY DEF EffectsByRole
<1> QED  BY <1>1, <1>2, <1>3, <1>4, <1>5, <1>6, <1>7

\* A row as a message.
LEMMA RowsAreFaithful ==
    ASSUME TypeOK
    PROVE  /\ \A q : Quoted(q) => Faithful(quote_record_to_proto(q, quotes[q]))
           /\ \A s : Stored(s) => Faithful(swap_record_to_proto(s, swaps[s]))
<1>1. ASSUME NEW q, Quoted(q)
      PROVE  Faithful(quote_record_to_proto(q, quotes[q]))
  BY <1>1 DEF Quoted, Faithful, OfQuote
<1>2. ASSUME NEW s, Stored(s)
      PROVE  Faithful(swap_record_to_proto(s, swaps[s]))
  <2>1. s \in SwapId /\ swaps[s] # None /\ swaps[s].status \in Status
    BY <1>2 DEF Stored, TypeOK, SwapRecord
  <2>2. swap_record_to_proto(s, swaps[s])
          = [swap_record_to_proto(s, swaps[s]) EXCEPT !.status = swaps[s].status]
    BY DEF swap_record_to_proto
  <2> QED  BY <2>1, <2>2 DEF Faithful, OfSwap
<1> QED  BY <1>1, <1>2

\* A stored quote's numbers are read back.
LEMMA QuotesAreReadable == TypeOK => \A q : Quoted(q) => QuoteReadable(quotes[q])
BY WidthAssumption DEF TypeOK, Quoted, QuoteRecord, QuoteReadable, Readable

LEMMA GetQuoteStep == IInv /\ get_quote => IInv' /\ RowsKept /\ EffectsByRole
<1> SUFFICES ASSUME IInv, get_quote
             PROVE  IInv' /\ RowsKept /\ EffectsByRole
  OBVIOUS
<1> DEFINE id == request.command.id
           error == GetQuoteError(id)
<1>1. /\ cfg # None /\ request # None /\ Kept /\ request.command.rpc = "GetQuote"
      /\ IF error = "OK"
         THEN Reply("OK", quote_record_to_proto(id, quotes[id])) /\ UNCHANGED <<quotes, swaps, stock>>
         ELSE Refuse(error)
  BY DEF get_quote, Serving
<1>2. error \in Code /\ "OK" \in Code  BY ErrorsAreCodes DEF Code
<1>3. Quoted(id) => error # "NOT_FOUND" /\ error # "INTERNAL"
  BY GetQuoteChecks, QuotesAreReadable DEF IInv
<1>4. CASE error = "OK"
  <2>1. Faithful(quote_record_to_proto(id, quotes[id]))
    BY <1>4, GetQuoteChecks, RowsAreFaithful DEF IInv
  <2> HIDE DEF id, error
  <2> QED  BY <1>1, <1>2, <1>4, <2>1, Answered
<1>5. CASE error # "OK"
  <2> HIDE DEF error
  <2> QED  BY <1>1, <1>2, <1>3, <1>5, Answered DEF Refuse
<1> QED  BY <1>4, <1>5

LEMMA GetSwapStep == IInv /\ get_swap => IInv' /\ RowsKept /\ EffectsByRole
<1> SUFFICES ASSUME IInv, get_swap
             PROVE  IInv' /\ RowsKept /\ EffectsByRole
  OBVIOUS
<1> DEFINE id == request.command.id
           error == GetSwapError(id)
<1>1. /\ cfg # None /\ request # None /\ Kept /\ request.command.rpc = "GetSwap"
      /\ IF error = "OK"
         THEN Reply("OK", swap_record_to_proto(id, swaps[id])) /\ UNCHANGED <<quotes, swaps, stock>>
         ELSE Refuse(error)
  BY DEF get_swap, Serving
<1>2. error \in Code /\ "OK" \in Code  BY ErrorsAreCodes DEF Code
<1>3. CASE error = "OK"
  <2>1. Faithful(swap_record_to_proto(id, swaps[id]))
    BY <1>3, GetSwapChecks, RowsAreFaithful DEF IInv
  <2> HIDE DEF id, error
  <2> QED  BY <1>1, <1>2, <1>3, <2>1, Answered
<1>4. CASE error # "OK"
  <2> HIDE DEF id, error
  <2> QED  BY <1>1, <1>2, <1>4, Answered DEF Refuse
<1> QED  BY <1>3, <1>4

\* What a command carries.
LEMMA CommandParts ==
    ASSUME TypeOK, request # None
    PROVE  LET c == request.command IN
           /\ c.rpc = "CreateQuote" =>
                 c.direction \in Direction /\ c.amount \in Amount /\ c.confs \in Confs
           /\ c.rpc = "CreateSwap" => c.address \in BuyerAddress
           /\ c.rpc = "CreateAssetClaim" => c.fee \in Fee
<1>1. request.command \in Command  BY DEF TypeOK
<1> QED  BY <1>1 DEF Command

\* The product of a quote's amount and price is a natural number, and it fits
\* its column when the row is written.
LEMMA QuoteRowIsRecord ==
    ASSUME TypeOK, cfg # None, request # None, request.command.rpc = "CreateQuote",
           CreateQuoteError(request.command) = "OK",
           QuoteFits(QuoteRow(request.command))
    PROVE  QuoteRow(request.command) \in QuoteRecord
<1> DEFINE c == request.command
           price == cfg.offer.price
<1>1. cfg.offer \in Offer /\ price \in Nat
  BY OfferAssumption, WidthAssumption DEF TypeOK
<1>2. c.amount \in Nat /\ c.confs \in Nat /\ c.direction \in Direction
  <2>1. c.direction \in Direction /\ c.amount \in Amount /\ c.confs \in Confs  BY CommandParts
  <2>2. Amount \subseteq Nat /\ Confs \subseteq Nat  BY AmountAssumption, WidthAssumption
  <2> QED  BY <2>1, <2>2, Zenon
<1>3. c.confs \in 0..MAX_MIN_FUNDING_CONFS
  BY <1>2, CreateQuoteChecks DEF ConfsTooMany, MAX_MIN_FUNDING_CONFS
<1>4. c.amount * price \in Nat  BY <1>1, <1>2
<1>5. c.amount \in 0..I64Max /\ c.amount * price \in 0..I64Max
  BY <1>2, <1>4, WidthAssumption DEF QuoteFits, Fits, QuoteRow, total_price
<1> HIDE DEF c, price
<1> QED  BY <1>1, <1>2, <1>3, <1>5 DEF QuoteRow, QuoteRecord, total_price, c, price

\* A new row of a quote.
LEMMA QuoteInserted ==
    ASSUME IInv, NEW q \in QuoteId, NEW row \in QuoteRecord,
           cfg # None, request # None, Kept, request.command.rpc = "CreateQuote",
           quotes[q] = None, quotes' = [quotes EXCEPT ![q] = row],
           row.total_price_msat = row.asset_amount * row.offer.price, row.swap_id = None,
           Reply("OK", quote_record_to_proto(q, row)), UNCHANGED <<swaps, stock>>,
           Caller = "seller"
    PROVE  IInv' /\ RowsKept /\ EffectsByRole
<1> USE DEF Kept, Reply, IInv
<1>1. row # None /\ quotes'[q] = row /\ quotes' \in [QuoteId -> QuoteRecord \cup {None}]
  BY NoneAssumption DEF TypeOK
<1>2. \A p \in QuoteId \ {q} : quotes'[p] = quotes[p]
  BY DEF TypeOK
<1>3. TypeOK'  BY <1>1 DEF TypeOK, Code
<1>4. RowsKept  BY <1>2 DEF RowsKept, SameQuote, SameSwap
<1>5. QuotesAddUp'  BY <1>1, <1>2 DEF QuotesAddUp
<1>6. SwapsOnTerms'
  <2>1. ASSUME NEW s \in SwapId, swaps'[s] # None
        PROVE  /\ quotes'[swaps'[s].quote_id] # None
               /\ OnTerms(swaps'[s], quotes'[swaps'[s].quote_id])
    <3>1. swaps[s].quote_id \in QuoteId \ {q}
      BY <2>1 DEF TypeOK, SwapRecord, SwapsOnTerms
    <3> QED  BY <2>1, <3>1, <1>2 DEF SwapsOnTerms
  <2> QED  BY <2>1 DEF SwapsOnTerms, OnTerms
<1>7. MessagesFaithful'
  <2>1. answer'.message = quote_record_to_proto(q, quotes'[q])  BY <1>1
  <2>2. Faithful(answer.message)'
    BY <1>1, <2>1 DEF Faithful, OfQuote, quote_record_to_proto
  <2> QED  BY <1>4, <2>2, MessagesStayFaithful
<1>8. TokensApart'  BY TokensStayApart
<1>9. Served'  BY DEF Served
<1>10. EffectsByRole  BY CallerIsPerson DEF EffectsByRole
<1> QED  BY <1>3, <1>4, <1>5, <1>6, <1>7, <1>8, <1>9, <1>10

LEMMA CreateQuoteStep == IInv /\ create_quote => IInv' /\ RowsKept /\ EffectsByRole
<1> SUFFICES ASSUME IInv, create_quote
             PROVE  IInv' /\ RowsKept /\ EffectsByRole
  OBVIOUS
<1> DEFINE c == request.command
           row == QuoteRow(c)
           error == CreateQuoteError(c)
<1>1. cfg # None /\ request # None /\ Kept /\ c.rpc = "CreateQuote"
  BY DEF create_quote, Serving
<1>2. error \in Code /\ "INTERNAL" \in Code  BY ErrorsAreCodes DEF Code
<1>3. CASE error # "OK" /\ Refuse(error)
  <2> HIDE DEF error
  <2> QED  BY <1>1, <1>2, <1>3, Answered DEF Refuse
<1>4. CASE Refuse("INTERNAL")
  BY <1>1, <1>2, <1>4, Answered DEF Refuse
<1>5. ASSUME error = "OK", NEW q \in QuoteId, quotes[q] = None, insert_quote(q, row),
             Reply("OK", quote_record_to_proto(q, row)), UNCHANGED <<swaps, stock>>
      PROVE  IInv' /\ RowsKept /\ EffectsByRole
  <2>1. row \in QuoteRecord  BY <1>1, <1>5, QuoteRowIsRecord DEF IInv, insert_quote
  <2>2. row.total_price_msat = row.asset_amount * row.offer.price /\ row.swap_id = None
    BY DEF QuoteRow, total_price
  <2>3. Caller = "seller"  BY <1>5, CreateQuoteChecks
  <2>4. quotes' = [quotes EXCEPT ![q] = row]  BY <1>5 DEF insert_quote
  <2> HIDE DEF row
  <2> QED  BY <1>1, <1>5, <2>1, <2>2, <2>3, <2>4, QuoteInserted
<1> QED  BY <1>3, <1>4, <1>5 DEF create_quote

\* A quote that has a swap leads to it; one that has none gets the row of one,
\* on its own terms: the offer is still the quote's.
LEMMA SwapInserted ==
    ASSUME IInv, NEW q \in QuoteId, NEW s \in SwapId, NEW row \in SwapRecord, NEW code, NEW message,
           cfg # None, request # None, Kept, request.command.rpc = "CreateSwap",
           request.command.id = q,
           quotes[q] # None, quotes[q].swap_id = None, swaps[s] = None,
           swaps' = [swaps EXCEPT ![s] = row],
           quotes' = [quotes EXCEPT ![q].swap_id = s],
           stock >= quotes[q].asset_amount, stock' = stock - row.asset_amount,
           row.quote_id = q, OnTerms(row, quotes[q]),
           Reply(code, message),
           \/ code = "OK" /\ message = swap_record_to_proto(s, row)
           \/ code = "INTERNAL",
           Caller = "buyer"
    PROVE  IInv' /\ RowsKept /\ EffectsByRole
<1> USE DEF Kept, Reply, IInv
<1>1. /\ row # None /\ swaps'[s] = row
      /\ swaps' \in [SwapId -> SwapRecord \cup {None}]
      /\ \A t \in SwapId \ {s} : swaps'[t] = swaps[t]
  BY NoneAssumption DEF TypeOK
<1> DEFINE linked == [quotes[q] EXCEPT !.swap_id = s]
<1>2. quotes[q] \in QuoteRecord  BY DEF TypeOK
<1>3. linked \in QuoteRecord /\ SameQuote(linked, quotes[q]) /\ linked.swap_id = s
  BY <1>2 DEF QuoteRecord, SameQuote
<1>4. /\ linked # None /\ quotes'[q] = linked
      /\ quotes' \in [QuoteId -> QuoteRecord \cup {None}]
      /\ \A p \in QuoteId \ {q} : quotes'[p] = quotes[p]
  BY <1>3, NoneAssumption DEF TypeOK
<1> HIDE DEF linked
<1>5. TypeOK'
  <2>1. row.asset_amount \in Nat /\ row.asset_amount = quotes[q].asset_amount
    BY WidthAssumption DEF SwapRecord, OnTerms
  <2>2. stock' \in 0..Stock  BY <2>1, AmountAssumption DEF TypeOK
  <2>3. answer'.code \in Code  BY DEF Code
  <2> QED  BY <1>1, <1>4, <2>2, <2>3 DEF TypeOK
<1>6. RowsKept  BY <1>1, <1>3, <1>4 DEF RowsKept, SameQuote, SameSwap
<1>7. QuotesAddUp'
  <2>1. ASSUME NEW p \in QuoteId, quotes'[p] # None
        PROVE  /\ quotes'[p].total_price_msat
                    = quotes'[p].asset_amount * quotes'[p].offer.price
               /\ quotes'[p].swap_id # None =>
                    /\ swaps'[quotes'[p].swap_id] # None
                    /\ swaps'[quotes'[p].swap_id].quote_id = p
    <3>1. CASE p = q  BY <1>1, <1>3, <1>4, <3>1 DEF QuotesAddUp, SameQuote
    <3>2. CASE p # q
      <4>1. quotes'[p] = quotes[p] /\ quotes[p].swap_id \in SwapId \cup {None}
        BY <1>4, <2>1, <3>2 DEF TypeOK, QuoteRecord
      <4> QED  BY <4>1, <1>1, <2>1 DEF QuotesAddUp
    <3> QED  BY <3>1, <3>2
  <2> QED  BY <2>1 DEF QuotesAddUp
<1>8. SwapsOnTerms'
  <2>1. ASSUME NEW t \in SwapId, swaps'[t] # None
        PROVE  /\ quotes'[swaps'[t].quote_id] # None
               /\ OnTerms(swaps'[t], quotes'[swaps'[t].quote_id])
    <3>1. CASE t = s  BY <1>1, <1>3, <1>4, <3>1 DEF OnTerms, SameQuote
    <3>2. CASE t # s
      <4>1. swaps'[t] = swaps[t] /\ swaps[t].quote_id \in QuoteId
        BY <1>1, <2>1, <3>2 DEF TypeOK, SwapRecord
      <4>2. /\ quotes'[swaps[t].quote_id] # None
            /\ SameQuote(quotes'[swaps[t].quote_id], quotes[swaps[t].quote_id])
        BY <1>6, <2>1, <4>1 DEF RowsKept, SwapsOnTerms
      <4> QED  BY <2>1, <4>1, <4>2 DEF SwapsOnTerms, OnTerms, SameQuote
    <3> QED  BY <3>1, <3>2
  <2> QED  BY <2>1 DEF SwapsOnTerms, OnTerms
<1>9. MessagesFaithful'
  <2>1. row = swaps'[s] /\ row.status \in Status  BY <1>1 DEF SwapRecord
  <2>2. swap_record_to_proto(s, row)
          = [swap_record_to_proto(s, row) EXCEPT !.status = row.status]
    BY DEF swap_record_to_proto
  <2>3. ASSUME answer'.code = "OK"
        PROVE  OfSwap(answer.message)'
    BY <1>1, <2>1, <2>2, <2>3 DEF OfSwap, swap_record_to_proto
  <2>4. (answer.code = "OK" => Faithful(answer.message))'  BY <2>3 DEF Faithful
  <2> QED  BY <1>6, <2>4, MessagesStayFaithful
<1>10. TokensApart'  BY TokensStayApart
<1>11. Served'  BY DEF Served
<1>12. EffectsByRole  BY <1>1, <1>4, CallerIsPerson DEF EffectsByRole
<1> QED  BY <1>5, <1>6, <1>7, <1>8, <1>9, <1>10, <1>11, <1>12

LEMMA CreateSwapStep == IInv /\ create_swap => IInv' /\ RowsKept /\ EffectsByRole
<1> SUFFICES ASSUME IInv, create_swap
             PROVE  IInv' /\ RowsKept /\ EffectsByRole
  OBVIOUS
<1> DEFINE c == request.command
           q == c.id
           error == CreateSwapError(c)
<1>1. cfg # None /\ request # None /\ Kept /\ c.rpc = "CreateSwap"
  BY DEF create_swap, Serving
<1>2. error \in Code /\ "INTERNAL" \in Code /\ "OK" \in Code  BY ErrorsAreCodes DEF Code
<1>3. Quoted(q) => error # "NOT_FOUND"  BY CreateSwapChecks
<1>4. error = "OK" => Quoted(q) /\ Caller = "buyer"  BY CreateSwapChecks
<1>5. CASE error # "OK" /\ Refuse(error)
  <2> HIDE DEF error
  <2> QED  BY <1>1, <1>2, <1>3, <1>5, Answered DEF Refuse
<1>6. CASE Refuse("INTERNAL")
  BY <1>1, <1>2, <1>6, Answered DEF Refuse
<1>7. ASSUME error = "OK", quotes[q].swap_id # None,
             LET s == quotes[q].swap_id IN Reply("OK", swap_record_to_proto(s, swaps[s])),
             UNCHANGED <<quotes, swaps, stock>>
      PROVE  IInv' /\ RowsKept /\ EffectsByRole
  <2> DEFINE s == quotes[q].swap_id
  <2>1. Stored(s)
    BY <1>4, <1>7 DEF Quoted, Stored, IInv, QuotesAddUp, TypeOK, QuoteRecord
  <2>2. Faithful(swap_record_to_proto(s, swaps[s]))  BY <2>1, RowsAreFaithful DEF IInv
  <2>3. Reply("OK", swap_record_to_proto(s, swaps[s]))  BY <1>7
  <2> HIDE DEF s, q
  <2> QED  BY <1>1, <1>2, <1>7, <2>2, <2>3, Answered
<1>8. ASSUME error = "OK", quotes[q].swap_id = None, stock >= quotes[q].asset_amount,
             NEW s \in SwapId, NEW confirmed \in BOOLEAN,
             LET row == [SwapRow(q, c.address) EXCEPT
                           !.status = IF confirmed THEN "Funded" ELSE "Created"]
             IN
             /\ swaps[s] = None
             /\ swaps' = [swaps EXCEPT ![s] = row]
             /\ quotes' = [quotes EXCEPT ![q].swap_id = s]
             /\ stock' = stock - row.asset_amount
             /\ IF confirmed THEN Reply("OK", swap_record_to_proto(s, row))
                             ELSE Reply("INTERNAL", None)
      PROVE  IInv' /\ RowsKept /\ EffectsByRole
  <2> DEFINE status == IF confirmed THEN "Funded" ELSE "Created"
             row == [SwapRow(q, c.address) EXCEPT !.status = status]
  <2>1. quotes[q] \in QuoteRecord /\ q \in QuoteId /\ quotes[q] # None
    BY <1>4, <1>8 DEF Quoted, IInv, TypeOK
  <2>2. quotes[q].offer = cfg.offer /\ cfg.offer \in Offer
    BY <1>1, <1>8, CreateSwapChecks DEF OfferChanged, IInv, TypeOK
  <2>3. c.address \in BuyerAddress  BY <1>1, CommandParts DEF IInv
  <2>4. status \in Status  BY DEF Status
  <2>5. cfg.offer.asset \in Asset /\ cfg.offer.subsidy \in 0..U64Max
    BY <2>2, OfferAssumption
  <2>6. row = [quote_id |-> q, direction |-> quotes[q].direction, asset |-> cfg.offer.asset,
               asset_amount |-> quotes[q].asset_amount,
               total_price_msat |-> quotes[q].total_price_msat,
               subsidy |-> cfg.offer.subsidy, address |-> c.address,
               payment |-> None, claim |-> None, status |-> status]
    BY DEF SwapRow
  <2>7. row \in SwapRecord
    <3> HIDE DEF row, status, c, q
    <3> QED  BY <2>1, <2>3, <2>4, <2>5, <2>6 DEF SwapRecord, QuoteRecord
  <2>8. row.quote_id = q /\ OnTerms(row, quotes[q])
    <3> HIDE DEF row, status, c, q
    <3> QED  BY <2>2, <2>6 DEF OnTerms
  <2>9. /\ swaps[s] = None
        /\ swaps' = [swaps EXCEPT ![s] = row]
        /\ quotes' = [quotes EXCEPT ![q].swap_id = s]
        /\ stock' = stock - row.asset_amount
    BY <1>8
  <2>10. PICK code, message :
           /\ Reply(code, message)
           /\ \/ code = "OK" /\ message = swap_record_to_proto(s, row)
              \/ code = "INTERNAL"
    BY <1>8
  <2>11. q = request.command.id  OBVIOUS
  <2> HIDE DEF row, status, q
  <2> QED  BY <1>1, <1>4, <1>8, <2>1, <2>7, <2>8, <2>9, <2>10, <2>11, SwapInserted
<1> QED  BY <1>5, <1>6, <1>7, <1>8 DEF create_swap

\* A payment or a claim is written into the row of its swap.
LEMMA SwapUpdated ==
    ASSUME IInv, NEW s \in SwapId, NEW row \in SwapRecord, NEW message,
           cfg # None, request # None, Kept,
           request.command.rpc \notin {"GetQuote", "CreateSwap"},
           swaps[s] # None, swaps' = [swaps EXCEPT ![s] = row], UNCHANGED <<quotes, stock>>,
           SameSwap(row, swaps[s]),
           swaps[s].payment # None => row.payment = swaps[s].payment,
           swaps[s].claim # None => row.claim = swaps[s].claim,
           Reply("OK", message),
           \/ row.payment # None /\ message = Payment(s, row.payment)
           \/ row.claim # None /\ message = Claim(s, row.claim)
    PROVE  IInv' /\ RowsKept
<1> USE DEF Kept, Reply, IInv
<1>1. /\ row # None /\ swaps'[s] = row
      /\ swaps' \in [SwapId -> SwapRecord \cup {None}]
      /\ \A t \in SwapId \ {s} : swaps'[t] = swaps[t]
  BY NoneAssumption DEF TypeOK
<1>2. TypeOK'  BY <1>1 DEF TypeOK, Code
<1>3. RowsKept  BY <1>1 DEF RowsKept, SameQuote, SameSwap
<1>4. QuotesAddUp'
  <2>1. ASSUME NEW q \in QuoteId, quotes[q] # None, quotes[q].swap_id # None
        PROVE  /\ swaps'[quotes[q].swap_id] # None
               /\ swaps'[quotes[q].swap_id].quote_id = q
    <3>1. quotes[q].swap_id \in SwapId  BY <2>1 DEF TypeOK, QuoteRecord
    <3> QED  BY <1>3, <2>1, <3>1 DEF QuotesAddUp, RowsKept, SameSwap
  <2> QED  BY <2>1 DEF QuotesAddUp
<1>5. SwapsOnTerms'  BY <1>1 DEF SwapsOnTerms, OnTerms, SameSwap
<1>6. MessagesFaithful'
  <2>1. ASSUME row.payment # None, message = Payment(s, row.payment)
        PROVE  OfPayment(answer.message)'
    BY <1>1, <2>1 DEF OfPayment, Payment
  <2>2. ASSUME row.claim # None, message = Claim(s, row.claim)
        PROVE  OfClaim(answer.message)'
    BY <1>1, <2>2 DEF OfClaim, Claim
  <2>3. Faithful(answer.message)'  BY <2>1, <2>2 DEF Faithful
  <2> QED  BY <1>3, <2>3, MessagesStayFaithful
<1>7. TokensApart'  BY TokensStayApart
<1>8. Served'  BY DEF Served
<1> QED  BY <1>2, <1>3, <1>4, <1>5, <1>6, <1>7, <1>8

LEMMA CreateLightningPaymentStep ==
    IInv /\ create_lightning_payment => IInv' /\ RowsKept /\ EffectsByRole
<1> SUFFICES ASSUME IInv, create_lightning_payment
             PROVE  IInv' /\ RowsKept /\ EffectsByRole
  OBVIOUS
<1> DEFINE s == request.command.id
           error == PaymentError(s)
<1>1. cfg # None /\ request # None /\ Kept /\ request.command.rpc = "CreateLightningPayment"
  BY DEF create_lightning_payment, Serving
<1>2. error \in Code /\ "INTERNAL" \in Code /\ "OK" \in Code  BY ErrorsAreCodes DEF Code
<1>3. CASE error # "OK" /\ Refuse(error)
  <2> HIDE DEF error
  <2> QED  BY <1>1, <1>2, <1>3, Answered DEF Refuse
<1>4. CASE Refuse("INTERNAL")
  BY <1>1, <1>2, <1>4, Answered DEF Refuse
<1>5. ASSUME error = "OK", swaps[s].payment # None, Reply("OK", Payment(s, swaps[s].payment)),
             UNCHANGED <<quotes, swaps, stock>>
      PROVE  IInv' /\ RowsKept /\ EffectsByRole
  <2>1. Faithful(Payment(s, swaps[s].payment))
    BY <1>5, PaymentChecks DEF Stored, Faithful, OfPayment
  <2> HIDE DEF s, error
  <2> QED  BY <1>1, <1>2, <1>5, <2>1, Answered
<1>6. ASSUME error = "OK", swaps[s].payment = None, NEW id \in 1..2,
             swaps' = [swaps EXCEPT ![s].payment = id, ![s].status = "Paid"],
             Reply("OK", Payment(s, id)), UNCHANGED <<quotes, stock>>
      PROVE  IInv' /\ RowsKept /\ EffectsByRole
  <2> DEFINE row == [swaps[s] EXCEPT !.payment = id, !.status = "Paid"]
  <2>1. Stored(s) /\ Caller = LnPayer(swaps[s].direction)  BY <1>6, PaymentChecks
  <2>2. swaps[s] \in SwapRecord /\ s \in SwapId /\ swaps[s] # None
    BY <2>1 DEF Stored, IInv, TypeOK
  <2>3. /\ row \in SwapRecord /\ SameSwap(row, swaps[s])
        /\ row.payment = id /\ row.claim = swaps[s].claim
    <3> HIDE DEF s
    <3> QED  BY <2>2 DEF SwapRecord, SameSwap, Status
  <2>4. id # None  BY NoneAssumption
  <2>5. swaps' = [swaps EXCEPT ![s] = row]
    <3> HIDE DEF s
    <3> QED  BY <1>6, <2>2 DEF IInv, TypeOK
  <2>6. IInv' /\ RowsKept
    <3> HIDE DEF s, row
    <3> QED  BY <1>1, <1>6, <2>2, <2>3, <2>4, <2>5, SwapUpdated
  <2>7. EffectsByRole
    <3>1. request.person = LnPayer(swaps[s].direction)
      BY <1>1, <2>1, PartiesAreRoles, CallerIsPerson DEF IInv
    <3>2. swaps'[s] = row /\ \A t \in SwapId \ {s} : swaps'[t] = swaps[t]
      <4> HIDE DEF s, row
      <4> QED  BY <2>2, <2>5 DEF IInv, TypeOK
    <3> HIDE DEF s, row
    <3> QED  BY <1>6, <2>2, <2>3, <3>1, <3>2 DEF EffectsByRole
  <2> QED  BY <2>6, <2>7
<1> QED  BY <1>3, <1>4, <1>5, <1>6 DEF create_lightning_payment

LEMMA CreateAssetClaimStep ==
    IInv /\ create_asset_claim => IInv' /\ RowsKept /\ EffectsByRole
<1> SUFFICES ASSUME IInv, create_asset_claim
             PROVE  IInv' /\ RowsKept /\ EffectsByRole
  OBVIOUS
<1> DEFINE s == request.command.id
           fee == ClaimFee(request.command.fee)
           error == ClaimError(s, fee)
<1>1. cfg # None /\ request # None /\ Kept /\ request.command.rpc = "CreateAssetClaim"
  BY DEF create_asset_claim, Serving
<1>2. error \in Code /\ "INTERNAL" \in Code /\ "OK" \in Code  BY ErrorsAreCodes DEF Code
<1>3. CASE error # "OK" /\ Refuse(error)
  <2> HIDE DEF error
  <2> QED  BY <1>1, <1>2, <1>3, Answered DEF Refuse
<1>4. CASE Refuse("INTERNAL")
  BY <1>1, <1>2, <1>4, Answered DEF Refuse
<1>5. ASSUME error = "OK", swaps[s].claim # None, Reply("OK", Claim(s, swaps[s].claim)),
             UNCHANGED <<quotes, swaps, stock>>
      PROVE  IInv' /\ RowsKept /\ EffectsByRole
  <2>1. Faithful(Claim(s, swaps[s].claim))
    BY <1>5, ClaimChecks DEF Stored, Faithful, OfClaim
  <2> HIDE DEF s, error
  <2> QED  BY <1>1, <1>2, <1>5, <2>1, Answered
<1>6. ASSUME error = "OK", swaps[s].claim = None,
             swaps' = [swaps EXCEPT ![s].claim = fee, ![s].status = "Claimed"],
             Reply("OK", Claim(s, fee)), UNCHANGED <<quotes, stock>>
      PROVE  IInv' /\ RowsKept /\ EffectsByRole
  <2> DEFINE row == [swaps[s] EXCEPT !.claim = fee, !.status = "Claimed"]
  <2>1. Stored(s) /\ Caller = LiquidClaimer(swaps[s].direction)  BY <1>6, ClaimChecks
  <2>2. swaps[s] \in SwapRecord /\ s \in SwapId /\ swaps[s] # None
    BY <2>1 DEF Stored, IInv, TypeOK
  <2>3. fee \in Nat /\ fee # None
    <3>1. request.command.fee \in Fee  BY <1>1, CommandParts DEF IInv
    <3>2. request.command.fee \in Nat  BY <3>1, AmountAssumption
    <3> QED  BY <3>2, NoneAssumption DEF ClaimFee, DEFAULT_CLAIM_FEE_SATS
  <2>4. /\ row \in SwapRecord /\ SameSwap(row, swaps[s])
        /\ row.claim = fee /\ row.payment = swaps[s].payment
    <3> HIDE DEF s, fee
    <3> QED  BY <2>2, <2>3 DEF SwapRecord, SameSwap, Status
  <2>5. swaps' = [swaps EXCEPT ![s] = row]
    <3> HIDE DEF s, fee
    <3> QED  BY <1>6, <2>2 DEF IInv, TypeOK
  <2>6. IInv' /\ RowsKept
    <3> HIDE DEF s, row, fee
    <3> QED  BY <1>1, <1>6, <2>2, <2>3, <2>4, <2>5, SwapUpdated
  <2>7. EffectsByRole
    <3>1. request.person = LiquidClaimer(swaps[s].direction)
      BY <1>1, <2>1, PartiesAreRoles, CallerIsPerson DEF IInv
    <3>2. swaps'[s] = row /\ \A t \in SwapId \ {s} : swaps'[t] = swaps[t]
      <4> HIDE DEF s, row
      <4> QED  BY <2>2, <2>5 DEF IInv, TypeOK
    <3> HIDE DEF s, row, fee
    <3> QED  BY <1>6, <2>2, <2>4, <3>1, <3>2 DEF EffectsByRole
  <2> QED  BY <2>6, <2>7
<1> QED  BY <1>3, <1>4, <1>5, <1>6 DEF create_asset_claim

LEMMA StartStep ==
    ASSUME IInv, NEW seller \in Token, NEW buyer \in Token, NEW offer \in Offer,
           Start(seller, buyer, offer)
    PROVE  IInv' /\ RowsKept /\ EffectsByRole
<1> USE DEF Start, IInv
<1>1. cfg' # None =>
        /\ TokensUsable(seller, buyer)
        /\ cfg' = [seller_token |-> seller, buyer_token |-> buyer, offer |-> offer]
  OBVIOUS
<1>2. TypeOK'  BY <1>1 DEF TypeOK
<1>3. RowsKept  BY UnchangedRows
<1>4. QuotesAddUp' /\ SwapsOnTerms'  BY DEF QuotesAddUp, SwapsOnTerms, OnTerms
<1>5. MessagesFaithful'  BY <1>3, MessagesStayFaithful
<1>6. TokensApart'  BY <1>1 DEF TokensApart, TokensUsable
<1>7. Served'  BY DEF Served
<1>8. EffectsByRole  BY DEF EffectsByRole
<1> QED  BY <1>2, <1>3, <1>4, <1>5, <1>6, <1>7, <1>8

LEMMA SendStep ==
    ASSUME IInv, NEW person \in Person, NEW command \in Command, Send(person, command)
    PROVE  IInv' /\ RowsKept /\ EffectsByRole
<1> USE DEF Send, IInv
<1>1. TokenOf(person) \in Token
  BY TokenAssumption DEF TypeOK, TokenOf, Person
<1>2. answer = None  BY DEF TypeOK
<1>3. TypeOK'  BY <1>1, <1>2 DEF TypeOK
<1>4. RowsKept  BY UnchangedRows
<1>5. QuotesAddUp' /\ SwapsOnTerms'  BY DEF QuotesAddUp, SwapsOnTerms, OnTerms
<1>6. MessagesFaithful'  BY <1>2, <1>4, MessagesStayFaithful
<1>7. TokensApart'  BY DEF TokensApart, TokenOf
<1>8. Served'  BY <1>2 DEF Served
<1>9. EffectsByRole  BY DEF EffectsByRole
<1> QED  BY <1>3, <1>4, <1>5, <1>6, <1>7, <1>8, <1>9

\* The CLI ends, with an answer or without one.
LEMMA EndStep == IInv /\ (Finish \/ Disconnect) => IInv' /\ RowsKept /\ EffectsByRole
<1> SUFFICES ASSUME IInv, Finish \/ Disconnect
             PROVE  IInv' /\ RowsKept /\ EffectsByRole
  OBVIOUS
<1> USE DEF Finish, Disconnect, IInv
<1>1. TypeOK'  BY DEF TypeOK
<1>2. RowsKept  BY UnchangedRows
<1>3. QuotesAddUp' /\ SwapsOnTerms'  BY DEF QuotesAddUp, SwapsOnTerms, OnTerms
<1>4. MessagesFaithful'
  <2>1. \A m \in printed' : Faithful(m)  BY DEF MessagesFaithful
  <2>2. ASSUME NEW m \in printed'
        PROVE  Faithful(m)'
    BY <1>2, <2>1, FaithfulStays
  <2> QED  BY <2>2 DEF MessagesFaithful
<1>5. TokensApart'  BY DEF TokensApart
<1>6. Served'  BY DEF Served
<1>7. EffectsByRole  BY DEF EffectsByRole
<1> QED  BY <1>1, <1>2, <1>3, <1>4, <1>5, <1>6, <1>7

LEMMA Initially == Init => IInv
BY AmountAssumption
   DEF Init, IInv, TypeOK, QuotesAddUp, SwapsOnTerms, MessagesFaithful, TokensApart, Served

LEMMA EveryStep == IInv /\ [Next]_vars => IInv' /\ RowsKept /\ EffectsByRole
<1> SUFFICES ASSUME IInv, [Next]_vars
             PROVE  IInv' /\ RowsKept /\ EffectsByRole
  OBVIOUS
<1>1. CASE \E seller, buyer \in Token, offer \in Offer : Start(seller, buyer, offer)
  BY <1>1, StartStep
<1>2. CASE \E person \in Person, command \in Command : Send(person, command)
  BY <1>2, SendStep
<1>3. CASE Serve
  BY <1>3, CreateQuoteStep, GetQuoteStep, CreateSwapStep, GetSwapStep,
     CreateLightningPaymentStep, CreateAssetClaimStep DEF Serve
<1>4. CASE Finish \/ Disconnect
  BY <1>4, EndStep
<1>5. CASE UNCHANGED vars
  <2> USE DEF vars, IInv
  <2>1. TypeOK'  BY <1>5 DEF TypeOK
  <2>2. RowsKept  BY <1>5, UnchangedRows
  <2>3. QuotesAddUp' /\ SwapsOnTerms'  BY <1>5 DEF QuotesAddUp, SwapsOnTerms, OnTerms
  <2>4. MessagesFaithful'
    <3>1. (answer # None /\ answer.code = "OK" => Faithful(answer.message))'
      BY <1>5 DEF MessagesFaithful, Faithful, OfQuote, OfSwap, OfPayment, OfClaim
    <3> QED  BY <1>5, <2>2, <3>1, MessagesStayFaithful
  <2>5. TokensApart'  BY <1>5, TokensStayApart
  <2>6. Served'  BY <1>5 DEF Served, Quoted
  <2>7. EffectsByRole  BY <1>5 DEF EffectsByRole
  <2> QED  BY <2>1, <2>2, <2>3, <2>4, <2>5, <2>6, <2>7
<1> QED  BY <1>1, <1>2, <1>3, <1>4, <1>5 DEF Next

\* Rows, messages and tokens stay as the inductive invariant says, whatever the
\* persons call and however often the server restarts (src/swap/service.rs,
\* src/bin/swap_server.rs, src/bin/swap_cli.rs).
THEOREM InvariantHolds == Spec => []IInv
<1>1. Init => IInv  BY Initially
<1>2. IInv /\ [Next]_vars => IInv'  BY EveryStep
<1> QED  BY <1>1, <1>2, PTL DEF Spec

-----------------------------------------------------------------------------
(* What follows.                                                           *)

\* Rows, requests and answers are of their types: what create_quote lets
\* through fits the i64 columns of the store, and no inventory is oversold.
THEOREM TypeCorrect == Spec => []TypeOK
<1>1. IInv => TypeOK  BY DEF IInv
<1> QED  BY <1>1, InvariantHolds, PTL

\* A message names its type.
LEMMA MessageTypes ==
    ASSUME NEW m, Faithful(m)
    PROVE  /\ m.type = "quote" => OfQuote(m)
           /\ m.type = "swap" => OfSwap(m)
           /\ m.type = "payment" => OfPayment(m)
           /\ m.type = "claim" => OfClaim(m)
<1>1. OfQuote(m) => m.type = "quote"  BY DEF OfQuote, quote_record_to_proto
<1>2. OfSwap(m) => m.type = "swap"  BY DEF OfSwap, swap_record_to_proto
<1>3. OfPayment(m) => m.type = "payment"  BY DEF OfPayment, Payment
<1>4. OfClaim(m) => m.type = "claim"  BY DEF OfClaim, Claim
<1> QED  BY <1>1, <1>2, <1>3, <1>4 DEF Faithful

\* Two answers about one thing agree: the retries of create_swap,
\* create_lightning_payment and create_asset_claim (src/swap/service.rs) answer
\* from the row, and so do get_quote and get_swap.
THEOREM AnswersAlwaysAgree == Spec => []AnswersAgree
<1>1. ASSUME IInv
      PROVE  AnswersAgree
  <2>1. ASSUME NEW m \in printed, NEW n \in printed
        PROVE
          /\ (m.type = "quote" /\ n.type = "quote" /\ m.quote_id = n.quote_id) => m = n
          /\ (m.type = "swap" /\ n.type = "swap" /\ m.swap_id = n.swap_id)
                => [m EXCEPT !.status = None] = [n EXCEPT !.status = None]
          /\ (m.type = "payment" /\ n.type = "payment" /\ m.swap_id = n.swap_id) => m = n
          /\ (m.type = "claim" /\ n.type = "claim" /\ m.swap_id = n.swap_id) => m = n
    <3>1. Faithful(m) /\ Faithful(n)  BY <1>1 DEF IInv, MessagesFaithful
    <3>2. (OfQuote(m) /\ OfQuote(n) /\ m.quote_id = n.quote_id) => m = n
      BY DEF OfQuote, quote_record_to_proto
    <3>3. ASSUME OfSwap(m), OfSwap(n), m.swap_id = n.swap_id
          PROVE  [m EXCEPT !.status = None] = [n EXCEPT !.status = None]
      <4>1. PICK s \in SwapId, i \in Status :
              m = [swap_record_to_proto(s, swaps[s]) EXCEPT !.status = i]
        BY <3>3 DEF OfSwap
      <4>2. PICK t \in SwapId, j \in Status :
              n = [swap_record_to_proto(t, swaps[t]) EXCEPT !.status = j]
        BY <3>3 DEF OfSwap
      <4>3. s = t  BY <3>3, <4>1, <4>2 DEF swap_record_to_proto
      <4>4. [m EXCEPT !.status = None] = [swap_record_to_proto(s, swaps[s]) EXCEPT !.status = None]
        BY <4>1 DEF swap_record_to_proto
      <4>5. [n EXCEPT !.status = None] = [swap_record_to_proto(t, swaps[t]) EXCEPT !.status = None]
        BY <4>2 DEF swap_record_to_proto
      <4> QED  BY <4>3, <4>4, <4>5
    <3>4. (OfPayment(m) /\ OfPayment(n) /\ m.swap_id = n.swap_id) => m = n
      BY DEF OfPayment, Payment
    <3>5. (OfClaim(m) /\ OfClaim(n) /\ m.swap_id = n.swap_id) => m = n
      BY DEF OfClaim, Claim
    <3> QED  BY <3>1, <3>2, <3>3, <3>4, <3>5, MessageTypes
  <2> QED  BY <2>1 DEF AnswersAgree
<1> QED  BY <1>1, InvariantHolds, PTL

\* A quote's total is its product (create_quote's checked_mul and the columns'
\* range), and a swap's terms are its quote's (create_swap's comparison of the
\* offers).
THEOREM PricesAreAlwaysExact == Spec => []PricesAreExact
<1>1. ASSUME IInv
      PROVE  PricesAreExact
  <2>1. ASSUME NEW m \in printed
        PROVE
          /\ m.type = "quote" => m.total_price_msat = m.asset_amount * m.offer.price
          /\ m.type = "swap" =>
                LET quote == quotes[m.quote_id] IN
                /\ m.invoice_msat = quote.asset_amount * quote.offer.price
                /\ m.asset = quote.offer.asset /\ m.subsidy = quote.offer.subsidy
    <3>1. Faithful(m)  BY <1>1 DEF IInv, MessagesFaithful
    <3>2. ASSUME m.type = "quote"
          PROVE  m.total_price_msat = m.asset_amount * m.offer.price
      <4>1. PICK q \in QuoteId : quotes[q] # None /\ m = quote_record_to_proto(q, quotes[q])
        BY <3>1, <3>2, MessageTypes DEF OfQuote
      <4> QED  BY <1>1, <4>1 DEF IInv, QuotesAddUp, quote_record_to_proto
    <3>3. ASSUME m.type = "swap"
          PROVE  LET quote == quotes[m.quote_id] IN
                 /\ m.invoice_msat = quote.asset_amount * quote.offer.price
                 /\ m.asset = quote.offer.asset /\ m.subsidy = quote.offer.subsidy
      <4>1. PICK s \in SwapId, status \in Status :
              /\ swaps[s] # None
              /\ m = [swap_record_to_proto(s, swaps[s]) EXCEPT !.status = status]
        BY <3>1, <3>3, MessageTypes DEF OfSwap
      <4>2. /\ m.quote_id = swaps[s].quote_id /\ m.invoice_msat = swaps[s].total_price_msat
            /\ m.asset = swaps[s].asset /\ m.subsidy = swaps[s].subsidy
        BY <4>1 DEF swap_record_to_proto
      <4>3. swaps[s].quote_id \in QuoteId  BY <1>1, <4>1 DEF IInv, TypeOK, SwapRecord
      <4> QED  BY <1>1, <4>1, <4>2, <4>3 DEF IInv, SwapsOnTerms, OnTerms, QuotesAddUp
    <3> QED  BY <3>2, <3>3
  <2> QED  BY <2>1 DEF PricesAreExact
<1> QED  BY <1>1, InvariantHolds, PTL

\* A quote that was handed out is found again by get_quote and create_swap: no
\* row is deleted, and none is written that its columns would not give back.
THEOREM QuotesAreAlwaysServed == Spec => []QuotesAreServed
<1>1. ASSUME IInv
      PROVE  QuotesAreServed
  <2>1. ASSUME NEW m \in printed, m.type = "quote", answer # None,
               request.command.rpc \in {"GetQuote", "CreateSwap"},
               request.command.id = m.quote_id
        PROVE  /\ answer.code # "NOT_FOUND"
               /\ request.command.rpc = "GetQuote" => answer.code # "INTERNAL"
    <3>1. Quoted(m.quote_id)
      BY <1>1, <2>1, MessageTypes
         DEF IInv, MessagesFaithful, OfQuote, quote_record_to_proto, Quoted
    <3> QED  BY <1>1, <2>1, <3>1 DEF IInv, Served
  <2> QED  BY <2>1 DEF QuotesAreServed
<1> QED  BY <1>1, InvariantHolds, PTL

\* Quotes, swaps, payments and claims are made by the calls of those whose role
\* it is (require_role of src/swap/service.rs, the tokens that main of
\* src/bin/swap_server.rs refuses to start with).
THEOREM EffectsAreByRole == Spec => EffectsOnlyByRole
<1>1. IInv /\ [Next]_vars => EffectsByRole  BY EveryStep
<1>2. Spec => [][EffectsByRole]_vars  BY <1>1, InvariantHolds, PTL DEF Spec
<1> QED  BY <1>2 DEF EffectsOnlyByRole

\* The store's rows are written once: no step deletes one or changes its terms,
\* and its payment and its claim are recorded once.
THEOREM RowsAlwaysKept == Spec => [][RowsKept]_vars
<1>1. IInv /\ [Next]_vars => RowsKept  BY EveryStep
<1> QED  BY <1>1, InvariantHolds, PTL DEF Spec

=============================================================================
