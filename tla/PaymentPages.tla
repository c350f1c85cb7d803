---------------------------- MODULE PaymentPages ----------------------------
(***************************************************************************)
(* How CreateLightningPayment learns that its payment went through:        *)
(* LdkLightningClient::pay_invoice and wait_preimage, over the payment     *)
(* list of the node, which comes in pages and of which wait_preimage reads *)
(* the first one only.  The swaps here are funded LIQUID_TO_LN swaps, one  *)
(* for each invoice; the invoices that CreateSwap issues for LN_TO_LIQUID  *)
(* swaps (create_invoice) and the node's other payments share the list.    *)
(***************************************************************************)
EXTENDS Integers, FiniteSets, SequencesExt

CONSTANTS
    Call,           \* CreateLightningPayment requests in the air
    Invoice,        \* the buyers' invoices; a payment's id is its invoice
    PageSize,       \* payments on a page of the node's list
    MaxOthers,      \* bound: entries of the list that pay no invoice here
    Other,          \* the id of such an entry: no invoice
    None

ASSUME PageAssumption == PageSize \in Nat \ {0}
ASSUME IdAssumption == Other \notin Invoice /\ None \notin Invoice
ASSUME NoneAssumption == None \notin {"paid", "refused", "timeout", "error"}

VARIABLES
    listing,    \* the node lists its payments "newest" or "oldest" first
    list,       \* the node's payments, in the order they were made
    call,       \* call[c]: a request and the locals of its handler
    row         \* row[i]: the ln_payment_id stored for the swap of i, or None

vars == <<listing, list, call, row>>

Status == {"pending", "succeeded", "failed"}
Entry == [id: Invoice, direction: {"outbound"}, status: Status]
         \cup [id: {Other}, direction: {"inbound", "outbound"}, status: Status]

\* look is the handler's last list: whether the payment had succeeded by then
\* and how many payments the node lists before it.
Unseen == [paid |-> FALSE, ahead |-> 0]
Idle == [pc |-> "idle", invoice |-> None, expired |-> FALSE, look |-> Unseen,
         answer |-> None]

Init ==
    /\ listing \in {"newest", "oldest"}
    /\ list = <<>>
    /\ call = [c \in Call |-> Idle]
    /\ row = [i \in Invoice |-> None]

-----------------------------------------------------------------------------
(* The node.                                                               *)

Positions(i) == {n \in DOMAIN list : list[n].id = i}
HasStatus(i, status) == \E n \in Positions(i) : list[n].status = status
Paid(i) == HasStatus(i, "succeeded")
Others == {n \in DOMAIN list : list[n].id = Other}

\* The node refuses to pay an invoice whose payment is pending or succeeded.
Sendable(i) == ~HasStatus(i, "pending") /\ ~HasStatus(i, "succeeded")

Outbound(i) == [id |-> i, direction |-> "outbound", status |-> "pending"]
\* Variant: every attempt is a new entry.
SentAgain(i) == Append(list, Outbound(i))

\* A first payment is a new entry, a payment after a failure reuses its own.
Sent(i) ==
    IF Positions(i) = {} THEN Append(list, Outbound(i))
    ELSE [n \in DOMAIN list |-> IF n \in Positions(i) THEN Outbound(i) ELSE list[n]]

Listed == IF listing = "newest" THEN Reverse(list) ELSE list

\* Variant: the last payment of a page is left out.
FirstPageOffByOne == {Listed[n] : n \in 1..(PageSize - 1) \cap DOMAIN Listed}

\* ListPayments with page_token None.
FirstPage == {Listed[n] : n \in 1..PageSize \cap DOMAIN Listed}

\* How many payments the node lists before that of i.
Ahead(i) ==
    LET n == CHOOSE p \in Positions(i) : TRUE
    IN  IF listing = "newest" THEN Len(list) - n ELSE n - 1

\* The network settles a pending payment.
Settle(i, status) ==
    /\ HasStatus(i, "pending")
    /\ list' = [n \in DOMAIN list |->
                  IF n \in Positions(i) THEN [list[n] EXCEPT !.status = status]
                  ELSE list[n]]
    /\ UNCHANGED <<listing, call, row>>

\* create_invoice for an LN_TO_LIQUID swap, or a payment of the node's owner.
AddOther(direction) ==
    /\ Cardinality(Others) < MaxOthers
    /\ list' = Append(list, [id |-> Other, direction |-> direction,
                             status |-> "pending"])
    /\ UNCHANGED <<listing, call, row>>

-----------------------------------------------------------------------------
(* The handler.                                                            *)

At(c, pc) == call[c].pc = pc
Goto(c, pc) == call' = [call EXCEPT ![c].pc = pc]
Answer(c, a) == call' = [call EXCEPT ![c].pc = "idle", ![c].answer = a]

\* get_swap: an earlier payment is answered from the row.
Start(c, i) ==
    /\ At(c, "idle")
    /\ call' = [call EXCEPT ![c] =
                  [Idle EXCEPT !.invoice = i,
                               !.pc = IF row[i] = None THEN "send" ELSE "idle",
                               !.answer = IF row[i] = None THEN None ELSE "paid"]]
    /\ UNCHANGED <<listing, list, row>>

\* pay_invoice: the clock of the wait starts when the node has answered.
pay_invoice(c) ==
    /\ At(c, "send")
    /\ LET i == call[c].invoice
       IN  IF Sendable(i) THEN list' = Sent(i) /\ Goto(c, "poll")
           ELSE Answer(c, "refused") /\ UNCHANGED list
    /\ UNCHANGED <<listing, row>>

\* Variant: a payment that is on the page is taken for paid.
FoundAnyStatus(i) == \E p \in FirstPage : p.id = i /\ p.direction = "outbound"

\* The payment is on the page, outbound and succeeded.
Found(i) ==
    \E p \in FirstPage : p.id = i /\ p.direction = "outbound" /\ p.status = "succeeded"

\* wait_preimage: one list of the node, before the clock is read.
Poll(c) ==
    /\ At(c, "poll")
    /\ LET i == call[c].invoice
       IN  call' = [call EXCEPT
                      ![c].pc = IF Found(i) THEN "persist" ELSE "deadline",
                      ![c].look = [paid |-> Paid(i), ahead |-> Ahead(i)]]
    /\ UNCHANGED <<listing, list, row>>

\* Variant: the wait has no deadline.
DeadlineNever(c) ==
    /\ At(c, "deadline")
    /\ Goto(c, "poll")
    /\ UNCHANGED <<listing, list, row>>

\* wait_preimage: past the deadline it gives up, or it sleeps and lists again.
Deadline(c) ==
    /\ At(c, "deadline")
    /\ IF call[c].expired THEN Answer(c, "timeout") ELSE Goto(c, "poll")
    /\ UNCHANGED <<listing, list, row>>

\* The clock passes the deadline of a wait.
Expire(c) ==
    /\ call[c].pc \in {"poll", "deadline"}
    /\ ~call[c].expired
    /\ call' = [call EXCEPT ![c].expired = TRUE]
    /\ UNCHANGED <<listing, list, row>>

\* upsert_swap_payment.
Persist(c) ==
    /\ At(c, "persist")
    /\ row' = [row EXCEPT ![call[c].invoice] = call[c].invoice]
    /\ Answer(c, "paid")
    /\ UNCHANGED <<listing, list>>

\* The node does not answer, or answers an error, or the client goes away, or
\* the store fails.
GiveUp(c) ==
    /\ call[c].pc # "idle"
    /\ Answer(c, "error")
    /\ UNCHANGED <<listing, list, row>>

\* The node has sent, and its answer is lost.
SendLost(c) ==
    /\ At(c, "send")
    /\ Sendable(call[c].invoice)
    /\ list' = Sent(call[c].invoice)
    /\ Answer(c, "error")
    /\ UNCHANGED <<listing, row>>

Step(c) == pay_invoice(c) \/ Poll(c) \/ Deadline(c) \/ Persist(c)

Next ==
    \/ \E c \in Call : \/ \E i \in Invoice : Start(c, i)
                       \/ Step(c)
                       \/ Expire(c)
                       \/ GiveUp(c)
                       \/ SendLost(c)
    \/ \E i \in Invoice, status \in {"succeeded", "failed"} : Settle(i, status)
    \/ \E direction \in {"inbound", "outbound"} : AddOther(direction)

Spec == Init /\ [][Next]_vars

\* The node's list, where an id is listed once, the requests and the rows have
\* their types.
TypeOK ==
    /\ listing \in {"newest", "oldest"}
    /\ list \in Seq(Entry)
    /\ \A i \in Invoice : \A m, n \in DOMAIN list :
          list[m].id = i /\ list[n].id = i => m = n
    /\ call \in [Call -> [pc: {"idle", "send", "poll", "deadline", "persist"},
                         invoice: Invoice \cup {None}, expired: BOOLEAN,
                         look: [paid: BOOLEAN, ahead: Nat],
                         answer: {None, "paid", "refused", "timeout", "error"}]]
    /\ row \in [Invoice -> Invoice \cup {None}]

\* A wait that times out although its payment had gone through at its last look
\* was crowded out: the node listed a whole page of payments before it.  Retries,
\* failed payments and other requests for the invoice cannot hide it.
TimedOutUnseen ==
    \A c \in Call : call[c].answer = "timeout" =>
        ~call[c].look.paid \/ call[c].look.ahead >= PageSize

\* A payment is stored, and answered with its preimage, only if the node's
\* payment of that invoice went through.
StoredIsPaid ==
    /\ \A i \in Invoice : row[i] # None => row[i] = i /\ Paid(i)
    /\ \A c \in Call : call[c].answer = "paid" => row[call[c].invoice] # None

\* docs/protobuf/api-design.mdx:56: CreateLightningPayment is idempotent per
\* swap_id.  A payment that has gone through is not refused as a duplicate.
PaidIsReturned ==
    [][\A c \in Call :
          At(c, "send") /\ call'[c].answer = "refused" => ~Paid(call[c].invoice)]_vars

\* The runtime runs a task that is ready, and the clock goes on.
Fairness == \A c \in Call : WF_vars(Step(c)) /\ WF_vars(Expire(c))

FairSpec == Spec /\ Fairness

\* Every wait ends, whatever the node lists: even one whose payment has failed,
\* stays pending or is crowded out of the first page.
WaitsEnd == \A c \in Call : call[c].pc # "idle" ~> call[c].pc = "idle"
=============================================================================
