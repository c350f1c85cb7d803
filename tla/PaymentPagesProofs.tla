------------------------ MODULE PaymentPagesProofs ------------------------
(***************************************************************************)
(* The safety properties of PaymentPages for every page size, every number *)
(* of requests, invoices and other payments, and both orders of the list.  *)
(***************************************************************************)
EXTENDS PaymentPages, SequenceTheorems, TLAPS

ListOK ==
    /\ list \in Seq(Entry)
    /\ \A i \in Invoice : \A m, n \in DOMAIN list :
          list[m].id = i /\ list[n].id = i => m = n

CallOK ==
    call \in [Call -> [pc: {"idle", "send", "poll", "deadline", "persist"},
                       invoice: Invoice \cup {None}, expired: BOOLEAN,
                       look: [paid: BOOLEAN, ahead: Nat],
                       answer: {None, "paid", "refused", "timeout", "error"}]]

\* What a handler knows at each of its awaits: its invoice has a payment from
\* the send on, which has succeeded once it was found, and the last look of a
\* wait that goes on found it pending, failed or crowded out.
WaitOK(c) ==
    /\ call[c].pc # "idle" => call[c].invoice \in Invoice /\ call[c].answer = None
    /\ call[c].answer = "paid" => call[c].invoice \in Invoice
    /\ call[c].pc \in {"poll", "deadline", "persist"} =>
          Positions(call[c].invoice) # {}
    /\ call[c].pc = "persist" => Paid(call[c].invoice)
    /\ call[c].pc = "deadline" =>
          ~call[c].look.paid \/ call[c].look.ahead >= PageSize

IInv ==
    /\ TypeOK
    /\ TimedOutUnseen
    /\ StoredIsPaid
    /\ \A c \in Call : WaitOK(c)

-----------------------------------------------------------------------------
(* The list only gains payments, and keeps those that went through.        *)

ListKeeps ==
    /\ ListOK'
    /\ \A i \in Invoice : /\ Paid(i) => Paid(i)'
                          /\ Positions(i) # {} => Positions(i)' # {}

\* An entry at the end of the list, of an id it does not hold yet or of no invoice.
LEMMA AppendKeeps ==
    ASSUME ListOK, NEW e \in Entry, list' = Append(list, e),
           e.id = Other \/ Positions(e.id) = {}
    PROVE  ListKeeps
<1>1. list' \in Seq(Entry) /\ Len(list') = Len(list) + 1
  BY AppendProperties DEF ListOK
<1>2. \A n \in 1..Len(list) : list'[n] = list[n]
  BY AppendProperties DEF ListOK
<1>3. list'[Len(list) + 1] = e
  BY AppendProperties DEF ListOK
<1>4. DOMAIN list = 1..Len(list) /\ DOMAIN list' = 1..Len(list) + 1 /\ Len(list) \in Nat
  BY <1>1, LenProperties DEF ListOK
<1>5. ListOK'
  BY <1>1, <1>2, <1>3, <1>4, IdAssumption DEF ListOK, Positions
<1>6. ASSUME NEW i \in Invoice
      PROVE  Positions(i) \subseteq Positions(i)' /\ (Paid(i) => Paid(i)')
  BY <1>2, <1>4 DEF Positions, Paid, HasStatus
<1> QED
  BY <1>5, <1>6 DEF ListKeeps

\* An entry of i that had not succeeded is replaced where it is.
LEMMA ReplaceKeeps ==
    ASSUME ListOK, NEW i \in Invoice, NEW e, e \in Entry, e.id = i, ~Paid(i),
           list' = [n \in DOMAIN list |-> IF n \in Positions(i) THEN e ELSE list[n]]
    PROVE  ListKeeps
<1>1. DOMAIN list = 1..Len(list) /\ Len(list) \in Nat
      /\ \A n \in DOMAIN list : list[n] \in Entry
  BY LenProperties, ElementOfSeq DEF ListOK
<1>2. DOMAIN list' = DOMAIN list /\ \A n \in DOMAIN list : list'[n] \in Entry
  BY <1>1
<1>3. list' \in Seq(Entry)
  BY <1>1, <1>2, IsASeq
<1>4. \A n \in DOMAIN list : list'[n].id = list[n].id
  BY DEF Positions
<1>5. ListOK'
  BY <1>2, <1>3, <1>4 DEF ListOK
<1>6. \A j : Positions(j)' = Positions(j)
  BY <1>2, <1>4 DEF Positions
<1>7. \A j \in Invoice : Paid(j) => Paid(j)'
  <2> SUFFICES ASSUME NEW j \in Invoice, Paid(j) PROVE Paid(j)'
    OBVIOUS
  <2>1. PICK n \in Positions(j) : list[n].status = "succeeded"
    BY DEF Paid, HasStatus
  <2>2. n \notin Positions(i)
    BY <2>1 DEF Paid, HasStatus
  <2>3. list'[n] = list[n]
    BY <2>1, <2>2 DEF Positions
  <2> QED
    BY <2>1, <2>3, <1>6 DEF Paid, HasStatus
<1> QED
  BY <1>5, <1>6, <1>7 DEF ListKeeps

\* pay_invoice's new or renewed payment.
LEMMA SentKeeps ==
    ASSUME ListOK, NEW i \in Invoice, Sendable(i), list' = Sent(i)
    PROVE  ListKeeps /\ Positions(i)' # {}
<1>1. Outbound(i) \in Entry /\ Outbound(i).id = i
  BY DEF Outbound, Entry, Status
<1>2. CASE Positions(i) = {}
  <2>1. list' = Append(list, Outbound(i))
    BY <1>2 DEF Sent
  <2>2. ListKeeps
    BY <1>1, <1>2, <2>1, AppendKeeps
  <2>3. Len(list) + 1 \in DOMAIN list' /\ list'[Len(list) + 1] = Outbound(i)
    BY <1>1, <2>1, AppendProperties, LenProperties DEF ListOK
  <2> QED
    BY <1>1, <2>2, <2>3 DEF Positions
<1>3. CASE Positions(i) # {}
  <2>1. list' = [n \in DOMAIN list |-> IF n \in Positions(i) THEN Outbound(i) ELSE list[n]]
    BY <1>3 DEF Sent
  <2>2. ~Paid(i)
    BY DEF Sendable, Paid
  <2> QED
    BY <1>1, <1>3, <2>1, <2>2, ReplaceKeeps DEF ListKeeps
<1> QED
  BY <1>2, <1>3

\* The network's answer to a pending payment: no payment is pending and succeeded.
LEMMA SettleKeeps ==
    ASSUME ListOK, NEW i \in Invoice, NEW status \in {"succeeded", "failed"},
           Settle(i, status)
    PROVE  ListKeeps
<1>1. PICK k \in Positions(i) : list[k].status = "pending"
  BY DEF Settle, HasStatus
<1>2. \A n \in Positions(i) : n = k
  BY <1>1 DEF ListOK, Positions
<1>3. ~Paid(i)
  BY <1>1, <1>2 DEF Paid, HasStatus
<1> DEFINE e == [list[k] EXCEPT !.status = status]
<1>4. list[k] \in Entry /\ list[k].id = i
  BY <1>1, ElementOfSeq, LenProperties DEF ListOK, Positions
<1>5. e \in Entry /\ e.id = i
  BY <1>4 DEF Entry, Status
<1>6. list' = [n \in DOMAIN list |-> IF n \in Positions(i) THEN e ELSE list[n]]
  BY <1>2 DEF Settle
<1> HIDE DEF e
<1> QED
  BY <1>3, <1>5, <1>6, ReplaceKeeps

\* A payment that went through is found, or a page of others is listed before it.
LEMMA FirstPageShows ==
    ASSUME ListOK, listing \in {"newest", "oldest"}, NEW i \in Invoice, Positions(i) # {}
    PROVE  /\ Ahead(i) \in Nat
           /\ Paid(i) /\ ~Found(i) => Ahead(i) >= PageSize
           /\ Found(i) => Paid(i)
<1>1. DOMAIN list = 1..Len(list) /\ Len(list) \in Nat
  BY LenProperties DEF ListOK
<1> DEFINE n == CHOOSE p \in Positions(i) : TRUE
           k == IF listing = "newest" THEN Len(list) - n + 1 ELSE n
<1>2. n \in Positions(i)
  OBVIOUS
<1>3. n \in 1..Len(list) /\ \A m \in Positions(i) : m = n
  BY <1>1, <1>2 DEF ListOK, Positions
<1>4. Ahead(i) = k - 1 /\ k \in 1..Len(list)
  BY <1>1, <1>3 DEF Ahead
<1> HIDE DEF n
<1>5. DOMAIN Listed = 1..Len(list) /\ Listed[k] = list[n]
  <2>1. CASE listing = "newest"
    <3>1. Listed = [m \in 1..Len(list) |-> list[Len(list) - m + 1]]
      BY <2>1 DEF Listed, Reverse
    <3>2. Len(list) - k + 1 = n
      BY <1>1, <1>3, <2>1
    <3> QED
      BY <3>1, <3>2, <1>4
  <2>2. CASE listing = "oldest"
    BY <1>1, <2>2 DEF Listed
  <2> QED
    BY <2>1, <2>2
<1>6. list[n] \in Entry /\ list[n].id = i /\ list[n].direction = "outbound"
  <2>1. list[n] \in Entry /\ list[n].id = i
    BY <1>2, <1>3, ElementOfSeq DEF ListOK, Positions
  <2> QED
    BY <2>1, IdAssumption DEF Entry
<1>7. ASSUME Paid(i), ~(k - 1 >= PageSize) PROVE Found(i)
  <2>1. list[n].status = "succeeded"
    BY <1>3, <1>7 DEF Paid, HasStatus
  <2>2. k \in 1..PageSize
    BY <1>1, <1>4, <1>7, PageAssumption
  <2>3. list[n] \in FirstPage
    BY <1>4, <1>5, <2>2 DEF FirstPage
  <2> QED
    BY <1>6, <2>1, <2>3 DEF Found
<1>8. ASSUME Found(i) PROVE Paid(i)
  <2>1. PICK m \in 1..Len(list) : Listed[m].id = i /\ Listed[m].status = "succeeded"
    BY <1>5, <1>8 DEF Found, FirstPage
  <2>2. CASE listing = "newest"
    <3>1. Listed[m] = list[Len(list) - m + 1] /\ Len(list) - m + 1 \in 1..Len(list)
      BY <1>1, <2>2 DEF Listed, Reverse
    <3> QED
      BY <1>1, <2>1, <3>1 DEF Paid, HasStatus, Positions
  <2>3. CASE listing = "oldest"
    BY <1>1, <2>1, <2>3 DEF Listed, Paid, HasStatus, Positions
  <2> QED
    BY <2>2, <2>3
<1> HIDE DEF k
<1>9. Ahead(i) \in Nat
  BY <1>1, <1>4
<1> QED
  BY <1>4, <1>7, <1>8, <1>9

-----------------------------------------------------------------------------
(* The invariant.                                                          *)

LEMMA InitIInv == Init => IInv
<1> SUFFICES ASSUME Init PROVE IInv
  OBVIOUS
<1>1. list \in Seq(Entry) /\ DOMAIN list = {}
  BY DEF Init
<1>2. Idle \in [pc: {"idle", "send", "poll", "deadline", "persist"},
                invoice: Invoice \cup {None}, expired: BOOLEAN,
                look: [paid: BOOLEAN, ahead: Nat],
                answer: {None, "paid", "refused", "timeout", "error"}]
  BY DEF Idle, Unseen
<1>3. TypeOK
  BY <1>1, <1>2 DEF Init, TypeOK
<1>4. \A c \in Call : call[c] = Idle
  BY DEF Init
<1>5. None \notin {"timeout", "paid"}
  BY NoneAssumption
<1> QED
  BY <1>3, <1>4, <1>5 DEF IInv, TimedOutUnseen, StoredIsPaid, WaitOK, Idle, Unseen, Init

LEMMA UnchangedKeeps == ASSUME ListOK, UNCHANGED list PROVE ListKeeps
BY DEF ListOK, ListKeeps, Paid, HasStatus, Positions

\* The node alone makes a step: the handlers' view of it stays true.
LEMMA NodeStep ==
    ASSUME IInv, ListKeeps, UNCHANGED <<listing, call, row>>
    PROVE  IInv'
<1>1. TypeOK'
  BY DEF IInv, TypeOK, ListKeeps, ListOK
<1>2. TimedOutUnseen' /\ StoredIsPaid'
  BY DEF IInv, TimedOutUnseen, StoredIsPaid, ListKeeps
<1>3. \A c \in Call : WaitOK(c)'
  BY DEF IInv, WaitOK, ListKeeps
<1> QED
  BY <1>1, <1>2, <1>3 DEF IInv

\* Handler c makes a step and holds r after it: what has to be shown of r.
CallRecord ==
    [pc: {"idle", "send", "poll", "deadline", "persist"},
     invoice: Invoice \cup {None}, expired: BOOLEAN,
     look: [paid: BOOLEAN, ahead: Nat],
     answer: {None, "paid", "refused", "timeout", "error"}]

Holds(r) ==
    /\ r \in CallRecord
    /\ r.answer = "timeout" => ~r.look.paid \/ r.look.ahead >= PageSize
    /\ r.pc # "idle" => r.invoice \in Invoice /\ r.answer = None
    /\ r.pc = "deadline" => ~r.look.paid \/ r.look.ahead >= PageSize

HoldsNow(r) ==
    /\ r.answer = "paid" => r.invoice \in Invoice /\ row[r.invoice] # None
    /\ r.pc \in {"poll", "deadline", "persist"} => Positions(r.invoice) # {}
    /\ r.pc = "persist" => Paid(r.invoice)

LEMMA HandlerStep ==
    ASSUME IInv, NEW c \in Call, NEW r, call' = [call EXCEPT ![c] = r],
           UNCHANGED listing, ListKeeps, Holds(r), HoldsNow(r)',
           row' \in [Invoice -> Invoice \cup {None}],
           \A i \in Invoice : /\ row[i] # None => row'[i] = row[i]
                              /\ row'[i] # None => row'[i] = i /\ Paid(i)'
    PROVE  IInv'
<1>1. call \in [Call -> CallRecord] /\ \A d \in Call : WaitOK(d)
  BY DEF IInv, TypeOK, CallRecord
<1>2. call' \in [Call -> CallRecord] /\ call'[c] = r
      /\ \A d \in Call \ {c} : call'[d] = call[d]
  BY <1>1 DEF Holds
<1>3. TypeOK'
  BY <1>2 DEF IInv, TypeOK, ListKeeps, ListOK, CallRecord
<1>4. TimedOutUnseen'
  BY <1>2 DEF IInv, TimedOutUnseen, Holds
<1>5. StoredIsPaid'
  <2>1. ASSUME NEW d \in Call, call'[d].answer = "paid"
        PROVE  row'[call'[d].invoice] # None
    <3>1. CASE d = c
      BY <1>2, <2>1, <3>1 DEF HoldsNow
    <3>2. CASE d # c
      BY <1>1, <1>2, <2>1, <3>2 DEF IInv, StoredIsPaid, WaitOK
    <3> QED
      BY <3>1, <3>2
  <2> QED
    BY <2>1 DEF StoredIsPaid
<1>6. ASSUME NEW d \in Call PROVE WaitOK(d)'
  <2>1. CASE d = c
    BY <1>2, <2>1, NoneAssumption DEF Holds, HoldsNow, WaitOK
  <2>2. CASE d # c
    BY <1>1, <1>2, <2>2 DEF WaitOK, ListKeeps
  <2> QED
    BY <2>1, <2>2
<1> QED
  BY <1>3, <1>4, <1>5, <1>6 DEF IInv

LEMMA NextIInv == IInv /\ [Next]_vars => IInv'
<1> SUFFICES ASSUME IInv, [Next]_vars PROVE IInv'
  OBVIOUS
<1> USE DEF At
<1>0. /\ ListOK /\ listing \in {"newest", "oldest"}
      /\ row \in [Invoice -> Invoice \cup {None}]
      /\ \A i \in Invoice : row[i] # None => row[i] = i /\ Paid(i)
      /\ call \in [Call -> CallRecord]
  BY DEF IInv, TypeOK, ListOK, CallRecord, StoredIsPaid
<1>1. ASSUME NEW c \in Call
      PROVE  call[c] \in CallRecord /\ WaitOK(c) /\ (call[c].answer = "paid" => row[call[c].invoice] # None)
  BY <1>0 DEF IInv, StoredIsPaid
<1>2. ASSUME ListKeeps, UNCHANGED row
      PROVE  /\ row' \in [Invoice -> Invoice \cup {None}]
             /\ \A i \in Invoice : /\ row[i] # None => row'[i] = row[i]
                                   /\ row'[i] # None => row'[i] = i /\ Paid(i)'
  BY <1>0, <1>2 DEF ListKeeps
<1>3. ASSUME NEW c \in Call, NEW i \in Invoice, Start(c, i) PROVE IInv'
  <2>0. PICK r : r = [Idle EXCEPT !.invoice = i,
                               !.pc = IF row[i] = None THEN "send" ELSE "idle",
                               !.answer = IF row[i] = None THEN None ELSE "paid"]
    OBVIOUS
  <2>1. call' = [call EXCEPT ![c] = r] /\ UNCHANGED <<listing, list, row>>
    BY <1>3, <2>0 DEF Start
  <2>2. r = [pc |-> IF row[i] = None THEN "send" ELSE "idle", invoice |-> i,
             expired |-> FALSE, look |-> Unseen,
             answer |-> IF row[i] = None THEN None ELSE "paid"]
    BY <2>0 DEF Idle
  <2>3. Holds(r)
    BY <2>2, NoneAssumption DEF Holds, CallRecord, Unseen
  <2>4. HoldsNow(r)'
    BY <2>1, <2>2, NoneAssumption DEF HoldsNow
  <2>5. ListKeeps
    BY <1>0, <2>1, UnchangedKeeps
  <2> QED
    BY <1>2, <2>1, <2>3, <2>4, <2>5, HandlerStep
<1>4. ASSUME NEW c \in Call, pay_invoice(c) PROVE IInv'
  <2>0. PICK i : i = call[c].invoice
    OBVIOUS
  <2>1. i \in Invoice /\ call[c].answer = None
    BY <1>1, <1>4, <2>0 DEF pay_invoice, WaitOK
  <2>2. CASE Sendable(i)
    <3>0. PICK r : r = [call[c] EXCEPT !.pc = "poll"]
      OBVIOUS
    <3>1. call' = [call EXCEPT ![c] = r] /\ UNCHANGED <<listing, row>> /\ list' = Sent(i)
      BY <1>0, <1>4, <2>0, <2>2, <3>0 DEF pay_invoice, Goto
    <3>2. ListKeeps /\ Positions(i)' # {}
      BY <1>0, <2>1, <2>2, <3>1, SentKeeps
    <3>3. r \in CallRecord /\ r.pc = "poll" /\ r.invoice = i /\ r.answer = None
      BY <1>1, <2>0, <2>1, <3>0 DEF CallRecord
    <3>4. Holds(r)
      BY <2>1, <3>3, NoneAssumption DEF Holds
    <3>5. HoldsNow(r)'
      BY <3>2, <3>3, NoneAssumption DEF HoldsNow, Positions
    <3> QED
      BY <1>2, <3>1, <3>2, <3>4, <3>5, HandlerStep
  <2>3. CASE ~Sendable(i)
    <3>0. PICK r : r = [call[c] EXCEPT !.pc = "idle", !.answer = "refused"]
      OBVIOUS
    <3>1. call' = [call EXCEPT ![c] = r] /\ UNCHANGED <<listing, row, list>>
      BY <1>0, <1>4, <2>0, <2>3, <3>0 DEF pay_invoice, Answer
    <3>2. r \in CallRecord /\ r.pc = "idle" /\ r.answer = "refused"
      BY <1>1, <3>0 DEF CallRecord
    <3>3. Holds(r) /\ HoldsNow(r)'
      BY <3>2 DEF Holds, HoldsNow
    <3>4. ListKeeps
      BY <1>0, <3>1, UnchangedKeeps
    <3> QED
      BY <1>2, <3>1, <3>3, <3>4, HandlerStep
  <2> QED
    BY <2>2, <2>3
<1>5. ASSUME NEW c \in Call, Poll(c) PROVE IInv'
  <2>0. PICK i, r :
          /\ i = call[c].invoice
          /\ r = [call[c] EXCEPT !.pc = IF Found(i) THEN "persist" ELSE "deadline",
                                 !.look = [paid |-> Paid(i), ahead |-> Ahead(i)]]
    OBVIOUS
  <2>1. call' = [call EXCEPT ![c] = r] /\ UNCHANGED <<listing, row, list>>
    BY <1>0, <1>5, <2>0 DEF Poll
  <2>2. i \in Invoice /\ call[c].answer = None /\ Positions(i) # {}
    BY <1>1, <1>5, <2>0 DEF Poll, WaitOK
  <2>3. /\ Ahead(i) \in Nat
        /\ Paid(i) /\ ~Found(i) => Ahead(i) >= PageSize
        /\ Found(i) => Paid(i)
    BY <1>0, <2>2, FirstPageShows
  <2>4. Paid(i) \in BOOLEAN
    BY DEF Paid, HasStatus
  <2>5. /\ r \in CallRecord /\ r.invoice = i /\ r.answer = None
        /\ r.pc = IF Found(i) THEN "persist" ELSE "deadline"
        /\ r.look = [paid |-> Paid(i), ahead |-> Ahead(i)]
    BY <1>1, <2>0, <2>2, <2>3, <2>4 DEF CallRecord
  <2>6. Holds(r)
    BY <2>2, <2>3, <2>5, NoneAssumption DEF Holds
  <2>7. Positions(i)' = Positions(i) /\ (Paid(i)' <=> Paid(i))
    BY <2>1 DEF Positions, Paid, HasStatus
  <2>8. HoldsNow(r)'
    BY <2>2, <2>3, <2>5, <2>7, NoneAssumption DEF HoldsNow, Positions, Paid, HasStatus
  <2>9. ListKeeps
    BY <1>0, <2>1, UnchangedKeeps
  <2> QED
    BY <1>2, <2>1, <2>6, <2>8, <2>9, HandlerStep
<1>6. ASSUME NEW c \in Call, Deadline(c) PROVE IInv'
  <2>0. PICK r : r = IF call[c].expired
                     THEN [call[c] EXCEPT !.pc = "idle", !.answer = "timeout"]
                     ELSE [call[c] EXCEPT !.pc = "poll"]
    OBVIOUS
  <2>1. call' = [call EXCEPT ![c] = r] /\ UNCHANGED <<listing, row, list>>
    BY <1>0, <1>6, <2>0 DEF Deadline, Goto, Answer
  <2>2. /\ r \in CallRecord /\ r.invoice = call[c].invoice /\ r.look = call[c].look
        /\ \/ r.pc = "idle" /\ r.answer = "timeout"
           \/ r.pc = "poll" /\ r.answer = call[c].answer
    BY <1>1, <2>0 DEF CallRecord
  <2>3. Holds(r)
    BY <1>1, <1>6, <2>2, NoneAssumption DEF Holds, WaitOK, Deadline
  <2>4. HoldsNow(r)
    BY <1>1, <1>6, <2>2, NoneAssumption DEF HoldsNow, WaitOK, Deadline
  <2>5. HoldsNow(r)'
    BY <2>1, <2>4 DEF HoldsNow, Positions, Paid, HasStatus
  <2>6. ListKeeps
    BY <1>0, <2>1, UnchangedKeeps
  <2> QED
    BY <1>2, <2>1, <2>3, <2>5, <2>6, HandlerStep
<1>7. ASSUME NEW c \in Call, Persist(c) PROVE IInv'
  <2>0. PICK i, r : i = call[c].invoice
                    /\ r = [call[c] EXCEPT !.pc = "idle", !.answer = "paid"]
    OBVIOUS
  <2>1. call' = [call EXCEPT ![c] = r] /\ UNCHANGED <<listing, list>>
        /\ row' = [row EXCEPT ![i] = i]
    BY <1>0, <1>7, <2>0 DEF Persist, Answer
  <2>2. i \in Invoice /\ Paid(i)
    BY <1>1, <1>7, <2>0 DEF Persist, WaitOK
  <2>3. r \in CallRecord /\ r.invoice = i /\ r.pc = "idle" /\ r.answer = "paid"
    BY <1>1, <2>0 DEF CallRecord
  <2>4. ListKeeps
    BY <1>0, <2>1, UnchangedKeeps
  <2>5. Holds(r)
    BY <2>3, NoneAssumption DEF Holds
  <2>6. /\ row' \in [Invoice -> Invoice \cup {None}] /\ row'[i] = i
        /\ \A j \in Invoice : /\ row[j] # None => row'[j] = row[j]
                              /\ row'[j] # None => row'[j] = j /\ Paid(j)'
    BY <1>0, <2>1, <2>2, <2>4 DEF ListKeeps
  <2>7. HoldsNow(r)'
    BY <2>2, <2>3, <2>6, IdAssumption DEF HoldsNow
  <2> QED
    BY <2>1, <2>4, <2>5, <2>6, <2>7, HandlerStep
<1>8. ASSUME NEW c \in Call, Expire(c) PROVE IInv'
  <2>0. PICK r : r = [call[c] EXCEPT !.expired = TRUE]
    OBVIOUS
  <2>1. call' = [call EXCEPT ![c] = r] /\ UNCHANGED <<listing, row, list>>
    BY <1>0, <1>8, <2>0 DEF Expire
  <2>2. r \in CallRecord /\ r.invoice = call[c].invoice /\ r.look = call[c].look
        /\ r.pc = call[c].pc /\ r.answer = call[c].answer
    BY <1>1, <2>0 DEF CallRecord
  <2>3. Holds(r) /\ HoldsNow(r)
    BY <1>1, <1>8, <2>2, NoneAssumption DEF Holds, HoldsNow, WaitOK, Expire
  <2>4. HoldsNow(r)'
    BY <2>1, <2>3 DEF HoldsNow, Positions, Paid, HasStatus
  <2>5. ListKeeps
    BY <1>0, <2>1, UnchangedKeeps
  <2> QED
    BY <1>2, <2>1, <2>3, <2>4, <2>5, HandlerStep
<1>9. ASSUME NEW c \in Call, GiveUp(c) \/ SendLost(c) PROVE IInv'
  <2>0. PICK r : r = [call[c] EXCEPT !.pc = "idle", !.answer = "error"]
    OBVIOUS
  <2>1. call' = [call EXCEPT ![c] = r] /\ UNCHANGED <<listing, row>>
    BY <1>0, <1>9, <2>0 DEF GiveUp, SendLost, Answer
  <2>2. r \in CallRecord /\ r.pc = "idle" /\ r.answer = "error"
    BY <1>1, <2>0 DEF CallRecord
  <2>3. Holds(r) /\ HoldsNow(r)'
    BY <2>2 DEF Holds, HoldsNow
  <2>4. CASE GiveUp(c)
    BY <1>0, <2>4, UnchangedKeeps, <1>2, <2>1, <2>3, HandlerStep DEF GiveUp
  <2>5. CASE SendLost(c)
    <3>1. call[c].invoice \in Invoice
      BY <1>1, <2>5 DEF SendLost, WaitOK
    <3>2. ListKeeps
      BY <1>0, <2>5, <3>1, SentKeeps DEF SendLost
    <3> QED
      BY <1>2, <2>1, <2>3, <3>2, HandlerStep
  <2> QED
    BY <1>9, <2>4, <2>5
<1>10. ASSUME NEW i \in Invoice, NEW status \in {"succeeded", "failed"}, Settle(i, status)
       PROVE  IInv'
  BY <1>0, <1>10, SettleKeeps, NodeStep DEF Settle
<1>11. ASSUME NEW direction \in {"inbound", "outbound"}, AddOther(direction) PROVE IInv'
  <2>0. PICK e : e = [id |-> Other, direction |-> direction, status |-> "pending"]
    OBVIOUS
  <2>1. e \in Entry /\ e.id = Other
    BY <2>0 DEF Entry, Status
  <2>2. list' = Append(list, e) /\ UNCHANGED <<listing, call, row>>
    BY <1>11, <2>0 DEF AddOther
  <2> QED
    BY <1>0, <2>1, <2>2, AppendKeeps, NodeStep
<1>12. CASE UNCHANGED vars
  BY <1>0, <1>12, UnchangedKeeps, NodeStep DEF vars
<1> QED
  BY <1>3, <1>4, <1>5, <1>6, <1>7, <1>8, <1>9, <1>10, <1>11, <1>12 DEF Next, Step

-----------------------------------------------------------------------------
(* The theorems.                                                           *)

\* The invariant of wait_preimage and its callers in every reachable state.
THEOREM PagesInvariant == Spec => []IInv
<1> QED
  BY InitIInv, NextIInv, PTL DEF Spec

\* ldk.rs and create_lightning_payment keep the types of their state, and the
\* node lists every payment once.
THEOREM PagesTypeCorrect == Spec => []TypeOK
<1>1. IInv => TypeOK
  BY DEF IInv
<1> QED
  BY <1>1, PagesInvariant, PTL

\* wait_preimage times out over a payment that went through only when a page of
\* other payments is listed before it, for pages of every size.
THEOREM TimeoutsAreHonest == Spec => []TimedOutUnseen
<1>1. IInv => TimedOutUnseen
  BY DEF IInv
<1> QED
  BY <1>1, PagesInvariant, PTL

\* create_lightning_payment stores and answers a payment only if the node's
\* payment of that swap's invoice went through.
THEOREM StoredPaymentsArePaid == Spec => []StoredIsPaid
<1>1. IInv => StoredIsPaid
  BY DEF IInv
<1> QED
  BY <1>1, PagesInvariant, PTL
=============================================================================
