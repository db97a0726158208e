--------------------------- MODULE CheckoutProofs ---------------------------
(***************************************************************************)
(* Proofs about Checkout, for every set of requests, keys, products and    *)
(* carts.                                                                  *)
(***************************************************************************)
EXTENDS Checkout, FiniteSetTheorems, SumProofs, TLAPS

-----------------------------------------------------------------------------
\* The money: tax is rounded to cents, and so a total is a number of cents.
LEMMA LineIsCents ==
  ASSUME NEW unitPrice \in Nat, NEW quantity \in Nat, NEW rate \in Nat
  PROVE  PriceLine(unitPrice, quantity, rate) \in Nat
<1>1. LineSubtotal(unitPrice, quantity) \in Nat
  BY DEF LineSubtotal
<1>2. ASSUME NEW subtotal \in Nat PROVE RoundedTax(subtotal, rate) \in Nat
  <2>1. PICK cents \in Nat : cents = 2 * subtotal * rate + BasisPoints
    BY DEF BasisPoints
  <2>2. cents \div 20000 \in Nat
    OBVIOUS
  <2> QED
    BY <2>1, <2>2 DEF RoundedTax, BasisPoints
<1> QED
  BY <1>1, <1>2 DEF PriceLine

LEMMA TotalIsCents ==
  ASSUME NEW cart \in Carts, NEW pr \in [Products -> Prices]
  PROVE  Total(cart, pr) \in Nat
<1> DEFINE D == {q \in DOMAIN cart : cart[q] > 0}
<1>1. cart \in [Products -> Nat] /\ pr \in [Products -> Nat] /\ TaxRate \in Nat /\ Shipping \in Nat
  BY CheckoutAssumption
<1>2. D \subseteq Products /\ IsFiniteSet(D)
  BY <1>1, CheckoutAssumption, FS_Subset
<1>3. LineCharges(cart, pr, TaxRate) \in [D -> Nat]
  <2>1. \A p \in D : PriceLine(pr[p], cart[p], TaxRate) \in Nat
    BY <1>1, <1>2, LineIsCents
  <2> QED
    BY <2>1 DEF LineCharges
<1>4. SumOf(LineCharges(cart, pr, TaxRate)) \in Nat
  <2> HIDE DEF D
  <2> QED
    BY <1>2, <1>3, SumIsNatural
<1> QED
  BY <1>1, <1>4 DEF Total, OrderTotal

LEMMA CheckoutFacts ==
    /\ Products \subseteq Nat
    /\ Carts \subseteq [Products -> Nat]
    /\ Prices \subseteq Nat /\ Prices # {}
    /\ TaxRate \in Nat /\ Shipping \in Nat
    /\ InitStock \in [Products -> Nat]
    /\ NoOrder \notin [cart : Carts, total : Nat, by : Requests]
    /\ \A cart \in Carts, pr \in [Products -> Prices] : Total(cart, pr) \in Nat
  BY CheckoutAssumption, TotalIsCents

-----------------------------------------------------------------------------

\* The row locks: they are exclusive, what they read stays true while they are
\* held, and only a request inside its transaction holds any.
LockInv ==
    /\ \A r, o \in Requests : r # o => locked[r] \cap locked[o] = {}
    /\ \A r \in Requests : \A p \in locked[r] :
         seen[r][p] = stock[p] /\ CartOf(r)[p] <= stock[p]
    /\ \A r \in Requests : pc[r] \notin {"locking", "saved"} => locked[r] = {}
    /\ \A r \in Requests : pc[r] = "saved" => LinesLeft(r) = {}

TypeInv == TypeOK /\ LockInv

\* Type correctness of the initial states.
LEMMA InitTypeInv == Init => TypeInv
  BY CheckoutFacts
  DEF Init, TypeInv, TypeOK, LockInv, Working, Answers, IntentStates, Commands

\* No step breaks the types or the lock discipline.
LEMMA NextTypeInv == TypeInv /\ [Next]_vars => TypeInv'
<1> USE CheckoutFacts
<1> USE DEF TypeInv, TypeOK, LockInv, LinesLeft, CartOf, KeyOf, Commands,
            Working, Answers, IntentStates, Orders, Goto, Leave,
            dbVars, intentVars, stripeVars, sideVars, txVars, reqVars, histVars
<1> SUFFICES ASSUME TypeInv, [Next]_vars PROVE TypeInv'
  OBVIOUS
<1>1. ASSUME NEW r \in Requests, Submit(r) PROVE TypeInv'
  BY <1>1 DEF Submit
<1>2. ASSUME NEW r \in Requests, Lookup(r) PROVE TypeInv'
  BY <1>2 DEF Lookup, ReplayOrReject
<1>3. ASSUME NEW r \in Requests, PriceForCharge(r) PROVE TypeInv'
  BY <1>3 DEF PriceForCharge
<1>4. ASSUME NEW r \in Requests, RejectStock(r) PROVE TypeInv'
  BY <1>4 DEF RejectStock
<1>5. ASSUME NEW r \in Requests, RejectCaller(r) PROVE TypeInv'
  BY <1>5 DEF RejectCaller
<1>36. ASSUME NEW r \in Requests, NoSavedCard(r) PROVE TypeInv'
  BY <1>36 DEF NoSavedCard
<1>6. ASSUME NEW r \in Requests, Charge(r) PROVE TypeInv'
  BY <1>6 DEF Charge
<1>7. ASSUME NEW r \in Requests, ChargeAnswered(r) PROVE TypeInv'
  BY <1>7 DEF ChargeAnswered
<1>8. ASSUME NEW r \in Requests, ChargeInFlight(r) PROVE TypeInv'
  BY <1>8 DEF ChargeInFlight
<1>9. ASSUME NEW r \in Requests, ChargeReplayed(r) PROVE TypeInv'
  BY <1>9 DEF ChargeReplayed, ReplayVerdict
<1>10. ASSUME NEW r \in Requests, VerifyReplay(r) PROVE TypeInv'
  BY <1>10 DEF VerifyReplay, VerifyVerdict
<1>11. ASSUME NEW r \in Requests, AwaitInFlightOrder(r) PROVE TypeInv'
  BY <1>11 DEF AwaitInFlightOrder, ReplayOrReject
<1>12. ASSUME NEW r \in Requests, StripeUnreachable(r) PROVE TypeInv'
  <2>1. TypeOK'
    BY <1>12 DEF StripeUnreachable
  <2>2. LockInv'
    BY <1>12 DEF StripeUnreachable
  <2> QED
    BY <2>1, <2>2
<1>13. ASSUME NEW r \in Requests, LockLine(r) PROVE TypeInv'
  BY <1>13 DEF LockLine, NextLine, Free, Enough
<1>14. ASSUME NEW r \in Requests, StockGone(r) PROVE TypeInv'
  BY <1>14 DEF StockGone, Enough
<1>15. ASSUME NEW r \in Requests, PriceMoved(r) PROVE TypeInv'
  BY <1>15 DEF PriceMoved, AllLocked
<1>16. ASSUME NEW r \in Requests, Save(r) PROVE TypeInv'
  BY <1>16 DEF Save, RowFits, AllLocked
<1>17. ASSUME NEW r \in Requests, InsertLoses(r) PROVE TypeInv'
  BY <1>17 DEF InsertLoses, AllLocked
<1>18. ASSUME NEW r \in Requests, SaveFails(r) PROVE TypeInv'
  BY <1>18 DEF SaveFails, AllLocked
<1>19. ASSUME NEW r \in Requests, Commit(r) PROVE TypeInv'
  BY <1>19 DEF Commit, CommitRows
<1>20. ASSUME NEW r \in Requests, CommitUnacknowledged(r) PROVE TypeInv'
  BY <1>20 DEF CommitUnacknowledged, CommitRows
<1>21. ASSUME NEW r \in Requests, PersistFails(r) PROVE TypeInv'
  BY <1>21 DEF PersistFails
<1>22. ASSUME NEW r \in Requests, FindWinner(r) PROVE TypeInv'
  BY <1>22 DEF FindWinner, ReplayOrReject
<1>23. ASSUME NEW r \in Requests, WinnerLookupFails(r) PROVE TypeInv'
  BY <1>23 DEF WinnerLookupFails
<1>24. ASSUME NEW r \in Requests, Refund(r) PROVE TypeInv'
  BY <1>24 DEF Refund
<1>25. ASSUME NEW r \in Requests, RefundFails(r) PROVE TypeInv'
  BY <1>25 DEF RefundFails
<1>26. ASSUME NEW r \in Requests, Finish(r) PROVE TypeInv'
  BY <1>26 DEF Finish
<1>27. ASSUME NEW r \in Requests, Crash(r) PROVE TypeInv'
  BY <1>27 DEF Crash
<1>28. ASSUME NEW k \in Keys, NEW outcome \in {"succeeded", "declined", "processing"},
            StripeSettles(k, outcome) PROVE TypeInv'
  BY <1>28 DEF StripeSettles
<1>29. ASSUME NEW k \in Keys, StripePaysLate(k) PROVE TypeInv'
  BY <1>29 DEF StripePaysLate
<1>30. ASSUME NEW k \in Keys, GraceEnds(k) PROVE TypeInv'
  BY <1>30 DEF GraceEnds
<1>31. ASSUME NEW k \in Keys, Deliver(k) PROVE TypeInv'
  BY <1>31 DEF Deliver, HookVerdict
<1>32. ASSUME NEW k \in Keys, HookRefund(k) PROVE TypeInv'
  BY <1>32 DEF HookRefund
<1>33. ASSUME NEW k \in Keys, HookRefundFails(k) PROVE TypeInv'
  BY <1>33 DEF HookRefundFails
<1>34. ASSUME NEW p \in Products, NEW c \in Prices, Reprice(p, c) PROVE TypeInv'
  BY <1>34 DEF Reprice
<1>35. ASSUME UNCHANGED vars PROVE TypeInv'
  BY <1>35 DEF vars
<1> HIDE DEF TypeInv
<1> QED
  BY <1>1, <1>2, <1>3, <1>4, <1>5, <1>6, <1>7, <1>8, <1>9, <1>10, <1>11,
     <1>12, <1>13, <1>14, <1>15, <1>16, <1>17, <1>18, <1>19, <1>20, <1>21,
     <1>22, <1>23, <1>24, <1>25, <1>26, <1>27, <1>28, <1>29, <1>30, <1>31,
     <1>32, <1>33, <1>34, <1>35, <1>36 DEF Next, Proceed, Fault

-----------------------------------------------------------------------------
\* The charge behind each request: a request that may still write an order
\* holds a succeeded charge of the right amount, and one answered 402 holds a
\* charge that no request can use.
ChargeInv ==
    /\ \A r \in Requests :
         pc[r] \in {"locking", "saved", "lost", "refunding", "committed"}
           => intent[KeyOf(r)] = "succeeded"
    /\ \A r \in Requests : pc[r] = "atStripe" => intent[KeyOf(r)] # "none"
    /\ \A r \in Requests :
         pc[r] = "verify" => intent[KeyOf(r)] \in {"processing", "succeeded", "latepaid"}
    /\ \A r \in Requests :
         pc[r] = "declined" => intent[KeyOf(r)] \in {"declined", "processing", "latepaid"}
    /\ \A r \in Requests : pc[r] = "saved" => ~HasOrder(KeyOf(r)) /\ PriceHolds(r)
    /\ \A r, o \in Requests :
         pc[r] = "saved" /\ pc[o] = "saved" /\ KeyOf(r) = KeyOf(o) => r = o
    /\ \A r \in Requests : pc[r] = "committed" =>
         HasOrder(KeyOf(r)) /\ orders[KeyOf(r)].cart = CartOf(r) /\ orders[KeyOf(r)].by = r
    /\ OrderMatchesCharge
    /\ AnswerMatchesOrder
    /\ TrackedOrdersExist

LEMMA InitChargeInv == Init => ChargeInv
  BY DEF Init, ChargeInv, OrderMatchesCharge, AnswerMatchesOrder, TrackedOrdersExist,
         HasOrder

\* No step breaks it.
LEMMA NextChargeInv == TypeInv /\ ChargeInv /\ [Next]_vars => ChargeInv'
<1> USE CheckoutFacts
<1> USE DEF TypeInv, TypeOK, LockInv, LinesLeft, CartOf, KeyOf, Commands,
            Working, Answers, IntentStates, Orders, Goto, Leave,
            dbVars, intentVars, stripeVars, sideVars, txVars, reqVars, histVars,
            ChargeInv, OrderMatchesCharge, AnswerMatchesOrder, TrackedOrdersExist,
            HasOrder, PriceHolds
<1> SUFFICES ASSUME TypeInv, ChargeInv, [Next]_vars PROVE ChargeInv'
  OBVIOUS
<1>1. ASSUME NEW r \in Requests, Submit(r) PROVE ChargeInv'
  BY <1>1 DEF Submit
<1>2. ASSUME NEW r \in Requests, Lookup(r) PROVE ChargeInv'
  BY <1>2 DEF Lookup, ReplayOrReject
<1>3. ASSUME NEW r \in Requests, PriceForCharge(r) PROVE ChargeInv'
  BY <1>3 DEF PriceForCharge
<1>4. ASSUME NEW r \in Requests, RejectStock(r) PROVE ChargeInv'
  BY <1>4 DEF RejectStock
<1>5. ASSUME NEW r \in Requests, RejectCaller(r) PROVE ChargeInv'
  BY <1>5 DEF RejectCaller
<1>36. ASSUME NEW r \in Requests, NoSavedCard(r) PROVE ChargeInv'
  BY <1>36 DEF NoSavedCard
<1>6. ASSUME NEW r \in Requests, Charge(r) PROVE ChargeInv'
  BY <1>6 DEF Charge
<1>7. ASSUME NEW r \in Requests, ChargeAnswered(r) PROVE ChargeInv'
  BY <1>7 DEF ChargeAnswered
<1>8. ASSUME NEW r \in Requests, ChargeInFlight(r) PROVE ChargeInv'
  BY <1>8 DEF ChargeInFlight
<1>9. ASSUME NEW r \in Requests, ChargeReplayed(r) PROVE ChargeInv'
  BY <1>9 DEF ChargeReplayed, ReplayVerdict
<1>10. ASSUME NEW r \in Requests, VerifyReplay(r) PROVE ChargeInv'
  BY <1>10 DEF VerifyReplay, VerifyVerdict
<1>11. ASSUME NEW r \in Requests, AwaitInFlightOrder(r) PROVE ChargeInv'
  BY <1>11 DEF AwaitInFlightOrder, ReplayOrReject
<1>12. ASSUME NEW r \in Requests, StripeUnreachable(r) PROVE ChargeInv'
  BY <1>12 DEF StripeUnreachable
<1>13. ASSUME NEW r \in Requests, LockLine(r) PROVE ChargeInv'
  BY <1>13 DEF LockLine, NextLine, Free, Enough
<1>14. ASSUME NEW r \in Requests, StockGone(r) PROVE ChargeInv'
  BY <1>14 DEF StockGone, Enough
<1>15. ASSUME NEW r \in Requests, PriceMoved(r) PROVE ChargeInv'
  BY <1>15 DEF PriceMoved, AllLocked
<1>16. ASSUME NEW r \in Requests, Save(r) PROVE ChargeInv'
  BY <1>16 DEF Save, RowFits, AllLocked
<1>17. ASSUME NEW r \in Requests, InsertLoses(r) PROVE ChargeInv'
  BY <1>17 DEF InsertLoses, AllLocked
<1>18. ASSUME NEW r \in Requests, SaveFails(r) PROVE ChargeInv'
  BY <1>18 DEF SaveFails, AllLocked
<1>19. ASSUME NEW r \in Requests, Commit(r) PROVE ChargeInv'
  BY <1>19 DEF Commit, CommitRows
<1>20. ASSUME NEW r \in Requests, CommitUnacknowledged(r) PROVE ChargeInv'
  BY <1>20 DEF CommitUnacknowledged, CommitRows
<1>21. ASSUME NEW r \in Requests, PersistFails(r) PROVE ChargeInv'
  BY <1>21 DEF PersistFails
<1>22. ASSUME NEW r \in Requests, FindWinner(r) PROVE ChargeInv'
  BY <1>22 DEF FindWinner, ReplayOrReject
<1>23. ASSUME NEW r \in Requests, WinnerLookupFails(r) PROVE ChargeInv'
  BY <1>23 DEF WinnerLookupFails
<1>24. ASSUME NEW r \in Requests, Refund(r) PROVE ChargeInv'
  BY <1>24 DEF Refund
<1>25. ASSUME NEW r \in Requests, RefundFails(r) PROVE ChargeInv'
  BY <1>25 DEF RefundFails
<1>26. ASSUME NEW r \in Requests, Finish(r) PROVE ChargeInv'
  BY <1>26 DEF Finish
<1>27. ASSUME NEW r \in Requests, Crash(r) PROVE ChargeInv'
  BY <1>27 DEF Crash
<1>28. ASSUME NEW k \in Keys, NEW outcome \in {"succeeded", "declined", "processing"},
            StripeSettles(k, outcome) PROVE ChargeInv'
  BY <1>28 DEF StripeSettles
<1>29. ASSUME NEW k \in Keys, StripePaysLate(k) PROVE ChargeInv'
  BY <1>29 DEF StripePaysLate
<1>30. ASSUME NEW k \in Keys, GraceEnds(k) PROVE ChargeInv'
  BY <1>30 DEF GraceEnds
<1>31. ASSUME NEW k \in Keys, Deliver(k) PROVE ChargeInv'
  BY <1>31 DEF Deliver, HookVerdict, Retrying
<1>32. ASSUME NEW k \in Keys, HookRefund(k) PROVE ChargeInv'
  BY <1>32 DEF HookRefund
<1>33. ASSUME NEW k \in Keys, HookRefundFails(k) PROVE ChargeInv'
  BY <1>33 DEF HookRefundFails
<1>34. ASSUME NEW p \in Products, NEW c \in Prices, Reprice(p, c) PROVE ChargeInv'
  <2>1. ASSUME NEW r \in Requests, pc[r] = "saved"
        PROVE  Total(CartOf(r), price') = Total(CartOf(r), price)
    <3>1. \A q \in Products : CartOf(r)[q] > 0 => price'[q] = price[q]
      BY <1>34, <2>1 DEF Reprice, Free
    <3>2. DOMAIN CartOf(r) = Products
      OBVIOUS
    <3>3. LineCharges(CartOf(r), price', TaxRate) = LineCharges(CartOf(r), price, TaxRate)
      BY ONLY <3>1, <3>2 DEF LineCharges
    <3> QED
      BY ONLY <3>3 DEF Total, OrderTotal
  <2>2. \A r \in Requests : pc[r] = "saved" => PriceHolds(r)'
    <3>1. UNCHANGED <<amount, pc, cmd>>
      BY <1>34 DEF Reprice
    <3>2. \A r \in Requests : pc[r] = "saved" => PriceHolds(r)
      OBVIOUS
    <3> QED
      BY ONLY <2>1, <3>1, <3>2 DEF PriceHolds, CartOf, KeyOf
  <2> HIDE DEF PriceHolds
  <2> QED
    BY <1>34, <2>2 DEF Reprice
<1>35. ASSUME UNCHANGED vars PROVE ChargeInv'
  BY <1>35 DEF vars
<1> HIDE DEF ChargeInv
<1> QED
  BY <1>1, <1>2, <1>3, <1>4, <1>5, <1>6, <1>7, <1>8, <1>9, <1>10, <1>11,
     <1>12, <1>13, <1>14, <1>15, <1>16, <1>17, <1>18, <1>19, <1>20, <1>21,
     <1>22, <1>23, <1>24, <1>25, <1>26, <1>27, <1>28, <1>29, <1>30, <1>31,
     <1>32, <1>33, <1>34, <1>35, <1>36 DEF Next, Proceed, Fault

-----------------------------------------------------------------------------
\* Who may refund whom: a refund and an order meet on a key only when two
\* actors of that key met before.
Contended == overlapped \cup unacked
Undecided == {"pricing", "charging", "atStripe", "waiting", "verify", "locking",
              "saved", "lost", "refunding"}

ContentionInv ==
    /\ \A r, o \in Requests :
         r # o /\ Live(r) /\ Live(o) /\ KeyOf(r) = KeyOf(o) => KeyOf(r) \in overlapped
    /\ \A k \in Keys : \A r \in creator[k] :
         KeyOf(r) = k /\ pc[r] # "idle" /\ (k \in aged => ~Live(r))
    /\ \A k \in Keys : k \in refunded \cup aged => Paid(k)
    /\ \A k \in Keys : hook[k] = "refunding" => k \in aged
    /\ \A r \in Requests :
         Live(r) /\ hook[KeyOf(r)] = "refunding" => KeyOf(r) \in overlapped
    /\ \A r \in Requests :
         pc[r] \in {"atStripe", "locking", "saved"} /\ KeyOf(r) \in refunded
           => KeyOf(r) \in Contended
    /\ \A r \in Requests :
         pc[r] \in Undecided /\ HasOrder(KeyOf(r)) => KeyOf(r) \in Contended
    /\ \A k \in Keys : HasOrder(k) /\ hook[k] = "refunding" => k \in Contended
    /\ RefundedOrderWasContended

LEMMA InitContentionInv == Init => ContentionInv
  BY DEF Init, ContentionInv, RefundedOrderWasContended, HasOrder, Live, Working, Paid, Undecided

\* No step breaks it.
LEMMA NextContentionInv == TypeInv /\ ChargeInv /\ ContentionInv /\ [Next]_vars => ContentionInv'
<1> USE DEF TypeInv, TypeOK, KeyOf, Live, Paid, Commands, Contended, Undecided,
            Working, Answers, IntentStates, Goto, Leave,
            dbVars, intentVars, stripeVars, sideVars, txVars, reqVars, histVars,
            ContentionInv, RefundedOrderWasContended, HasOrder
<1> SUFFICES ASSUME TypeInv, ChargeInv, ContentionInv, [Next]_vars PROVE ContentionInv'
  OBVIOUS
<1>0. \A r \in Requests :
        pc[r] \in {"locking", "saved", "lost", "refunding", "committed"}
          => intent[KeyOf(r)] = "succeeded"
  BY DEF ChargeInv
<1>1. ASSUME NEW r \in Requests, Submit(r) PROVE ContentionInv'
  BY <1>1 DEF Submit
<1>2. ASSUME NEW r \in Requests, Lookup(r) PROVE ContentionInv'
  BY <1>2 DEF Lookup, ReplayOrReject
<1>3. ASSUME NEW r \in Requests, PriceForCharge(r) PROVE ContentionInv'
  BY <1>3 DEF PriceForCharge
<1>4. ASSUME NEW r \in Requests, RejectStock(r) PROVE ContentionInv'
  BY <1>4 DEF RejectStock
<1>5. ASSUME NEW r \in Requests, RejectCaller(r) PROVE ContentionInv'
  BY <1>5 DEF RejectCaller
<1>36. ASSUME NEW r \in Requests, NoSavedCard(r) PROVE ContentionInv'
  BY <1>36 DEF NoSavedCard
<1>6. ASSUME NEW r \in Requests, Charge(r) PROVE ContentionInv'
  BY <1>6 DEF Charge
<1>7. ASSUME NEW r \in Requests, ChargeAnswered(r) PROVE ContentionInv'
  BY <1>7 DEF ChargeAnswered
<1>8. ASSUME NEW r \in Requests, ChargeInFlight(r) PROVE ContentionInv'
  BY <1>8 DEF ChargeInFlight
<1>9. ASSUME NEW r \in Requests, ChargeReplayed(r) PROVE ContentionInv'
  BY <1>9 DEF ChargeReplayed, ReplayVerdict
<1>10. ASSUME NEW r \in Requests, VerifyReplay(r) PROVE ContentionInv'
  BY <1>10 DEF VerifyReplay, VerifyVerdict
<1>11. ASSUME NEW r \in Requests, AwaitInFlightOrder(r) PROVE ContentionInv'
  BY <1>11 DEF AwaitInFlightOrder, ReplayOrReject
<1>12. ASSUME NEW r \in Requests, StripeUnreachable(r) PROVE ContentionInv'
  BY <1>12 DEF StripeUnreachable
<1>13. ASSUME NEW r \in Requests, LockLine(r) PROVE ContentionInv'
  BY <1>13 DEF LockLine, NextLine, Free, Enough
<1>14. ASSUME NEW r \in Requests, StockGone(r) PROVE ContentionInv'
  BY <1>14 DEF StockGone, Enough
<1>15. ASSUME NEW r \in Requests, PriceMoved(r) PROVE ContentionInv'
  BY <1>15 DEF PriceMoved, AllLocked
<1>16. ASSUME NEW r \in Requests, Save(r) PROVE ContentionInv'
  BY <1>16 DEF Save, RowFits, AllLocked
<1>17. ASSUME NEW r \in Requests, InsertLoses(r) PROVE ContentionInv'
  BY <1>17 DEF InsertLoses, AllLocked
<1>18. ASSUME NEW r \in Requests, SaveFails(r) PROVE ContentionInv'
  BY <1>18 DEF SaveFails, AllLocked
<1>19. ASSUME NEW r \in Requests, Commit(r) PROVE ContentionInv'
  BY <1>19 DEF Commit, CommitRows
<1>20. ASSUME NEW r \in Requests, CommitUnacknowledged(r) PROVE ContentionInv'
  BY <1>20 DEF CommitUnacknowledged, CommitRows
<1>21. ASSUME NEW r \in Requests, PersistFails(r) PROVE ContentionInv'
  BY <1>21 DEF PersistFails
<1>22. ASSUME NEW r \in Requests, FindWinner(r) PROVE ContentionInv'
  BY <1>22 DEF FindWinner, ReplayOrReject
<1>23. ASSUME NEW r \in Requests, WinnerLookupFails(r) PROVE ContentionInv'
  BY <1>23 DEF WinnerLookupFails
<1>24. ASSUME NEW r \in Requests, Refund(r) PROVE ContentionInv'
  BY <1>0, <1>24 DEF Refund
<1>25. ASSUME NEW r \in Requests, RefundFails(r) PROVE ContentionInv'
  BY <1>25 DEF RefundFails
<1>26. ASSUME NEW r \in Requests, Finish(r) PROVE ContentionInv'
  BY <1>26 DEF Finish
<1>27. ASSUME NEW r \in Requests, Crash(r) PROVE ContentionInv'
  BY <1>27 DEF Crash
<1>28. ASSUME NEW k \in Keys, NEW outcome \in {"succeeded", "declined", "processing"},
            StripeSettles(k, outcome) PROVE ContentionInv'
  BY <1>28 DEF StripeSettles
<1>29. ASSUME NEW k \in Keys, StripePaysLate(k) PROVE ContentionInv'
  BY <1>29 DEF StripePaysLate
<1>30. ASSUME NEW k \in Keys, GraceEnds(k) PROVE ContentionInv'
  BY <1>30 DEF GraceEnds
<1>31. ASSUME NEW k \in Keys, Deliver(k) PROVE ContentionInv'
  BY <1>31 DEF Deliver, HookVerdict, Retrying
<1>32. ASSUME NEW k \in Keys, HookRefund(k) PROVE ContentionInv'
  BY <1>32 DEF HookRefund
<1>33. ASSUME NEW k \in Keys, HookRefundFails(k) PROVE ContentionInv'
  BY <1>33 DEF HookRefundFails
<1>34. ASSUME NEW p \in Products, NEW c \in Prices, Reprice(p, c) PROVE ContentionInv'
  BY <1>34 DEF Reprice
<1>35. ASSUME UNCHANGED vars PROVE ContentionInv'
  BY <1>35 DEF vars
<1> HIDE DEF ContentionInv
<1> QED
  BY <1>1, <1>2, <1>3, <1>4, <1>5, <1>6, <1>7, <1>8, <1>9, <1>10, <1>11,
     <1>12, <1>13, <1>14, <1>15, <1>16, <1>17, <1>18, <1>19, <1>20, <1>21,
     <1>22, <1>23, <1>24, <1>25, <1>26, <1>27, <1>28, <1>29, <1>30, <1>31,
     <1>32, <1>33, <1>34, <1>35, <1>36 DEF Next, Proceed, Fault

-----------------------------------------------------------------------------
\* The three invariants together hold of every behaviour.
IInv == TypeInv /\ ChargeInv /\ ContentionInv

LEMMA SpecIInv == Spec => []IInv
<1>1. Init => IInv
  BY InitTypeInv, InitChargeInv, InitContentionInv DEF IInv
<1>2. IInv /\ [Next]_vars => IInv'
  BY NextTypeInv, NextChargeInv, NextContentionInv DEF IInv
<1> QED
  BY <1>1, <1>2, PTL DEF Spec

\* Every variable keeps its type; in particular no stock count goes below zero,
\* however many checkouts compete for the last unit.
THEOREM TypeCorrect == Spec => []TypeOK
<1>1. IInv => TypeOK
  BY DEF IInv, TypeInv
<1> QED
  BY <1>1, SpecIInv, PTL

\* Every committed order was paid, for exactly its total.
THEOREM OrdersArePaid == Spec => []OrderMatchesCharge
<1>1. IInv => OrderMatchesCharge
  BY DEF IInv, ChargeInv
<1> QED
  BY <1>1, SpecIInv, PTL

\* A 201 or a 200 always stands for an order with the caller's own cart.
THEOREM AnswersAreTrue == Spec => []AnswerMatchesOrder
<1>1. IInv => AnswerMatchesOrder
  BY DEF IInv, ChargeInv
<1> QED
  BY <1>1, SpecIInv, PTL

\* A key whose charge was declined to anybody never has an order: DeclinedMeansNoOrder.
THEOREM DeclinesAreFinal == Spec => []DeclinedMeansNoOrder
<1>1. IInv => DeclinedMeansNoOrder
  BY DEF IInv, TypeInv, TypeOK, Commands, KeyOf, ChargeInv, OrderMatchesCharge, DeclinedMeansNoOrder
<1> QED
  BY <1>1, SpecIInv, PTL

\* What a buyer is told stays true, whoever else uses the key.
THEOREM AnswersAreLasting == Spec => []AnswersStayTrue
<1>1. AnswerMatchesOrder /\ DeclinedMeansNoOrder => AnswersStayTrue
  BY DEF AnswersStayTrue
<1> QED
  BY <1>1, AnswersAreTrue, DeclinesAreFinal, PTL

\* Tracking only ever hears of committed orders.
THEOREM TrackingFollowsCommit == Spec => []TrackedOrdersExist
<1>1. IInv => TrackedOrdersExist
  BY DEF IInv, ChargeInv
<1> QED
  BY <1>1, SpecIInv, PTL

\* Without an overlap on its key and with commits acknowledged, no order sits
\* on a refunded charge.
THEOREM RefundsNeedContention == Spec => []RefundedOrderWasContended
<1>1. IInv => RefundedOrderWasContended
  BY DEF IInv, ContentionInv
<1> QED
  BY <1>1, SpecIInv, PTL

-----------------------------------------------------------------------------
\* What the locks read is the stock, so a commit takes exactly the cart's units.
LEMMA CommitDecrements ==
    ASSUME TypeInv, NEW r \in Requests, pc[r] = "saved", CommitRows(r)
    PROVE  /\ \A p \in Products : CartOf(r)[p] \in Nat /\ CartOf(r)[p] <= stock[p]
           /\ stock' = [p \in Products |-> stock[p] - CartOf(r)[p]]
<1>1. \A p \in locked[r] : seen[r][p] = stock[p] /\ CartOf(r)[p] <= stock[p]
  BY DEF TypeInv, LockInv
<1>2. \A p \in Products \ locked[r] : CartOf(r)[p] = 0
  BY CheckoutFacts
  DEF TypeInv, TypeOK, LockInv, LinesLeft, Commands, CartOf
<1>3. stock \in [Products -> Nat]
  BY DEF TypeInv, TypeOK
<1>4. \A p \in Products : CartOf(r)[p] \in Nat
  BY CheckoutFacts DEF TypeInv, TypeOK, Commands, CartOf
<1>5. \A p \in Products : CartOf(r)[p] <= stock[p]
  BY <1>1, <1>2, <1>3
<1> QED
  BY <1>1, <1>2, <1>3, <1>4, <1>5 DEF CommitRows

\* The units of one order are as many as its cart says.
LEMMA OrdersUnits ==
    ASSUME NEW k, NEW n \in Nat
    PROVE  IsFiniteSet({k} \X (1 .. n)) /\ Cardinality({k} \X (1 .. n)) = n
<1> DEFINE S == 1 .. n  T == {k} \X S  f == [i \in S |-> <<k, i>>]
<1>1. f \in [S -> T]
  OBVIOUS
<1>2. \A i, j \in S : f[i] = f[j] => i = j
  OBVIOUS
<1>3. \A u \in T : \E i \in S : f[i] = u
  OBVIOUS
<1>4. IsFiniteSet(S) /\ Cardinality(S) = n
  BY FS_Interval
<1> HIDE DEF f, S, T
<1>5. f \in Injection(S, T)
  BY <1>1, <1>2 DEF Injection, IsInjective
<1>6. f \in Surjection(S, T)
  BY <1>1, <1>3 DEF Surjection
<1>7. ExistsBijection(S, T)
  BY <1>5, <1>6 DEF ExistsBijection, Bijection
<1>8. IsFiniteSet(T) /\ Cardinality(T) = n
  BY <1>4, <1>7, FS_Bijection
<1> QED
  BY <1>8 DEF S, T

\* An order that commits adds its own units to those sold.
LEMMA CommitSells ==
    ASSUME TypeInv, NEW r \in Requests, ~HasOrder(KeyOf(r)), CommitRows(r), NEW p \in Products,
           CartOf(r)[p] \in Nat, IsFiniteSet(UnitsSold(p))
    PROVE  /\ IsFiniteSet(UnitsSold(p)')
           /\ Cardinality(UnitsSold(p)') = Cardinality(UnitsSold(p)) + CartOf(r)[p]
<1> DEFINE k == KeyOf(r)  n == CartOf(r)[p]  new == {k} \X (1 .. n)
<1>1. orders \in [Keys -> Orders \cup {NoOrder}] /\ k \in Keys
  BY DEF TypeInv, TypeOK, Commands, KeyOf
<1>2. /\ orders'[k].cart[p] = n /\ orders'[k] # NoOrder
      /\ \A j \in Keys \ {k} : orders'[j] = orders[j]
  <2>1. PICK row : row = [cart |-> CartOf(r), total |-> Total(CartOf(r), price), by |-> r]
    OBVIOUS
  <2>2. orders' = [orders EXCEPT ![k] = row]
    BY <2>1 DEF CommitRows
  <2>3. row \in Orders
    BY <2>1, CheckoutFacts DEF TypeInv, TypeOK, Commands, CartOf, Orders
  <2>4. row # NoOrder
    BY <2>3, CheckoutFacts DEF Orders
  <2> QED
    BY <1>1, <2>1, <2>2, <2>4
<1>3. orders[k] = NoOrder
  BY DEF HasOrder
<1>4. \A u : u \in UnitsSold(p) <=> \E j \in Keys : orders[j] # NoOrder /\ u \in {j} \X (1 .. orders[j].cart[p])
  BY DEF UnitsSold, HasOrder
<1>5. \A u : u \in UnitsSold(p)' <=> \E j \in Keys : orders'[j] # NoOrder /\ u \in {j} \X (1 .. orders'[j].cart[p])
  BY DEF UnitsSold, HasOrder
<1>6. UnitsSold(p)' = UnitsSold(p) \cup new
  <2>1. \A u : u \in UnitsSold(p)' => u \in UnitsSold(p) \cup new
    BY <1>2, <1>4, <1>5
  <2>2. \A u : u \in new => u \in UnitsSold(p)'
    BY <1>1, <1>2, <1>5
  <2>3. \A u : u \in UnitsSold(p) => u \in UnitsSold(p)'
    BY <1>2, <1>3, <1>4, <1>5
  <2> QED
    BY <2>1, <2>2, <2>3
<1>7. UnitsSold(p) \cap new = {}
  BY <1>3, <1>4
<1>8. IsFiniteSet(new) /\ Cardinality(new) = n
  BY OrdersUnits
<1> HIDE DEF new
<1>9. /\ IsFiniteSet(UnitsSold(p) \cup new)
      /\ Cardinality(UnitsSold(p) \cup new) =
            Cardinality(UnitsSold(p)) + Cardinality(new) - Cardinality(UnitsSold(p) \cap new)
  BY <1>8, FS_Union
<1>10. Cardinality(UnitsSold(p) \cap new) = 0 /\ Cardinality(UnitsSold(p)) \in Nat
  BY <1>7, FS_EmptySet, FS_CardinalityType
<1> QED
  BY <1>6, <1>8, <1>9, <1>10

StockInv == StockAccounted /\ \A p \in Products : IsFiniteSet(UnitsSold(p))

LEMMA InitStockInv == Init => StockInv
<1> SUFFICES ASSUME Init PROVE StockInv
  OBVIOUS
<1>1. \A p : UnitsSold(p) = {}
  BY DEF Init, UnitsSold, HasOrder
<1>2. \A p : IsFiniteSet(UnitsSold(p)) /\ Cardinality(UnitsSold(p)) = 0
  BY <1>1, FS_EmptySet
<1> QED
  BY <1>2, CheckoutFacts DEF Init, StockInv, StockAccounted

\* Only a commit touches the stock or the orders.
LEMMA OnlyCommitSells ==
    ASSUME [Next]_vars
    PROVE  \/ UNCHANGED <<stock, orders>>
           \/ \E r \in Requests : pc[r] = "saved" /\ CommitRows(r)
BY DEF Next, Proceed, Fault, Submit, Lookup, PriceForCharge, RejectStock, Charge, ChargeAnswered,
       ChargeInFlight, ChargeReplayed, VerifyReplay, AwaitInFlightOrder, LockLine, StockGone,
       PriceMoved, Save, InsertLoses, Commit, FindWinner, Refund, Finish, RejectCaller,
       NoSavedCard, StripeUnreachable, SaveFails, CommitUnacknowledged, PersistFails, WinnerLookupFails,
       RefundFails, Crash, StripeSettles, StripePaysLate, GraceEnds, Deliver, HookRefund,
       HookRefundFails, Reprice, vars, dbVars

LEMMA NextStockInv == IInv /\ StockInv /\ [Next]_vars => StockInv'
<1> SUFFICES ASSUME IInv, StockInv, [Next]_vars PROVE StockInv'
  OBVIOUS
<1>1. CASE UNCHANGED <<stock, orders>>
  <2>1. \A p : UnitsSold(p)' = UnitsSold(p)
    BY <1>1 DEF UnitsSold, HasOrder
  <2> QED
    BY <1>1, <2>1 DEF StockInv, StockAccounted
<1>2. ASSUME NEW r \in Requests, pc[r] = "saved", CommitRows(r) PROVE StockInv'
  <2>1. TypeInv /\ ~HasOrder(KeyOf(r)) /\ stock \in [Products -> Nat]
    BY <1>2 DEF IInv, ChargeInv, TypeInv, TypeOK
  <2>2. /\ \A p \in Products : CartOf(r)[p] \in Nat /\ CartOf(r)[p] <= stock[p]
        /\ stock' = [p \in Products |-> stock[p] - CartOf(r)[p]]
    BY <1>2, <2>1, CommitDecrements
  <2> SUFFICES ASSUME NEW p \in Products
               PROVE  /\ InitStock[p] = stock'[p] + Cardinality(UnitsSold(p)')
                      /\ IsFiniteSet(UnitsSold(p)')
    BY DEF StockInv, StockAccounted
  <2>3. InitStock[p] = stock[p] + Cardinality(UnitsSold(p)) /\ IsFiniteSet(UnitsSold(p))
    BY DEF StockInv, StockAccounted
  <2>4. /\ IsFiniteSet(UnitsSold(p)')
        /\ Cardinality(UnitsSold(p)') = Cardinality(UnitsSold(p)) + CartOf(r)[p]
    BY <1>2, <2>1, <2>2, <2>3, CommitSells
  <2>5. Cardinality(UnitsSold(p)) \in Nat
    BY <2>3, FS_CardinalityType
  <2> QED
    BY <2>1, <2>2, <2>3, <2>4, <2>5
<1> QED
  BY <1>1, <1>2, OnlyCommitSells

\* However many checkouts compete for the last units, what left the stock is what the
\* committed orders hold: StockAccounted.
THEOREM StockIsAccounted == Spec => []StockAccounted
<1>1. Init => IInv /\ StockInv
  BY InitTypeInv, InitChargeInv, InitContentionInv, InitStockInv DEF IInv
<1>2. (IInv /\ StockInv) /\ [Next]_vars => (IInv /\ StockInv)'
  BY NextTypeInv, NextChargeInv, NextContentionInv, NextStockInv DEF IInv
<1>3. StockInv => StockAccounted
  BY DEF StockInv
<1> QED
  BY <1>1, <1>2, <1>3, PTL DEF Spec

-----------------------------------------------------------------------------
\* The checkout implements the atomic purchase: a commit is the purchase, an
\* answer is the reply, a repricing is itself, and every other step stutters.
LEMMA InitRefines == Init => Ideal!Init
  BY DEF Init, Ideal!Init, ReplyTo, Answers

\* Moving one request to another label is invisible to its caller, or is its
\* reply, and a truthful one.
LEMMA MoveRefines ==
    ASSUME TypeOK, AnswerMatchesOrder', NEW r \in Requests, NEW label,
           pc[r] \notin Answers, Goto(r, label), UNCHANGED <<stock, price, orders, cmd>>
    PROVE  [Ideal!Next]_Ideal!vars
<1> DEFINE replies == [o \in Requests |-> ReplyTo(o)]
<1>1. pc' = [pc EXCEPT ![r] = label] /\ pc \in [Requests -> Working \cup Answers \cup {"idle"}]
  BY DEF Goto, TypeOK
<1>2. CASE label \notin Answers
  <2>1. replies' = replies
    BY <1>1, <1>2 DEF ReplyTo, Answers
  <2> QED
    BY <2>1 DEF Ideal!vars
<1>3. CASE label \in Answers
  <2> DEFINE answer == IF label \in {"created", "replayed"} THEN label ELSE "error"
  <2>1. replies[r] = "none"
    BY <1>1 DEF ReplyTo, Answers
  <2>2. replies' = [replies EXCEPT ![r] = answer]
    BY <1>1, <1>3 DEF ReplyTo, Answers
  <2>3. Ideal!Truthful(r, answer)
    BY <1>1 DEF AnswerMatchesOrder, HasOrder, KeyOf, CartOf, Ideal!Truthful
  <2>4. answer \in {"created", "replayed", "error"}
    OBVIOUS
  <2> HIDE DEF answer
  <2>5. Ideal!Reply(r)
    BY <2>1, <2>2, <2>3, <2>4 DEF Ideal!Reply
  <2> QED
    BY <2>5 DEF Ideal!Next
<1> QED
  BY <1>2, <1>3

\* Committing is the purchase, at the prices the guard compared.
LEMMA CommitRefines ==
    ASSUME TypeInv, NEW r \in Requests, pc[r] = "saved", ~HasOrder(KeyOf(r)),
           CommitRows(r), NEW label, label \notin Answers, Leave(r, label), UNCHANGED <<price, cmd>>
    PROVE  Ideal!Buy(r)
<1>1. /\ \A p \in Products : CartOf(r)[p] <= stock[p]
      /\ stock' = [p \in Products |-> stock[p] - CartOf(r)[p]]
  BY CommitDecrements
<1>2. UNCHANGED [o \in Requests |-> ReplyTo(o)]
  BY DEF Leave, Goto, ReplyTo, Answers, TypeInv, TypeOK
<1>3. ReplyTo(r) = "none"
  BY DEF ReplyTo, Answers
<1> QED
  BY <1>1, <1>2, <1>3
  DEF CommitRows, CartOf, KeyOf, HasOrder, Ideal!Buy

\* One step of the code is one step, or none, of the ideal.
LEMMA NextRefines == IInv /\ IInv' /\ [Next]_vars => [Ideal!Next]_Ideal!vars
<1> USE DEF Leave, dbVars, intentVars, stripeVars, sideVars, txVars, reqVars, histVars
<1> SUFFICES ASSUME IInv, IInv', [Next]_vars PROVE [Ideal!Next]_Ideal!vars
  OBVIOUS
<1>0. TypeInv /\ TypeOK /\ ChargeInv /\ AnswerMatchesOrder'
  BY DEF IInv, TypeInv, ChargeInv
<1>1. ASSUME NEW r \in Requests, Submit(r) PROVE [Ideal!Next]_Ideal!vars
  BY <1>0, <1>1, MoveRefines DEF Submit, Answers
<1>2. ASSUME NEW r \in Requests, Lookup(r) PROVE [Ideal!Next]_Ideal!vars
  BY <1>0, <1>2, MoveRefines DEF Lookup, Answers
<1>3. ASSUME NEW r \in Requests, PriceForCharge(r) PROVE [Ideal!Next]_Ideal!vars
  BY <1>0, <1>3, MoveRefines DEF PriceForCharge, Answers
<1>4. ASSUME NEW r \in Requests, RejectStock(r) PROVE [Ideal!Next]_Ideal!vars
  BY <1>0, <1>4, MoveRefines DEF RejectStock, Answers
<1>5. ASSUME NEW r \in Requests, RejectCaller(r) PROVE [Ideal!Next]_Ideal!vars
  BY <1>0, <1>5, MoveRefines DEF RejectCaller, Answers
<1>36. ASSUME NEW r \in Requests, NoSavedCard(r) PROVE [Ideal!Next]_Ideal!vars
  BY <1>0, <1>36, MoveRefines DEF NoSavedCard, Answers
<1>6. ASSUME NEW r \in Requests, Charge(r) PROVE [Ideal!Next]_Ideal!vars
  BY <1>0, <1>6, MoveRefines DEF Charge, Answers
<1>7. ASSUME NEW r \in Requests, ChargeAnswered(r) PROVE [Ideal!Next]_Ideal!vars
  BY <1>0, <1>7, MoveRefines DEF ChargeAnswered, Answers
<1>8. ASSUME NEW r \in Requests, ChargeInFlight(r) PROVE [Ideal!Next]_Ideal!vars
  BY <1>0, <1>8, MoveRefines DEF ChargeInFlight, Answers
<1>9. ASSUME NEW r \in Requests, ChargeReplayed(r) PROVE [Ideal!Next]_Ideal!vars
  BY <1>0, <1>9, MoveRefines DEF ChargeReplayed, Answers
<1>10. ASSUME NEW r \in Requests, VerifyReplay(r) PROVE [Ideal!Next]_Ideal!vars
  BY <1>0, <1>10, MoveRefines DEF VerifyReplay, Answers
<1>11. ASSUME NEW r \in Requests, AwaitInFlightOrder(r) PROVE [Ideal!Next]_Ideal!vars
  BY <1>0, <1>11, MoveRefines DEF AwaitInFlightOrder, Answers
<1>12. ASSUME NEW r \in Requests, StripeUnreachable(r) PROVE [Ideal!Next]_Ideal!vars
  BY <1>0, <1>12, MoveRefines DEF StripeUnreachable, Answers
<1>13. ASSUME NEW r \in Requests, StockGone(r) PROVE [Ideal!Next]_Ideal!vars
  BY <1>0, <1>13, MoveRefines DEF StockGone, Answers
<1>14. ASSUME NEW r \in Requests, PriceMoved(r) PROVE [Ideal!Next]_Ideal!vars
  BY <1>0, <1>14, MoveRefines DEF PriceMoved, Answers, AllLocked
<1>15. ASSUME NEW r \in Requests, Save(r) PROVE [Ideal!Next]_Ideal!vars
  BY <1>0, <1>15, MoveRefines DEF Save, Answers, AllLocked
<1>16. ASSUME NEW r \in Requests, InsertLoses(r) PROVE [Ideal!Next]_Ideal!vars
  BY <1>0, <1>16, MoveRefines DEF InsertLoses, Answers, AllLocked
<1>17. ASSUME NEW r \in Requests, SaveFails(r) PROVE [Ideal!Next]_Ideal!vars
  BY <1>0, <1>17, MoveRefines DEF SaveFails, Answers, AllLocked
<1>18. ASSUME NEW r \in Requests, PersistFails(r) PROVE [Ideal!Next]_Ideal!vars
  BY <1>0, <1>18, MoveRefines DEF PersistFails, Answers
<1>19. ASSUME NEW r \in Requests, FindWinner(r) PROVE [Ideal!Next]_Ideal!vars
  BY <1>0, <1>19, MoveRefines DEF FindWinner, Answers
<1>20. ASSUME NEW r \in Requests, WinnerLookupFails(r) PROVE [Ideal!Next]_Ideal!vars
  BY <1>0, <1>20, MoveRefines DEF WinnerLookupFails, Answers
<1>21. ASSUME NEW r \in Requests, Refund(r) PROVE [Ideal!Next]_Ideal!vars
  BY <1>0, <1>21, MoveRefines DEF Refund, Answers
<1>22. ASSUME NEW r \in Requests, RefundFails(r) PROVE [Ideal!Next]_Ideal!vars
  BY <1>0, <1>22, MoveRefines DEF RefundFails, Answers
<1>23. ASSUME NEW r \in Requests, Finish(r) PROVE [Ideal!Next]_Ideal!vars
  BY <1>0, <1>23, MoveRefines DEF Finish, Answers
<1>24. ASSUME NEW r \in Requests, Crash(r) PROVE [Ideal!Next]_Ideal!vars
  BY <1>0, <1>24, MoveRefines DEF Crash, Answers, Live, Working
<1>25. ASSUME NEW r \in Requests, LockLine(r) PROVE [Ideal!Next]_Ideal!vars
  BY <1>25 DEF LockLine, ReplyTo, Ideal!vars
<1>26. ASSUME NEW r \in Requests, Commit(r) PROVE [Ideal!Next]_Ideal!vars
  <2>1. ~HasOrder(KeyOf(r))
    BY <1>0, <1>26 DEF Commit, ChargeInv
  <2>2. Ideal!Buy(r)
    BY <1>0, <1>26, <2>1, CommitRefines DEF Commit, Answers
  <2> QED
    BY <2>2 DEF Ideal!Next
<1>27. ASSUME NEW r \in Requests, CommitUnacknowledged(r) PROVE [Ideal!Next]_Ideal!vars
  <2>1. ~HasOrder(KeyOf(r))
    BY <1>0, <1>27 DEF CommitUnacknowledged, ChargeInv
  <2>2. Ideal!Buy(r)
    BY <1>0, <1>27, <2>1, CommitRefines DEF CommitUnacknowledged, Answers
  <2> QED
    BY <2>2 DEF Ideal!Next
<1>28. ASSUME NEW k \in Keys, NEW outcome \in {"succeeded", "declined", "processing"},
            StripeSettles(k, outcome) PROVE [Ideal!Next]_Ideal!vars
  BY <1>28 DEF StripeSettles, ReplyTo, Ideal!vars
<1>29. ASSUME NEW k \in Keys, StripePaysLate(k) PROVE [Ideal!Next]_Ideal!vars
  BY <1>29 DEF StripePaysLate, ReplyTo, Ideal!vars
<1>30. ASSUME NEW k \in Keys, GraceEnds(k) PROVE [Ideal!Next]_Ideal!vars
  BY <1>30 DEF GraceEnds, ReplyTo, Ideal!vars
<1>31. ASSUME NEW k \in Keys, Deliver(k) PROVE [Ideal!Next]_Ideal!vars
  BY <1>31 DEF Deliver, ReplyTo, Ideal!vars
<1>32. ASSUME NEW k \in Keys, HookRefund(k) PROVE [Ideal!Next]_Ideal!vars
  BY <1>32 DEF HookRefund, ReplyTo, Ideal!vars
<1>33. ASSUME NEW k \in Keys, HookRefundFails(k) PROVE [Ideal!Next]_Ideal!vars
  BY <1>33 DEF HookRefundFails, ReplyTo, Ideal!vars
<1>34. ASSUME NEW p \in Products, NEW c \in Prices, Reprice(p, c) PROVE [Ideal!Next]_Ideal!vars
  BY <1>34 DEF Reprice, ReplyTo, Ideal!Reprice, Ideal!Next
<1>35. ASSUME UNCHANGED vars PROVE [Ideal!Next]_Ideal!vars
  BY <1>35 DEF vars, ReplyTo, Ideal!vars
<1> QED
  BY <1>1, <1>2, <1>3, <1>4, <1>5, <1>6, <1>7, <1>8, <1>9, <1>10, <1>11,
     <1>12, <1>13, <1>14, <1>15, <1>16, <1>17, <1>18, <1>19, <1>20, <1>21,
     <1>22, <1>23, <1>24, <1>25, <1>26, <1>27, <1>28, <1>29, <1>30, <1>31,
     <1>32, <1>33, <1>34, <1>35, <1>36 DEF Next, Proceed, Fault

\* To its callers a checkout is one atomic purchase per key, whatever the
\* interleaving, the crash or the lost answer.
THEOREM CheckoutRefinesIdeal == Spec => ImplementsIdealCheckout
<1> QED
  BY InitRefines, NextRefines, SpecIInv, PTL DEF Spec, ImplementsIdealCheckout, Ideal!Spec
=============================================================================
