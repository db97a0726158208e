------------------------------ MODULE CardForm ------------------------------
(***************************************************************************)
(* The plain card form of the checkout, which is its only card while       *)
(* Stripe is off: what may be typed, what the validators accept, the four  *)
(* facts of it that leave the browser, and Orders' own check of them.      *)
(*                                                                         *)
(* A number is its sequence of digits.  A month is counted from year 0, by *)
(* the buyer's clock and by Orders', which is in UTC: the two turn apart.  *)
(* A code and a name are what their checks read of them.                   *)
(***************************************************************************)
EXTENDS Sums, Sequences
Seqs == INSTANCE SequencesExt

CONSTANTS Numbers,   \* the cards buyers hold
          Expiries,  \* [mm, yy] as typed; Half for a part that is missing
          Half,      \* above every two digits
          FirstMonth,  \* the month the page opens in
          NoBrand, NoMetadata,
          MaxEdits  \* bound: edits of the number

ASSUME CardFormAssumption ==
    /\ Half \in Nat \ 0 .. 99 /\ [mm |-> Half, yy |-> Half] \in Expiries
    /\ Expiries \subseteq [mm : 0 .. 99 \cup {Half}, yy : 0 .. 99 \cup {Half}]
    /\ FirstMonth \in Nat

VARIABLES
    number, expiry, code, named,  \* cardModel; of the code its length, of the name that it is not blank
    expiryFits, checkedIn,        \* the expiry's validator, which runs when the expiry changes; its month
    month, ordersMonth,
    posted,                       \* the metadata under way, or answered
    answer,                       \* "none", "placed", "refused"
    edits,                        \* counter of the bound
    paidOn                        \* history: the month the posted expiry was checked in

cardFormVars == <<number, expiry, code, named, expiryFits, checkedIn, month, ordersMonth, posted, answer,
                  edits, paidOn>>

-----------------------------------------------------------------------------
(* card-validation.ts. *)

Value(digits) == Seqs!FoldLeft(LAMBDA v, d : 10 * v + d, 0, digits)
Prefix(n, k) == IF Len(n) < k THEN 0 ELSE Value(SubSeq(n, 1, k))

DetectCardBrand(n) ==
    IF Prefix(n, 1) = 4 THEN "visa"
    ELSE IF \/ Prefix(n, 2) \in 51 .. 55
            \/ Prefix(n, 3) \in 222 .. 271 \/ Prefix(n, 4) = 2720 THEN "mastercard"
    ELSE IF Prefix(n, 2) \in {34, 37} THEN "amex"
    ELSE IF Prefix(n, 4) = 6011 \/ Prefix(n, 2) = 65 \/ Prefix(n, 3) \in 644 .. 649 THEN "discover"
    ELSE IF \/ Prefix(n, 3) \in 300 .. 305 \/ Prefix(n, 4) = 3095
            \/ Prefix(n, 2) \in {36, 38, 39} THEN "diners"
    ELSE IF Prefix(n, 4) \in 3528 .. 3589 THEN "jcb"
    ELSE "unknown"

LengthsByBrand ==
    [visa |-> {13, 16, 19}, mastercard |-> {16}, amex |-> {15}, discover |-> {16, 19},
     diners |-> {14, 16, 19}, jcb |-> 16 .. 19, unknown |-> 12 .. 19]

\* Every second digit from the right counts double, less nine when that is above nine.
Weight(n, i) == LET d == IF (Len(n) - i) % 2 = 1 THEN 2 * n[i] ELSE n[i] IN IF d > 9 THEN d - 9 ELSE d
PassesLuhn(n) == SumOf([i \in 1 .. Len(n) |-> Weight(n, i)]) % 10 = 0

\* A card's number ends in the digit that makes its checksum right.
ASSUME NumbersAssumption == \A n \in Numbers : n \in Seq(0 .. 9) /\ Len(n) >= 8 /\ PassesLuhn(n)

IsValidCardNumber(n) == n # <<>> /\ Len(n) \in LengthsByBrand[DetectCardBrand(n)] /\ PassesLuhn(n)

RequiredCvcLength(brand) == IF brand = "amex" THEN 4 ELSE 3

\* A card is good until its month ends.
IsCardExpired(at, now) == now > at

\* splitExpiry: the month and the year of "MM / YY", the year in this century.
MonthOf(e) == 12 * (2000 + e.yy) + e.mm
IsValidExpiry(e, now) == /\ Half \notin {e.mm, e.yy} /\ e.mm \in 1 .. 12
                         /\ ~IsCardExpired(MonthOf(e), now)

\* CardMetadataValidator.IsValid, which Orders asks of a card it is sent.
OrdersAccepts(card, now) ==
    /\ card.brand # NoBrand /\ Len(card.last4) = 4
    /\ Half \notin {card.expiry.mm, card.expiry.yy} /\ card.expiry.mm \in 1 .. 12
    /\ MonthOf(card.expiry) >= now

-----------------------------------------------------------------------------
\* groupCardDigits: what the groups of the brand have no room for is dropped.
Grouped(n) == LET room == IF DetectCardBrand(n) = "amex" THEN 15 ELSE 19
              IN SubSeq(n, 1, IF Len(n) < room THEN Len(n) ELSE room)

\* What the field holds: nothing, half a number, or a card's.
Typeable == {<<>>} \cup UNION {{SubSeq(n, 1, 8), Grouped(n)} : n \in Numbers}
NumberFits == [n \in Typeable |-> IsValidCardNumber(n)]

CardFormTypeOK ==
    /\ number \in Typeable /\ expiry \in Expiries /\ code \in 0 .. 4
    /\ {named, expiryFits} \subseteq BOOLEAN /\ answer \in {"none", "placed", "refused"}

CardFormInit ==
    /\ number = <<>> /\ expiry = [mm |-> Half, yy |-> Half] /\ code = 0 /\ named = FALSE
    /\ expiryFits = FALSE /\ checkedIn = FirstMonth /\ month = FirstMonth /\ ordersMonth = FirstMonth
    /\ posted = NoMetadata /\ answer = "none" /\ edits = 0 /\ paidOn = FirstMonth

\* The first of the month comes where the buyer is, or where Orders is, first.
MonthTurns ==
    /\ \/ month = FirstMonth /\ month' = FirstMonth + 1 /\ UNCHANGED ordersMonth
       \/ ordersMonth = FirstMonth /\ ordersMonth' = FirstMonth + 1 /\ UNCHANGED month
    /\ UNCHANGED <<number, expiry, code, named, expiryFits, checkedIn, posted, answer, edits, paidOn>>

OnCardNumberInput(n) ==
    /\ edits < MaxEdits /\ edits' = edits + 1 /\ number' = Grouped(n)
    /\ UNCHANGED <<expiry, code, named, expiryFits, checkedIn, month, ordersMonth, posted, answer, paidOn>>

\* The same expiry typed again is no change: its validator does not run.
OnCardExpiryInput(e) ==
    /\ e # expiry /\ expiry' = e /\ expiryFits' = IsValidExpiry(e, month) /\ checkedIn' = month
    /\ UNCHANGED <<number, code, named, month, ordersMonth, posted, answer, edits, paidOn>>

OnCardCvcInput(length) ==
    /\ code' = length
    /\ UNCHANGED <<number, expiry, named, expiryFits, checkedIn, month, ordersMonth, posted, answer, edits, paidOn>>

OnCardHolderInput ==
    /\ named' = ~named
    /\ UNCHANGED <<number, expiry, code, expiryFits, checkedIn, month, ordersMonth, posted, answer, edits, paidOn>>

\* cardForm().valid(): the code is checked against the brand the number now has.
FormValid ==
    /\ named /\ NumberFits[number] /\ expiryFits
    /\ code = RequiredCvcLength(DetectCardBrand(number))

\* Mutant: the expiry is parsed a second time, by a rule that knows no two-digit year.
YearLost == [brand |-> DetectCardBrand(number), last4 |-> SubSeq(number, Len(number) - 3, Len(number)),
             expiry |-> [expiry EXCEPT !.yy = Half]]
CardMetadata ==
    LET brand == DetectCardBrand(number) IN
    [brand |-> IF brand = "unknown" THEN NoBrand ELSE brand,
     last4 |-> SubSeq(number, Len(number) - 3, Len(number)), expiry |-> expiry]

\* pay(): the card may be edited while the order is under way.
PayByCard ==
    /\ FormValid /\ answer # "placed" /\ (posted = NoMetadata \/ answer = "refused")
    /\ posted' = CardMetadata /\ answer' = "none" /\ paidOn' = checkedIn
    /\ UNCHANGED <<number, expiry, code, named, expiryFits, checkedIn, month, ordersMonth, edits>>

OrdersAnswers ==
    /\ posted # NoMetadata /\ answer = "none"
    /\ answer' = IF OrdersAccepts(posted, ordersMonth) THEN "placed" ELSE "refused"
    /\ UNCHANGED <<number, expiry, code, named, expiryFits, checkedIn, month, ordersMonth, posted, edits, paidOn>>

CardFormNext ==
    \/ MonthTurns
    \/ \E n \in Typeable : OnCardNumberInput(n)
    \/ \E e \in Expiries : OnCardExpiryInput(e)
    \/ \E length \in {0, 3, 4} : OnCardCvcInput(length)
    \/ OnCardHolderInput \/ PayByCard \/ OrdersAnswers

CardFormSpec == CardFormInit /\ [][CardFormNext]_cardFormVars

-----------------------------------------------------------------------------
\* One digit mistyped, or two neighbours swapped; but the checksum cannot tell 09
\* from 90.
Mistyped(n) == {[n EXCEPT ![i] = d] : i \in 1 .. Len(n), d \in 0 .. 9} \ {n}
Swapped(n) == {[n EXCEPT ![i] = n[i + 1], ![i + 1] = n[i]] :
                   i \in {j \in 1 .. Len(n) - 1 : n[j] # n[j + 1] /\ {n[j], n[j + 1]} # {0, 9}}}

\* "Length alone passes a transposed digit" (card-validation.ts): no such slip in a
\* card's number is accepted, at whatever brand it makes of it.
TyposCaught == \A n \in Numbers : \A m \in Mistyped(n) \cup Swapped(n) : ~IsValidCardNumber(m)

\* The form and Orders check the same card by the same rules: Orders refuses one the
\* form let through only for a brand the form does not know, or when the month
\* turned, on either clock, since the expiry was checked.
RefusedForCause ==
    answer = "refused" => posted.brand = NoBrand \/ ordersMonth > paidOn

\* The form lets through only cards, and Orders takes what it lets through.
CardFormHonest == CardFormTypeOK /\ TyposCaught /\ RefusedForCause

\* "A valid card from an unlisted issuer must still be payable" (card-validation.ts).
UnlistedPayable == answer = "refused" => posted.brand # NoBrand
=============================================================================
