------------------------------ MODULE MCWebShop ------------------------------
\* The pages a buyer shops with.  Each keeps its own state and calls the services
\* itself, so one run explores each of them on its own.
EXTENDS CartStore, AddressForm, CardEntry, ProfileForm, CardForm, OrderPages, TLC

VARIABLE focus

MCLookup == [t \in {"a", "b"} |->
    IF t = "a" THEN {[street |-> "a", line2 |-> "", place |-> "in a", country |-> "of a"]} ELSE {}]

MCTrimmed == [v \in Values |-> IF v = "b " THEN "b" ELSE v]

\* Discover, American Express and a brand the form does not know, all of real shape.
MCNumbers == {<<6, 0, 1, 1, 0, 0, 0, 9, 9, 0, 1, 3, 9, 4, 2, 4>>, <<3, 7, 8, 2, 8, 2, 2, 4, 6, 3, 1, 0, 0, 0, 5>>,
              <<6, 2, 0, 0, 0, 0, 0, 0, 0, 0, 0, 0, 0, 0, 0, 5>>}

\* Nothing, half of it, a month that is none, the month the page opens in, and the next.
MCExpiries == {[mm |-> Half, yy |-> Half], [mm |-> 12, yy |-> Half], [mm |-> 13, yy |-> 30],
               [mm |-> 12, yy |-> 29], [mm |-> 1, yy |-> 30]}

Alike == Permutations(Products)

Init ==
    /\ CartInit /\ AddressInit /\ CardInit /\ ProfileInit /\ CardFormInit /\ OrderPagesInit
    /\ focus \in {"cart", "address", "cards", "profile", "plain card", "orders"}
    /\ focus # "address" => kind = "profile" /\ address = NoAddress
    /\ focus # "cards" => surface = "profile" /\ onFile = {}
    /\ focus # "profile" => stored = "" /\ user = ""

Next ==
    \/ focus = "cart" /\ CartNext
       /\ UNCHANGED <<focus, addressVars, cardVars, profileVars, cardFormVars, orderPagesVars>>
    \/ focus = "address" /\ AddressNext
       /\ UNCHANGED <<focus, cartVars, cardVars, profileVars, cardFormVars, orderPagesVars>>
    \/ focus = "cards" /\ CardNext
       /\ UNCHANGED <<focus, cartVars, addressVars, profileVars, cardFormVars, orderPagesVars>>
    \/ focus = "profile" /\ ProfileNext
       /\ UNCHANGED <<focus, cartVars, addressVars, cardVars, cardFormVars, orderPagesVars>>
    \/ focus = "plain card" /\ CardFormNext
       /\ UNCHANGED <<focus, cartVars, addressVars, cardVars, profileVars, orderPagesVars>>
    \/ focus = "orders" /\ OrderPagesNext
       /\ UNCHANGED <<focus, cartVars, addressVars, cardVars, profileVars, cardFormVars>>

Spec == Init /\ [][Next]_<<focus, cartVars, addressVars, cardVars, profileVars, cardFormVars, orderPagesVars>>
=============================================================================
