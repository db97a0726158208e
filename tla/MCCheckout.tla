----------------------------- MODULE MCCheckout -----------------------------
(***************************************************************************)
(* Small instances of Checkout for TLC.                                    *)
(***************************************************************************)
EXTENDS Checkout, TLC

\* One unit of product 1, and one unit of each.
One == 1 :> 1 @@ 2 :> 0
Both == 1 :> 1 @@ 2 :> 1
MCCarts1 == {One}
MCCarts2 == {One, Both}
MCStock == 1 :> 1 @@ 2 :> 1
MCStock2 == 1 :> 2 @@ 2 :> 1

\* One product, of which a purchase takes one unit or two.
MCCarts3 == {1 :> 1, 1 :> 2}
MCStock3 == 1 :> 3

Sym == Permutations(Requests)
=============================================================================
