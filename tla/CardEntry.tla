----------------------------- MODULE CardEntry -----------------------------
(***************************************************************************)
(* The two card lists of the web application, the checkout's selector and  *)
(* the profile's tab, with the Stripe form each opens to add a card.       *)
(*                                                                         *)
(* A call is a chain: a write to Users, then, if it was accepted, a new    *)
(* read of the list; the first one is the read of the page's opening.      *)
(* Chains overlap, and so does the block's own work, which outlives the     *)
(* form when that is closed over it.                                       *)
(*                                                                         *)
(* Left out: Stripe's widget, and the text of the errors.                  *)
(***************************************************************************)
EXTENDS Naturals

CONSTANTS Saved,   \* cards the buyer may have on file
          New,     \* cards the buyer may enter
          Expired, \* those past their month
          Chains,  \* ids of the calls
          NoCard

Cards == Saved \cup New

\* Users attaches no card that Stripe says is past its month.
ASSUME CardEntryAssumption == 1 \in Chains /\ NoCard \notin Cards /\ New \cap Expired = {}

VARIABLES surface,            \* "checkout" or "profile"
          onFile, default,    \* Users: the live cards and the default
          cards,               \* cards: what the last read carried
          loadingCards, cardsError, selected, adding,
          pendingCard,        \* the tab's pendingCardId
          chain,
          block,               \* the form on show: "none", "mounting", "ready", "unavailable"
          entry,              \* confirm() or submit() of each new card
          unsaved,            \* cards confirmed for this order only
          stale               \* history: the list may lag for a reason out of its hands

cardVars == <<surface, onFile, default, cards, loadingCards, cardsError, selected, adding,
              pendingCard, chain, block, entry, unsaved, stale>>

View == [ids |-> onFile, default |-> default]
NoList == [ids |-> {}, default |-> NoCard]
NoChain == [op |-> "list", card |-> NoCard, at |-> "unused", select |-> NoCard, read |-> NoList]
NoEntry == [at |-> "none", own |-> FALSE, required |-> FALSE]

NoSavedCards == cards.ids = {}
ShowForm == adding \/ (~loadingCards /\ NoSavedCards)

Out(c) == chain[c].at \in {"sent", "served"}
Free(c) == chain[c].at = "unused" /\ \A d \in Chains : d < c => chain[d].at # "unused"
Reading == {c \in Chains : Out(c) /\ chain[c].op = "list"}

\* What a step leaves of the form and of the work begun in it: a form that
\* disappears is destroyed, a new one mounts afresh.
Rendered(f, e) ==
    /\ block' = IF ~ShowForm' THEN "none" ELSE IF ~ShowForm THEN "mounting" ELSE f
    /\ entry' = [n \in New |-> IF e[n].own /\ ~ShowForm'
                               THEN [e[n] EXCEPT !.own = FALSE, !.required = NoSavedCards] ELSE e[n]]

CardInit ==
    /\ surface \in {"checkout", "profile"}
    /\ \/ onFile = {} /\ default = NoCard
       \/ onFile = Saved /\ default \in Saved
    /\ cards = NoList
    /\ loadingCards = TRUE /\ cardsError = FALSE /\ selected = NoCard /\ adding = FALSE
    /\ pendingCard = NoCard
    /\ chain = [c \in Chains |-> IF c = 1 THEN [NoChain EXCEPT !.at = "sent"] ELSE NoChain]
    /\ block = "none" /\ entry = [n \in New |-> NoEntry]
    /\ unsaved = {} /\ stale = FALSE

-----------------------------------------------------------------------------
(***************************************************************************)
(* The list.                                                               *)
(***************************************************************************)

\* The tab refuses a second write while one is out; the selector does not.
Mutate(c, op, card) ==
    /\ Free(c) /\ ~ShowForm /\ card \in cards.ids
    /\ op = "setDefault" => card # cards.default /\ card \notin Expired
    /\ surface = "profile" => pendingCard = NoCard
    /\ pendingCard' = IF surface = "profile" THEN card ELSE NoCard
    /\ chain' = [chain EXCEPT ![c] = [NoChain EXCEPT !.op = op, !.card = card, !.at = "sent"]]
    /\ cardsError' = FALSE
    /\ UNCHANGED <<surface, onFile, default, cards, loadingCards, selected, adding, block, entry, unsaved, stale>>

OnSetDefault(c, card) == Mutate(c, "setDefault", card)
OnRemove(c, card) == Mutate(c, "remove", card)

\* Users answers a call; 404, which the page hears as any failure, for a card it
\* no longer has.
UsersServes(c) ==
    /\ chain[c].at = "sent"
    /\ chain[c].op # "list" => chain[c].card \in onFile
    /\ onFile' = IF chain[c].op = "remove" THEN onFile \ {chain[c].card} ELSE onFile
    /\ default' = IF chain[c].op = "setDefault" THEN chain[c].card
                  ELSE IF default \in onFile' THEN default ELSE NoCard
    /\ chain' = [chain EXCEPT ![c].at = "served", ![c].read = View]
    /\ stale' = IF chain[c].op = "list" THEN Reading # {c} \/ chain[c].select \notin onFile \cup {NoCard}
                ELSE stale
    /\ UNCHANGED <<surface, cards, loadingCards, cardsError, selected, adding, pendingCard, block, entry, unsaved>>

Release(c) == pendingCard' = IF chain[c].op = "list" THEN pendingCard ELSE NoCard

\* The write was accepted: read the list again.
Reread(c) ==
    /\ chain[c].at = "served" /\ chain[c].op # "list"
    /\ chain' = [chain EXCEPT ![c].op = "list", ![c].at = "sent"]
    /\ loadingCards' = TRUE /\ cardsError' = FALSE /\ Release(c)
    /\ UNCHANGED <<surface, onFile, default, cards, selected, adding, unsaved, stale>>
    /\ Rendered(block, entry)

Live(ids) == ids \ Expired

\* Mutant: whatever was selected stays so.
StickySelection(read) ==
    IF selected # NoCard \/ Live(read.ids) = {} THEN {selected} ELSE Live(read.ids)
\* The buyer's pick while it is live, else the default, else any live card.
ResolveSelection(read) ==
    IF selected \in Live(read.ids) THEN {selected}
    ELSE IF read.default \in Live(read.ids) THEN {read.default}
    ELSE IF Live(read.ids) = {} THEN {NoCard} ELSE Live(read.ids)

\* The list is replaced by the answer; only the selector has a selection.
Listed(c) ==
    /\ chain[c].at = "served" /\ chain[c].op = "list"
    /\ chain' = [chain EXCEPT ![c] = [NoChain EXCEPT !.at = "done"]]
    /\ cards' = chain[c].read /\ loadingCards' = FALSE
    /\ selected' \in IF surface = "profile" THEN {NoCard}
                     ELSE IF chain[c].select # NoCard THEN {chain[c].select} ELSE ResolveSelection(chain[c].read)
    /\ UNCHANGED <<surface, onFile, default, cardsError, adding, pendingCard, unsaved, stale>>
    /\ Rendered(block, entry)

\* A call fails, its write taken or not.
Fails(c) ==
    /\ Out(c)
    /\ chain' = [chain EXCEPT ![c] = [NoChain EXCEPT !.at = "done"]]
    /\ cardsError' = TRUE /\ Release(c)
    /\ loadingCards' = IF chain[c].op = "list" THEN FALSE ELSE loadingCards
    /\ stale' = (stale \/ (chain[c].op # "list" /\ chain[c].at = "served"))
    /\ UNCHANGED <<surface, onFile, default, cards, selected, adding, unsaved>>
    /\ Rendered(block, entry)

Pick(card) ==
    /\ surface = "checkout" /\ ~ShowForm /\ card \in Live(cards.ids)
    /\ selected' = card
    /\ UNCHANGED <<surface, onFile, default, cards, loadingCards, cardsError, adding, pendingCard,
                   chain, block, entry, unsaved, stale>>

-----------------------------------------------------------------------------
(***************************************************************************)
(* The form.                                                               *)
(***************************************************************************)

\* Add card, and the block's Cancel.
Toggle(on) ==
    /\ ShowForm # on /\ adding' = on
    /\ UNCHANGED <<surface, onFile, default, cards, loadingCards, cardsError, selected, pendingCard,
                   chain, unsaved, stale>>
    /\ Rendered(block, entry)

OpenNewCard == Toggle(TRUE)
CloseNewCard == Toggle(FALSE)

\* Stripe.js loads and one SetupIntent is minted, or either fails for good.
Mount(outcome) ==
    /\ block = "mounting" /\ block' = outcome
    /\ UNCHANGED <<surface, onFile, default, cards, loadingCards, cardsError, selected, adding,
                   pendingCard, chain, entry, unsaved, stale>>

Mounted == Mount("ready")
MountFails == Mount("unavailable")

Step(n, at) == [entry EXCEPT ![n].at = at]
Ended(n) == [entry EXCEPT ![n] = [NoEntry EXCEPT !.at = "done"]]
Busy == \E n \in New : entry[n].own
FormOnly == UNCHANGED <<surface, cards, loadingCards, cardsError, selected, adding, pendingCard, chain,
                        block, unsaved>>

Confirm(n) ==
    /\ block = "ready" /\ ~Busy /\ entry[n].at = "none"
    /\ entry' = [entry EXCEPT ![n] = [NoEntry EXCEPT !.at = "confirming", !.own = TRUE]]
    /\ FormOnly /\ UNCHANGED <<onFile, default, stale>>

\* The box is locked while the buyer has no card on the list.
Required(n) == IF entry[n].own THEN NoSavedCards ELSE entry[n].required

\* What a confirmed card goes on to: attached always in the profile; at checkout
\* when the box is ticked or locked.
AfterConfirm(n) ==
    IF surface = "checkout" /\ ~Required(n) THEN {"attaching", "unsaved"} ELSE {"attaching"}

Confirmed(n) ==
    /\ entry[n].at = "confirming" /\ \E at \in AfterConfirm(n) : entry' = Step(n, at)
    /\ FormOnly /\ UNCHANGED <<onFile, default, stale>>

\* Users attaches the card, the default of a buyer who has no other.
Attach(n) ==
    /\ entry[n].at = "attaching"
    /\ onFile' = onFile \cup {n} /\ default' = IF onFile = {} THEN n ELSE default
    /\ \E at \in IF surface = "profile" /\ ~Required(n) THEN {"promoting", "emitting"} ELSE {"emitting"} :
         entry' = Step(n, at)
    /\ stale' = (stale \/ ~entry[n].own)
    /\ FormOnly

Promote(n) ==
    /\ entry[n].at = "promoting" /\ n \in onFile /\ default' = n
    /\ entry' = Step(n, "emitting") /\ stale' = (stale \/ ~entry[n].own)
    /\ FormOnly /\ UNCHANGED onFile

\* Stripe or Users fails, or Users' answer is lost: the form stays, with what
\* was done so far done, and nobody reads the list again.
EntryFails(n) ==
    /\ entry[n].at \in {"confirming", "attaching", "promoting", "emitting"}
    /\ entry' = Ended(n)
    /\ stale' = (stale \/ entry[n].at \in {"promoting", "emitting"})
    /\ FormOnly /\ UNCHANGED <<onFile, default>>

\* The output reaches the list only from a form that is still there; a card
\* attached is selected by the read it causes, one used once at once.
Report(n, c) ==
    /\ entry[n].at \in {"emitting", "unsaved"}
    /\ IF ~entry[n].own
       THEN /\ entry' = Ended(n) /\ FormOnly
            /\ stale' = (stale \/ entry[n].at = "emitting")
       ELSE /\ adding' = FALSE
            /\ IF entry[n].at = "unsaved"
               THEN /\ selected' = n /\ unsaved' = unsaved \cup {n}
                    /\ UNCHANGED <<chain, loadingCards, cardsError>>
               ELSE /\ Free(c) /\ loadingCards' = TRUE /\ cardsError' = FALSE
                    /\ chain' = [chain EXCEPT ![c].at = "sent",
                                              ![c].select = IF surface = "checkout" THEN n ELSE NoCard]
                    /\ UNCHANGED <<selected, unsaved>>
            /\ UNCHANGED <<surface, cards, pendingCard, stale>>
            /\ Rendered(block, [Step(n, "done") EXCEPT ![n].own = FALSE])
    /\ UNCHANGED <<onFile, default>>

\* Another device of the buyer removes a card.
RivalCards ==
    /\ ~stale /\ stale' = TRUE
    /\ \E c \in onFile \cap Saved : onFile' = onFile \ {c}
    /\ default' = IF default \in onFile' THEN default ELSE NoCard
    /\ FormOnly /\ UNCHANGED entry

CardNext ==
    \/ \E c \in Chains : \/ \E card \in Cards : OnSetDefault(c, card) \/ OnRemove(c, card)
                         \/ UsersServes(c) \/ Reread(c) \/ Listed(c) \/ Fails(c)
                         \/ \E n \in New : Report(n, c)
    \/ \E card \in Cards : Pick(card)
    \/ OpenNewCard \/ CloseNewCard \/ Mounted \/ MountFails \/ RivalCards
    \/ \E n \in New : Confirm(n) \/ Confirmed(n) \/ Attach(n) \/ Promote(n) \/ EntryFails(n)

CardSpec == CardInit /\ [][CardNext]_cardVars

-----------------------------------------------------------------------------
AtRest == /\ \A c \in Chains : ~Out(c)
          /\ \A n \in New : entry[n].at \in {"none", "done"}

\* At rest with no error shown, the list is Users' own and what checkout would
\* charge is a live card on file, or one entered for this order only.
SelectionLives ==
    AtRest /\ ~cardsError /\ ~stale =>
        /\ cards = View
        /\ surface = "checkout" => IF selected = NoCard THEN Live(onFile) = {}
                                   ELSE selected \in Live(onFile) \cup unsaved
=============================================================================
