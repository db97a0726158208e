------------------------------ MODULE ShopProofs ------------------------------
(***************************************************************************)
(* Proofs about the shop's pages in the web application, each for any      *)
(* number of products, cards, calls, searches and loads: the profile's     *)
(* form, the order's page, the delivery address, the card lists, the cart  *)
(* with the checkout that spends it, and the plain card form.              *)
(***************************************************************************)
EXTENDS CartStore, AddressForm, CardEntry, CardForm, ProfileForm, OrderPages,
        SequenceTheorems, SumProofs, TLAPS

-----------------------------------------------------------------------------
(***************************************************************************)
(* The profile's form. What was typed since the last seed differs from it, *)
(* so the reseeding effect, which takes a pristine form only, spares it.   *)
(***************************************************************************)

EditsApart == mine # NoForm /\ ~typedOver => model = mine /\ model # seededForm
FailureKept == notSaved # NoForm => saveFailed /\ model = notSaved /\ model # seededForm

\* Between a write and the effect it is due, the banner may still be the old one's.
BannerDue ==
    savedForm # NoForm =>
        /\ sent = NoForm
        /\ "model" \notin due => model = savedForm
        /\ "banner" \notin due => (timer <=> ~(hovered \/ focused))

FormIInv == ProfileTypeOK /\ EditsApart /\ FailureKept /\ BannerDue

LEMMA FormsAreValues == ProfileForms \subseteq Values
  BY ProfileFormAssumption DEF ProfileForms

LEMMA InitFormInv == ProfileInit => FormIInv
  BY ProfileFormAssumption
  DEF ProfileInit, FormIInv, ProfileTypeOK, EditsApart, FailureKept, BannerDue

\* The page's own GET writes the user and nothing of the form.
LEMMA GettingInv ==
  ASSUME FormIInv, ReadProfile \/ Loaded \/ LoadFails \/ TryAgain
  PROVE  FormIInv'
<1>1. ProfileTypeOK'
  BY DEF FormIInv, ProfileTypeOK, ReadProfile, Loaded, LoadFails, TryAgain, bannerVars
<1>2. UNCHANGED <<mine, typedOver, model, seededForm, notSaved, saveFailed, savedForm, sent, timer,
                  hovered, focused>> /\ due \subseteq due' /\ due' \subseteq due \cup {"user"}
  BY DEF ReadProfile, Loaded, LoadFails, TryAgain, bannerVars
<1>3. EditsApart' /\ FailureKept' /\ BannerDue'
  BY <1>2 DEF FormIInv, EditsApart, FailureKept, BannerDue
<1> QED
  BY <1>1, <1>3 DEF FormIInv

LEMMA TypeInv ==
  ASSUME FormIInv, NEW v \in Values, Type(v)
  PROVE  FormIInv'
<1>1. ProfileTypeOK'
  BY DEF FormIInv, ProfileTypeOK, Type, bannerVars
<1>2. EditsApart' /\ FailureKept' /\ BannerDue'
  BY DEF FormIInv, EditsApart, FailureKept, BannerDue, Type, bannerVars
<1> QED
  BY <1>1, <1>2 DEF FormIInv

\* The effects: a reseed finds nothing typed, and the banner's own starts its timer.
LEMMA EffectsInv ==
  ASSUME FormIInv, Effects
  PROVE  FormIInv'
<1> DEFINE reseed == "user" \in due /\ user # NoForm /\ Pristine
           kept   == savedForm # NoForm /\ savedForm = model'
<1>1. /\ due' = {}
      /\ IF reseed THEN Seed(user) /\ saveFailed' = FALSE ELSE UNCHANGED <<model, seededForm, saveFailed>>
      /\ savedForm' = IF kept THEN savedForm ELSE NoForm
      /\ IF "banner" \in due \/ ~kept
         THEN timer' = kept /\ hovered' = FALSE /\ focused' = FALSE
         ELSE UNCHANGED <<hovered, focused, timer>>
      /\ UNCHANGED <<stored, user, getting, sent, patched, mine, typedOver, notSaved>>
  BY Zenon DEF Effects, bannerVars
<1>2. reseed => /\ model' = user /\ seededForm' = user /\ user \in Values
                /\ model = seededForm
  BY <1>1, FormsAreValues DEF Seed, Pristine, FormIInv, ProfileTypeOK
<1>3. {timer', hovered', focused'} \subseteq BOOLEAN
  BY <1>1 DEF FormIInv, ProfileTypeOK
<1>4. ProfileTypeOK'
  BY <1>1, <1>2, <1>3 DEF FormIInv, ProfileTypeOK
<1>5. EditsApart' /\ FailureKept'
  BY <1>1, <1>2 DEF FormIInv, EditsApart, FailureKept
<1>6. savedForm' # NoForm => kept /\ savedForm' = savedForm
  BY <1>1
<1>7. savedForm' # NoForm => (timer' <=> ~(hovered' \/ focused'))
  BY <1>1, <1>6 DEF FormIInv, BannerDue
<1>8. BannerDue'
  BY <1>1, <1>6, <1>7 DEF FormIInv, BannerDue
<1> QED
  BY <1>4, <1>5, <1>8 DEF FormIInv

\* Cancel, and a save with its answer: the form is seeded, or kept as it was.
LEMMA SavingInv ==
  ASSUME FormIInv,
         DiscardEdits \/ SaveProfile \/ Patch \/ ProfileSaved \/ SaveProfileFails \/ DismissSaveError
  PROVE  FormIInv'
<1>1. CASE DiscardEdits
  BY <1>1, FormsAreValues
  DEF FormIInv, ProfileTypeOK, EditsApart, FailureKept, BannerDue, DiscardEdits, DismissSaved, Seed
<1>2. CASE SaveProfile
  BY <1>2 DEF FormIInv, ProfileTypeOK, EditsApart, FailureKept, BannerDue, SaveProfile, DismissSaved
<1>3. CASE Patch
  BY <1>3
  DEF FormIInv, ProfileTypeOK, EditsApart, FailureKept, BannerDue, Patch, ProfileForms, bannerVars
<1>4. CASE ProfileSaved
  <2>1. Trimmed[sent] \in ProfileForms
    BY <1>4 DEF ProfileSaved, FormIInv, ProfileTypeOK, ProfileForms
  <2>2. ProfileTypeOK'
    BY <1>4, <2>1, FormsAreValues DEF ProfileSaved, Seed, FormIInv, ProfileTypeOK, bannerVars
  <2>3. EditsApart' /\ FailureKept' /\ BannerDue'
    BY <1>4 DEF ProfileSaved, Seed, EditsApart, FailureKept, BannerDue
  <2> QED
    BY <2>2, <2>3 DEF FormIInv
<1>5. CASE SaveProfileFails
  BY <1>5
  DEF FormIInv, ProfileTypeOK, EditsApart, FailureKept, BannerDue, SaveProfileFails, bannerVars
<1>6. CASE DismissSaveError
  BY <1>6
  DEF FormIInv, ProfileTypeOK, EditsApart, FailureKept, BannerDue, DismissSaveError, bannerVars
<1> QED
  BY <1>1, <1>2, <1>3, <1>4, <1>5, <1>6

\* The banner's pointer, focus and X.
LEMMA BannerInv ==
  ASSUME FormIInv, Hover \/ Focus \/ CloseBanner
  PROVE  FormIInv'
<1>1. UNCHANGED <<stored, user, getting, model, seededForm, sent, patched, saveFailed, due, mine,
                  typedOver, notSaved>>
  BY DEF Hover, Focus, CloseBanner
<1>2. /\ savedForm' \in {savedForm, NoForm} /\ {timer', hovered', focused'} \subseteq BOOLEAN
      /\ savedForm' # NoForm => (timer' <=> ~(hovered' \/ focused'))
  <2>1. {timer, hovered, focused} \subseteq BOOLEAN
    BY DEF FormIInv, ProfileTypeOK
  <2>2. CASE Hover
    BY <2>1, <2>2 DEF Hover, SyncTimer
  <2>3. CASE Focus
    BY <2>1, <2>3 DEF Focus, SyncTimer
  <2>4. CASE CloseBanner
    BY <2>4 DEF CloseBanner, DismissSaved
  <2> QED
    BY <2>2, <2>3, <2>4
<1>3. ProfileTypeOK'
  BY <1>1, <1>2 DEF FormIInv, ProfileTypeOK
<1>4. EditsApart' /\ FailureKept' /\ BannerDue'
  BY <1>1, <1>2 DEF FormIInv, EditsApart, FailureKept, BannerDue
<1> QED
  BY <1>3, <1>4 DEF FormIInv

\* What is typed stays until a save or Cancel takes it, a failed save says so over
\* the edits it failed with, and "Changes saved" stands over what was saved: for any
\* texts, with the answers of the load and of the saves landing between any two edits.
THEOREM FormStaysHonest == ProfileSpec => []FormHonest
<1>1. FormIInv /\ [ProfileNext]_profileVars => FormIInv'
  <2> SUFFICES ASSUME FormIInv, [ProfileNext]_profileVars PROVE FormIInv'
    OBVIOUS
  <2>1. CASE ReadProfile \/ Loaded \/ LoadFails \/ TryAgain
    BY <2>1, GettingInv
  <2>2. CASE \E v \in Values : Type(v)
    BY <2>2, TypeInv
  <2>3. CASE Effects
    BY <2>3, EffectsInv
  <2>4. CASE DiscardEdits \/ SaveProfile \/ Patch \/ ProfileSaved \/ SaveProfileFails \/ DismissSaveError
    BY <2>4, SavingInv
  <2>5. CASE Hover \/ Focus \/ CloseBanner
    BY <2>5, BannerInv
  <2>6. CASE UNCHANGED profileVars
    BY <2>6 DEF FormIInv, ProfileTypeOK, EditsApart, FailureKept, BannerDue, profileVars, bannerVars
  <2> QED
    BY <2>1, <2>2, <2>3, <2>4, <2>5, <2>6 DEF ProfileNext
<1>2. FormIInv => FormHonest
  BY DEF FormIInv, FormHonest, ProfileTypeOK, EditsApart, FailureKept, BannerDue, EditsSurvive, FailureTold,
         BannerTrue
<1> QED
  BY InitFormInv, <1>1, <1>2, PTL DEF ProfileSpec

-----------------------------------------------------------------------------
(***************************************************************************)
(* The order's page. Until a load ends under a later one, whatever load is *)
(* out includes one of the order the address names, over flags it reset;   *)
(* and what the last one left is about that order.                         *)
(***************************************************************************)

LoadAts == {"unused", "sent", "order", "404", "failed", "done", "orphan"}
LoadType == [of : OrderIds \cup {NoOrder, "list"}, at : LoadAts]

\* A load ends by what its id is.
LoadsAnswered ==
    \A n \in Loads : /\ load[n].at = "order" => load[n].of \notin Foreign
                     /\ load[n].at = "404" => load[n].of \in Foreign

DetailLoads == view = "detail" => url \in OrderIds /\ \A n \in UnderWay : load[n].of \in OrderIds

PageFollows ==
    view = "detail" /\ ~overlapped =>
        /\ loadingOrder <=> UnderWay # {}
        /\ UnderWay # {} => ~error /\ ~notFound /\ \E n \in UnderWay : load[n].of = url
        /\ notFound => url \in Foreign
        /\ UnderWay = {} /\ ~error /\ ~notFound => shownOrder = url /\ url \notin Foreign

OrderPagesIInv ==
    /\ load \in [Loads -> LoadType] /\ overlapped \in BOOLEAN
    /\ orderList \in [rows : SUBSET Placed, loading : BOOLEAN, error : BOOLEAN]
    /\ OrderPagesTypeOK /\ LoadsAnswered /\ DetailLoads /\ PageFollows /\ ThanksForIt /\ NeverStuck

LEMMA InitOrderPagesInv == OrderPagesInit => OrderPagesIInv
<1> SUFFICES ASSUME OrderPagesInit PROVE OrderPagesIInv
  OBVIOUS
<1>1. /\ load \in [Loads -> LoadType]
      /\ \A n \in Loads : load[n].at \in {"sent", "unused"} /\ (n = 1 => load[n].at = "sent")
  BY DEF OrderPagesInit, LoadType, LoadAts, NoLoad
<1>2. orderList \in [rows : SUBSET Placed, loading : BOOLEAN, error : BOOLEAN] /\ orderList.rows \subseteq Placed
  BY DEF OrderPagesInit, NoOrders
<1>3. OrderPagesTypeOK
  BY <1>1, <1>2 DEF OrderPagesInit, OrderPagesTypeOK
<1>4. LoadsAnswered /\ DetailLoads /\ PageFollows /\ ThanksForIt
  BY <1>1 DEF OrderPagesInit, LoadsAnswered, DetailLoads, PageFollows, ThanksForIt
<1>5. UnderWay # {}
  BY <1>1, OrderPagesAssumption DEF UnderWay
<1> QED
  BY <1>1, <1>2, <1>3, <1>4, <1>5 DEF OrderPagesIInv, OrderPagesInit, NeverStuck

\* What a load that starts makes of the others.
LEMMA LoadStarts ==
  ASSUME load \in [Loads -> LoadType], LoadsAnswered, NEW n \in Loads, load[n].at = "unused",
         NEW id \in OrderIds \cup {"list"}, NEW loads, loads \in {load, Orphaned},
         load' = [loads EXCEPT ![n] = [of |-> id, at |-> "sent"]]
  PROVE  /\ load' \in [Loads -> LoadType] /\ LoadsAnswered'
         /\ n \in UnderWay' /\ load'[n].of = id
         /\ UnderWay' \subseteq (IF loads = Orphaned THEN {} ELSE UnderWay) \cup {n}
         /\ \A m \in UnderWay' : m # n => m \in UnderWay /\ load'[m] = load[m]
<1>1. Orphaned \in [Loads -> LoadType] /\ \A m \in Loads : Orphaned[m].at \in {"unused", "done", "orphan"}
  BY DEF Orphaned, UnderWay, NoLoad, LoadType, LoadAts
<1>2. [of |-> id, at |-> "sent"] \in LoadType
  BY DEF LoadType, LoadAts
<1>3. /\ load' \in [Loads -> LoadType] /\ load'[n] = [of |-> id, at |-> "sent"]
      /\ \A m \in Loads : m # n => load'[m] = loads[m]
  BY <1>1, <1>2
<1>4. LoadsAnswered'
  BY <1>1, <1>3 DEF LoadsAnswered
<1>5. CASE loads = load /\ load # Orphaned
  BY <1>3, <1>4, <1>5 DEF UnderWay
<1>6. CASE loads = Orphaned
  BY <1>1, <1>3, <1>4, <1>6 DEF UnderWay
<1> QED
  BY <1>5, <1>6

\* The page is made, goes to another order, or loads its own again.
LEMMA PageLoadsInv ==
  ASSUME OrderPagesIInv, NEW n \in Loads, NEW id \in OrderIds, NEW placed \in BOOLEAN,
         Visit(n, id, placed) \/ MoveTo(n, id) \/ Reload(n)
  PROVE  OrderPagesIInv'
<1>1. PICK loads \in {load, Orphaned}, to \in OrderIds :
        /\ load[n].at = "unused" /\ load' = [loads EXCEPT ![n] = [of |-> to, at |-> "sent"]]
        /\ loadingOrder' = TRUE /\ error' = FALSE /\ notFound' = FALSE
        /\ view' = "detail" /\ url' = to
        /\ shownOrder' \in {shownOrder, NoOrder} /\ overlapped' \in {overlapped, FALSE}
        /\ orderList' \in {orderList, NoOrders}
        /\ justPlaced' \in BOOLEAN
        /\ justPlaced' /\ ~moved' => url' = bought'
        /\ loads # Orphaned => view = "detail" /\ overlapped' = overlapped
  <2>1. CASE Visit(n, id, placed)
    BY <2>1 DEF Visit, NextLoad, StartLoad
  <2>2. CASE MoveTo(n, id)
    BY <2>2 DEF MoveTo, NextLoad, StartLoad, OrderPagesIInv, OrderPagesTypeOK
  <2>3. CASE Reload(n)
    BY <2>3 DEF Reload, NextLoad, StartLoad, OrderPagesIInv, OrderPagesTypeOK, DetailLoads, ThanksForIt
  <2> QED
    BY <2>1, <2>2, <2>3
<1>2. /\ load' \in [Loads -> LoadType] /\ LoadsAnswered'
      /\ n \in UnderWay' /\ load'[n].of = url'
      /\ UnderWay' \subseteq (IF loads = Orphaned THEN {} ELSE UnderWay) \cup {n}
      /\ \A m \in UnderWay' : m # n => m \in UnderWay /\ load'[m] = load[m]
  BY <1>1, LoadStarts DEF OrderPagesIInv
<1>3. \A m \in UnderWay' : load'[m].of \in OrderIds
  BY <1>1, <1>2 DEF OrderPagesIInv, DetailLoads
<1>4. /\ orderList' \in [rows : SUBSET Placed, loading : BOOLEAN, error : BOOLEAN]
      /\ orderList'.rows \subseteq Placed
  <2>1. NoOrders \in [rows : SUBSET Placed, loading : BOOLEAN, error : BOOLEAN]
    BY DEF NoOrders
  <2> QED
    BY <1>1, <2>1 DEF OrderPagesIInv
<1>5. OrderPagesTypeOK'
  BY <1>1, <1>2, <1>4 DEF OrderPagesIInv, OrderPagesTypeOK, LoadType, LoadAts
<1>6. DetailLoads' /\ PageFollows' /\ ThanksForIt' /\ NeverStuck'
  BY <1>1, <1>2, <1>3 DEF DetailLoads, PageFollows, ThanksForIt, NeverStuck
<1> QED
  BY <1>1, <1>2, <1>4, <1>5, <1>6 DEF OrderPagesIInv

\* The list is made, or loads again: the order's own loads end unseen.
LEMMA ListLoadsInv ==
  ASSUME OrderPagesIInv, NEW n \in Loads, OpenList(n) \/ ReloadList(n)
  PROVE  OrderPagesIInv'
<1>1. PICK loads \in {load, Orphaned} :
        /\ load[n].at = "unused" /\ load' = [loads EXCEPT ![n] = [of |-> "list", at |-> "sent"]]
  BY DEF OpenList, ReloadList, NextLoad
<1>2. load' \in [Loads -> LoadType] /\ LoadsAnswered' /\ n \in UnderWay'
  BY <1>1, LoadStarts DEF OrderPagesIInv
<1>3. view' = "orders" /\ UNCHANGED <<url, shownOrder, loadingOrder, error, notFound, justPlaced,
                                      bought, overlapped, moved>>
  BY DEF OpenList, ReloadList, detailVars
<1>4. /\ orderList' \in [rows : SUBSET Placed, loading : BOOLEAN, error : BOOLEAN]
      /\ orderList'.rows \subseteq Placed
  BY DEF OpenList, ReloadList, NoOrders, OrderPagesIInv
<1>5. OrderPagesTypeOK'
  BY <1>2, <1>3, <1>4 DEF OrderPagesIInv, OrderPagesTypeOK, LoadType, LoadAts
<1>6. DetailLoads' /\ PageFollows' /\ ThanksForIt' /\ NeverStuck'
  BY <1>2, <1>3 DEF DetailLoads, PageFollows, ThanksForIt, NeverStuck
<1> QED
  BY <1>2, <1>3, <1>4, <1>5, <1>6 DEF OrderPagesIInv

LEMMA ServesLoadInv ==
  ASSUME OrderPagesIInv, NEW n \in Loads, OrdersServes(n)
  PROVE  OrderPagesIInv'
<1>1. PICK outcome \in {"404", "order", "failed"} :
        /\ load[n].at = "sent" /\ load' = [load EXCEPT ![n].at = outcome]
        /\ outcome = "404" => load[n].of \in Foreign
        /\ outcome = "order" => load[n].of \notin Foreign
  BY DEF OrdersServes
<1>2. /\ load' \in [Loads -> LoadType]
      /\ load'[n].of = load[n].of /\ load'[n].at = outcome
      /\ \A m \in Loads : m # n => load'[m] = load[m]
  BY <1>1 DEF OrderPagesIInv, LoadType, LoadAts
<1>3. UNCHANGED <<view, url, shownOrder, loadingOrder, error, notFound, justPlaced, orderList, bought,
                  overlapped, moved>>
  BY DEF OrdersServes, detailVars
<1>4. UnderWay' = UnderWay /\ \A m \in Loads : load'[m].of = load[m].of
  BY <1>1, <1>2 DEF UnderWay
<1>5. LoadsAnswered'
  BY <1>1, <1>2 DEF OrderPagesIInv, LoadsAnswered
<1>6. OrderPagesTypeOK'
  BY <1>2, <1>3 DEF OrderPagesIInv, OrderPagesTypeOK, LoadType, LoadAts
<1>7. DetailLoads' /\ PageFollows' /\ ThanksForIt' /\ NeverStuck'
  BY <1>3, <1>4 DEF OrderPagesIInv, DetailLoads, PageFollows, ThanksForIt, NeverStuck, UnderWay
<1> QED
  BY <1>2, <1>3, <1>5, <1>6, <1>7 DEF OrderPagesIInv

\* The end of a load, the page's or the list's.
LEMMA LoadEndsInv ==
  ASSUME OrderPagesIInv, NEW n \in Loads, LoadEnds(n) \/ ListEnds(n)
  PROVE  OrderPagesIInv'
<1>1. n \in UnderWay /\ load' = [load EXCEPT ![n].at = "done"] /\ UNCHANGED <<view, url, justPlaced, bought, moved>>
  BY DEF LoadEnds, ListEnds, UnderWay, detailVars
<1>2. /\ load' \in [Loads -> LoadType] /\ load'[n].at = "done"
      /\ \A m \in Loads : m # n => load'[m] = load[m]
  BY <1>1 DEF OrderPagesIInv, LoadType, LoadAts
<1>3. UnderWay' = UnderWay \ {n}
  BY <1>2 DEF UnderWay
<1>4. LoadsAnswered' /\ DetailLoads' /\ ThanksForIt'
  BY <1>1, <1>2, <1>3 DEF OrderPagesIInv, LoadsAnswered, DetailLoads, ThanksForIt
<1>5. CASE LoadEnds(n)
  <2>1. /\ view = "detail" /\ load[n].at \in {"order", "404", "failed"}
        /\ shownOrder' = IF load[n].at = "order" THEN load[n].of ELSE shownOrder
        /\ notFound' = (notFound \/ load[n].at = "404")
        /\ error' = (error \/ load[n].at = "failed")
        /\ loadingOrder' = FALSE /\ orderList' = orderList
        /\ overlapped' = (overlapped \/ UnderWay # {n})
    BY <1>5 DEF LoadEnds, Outcome
  <2>2. load[n].of \in OrderIds /\ (load[n].at = "order" => load[n].of \in Placed)
    BY <1>1, <2>1 DEF OrderPagesIInv, DetailLoads, LoadsAnswered, OrderIds
  <2>3. overlapped' \in BOOLEAN /\ {error', notFound'} \subseteq BOOLEAN
    BY <2>1
  <2>4. shownOrder' \in Placed \cup {NoOrder}
    BY <2>1, <2>2 DEF OrderPagesIInv, OrderPagesTypeOK
  <2>5. OrderPagesTypeOK'
    BY <1>1, <1>2, <2>1, <2>3, <2>4 DEF OrderPagesIInv, OrderPagesTypeOK, LoadType, LoadAts
  <2>6. PageFollows'
    <3> SUFFICES ASSUME ~overlapped' PROVE PageFollows'
      BY DEF PageFollows
    <3>1. ~overlapped /\ UnderWay = {n} /\ UnderWay' = {}
      BY <2>1, <1>3
    <3>2. ~error /\ ~notFound /\ load[n].of = url
      BY <3>1, <2>1 DEF OrderPagesIInv, PageFollows
    <3>3. /\ load[n].at = "order" => url \notin Foreign
          /\ load[n].at = "404" => url \in Foreign
      BY <3>2 DEF OrderPagesIInv, LoadsAnswered
    <3> QED
      BY <1>1, <2>1, <3>1, <3>2, <3>3 DEF PageFollows
  <2>7. NeverStuck'
    BY <1>1, <2>1 DEF NeverStuck
  <2> QED
    BY <1>2, <1>4, <2>1, <2>3, <2>5, <2>6, <2>7 DEF OrderPagesIInv
<1>6. CASE ListEnds(n)
  <2>1. view = "orders" /\ UNCHANGED <<shownOrder, loadingOrder, error, notFound, overlapped>>
        /\ orderList' = [rows |-> IF load[n].at = "order" THEN Placed ELSE orderList.rows,
                         loading |-> FALSE, error |-> load[n].at = "failed"]
    BY <1>6 DEF ListEnds, detailVars
  <2>2. /\ orderList' \in [rows : SUBSET Placed, loading : BOOLEAN, error : BOOLEAN]
        /\ orderList'.rows \subseteq Placed /\ orderList'.loading = FALSE
    BY <2>1 DEF OrderPagesIInv, OrderPagesTypeOK
  <2>3. OrderPagesTypeOK'
    BY <1>1, <1>2, <2>1, <2>2 DEF OrderPagesIInv, OrderPagesTypeOK, LoadType, LoadAts
  <2>4. PageFollows' /\ NeverStuck'
    BY <1>1, <2>1, <2>2 DEF PageFollows, NeverStuck
  <2> QED
    BY <1>2, <1>4, <2>1, <2>2, <2>3, <2>4 DEF OrderPagesIInv
<1> QED
  BY <1>5, <1>6

\* The page shows the order its address names, or why not, and waits only for loads
\* that are out; the thanks greet the order the checkout placed: for any number of
\* loads, of the list and of any orders, that start and end in any order, as long as
\* none ends under a later one.
THEOREM OrderPageStaysHonest == OrderPagesSpec => []OrderPageHonest
<1>1. OrderPagesIInv /\ [OrderPagesNext]_orderPagesVars => OrderPagesIInv'
  <2> SUFFICES ASSUME OrderPagesIInv, [OrderPagesNext]_orderPagesVars PROVE OrderPagesIInv'
    OBVIOUS
  <2>1. CASE OrderPagesNext
    <3>1. PICK n \in Loads :
            \/ \E id \in OrderIds : (\E placed \in BOOLEAN : Visit(n, id, placed)) \/ MoveTo(n, id)
            \/ Reload(n) \/ OrdersServes(n) \/ LoadEnds(n) \/ OpenList(n) \/ ReloadList(n) \/ ListEnds(n)
      BY <2>1, Zenon DEF OrderPagesNext
    <3>2. CASE \E id \in OrderIds : (\E placed \in BOOLEAN : Visit(n, id, placed)) \/ MoveTo(n, id)
      BY <3>2, PageLoadsInv
    <3>3. CASE Reload(n)
      <4>1. url \in OrderIds
        BY <3>3 DEF Reload, OrderPagesIInv, DetailLoads
      <4> QED
        BY <3>3, <4>1, PageLoadsInv
    <3>4. CASE OrdersServes(n)
      BY <3>4, ServesLoadInv
    <3>5. CASE LoadEnds(n) \/ ListEnds(n)
      BY <3>5, LoadEndsInv
    <3>6. CASE OpenList(n) \/ ReloadList(n)
      BY <3>6, ListLoadsInv
    <3> QED
      BY <3>1, <3>2, <3>3, <3>4, <3>5, <3>6
  <2>2. CASE UNCHANGED orderPagesVars
    BY <2>2
    DEF OrderPagesIInv, OrderPagesTypeOK, LoadsAnswered, DetailLoads, PageFollows, ThanksForIt,
        NeverStuck, UnderWay, orderPagesVars, detailVars
  <2> QED
    BY <2>1, <2>2
<1>2. OrderPagesIInv => OrderPageHonest
  <2> SUFFICES ASSUME OrderPagesIInv PROVE PageOfAddress
    BY DEF OrderPagesIInv, OrderPageHonest
  <2> SUFFICES ASSUME view = "detail", ~overlapped
               PROVE  /\ loadingOrder <=> UnderWay # {}
                      /\ Face \in {"loading", "failed", FaceOf(url)}
                      /\ Face = "order" => shownOrder = url
    BY DEF PageOfAddress
  <2>1. CASE loadingOrder
    BY <2>1 DEF OrderPagesIInv, PageFollows, Face
  <2>2. CASE ~loadingOrder
    <3>1. shownOrder # url => error \/ notFound
      BY <2>2 DEF OrderPagesIInv, PageFollows
    <3>2. url # NoOrder
      BY OrderPagesAssumption DEF OrderPagesIInv, DetailLoads
    <3> QED
      BY <2>2, <3>1, <3>2 DEF OrderPagesIInv, PageFollows, Face, FaceOf
  <2> QED
    BY <2>1, <2>2
<1> QED
  BY InitOrderPagesInv, <1>1, <1>2, PTL DEF OrderPagesSpec

-----------------------------------------------------------------------------
(***************************************************************************)
(* The delivery address. A text typed is debounced until it is the one the *)
(* pipeline let through last; and at checkout a suggestion stays resolved  *)
(* only as long as its place is the one in the fields.                     *)
(***************************************************************************)

\* Debounced, the text is the field's last one; else the pipeline has had it.
DebouncedIsLast ==
    /\ debounced # NoText => debounced = lastAccepted
    /\ debounced = NoText => emitted = lastAccepted

\* A search that neither the debounce nor a new text will end is being answered.
AnswerOnItsWay ==
    pendingQuery # NoText /\ ~backtracked /\ debounced \in {NoText, emitted} => asked # NoText

HasFields == fields = [street |-> fields.street, line2 |-> fields.line2, place |-> fields.place]

ResolvedIsShown ==
    kind = "checkout" /\ resolved # NoAddress => resolved \in Suggestions /\ fields.place = resolved.place

AddressIInv == DebouncedIsLast /\ AnswerOnItsWay /\ HasFields /\ ResolvedIsShown /\ SavedIsShown

LEMMA FormsHaveFields ==
  \A a : FormOf(a) = [street |-> FormOf(a).street, line2 |-> FormOf(a).line2, place |-> FormOf(a).place]
  BY DEF FormOf, Blank

LEMMA InitAddressInv == AddressInit => AddressIInv
<1> SUFFICES ASSUME AddressInit PROVE AddressIInv
  OBVIOUS
<1>1. HasFields
  BY DEF AddressInit, HasFields, FormOf, Blank
<1> QED
  BY <1>1 DEF AddressInit, AddressIInv, DebouncedIsLast, AnswerOnItsWay, ResolvedIsShown, SavedIsShown

\* The street's text, its debounce and the lookup.
LEMMA StreetInv ==
  ASSUME AddressIInv, NEW t \in Texts, TypeStreet(t)
  PROVE  AddressIInv'
<1>1. /\ fields' = [fields EXCEPT !.street = t] /\ resolved' \in {resolved, NoAddress}
      /\ pendingQuery' = Owed(t) /\ lastAccepted' = t /\ debounced' = t
      /\ backtracked' = IF t = lastAccepted THEN backtracked ELSE t = emitted /\ debounced # NoText
      /\ UNCHANGED <<kind, sending, shown, emitted, asked>>
  BY DEF TypeStreet, AfterStreetTyped
<1>2. t # NoText
  BY AddressFormAssumption
<1>3. DebouncedIsLast'
  BY <1>1, <1>2 DEF DebouncedIsLast
<1>4. AnswerOnItsWay'
  <2> SUFFICES ASSUME pendingQuery' # NoText, ~backtracked', t = emitted PROVE asked # NoText
    BY <1>1, <1>2 DEF AnswerOnItsWay
  <2>1. t = lastAccepted
    BY <1>1 DEF AddressIInv, DebouncedIsLast
  <2>2. pendingQuery # NoText /\ ~backtracked
    BY <1>1, <2>1 DEF Owed
  <2> QED
    BY <2>1, <2>2 DEF AddressIInv, DebouncedIsLast, AnswerOnItsWay
<1>5. HasFields' /\ fields'.place = fields.place
  BY <1>1 DEF AddressIInv, HasFields
<1>6. ResolvedIsShown' /\ SavedIsShown'
  BY <1>1, <1>5 DEF AddressIInv, ResolvedIsShown, SavedIsShown
<1> QED
  BY <1>3, <1>4, <1>5, <1>6 DEF AddressIInv

LEMMA PipelineInv ==
  ASSUME AddressIInv, Emit \/ LookupAnswers
  PROVE  AddressIInv'
<1>1. UNCHANGED <<kind, fields, resolved, sending, shown, lastAccepted, backtracked>>
  BY DEF Emit, LookupAnswers
<1>2. HasFields' /\ ResolvedIsShown' /\ SavedIsShown'
  BY <1>1 DEF AddressIInv, HasFields, ResolvedIsShown, SavedIsShown
<1>3. DebouncedIsLast' /\ AnswerOnItsWay'
  <2>1. CASE Emit
    BY <1>1, <2>1 DEF Emit, Arrive, AddressIInv, DebouncedIsLast, AnswerOnItsWay
  <2>2. CASE LookupAnswers
    BY <1>1, <2>2 DEF LookupAnswers, Arrive, AddressIInv, DebouncedIsLast, AnswerOnItsWay
  <2> QED
    BY <2>1, <2>2
<1> QED
  BY <1>2, <1>3 DEF AddressIInv

\* A key on the dropdown: a suggestion brings its place into the fields with it.
LEMMA KeydownInv ==
  ASSUME AddressIInv, OnKeydown
  PROVE  AddressIInv'
<1>1. pendingQuery' = NoText /\ UNCHANGED <<kind, sending, shown, lastAccepted, debounced, emitted, asked, backtracked>>
  BY DEF OnKeydown, Escape, Select, Accept, Dismiss
<1>2. DebouncedIsLast' /\ AnswerOnItsWay' /\ SavedIsShown'
  BY <1>1 DEF AddressIInv, DebouncedIsLast, AnswerOnItsWay, SavedIsShown
<1>3. CASE Escape
  BY <1>1, <1>2, <1>3 DEF Escape, AddressIInv, HasFields, ResolvedIsShown
<1>4. CASE \E s \in Suggestions : Select(s)
  <2>1. PICK s \in Suggestions : fields' = [fields EXCEPT !.street = s.street, !.place = s.place] /\ resolved' = s
    BY <1>4 DEF Select, Accept, Fill
  <2>2. HasFields' /\ fields'.place = s.place
    BY <2>1 DEF AddressIInv, HasFields
  <2> QED
    BY <1>2, <2>1, <2>2 DEF AddressIInv, ResolvedIsShown
<1> QED
  BY <1>3, <1>4 DEF OnKeydown

\* The other fields, and Cancel: at checkout each that writes the place drops what was resolved.
LEMMA FieldsInv ==
  ASSUME AddressIInv, TypePlace \/ TypeLine2 \/ StartEditing \/ Cancel
  PROVE  AddressIInv'
<1>1. UNCHANGED <<kind, sending, shown, streetVars>>
  BY DEF TypePlace, TypeLine2, StartEditing, Cancel
<1>2. DebouncedIsLast' /\ AnswerOnItsWay' /\ SavedIsShown'
  BY <1>1 DEF AddressIInv, DebouncedIsLast, AnswerOnItsWay, SavedIsShown, streetVars
<1>3. CASE TypePlace
  <2>1. HasFields'
    BY <1>3 DEF TypePlace, AddressIInv, HasFields
  <2> QED
    BY <1>1, <1>2, <1>3, <2>1 DEF TypePlace, AfterPlaceTyped, AddressIInv, ResolvedIsShown
<1>4. CASE TypeLine2
  <2>1. PICK l : fields' = [fields EXCEPT !.line2 = l] /\ resolved' = resolved
    BY <1>4 DEF TypeLine2
  <2>2. HasFields' /\ fields'.place = fields.place
    BY <2>1 DEF AddressIInv, HasFields
  <2> QED
    BY <1>1, <1>2, <2>1, <2>2 DEF AddressIInv, ResolvedIsShown
<1>5. CASE StartEditing \/ Cancel
  <2>1. /\ fields' \in {fields, FormOf(address)} /\ (kind = "checkout" => resolved' = NoAddress)
    BY <1>5 DEF StartEditing, Cancel
  <2>2. HasFields'
    BY <2>1, FormsHaveFields DEF AddressIInv, HasFields
  <2> QED
    BY <1>1, <1>2, <2>1, <2>2 DEF AddressIInv, ResolvedIsShown
<1> QED
  BY <1>3, <1>4, <1>5

\* Save sends what is on show, and its answer or failure leaves nothing sent.
LEMMA SaveInv ==
  ASSUME AddressIInv, Save \/ SaveAnswered \/ SaveFails \/ Refetched
  PROVE  AddressIInv'
<1>1. UNCHANGED <<kind, resolved, streetVars>>
  BY DEF Save, SaveAnswered, SaveFails, Refetched
<1>2. DebouncedIsLast' /\ AnswerOnItsWay'
  BY <1>1 DEF AddressIInv, DebouncedIsLast, AnswerOnItsWay, streetVars
<1>3. CASE Save
  <2>1. /\ fields' = fields /\ shown' = fields
        /\ sending' = IF kind = "checkout" THEN ParseAddress ELSE ProfileAddress
    BY <1>3 DEF Save
  <2>2. HasFields' /\ ResolvedIsShown'
    BY <1>1, <2>1 DEF AddressIInv, HasFields, ResolvedIsShown
  <2>3. SavedIsShown'
    <3>1. CASE kind # "checkout"
      BY <1>1, <2>1, <3>1 DEF SavedIsShown, ProfileAddress, Spelled
    <3>2. CASE kind = "checkout" /\ resolved = NoAddress
      BY <1>1, <2>1, <3>2 DEF SavedIsShown, ParseAddress, Spelled, Country
    <3>3. CASE kind = "checkout" /\ resolved # NoAddress
      <4>1. resolved \in Suggestions /\ fields.place = resolved.place
        BY <3>3 DEF AddressIInv, ResolvedIsShown
      <4>2. sending' = [street |-> fields.street, line2 |-> "", place |-> resolved.place,
                        country |-> resolved.country]
        BY <2>1, <3>3 DEF ParseAddress
      <4>3. resolved.country \in Country(resolved.place)
        BY <4>1 DEF Country
      <4>4. /\ sending'.street = shown'.street /\ sending'.place = shown'.place
            /\ sending'.place = resolved.place /\ sending'.country = resolved.country
        <5>1. shown' = fields
          BY <2>1
        <5> QED
          BY ONLY <4>1, <4>2, <5>1
      <4> QED
        BY <1>1, <3>3, <4>1, <4>3, <4>4 DEF SavedIsShown
    <3> QED
      BY <3>1, <3>2, <3>3
  <2> QED
    BY <1>2, <2>2, <2>3 DEF AddressIInv
<1>4. CASE SaveAnswered \/ SaveFails
  <2>1. sending' = NoAddress /\ (kind = "checkout" => fields' = fields) /\ fields' \in {fields, FormOf(sending)}
    BY <1>4 DEF SaveAnswered, SaveFails
  <2>2. HasFields'
    BY <2>1, FormsHaveFields DEF AddressIInv, HasFields
  <2> QED
    BY <1>1, <1>2, <2>1, <2>2 DEF AddressIInv, ResolvedIsShown, SavedIsShown
<1>5. CASE Refetched
  <2>1. kind = "profile" /\ UNCHANGED <<sending, shown>> /\ fields' \in {fields, FormOf(address')}
    BY <1>5 DEF Refetched
  <2>2. HasFields'
    BY <2>1, FormsHaveFields DEF AddressIInv, HasFields
  <2> QED
    BY <1>1, <1>2, <2>1, <2>2 DEF AddressIInv, ResolvedIsShown, SavedIsShown
<1> QED
  BY <1>3, <1>4, <1>5

\* A save sends the address on show, with a country of its place, and the street
\* field searches only while an answer is to come: for any texts, suggestions and
\* places, with lookups, saves and the profile's own GET ending between any two edits.
THEOREM AddressStaysHonest == AddressSpec => []AddressHonest
<1>1. AddressIInv /\ [AddressNext]_addressVars => AddressIInv'
  <2> SUFFICES ASSUME AddressIInv, [AddressNext]_addressVars PROVE AddressIInv'
    OBVIOUS
  <2>1. CASE \E t \in Texts : TypeStreet(t)
    BY <2>1, StreetInv
  <2>2. CASE Emit \/ LookupAnswers
    BY <2>2, PipelineInv
  <2>3. CASE OnKeydown
    BY <2>3, KeydownInv
  <2>4. CASE TypePlace \/ TypeLine2 \/ StartEditing \/ Cancel
    BY <2>4, FieldsInv
  <2>5. CASE Save \/ SaveAnswered \/ SaveFails \/ Refetched
    BY <2>5, SaveInv
  <2>6. CASE UNCHANGED addressVars
    BY <2>6
    DEF AddressIInv, DebouncedIsLast, AnswerOnItsWay, HasFields, ResolvedIsShown, SavedIsShown,
        addressVars, streetVars
  <2> QED
    BY <2>1, <2>2, <2>3, <2>4, <2>5, <2>6 DEF AddressNext
<1>2. AddressIInv => AddressHonest
  BY DEF AddressIInv, AddressHonest, DebouncedIsLast, AnswerOnItsWay, SearchEnds
<1> QED
  BY InitAddressInv, <1>1, <1>2, PTL DEF AddressSpec

-----------------------------------------------------------------------------
(***************************************************************************)
(* The card lists. While no call is on its way to be answered, and no card *)
(* on its way to be reported, every answer that waits to be shown is what  *)
(* Users has; and with none waiting, the list and the selection are.       *)
(***************************************************************************)

ListType == [ids : SUBSET Cards, default : Cards \cup {NoCard}]
ChainType == [op : {"list", "setDefault", "remove"}, card : Cards \cup {NoCard},
              at : {"unused", "sent", "served", "done"}, select : New \cup {NoCard}, read : ListType]
EntryAts == {"none", "confirming", "attaching", "unsaved", "promoting", "emitting", "done"}
EntryType == [at : EntryAts, own : BOOLEAN, required : BOOLEAN]

CardsTyped ==
    /\ onFile \subseteq Cards /\ default \in onFile \cup {NoCard} /\ cards \in ListType
    /\ selected \in Cards \cup {NoCard} /\ {cardsError, stale} \subseteq BOOLEAN
    /\ chain \in [Chains -> ChainType] /\ entry \in [New -> EntryType]

ReadDue == \/ \E c \in Chains : chain[c].at = "sent" \/ (chain[c].at = "served" /\ chain[c].op # "list")
           \/ \E n \in New : entry[n].at \in {"promoting", "emitting"}
Answers == {c \in Chains : chain[c].at = "served" /\ chain[c].op = "list"}

SelectionOf(ids) == IF selected = NoCard THEN Live(ids) = {} ELSE selected \in Live(ids) \cup unsaved

ListFollows ==
    ~stale /\ ~cardsError /\ ~ReadDue =>
        /\ \A c \in Answers : chain[c].read = View /\ chain[c].select \in onFile \cup {NoCard}
        /\ Answers = {} => cards = View /\ (surface = "checkout" => SelectionOf(onFile))

CardIInv == CardsTyped /\ ListFollows

LEMMA InitCardInv == CardInit => CardIInv
<1> SUFFICES ASSUME CardInit PROVE CardIInv
  OBVIOUS
<1>1. NoList \in ListType /\ NoChain \in ChainType /\ [NoChain EXCEPT !.at = "sent"] \in ChainType
      /\ [NoChain EXCEPT !.at = "sent"].at = "sent" /\ NoEntry \in EntryType
  BY DEF NoList, NoChain, NoEntry, ListType, ChainType, EntryType, EntryAts
<1>2. chain \in [Chains -> ChainType] /\ chain[1].at = "sent"
  BY <1>1, CardEntryAssumption DEF CardInit
<1>3. entry \in [New -> EntryType]
  BY <1>1 DEF CardInit
<1>4. CardsTyped
  BY <1>1, <1>2, <1>3 DEF CardInit, CardsTyped, Cards
<1>5. ReadDue
  BY <1>2, CardEntryAssumption DEF ReadDue
<1> QED
  BY <1>4, <1>5 DEF CardIInv, ListFollows

\* What a form leaves behind when it is destroyed is where it was.
LEMMA RenderedTyped ==
  ASSUME CardsTyped, NEW f, NEW e \in [New -> EntryType], Rendered(f, e)
  PROVE  entry' \in [New -> EntryType] /\ \A n \in New : entry'[n].at = e[n].at
<1>1. ASSUME NEW n \in New, NEW b \in BOOLEAN
      PROVE  [e[n] EXCEPT !.own = FALSE, !.required = b] \in EntryType
             /\ [e[n] EXCEPT !.own = FALSE, !.required = b].at = e[n].at
  BY DEF EntryType
<1>2. NoSavedCards \in BOOLEAN
  BY DEF NoSavedCards
<1> QED
  BY <1>1, <1>2 DEF Rendered

\* The steps that put a call, or a report of one, on its way.
LEMMA DueFollows == ASSUME ReadDue' \/ stale' \/ cardsError' PROVE ListFollows'
  BY DEF ListFollows

\* The steps that change neither the calls nor what they are about.
LEMMA FollowsStays ==
  ASSUME CardIInv, UNCHANGED <<surface, onFile, default, cards, selected, chain, unsaved>>,
         cardsError' = cardsError, stale' = stale,
         \A n \in New : entry[n].at \in {"promoting", "emitting"} => entry'[n].at \in {"promoting", "emitting"}
  PROVE  ListFollows'
<1>1. ReadDue => ReadDue'
  BY DEF ReadDue
<1> QED
  BY <1>1 DEF CardIInv, ListFollows, Answers, SelectionOf, View

\* Users' answer is the list as it is, for a call that is alone in reading it.
LEMMA ServesCardInv == ASSUME CardIInv, NEW c \in Chains, UsersServes(c) PROVE CardIInv'
<1>1. chain[c] \in ChainType /\ onFile \subseteq Cards /\ default \in onFile \cup {NoCard} /\ NoCard \notin onFile
  BY CardEntryAssumption DEF CardIInv, CardsTyped
<1>2. /\ chain[c].at = "sent"
      /\ onFile' = IF chain[c].op = "remove" THEN onFile \ {chain[c].card} ELSE onFile
      /\ default' = IF chain[c].op = "setDefault" THEN chain[c].card
                    ELSE IF default \in onFile' THEN default ELSE NoCard
      /\ chain[c].op # "list" => chain[c].card \in onFile
      /\ chain' = [chain EXCEPT ![c].at = "served", ![c].read = View]
      /\ stale' = IF chain[c].op = "list" THEN Reading # {c} \/ chain[c].select \notin onFile \cup {NoCard} ELSE stale
      /\ UNCHANGED <<surface, cards, loadingCards, cardsError, selected, adding, pendingCard, block, entry, unsaved>>
  BY DEF UsersServes
<1>3. View \in ListType
  BY <1>1 DEF View, ListType
<1>4. /\ chain' \in [Chains -> ChainType] /\ \A d \in Chains \ {c} : chain'[d] = chain[d]
      /\ chain'[c].at = "served" /\ chain'[c].read = View
      /\ chain'[c].op = chain[c].op /\ chain'[c].select = chain[c].select
  <2>1. chain' = [chain EXCEPT ![c] = [chain[c] EXCEPT !.at = "served", !.read = View]]
    BY <1>2 DEF CardIInv, CardsTyped
  <2>2. [chain[c] EXCEPT !.at = "served", !.read = View] \in ChainType
    BY <1>1, <1>3 DEF ChainType
  <2>3. /\ chain' \in [Chains -> ChainType] /\ \A d \in Chains \ {c} : chain'[d] = chain[d]
        /\ chain'[c] = [chain[c] EXCEPT !.at = "served", !.read = View]
    BY <2>1, <2>2 DEF CardIInv, CardsTyped
  <2> QED
    BY <1>1, <2>3 DEF ChainType
<1>5. onFile' \subseteq Cards /\ default' \in onFile' \cup {NoCard} /\ stale' \in BOOLEAN
  <2>1. chain[c].op \in {"list", "setDefault", "remove"}
    BY <1>1 DEF ChainType
  <2>2. onFile' \subseteq Cards /\ default' \in onFile' \cup {NoCard}
    BY <1>1, <1>2, <2>1
  <2>3. stale' \in BOOLEAN
    BY <1>2 DEF CardIInv, CardsTyped
  <2> QED
    BY <2>2, <2>3
<1>6. CardsTyped'
  BY <1>2, <1>4, <1>5 DEF CardIInv, CardsTyped
<1>7. ListFollows'
  <2>1. CASE chain[c].op # "list"
    BY <1>4, <2>1, DueFollows DEF ReadDue
  <2>2. CASE chain[c].op = "list" /\ ~stale'
    <3>1. onFile' = onFile /\ default' = default
      BY <1>1, <1>2, <2>2
    <3>2. View' = View
      BY <3>1 DEF View
    <3>3. Reading = {c} /\ chain[c].select \in onFile \cup {NoCard}
      BY <1>2, <2>2
    <3>4. Answers' = {c}
      BY <1>2, <1>4, <2>2, <3>3 DEF Answers, Reading, Out
    <3> QED
      BY <1>4, <3>1, <3>2, <3>3, <3>4 DEF ListFollows
  <2> QED
    BY <2>1, <2>2, DueFollows
<1> QED
  BY <1>6, <1>7 DEF CardIInv

\* The list that is shown, and the card it leaves selected.
LEMMA ListedCardInv == ASSUME CardIInv, NEW c \in Chains, Listed(c) PROVE CardIInv'
<1>1. chain[c] \in ChainType /\ chain[c].read \in ListType /\ chain[c].select \in New \cup {NoCard}
      /\ entry \in [New -> EntryType]
  BY DEF CardIInv, CardsTyped, ChainType
<1>2. /\ chain[c].at = "served" /\ chain[c].op = "list"
      /\ chain' = [chain EXCEPT ![c] = [NoChain EXCEPT !.at = "done"]]
      /\ cards' = chain[c].read
      /\ selected' \in IF surface = "profile" THEN {NoCard}
                       ELSE IF chain[c].select # NoCard THEN {chain[c].select} ELSE ResolveSelection(chain[c].read)
      /\ UNCHANGED <<surface, onFile, default, cardsError, unsaved, stale>>
      /\ Rendered(block, entry)
  BY DEF Listed
<1>3. /\ chain' \in [Chains -> ChainType] /\ \A d \in Chains \ {c} : chain'[d] = chain[d]
      /\ chain'[c].at = "done"
  <2>1. [NoChain EXCEPT !.at = "done"] \in ChainType /\ [NoChain EXCEPT !.at = "done"].at = "done"
    BY DEF NoChain, NoList, ListType, ChainType
  <2> QED
    BY <1>2, <2>1 DEF CardIInv, CardsTyped
<1>4. entry' \in [New -> EntryType] /\ \A n \in New : entry'[n].at = entry[n].at
  BY <1>1, <1>2, RenderedTyped DEF CardIInv
<1>5. selected' \in Cards \cup {NoCard}
  BY <1>1, <1>2 DEF ResolveSelection, Live, ListType, Cards, CardIInv, CardsTyped
<1>6. CardsTyped'
  BY <1>1, <1>2, <1>3, <1>4, <1>5 DEF CardIInv, CardsTyped
<1>7. ListFollows'
  <2> SUFFICES ASSUME ~stale', ~cardsError', ~ReadDue'
               PROVE  /\ \A d \in Answers' : chain'[d].read = View' /\ chain'[d].select \in onFile' \cup {NoCard}
                      /\ cards' = View' /\ (surface' = "checkout" => SelectionOf(onFile)')
    BY <1>2 DEF ListFollows
  <2>1. ~ReadDue
    BY <1>2, <1>3, <1>4 DEF ReadDue
  <2>2. Answers' \subseteq Answers \ {c} /\ c \in Answers
    BY <1>2, <1>3 DEF Answers
  <2>3. \A d \in Answers : chain[d].read = View /\ chain[d].select \in onFile \cup {NoCard}
    BY <1>2, <2>1 DEF CardIInv, ListFollows
  <2>4. chain[c].read.ids = onFile /\ chain[c].read.default = default /\ View' = View
    BY <1>2, <2>2, <2>3 DEF View
  <2>5. surface = "checkout" => SelectionOf(onFile)'
    <3>1. NoCard \notin Live(onFile)
      BY CardEntryAssumption DEF Live, CardIInv, CardsTyped
    <3>2. CASE surface = "checkout" /\ chain[c].select # NoCard
      <4>1. selected' = chain[c].select /\ chain[c].select \in onFile /\ chain[c].select \in New
        BY <1>1, <1>2, <2>2, <2>3, <3>2
      <4>2. selected' \in Live(onFile)
        BY <4>1, CardEntryAssumption DEF Live
      <4> QED
        BY <1>2, <3>2, <4>1, <4>2 DEF SelectionOf, Live
    <3>3. CASE surface = "checkout" /\ chain[c].select = NoCard
      <4>1. selected' \in ResolveSelection(chain[c].read)
        BY <1>2, <3>3
      <4>2. selected' \in Live(onFile) \/ (selected' = NoCard /\ Live(onFile) = {})
        BY <2>4, <4>1 DEF ResolveSelection
      <4> QED
        BY <1>2, <3>1, <4>2 DEF SelectionOf, Live
    <3> QED
      BY <3>2, <3>3
  <2> QED
    BY <1>2, <1>3, <2>2, <2>3, <2>4, <2>5
<1> QED
  BY <1>6, <1>7 DEF CardIInv

\* The other steps of a call: it is on its way, or an error is on show.
LEMMA CallsCardInv ==
  ASSUME CardIInv, NEW c \in Chains,
         \/ \E card \in Cards : OnSetDefault(c, card) \/ OnRemove(c, card)
         \/ Reread(c) \/ Fails(c)
  PROVE  CardIInv'
<1>1. ASSUME NEW r \in ChainType, chain' = [chain EXCEPT ![c] = r]
      PROVE  chain' \in [Chains -> ChainType] /\ chain'[c] = r
  BY <1>1 DEF CardIInv, CardsTyped
<1>2. chain[c] \in ChainType /\ entry \in [New -> EntryType]
  BY DEF CardIInv, CardsTyped
<1>3. NoList \in ListType
  BY DEF NoList, ListType
<1>4. ASSUME NEW op \in {"setDefault", "remove"}, NEW card \in Cards, Mutate(c, op, card) PROVE CardIInv'
  <2> DEFINE r == [NoChain EXCEPT !.op = op, !.card = card, !.at = "sent"]
  <2>1. r \in ChainType /\ r.at = "sent"
    BY <1>3 DEF NoChain, ChainType
  <2>2. /\ chain' = [chain EXCEPT ![c] = r] /\ cardsError' = FALSE
        /\ UNCHANGED <<surface, onFile, default, cards, selected, entry, unsaved, stale>>
    BY <1>4 DEF Mutate
  <2>3. chain' \in [Chains -> ChainType] /\ chain'[c].at = "sent"
    BY <1>1, <2>1, <2>2
  <2>4. CardsTyped'
    BY <2>2, <2>3 DEF CardIInv, CardsTyped
  <2> QED
    BY <2>3, <2>4, DueFollows DEF ReadDue, CardIInv
<1>5. CASE Reread(c)
  <2> DEFINE r == [chain[c] EXCEPT !.op = "list", !.at = "sent"]
  <2>1. r \in ChainType /\ r.at = "sent"
    BY <1>2 DEF ChainType
  <2>2. /\ chain' = [chain EXCEPT ![c].op = "list", ![c].at = "sent"] /\ cardsError' = FALSE
        /\ UNCHANGED <<surface, onFile, default, cards, selected, unsaved, stale>> /\ Rendered(block, entry)
    BY <1>5 DEF Reread
  <2>3. chain' = [chain EXCEPT ![c] = r]
    BY <2>2 DEF CardIInv, CardsTyped
  <2>4. chain' \in [Chains -> ChainType] /\ chain'[c].at = "sent"
    BY <1>1, <2>1, <2>3
  <2>5. entry' \in [New -> EntryType]
    BY <1>2, <2>2, RenderedTyped DEF CardIInv
  <2>6. CardsTyped'
    BY <2>2, <2>4, <2>5 DEF CardIInv, CardsTyped
  <2> QED
    BY <2>4, <2>6, DueFollows DEF ReadDue, CardIInv
<1>6. CASE Fails(c)
  <2> DEFINE r == [NoChain EXCEPT !.at = "done"]
  <2>1. r \in ChainType
    BY <1>3 DEF NoChain, ChainType
  <2>2. /\ chain' = [chain EXCEPT ![c] = r] /\ cardsError' = TRUE
        /\ stale' = (stale \/ (chain[c].op # "list" /\ chain[c].at = "served"))
        /\ UNCHANGED <<surface, onFile, default, cards, selected, unsaved>> /\ Rendered(block, entry)
    BY <1>6 DEF Fails
  <2>3. chain' \in [Chains -> ChainType]
    BY <1>1, <2>1, <2>2
  <2>4. entry' \in [New -> EntryType]
    BY <1>2, <2>2, RenderedTyped DEF CardIInv
  <2>5. stale' \in BOOLEAN
    BY <2>2 DEF CardIInv, CardsTyped
  <2>6. CardsTyped'
    BY <2>2, <2>3, <2>4, <2>5 DEF CardIInv, CardsTyped
  <2> QED
    BY <2>2, <2>6, DueFollows DEF CardIInv
<1> QED
  BY <1>4, <1>5, <1>6 DEF OnSetDefault, OnRemove

\* Confirming, attaching and promoting a card: what reaches Users is to be
\* reported, or nobody will.
LEMMA EntriesCardInv ==
  ASSUME CardIInv, NEW n \in New, Confirm(n) \/ Confirmed(n) \/ Attach(n) \/ Promote(n) \/ EntryFails(n)
  PROVE  CardIInv'
<1>1. entry[n] \in EntryType /\ n \in Cards /\ entry \in [New -> EntryType]
  BY DEF CardIInv, CardsTyped, Cards
<1>2. UNCHANGED <<surface, cards, selected, chain, unsaved, cardsError>>
  BY DEF Confirm, Confirmed, Attach, Promote, EntryFails, FormOnly
<1>3. ASSUME NEW at \in EntryAts
      PROVE  /\ Step(n, at) \in [New -> EntryType] /\ Step(n, at)[n].at = at
             /\ \A m \in New \ {n} : Step(n, at)[m] = entry[m]
  <2>1. Step(n, at) = [entry EXCEPT ![n] = [entry[n] EXCEPT !.at = at]]
    BY DEF Step, CardIInv, CardsTyped
  <2>2. [entry[n] EXCEPT !.at = at] \in EntryType /\ [entry[n] EXCEPT !.at = at].at = at
    BY <1>1 DEF EntryType
  <2> QED
    BY <1>1, <2>1, <2>2
<1>4. ASSUME NEW r \in EntryType, entry' = [entry EXCEPT ![n] = r]
      PROVE  entry' \in [New -> EntryType] /\ \A m \in New \ {n} : entry'[m] = entry[m]
  BY <1>1, <1>4
<1>5. ASSUME UNCHANGED <<onFile, default>>, stale' \in BOOLEAN, entry' \in [New -> EntryType] PROVE CardsTyped'
  BY <1>2, <1>5 DEF CardIInv, CardsTyped
<1>6. CASE Confirm(n)
  <2> DEFINE r == [NoEntry EXCEPT !.at = "confirming", !.own = TRUE]
  <2>0. r \in EntryType
    BY DEF NoEntry, EntryType, EntryAts
  <2>1. /\ entry[n].at = "none" /\ UNCHANGED <<onFile, default, stale>>
        /\ entry' = [entry EXCEPT ![n] = [NoEntry EXCEPT !.at = "confirming", !.own = TRUE]]
    BY <1>6 DEF Confirm
  <2>2. entry' \in [New -> EntryType] /\ \A m \in New \ {n} : entry'[m] = entry[m]
    BY <1>4, <2>0, <2>1
  <2>3. ListFollows'
    BY <1>2, <2>1, <2>2, FollowsStays
  <2> QED
    BY <1>5, <2>1, <2>2, <2>3 DEF CardIInv, CardsTyped
<1>7. CASE Confirmed(n)
  <2>1. PICK at \in {"attaching", "unsaved"} : entry' = Step(n, at)
    BY <1>7 DEF Confirmed, AfterConfirm
  <2>2. entry[n].at = "confirming" /\ UNCHANGED <<onFile, default, stale>>
    BY <1>7 DEF Confirmed
  <2>3. entry' \in [New -> EntryType] /\ \A m \in New \ {n} : entry'[m] = entry[m]
    BY <1>3, <2>1 DEF EntryAts
  <2>4. ListFollows'
    BY <1>2, <2>2, <2>3, FollowsStays
  <2> QED
    BY <1>5, <2>2, <2>3, <2>4 DEF CardIInv, CardsTyped
<1>8. CASE Attach(n)
  <2>1. PICK at \in {"promoting", "emitting"} : entry' = Step(n, at)
    BY <1>8 DEF Attach
  <2>2. /\ onFile' = onFile \cup {n} /\ default' = IF onFile = {} THEN n ELSE default
        /\ stale' = (stale \/ ~entry[n].own)
    BY <1>8 DEF Attach
  <2>3. entry' \in [New -> EntryType] /\ entry'[n].at \in {"promoting", "emitting"}
    BY <1>3, <2>1 DEF EntryAts
  <2>4. stale' \in BOOLEAN /\ onFile' \subseteq Cards /\ default' \in onFile' \cup {NoCard}
    <3>1. stale' \in BOOLEAN
      BY <1>1, <2>2 DEF CardIInv, CardsTyped, EntryType
    <3> QED
      BY <1>1, <2>2, <3>1 DEF CardIInv, CardsTyped
  <2>5. CardsTyped'
    BY <1>2, <2>3, <2>4 DEF CardIInv, CardsTyped
  <2> QED
    BY <2>3, <2>5, DueFollows DEF ReadDue, CardIInv
<1>9. CASE Promote(n)
  <2>1. /\ n \in onFile /\ default' = n /\ onFile' = onFile /\ entry' = Step(n, "emitting")
        /\ stale' = (stale \/ ~entry[n].own)
    BY <1>9 DEF Promote
  <2>2. entry' \in [New -> EntryType] /\ entry'[n].at = "emitting"
    BY <1>3, <2>1 DEF EntryAts
  <2>3. stale' \in BOOLEAN
    BY <1>1, <2>1 DEF CardIInv, CardsTyped, EntryType
  <2>4. CardsTyped'
    BY <1>2, <2>1, <2>2, <2>3 DEF CardIInv, CardsTyped
  <2> QED
    BY <2>2, <2>4, DueFollows DEF ReadDue, CardIInv
<1>10. CASE EntryFails(n)
  <2>1. /\ UNCHANGED <<onFile, default>> /\ stale' = (stale \/ entry[n].at \in {"promoting", "emitting"})
        /\ entry' = [entry EXCEPT ![n] = [NoEntry EXCEPT !.at = "done"]]
    BY <1>10 DEF EntryFails, Ended
  <2>2. [NoEntry EXCEPT !.at = "done"] \in EntryType
    BY DEF NoEntry, EntryType, EntryAts
  <2>3. entry' \in [New -> EntryType] /\ \A m \in New \ {n} : entry'[m] = entry[m]
    BY <1>4, <2>1, <2>2
  <2>4. stale' \in BOOLEAN
    BY <2>1 DEF CardIInv, CardsTyped
  <2>5. CASE entry[n].at \in {"promoting", "emitting"}
    BY <1>5, <2>1, <2>3, <2>4, <2>5, DueFollows DEF CardIInv
  <2>6. CASE entry[n].at \notin {"promoting", "emitting"}
    <3>1. stale' = stale
      BY <2>1, <2>6 DEF CardIInv, CardsTyped
    <3>2. ListFollows'
      BY <1>2, <2>1, <2>3, <2>6, <3>1, FollowsStays
    <3> QED
      BY <1>5, <2>1, <2>3, <2>4, <3>2 DEF CardIInv
  <2> QED
    BY <2>5, <2>6
<1> QED
  BY <1>6, <1>7, <1>8, <1>9, <1>10

\* A card that is reported by the form on show is read, or used as it is.
LEMMA ReportCardInv ==
  ASSUME CardIInv, NEW n \in New, NEW c \in Chains, Report(n, c)
  PROVE  CardIInv'
<1>1. entry[n] \in EntryType /\ n \in Cards /\ entry \in [New -> EntryType] /\ chain[c] \in ChainType
  BY DEF CardIInv, CardsTyped, Cards
<1>2. entry[n].at \in {"emitting", "unsaved"} /\ UNCHANGED <<onFile, default>>
  BY DEF Report
<1>3. CASE ~entry[n].own
  <2>1. /\ entry' = [entry EXCEPT ![n] = [NoEntry EXCEPT !.at = "done"]]
        /\ UNCHANGED <<surface, cards, selected, chain, unsaved, cardsError>>
        /\ stale' = (stale \/ entry[n].at = "emitting")
    BY <1>3 DEF Report, Ended, FormOnly
  <2>2. [NoEntry EXCEPT !.at = "done"] \in EntryType
    BY DEF NoEntry, EntryType, EntryAts
  <2>3. entry' \in [New -> EntryType] /\ \A m \in New \ {n} : entry'[m] = entry[m]
    BY <1>1, <2>1, <2>2
  <2>4. stale' \in BOOLEAN
    BY <2>1 DEF CardIInv, CardsTyped
  <2>5. CardsTyped'
    BY <1>2, <2>1, <2>3, <2>4 DEF CardIInv, CardsTyped
  <2>6. CASE entry[n].at = "emitting"
    BY <2>1, <2>5, <2>6, DueFollows DEF CardIInv
  <2>7. CASE entry[n].at = "unsaved"
    <3>1. stale' = stale
      BY <2>1, <2>7 DEF CardIInv, CardsTyped
    <3>2. ListFollows'
      BY <1>2, <2>1, <2>3, <2>7, <3>1, FollowsStays
    <3> QED
      BY <2>5, <3>2 DEF CardIInv
  <2> QED
    BY <1>2, <2>6, <2>7
<1>4. CASE entry[n].own
  <2> DEFINE e == [Step(n, "done") EXCEPT ![n].own = FALSE]
  <2>1. UNCHANGED <<surface, cards, stale>> /\ Rendered(block, e)
    BY <1>4 DEF Report
  <2>2. e \in [New -> EntryType] /\ e[n].at = "done" /\ \A m \in New \ {n} : e[m] = entry[m]
    <3>1. e = [entry EXCEPT ![n] = [entry[n] EXCEPT !.at = "done", !.own = FALSE]]
      BY DEF Step, CardIInv, CardsTyped
    <3>2. /\ [entry[n] EXCEPT !.at = "done", !.own = FALSE] \in EntryType
          /\ [entry[n] EXCEPT !.at = "done", !.own = FALSE].at = "done"
      BY <1>1 DEF EntryType, EntryAts
    <3> HIDE DEF e
    <3> QED
      BY <1>1, <3>1, <3>2
  <2> HIDE DEF e
  <2>3. entry' \in [New -> EntryType] /\ \A m \in New : entry'[m].at = e[m].at
    BY <2>1, <2>2, RenderedTyped DEF CardIInv
  <2>4. CASE entry[n].at = "unsaved"
    <3>1. selected' = n /\ unsaved' = unsaved \cup {n} /\ UNCHANGED <<chain, cardsError>>
      BY <1>4, <2>4 DEF Report
    <3>2. CardsTyped'
      BY <1>1, <1>2, <2>1, <2>3, <3>1 DEF CardIInv, CardsTyped
    <3>3. ReadDue => ReadDue'
      BY <2>2, <2>3, <2>4, <3>1 DEF ReadDue
    <3>4. SelectionOf(onFile)'
      BY <1>1, <3>1, CardEntryAssumption DEF SelectionOf
    <3>5. ListFollows'
      BY <1>2, <2>1, <3>1, <3>3, <3>4 DEF CardIInv, ListFollows, Answers, View
    <3> QED
      BY <3>2, <3>5 DEF CardIInv
  <2>5. CASE entry[n].at = "emitting"
    <3> DEFINE s == IF surface = "checkout" THEN n ELSE NoCard
    <3>1. /\ cardsError' = FALSE /\ UNCHANGED <<selected, unsaved>>
          /\ chain' = [chain EXCEPT ![c].at = "sent", ![c].select = s]
      BY <1>4, <2>5 DEF Report
    <3>2. s \in New \cup {NoCard}
      OBVIOUS
    <3> HIDE DEF s
    <3>3. chain' = [chain EXCEPT ![c] = [chain[c] EXCEPT !.at = "sent", !.select = s]]
      BY <3>1 DEF CardIInv, CardsTyped
    <3>4. /\ [chain[c] EXCEPT !.at = "sent", !.select = s] \in ChainType
          /\ [chain[c] EXCEPT !.at = "sent", !.select = s].at = "sent"
      BY <1>1, <3>2 DEF ChainType
    <3>5. chain' \in [Chains -> ChainType] /\ chain'[c].at = "sent"
      BY <3>3, <3>4 DEF CardIInv, CardsTyped
    <3>6. CardsTyped'
      BY <1>2, <2>1, <2>3, <3>1, <3>5 DEF CardIInv, CardsTyped
    <3> QED
      BY <3>5, <3>6, DueFollows DEF ReadDue, CardIInv
  <2> QED
    BY <1>2, <2>4, <2>5
<1> QED
  BY <1>1, <1>3, <1>4

\* The buyer at the list and its form, and another device.
LEMMA BuyerCardInv ==
  ASSUME CardIInv,
         \/ \E card \in Cards : Pick(card)
         \/ OpenNewCard \/ CloseNewCard \/ Mounted \/ MountFails \/ RivalCards
  PROVE  CardIInv'
<1>1. ASSUME NEW card \in Cards, Pick(card) PROVE CardIInv'
  <2>1. /\ card \in Live(cards.ids) /\ selected' = card
        /\ UNCHANGED <<surface, onFile, default, cards, cardsError, chain, entry, unsaved, stale>>
    BY <1>1 DEF Pick
  <2>2. CardsTyped'
    BY <2>1 DEF CardIInv, CardsTyped
  <2>3. cards = View => SelectionOf(onFile)'
    BY <2>1, CardEntryAssumption DEF View, SelectionOf, Live
  <2>4. (ReadDue' <=> ReadDue) /\ Answers' = Answers /\ View' = View
    BY <2>1 DEF ReadDue, Answers, View
  <2>5. ListFollows'
    BY <2>1, <2>3, <2>4 DEF CardIInv, ListFollows
  <2> QED
    BY <2>2, <2>5 DEF CardIInv
<1>2. ASSUME NEW on, Toggle(on) PROVE CardIInv'
  <2>1. /\ UNCHANGED <<surface, onFile, default, cards, cardsError, selected, chain, unsaved, stale>>
        /\ Rendered(block, entry)
    BY <1>2 DEF Toggle
  <2>2. entry' \in [New -> EntryType] /\ \A n \in New : entry'[n].at = entry[n].at
    BY <2>1, RenderedTyped DEF CardIInv, CardsTyped
  <2>3. ListFollows'
    BY <2>1, <2>2, FollowsStays
  <2> QED
    BY <2>1, <2>2, <2>3 DEF CardIInv, CardsTyped
<1>3. CASE Mounted \/ MountFails
  <2>1. UNCHANGED <<surface, onFile, default, cards, cardsError, selected, chain, entry, unsaved, stale>>
    BY <1>3 DEF Mounted, MountFails, Mount
  <2>2. ListFollows'
    BY <2>1, FollowsStays
  <2> QED
    BY <2>1, <2>2 DEF CardIInv, CardsTyped
<1>4. CASE RivalCards
  <2>1. /\ stale' = TRUE /\ onFile' \subseteq onFile /\ default' = IF default \in onFile' THEN default ELSE NoCard
        /\ UNCHANGED <<surface, cards, cardsError, selected, chain, entry, unsaved>>
    BY <1>4 DEF RivalCards, FormOnly
  <2>2. CardsTyped'
    BY <2>1 DEF CardIInv, CardsTyped
  <2> QED
    BY <2>1, <2>2, DueFollows DEF CardIInv
<1> QED
  BY <1>1, <1>2, <1>3, <1>4 DEF OpenNewCard, CloseNewCard

(***************************************************************************)
(* However reads, writes, confirmations and closed forms overlap, a list   *)
(* at rest is Users' own and the card it would charge is on file and live: *)
(* saved-card-selector.ts, payment-methods.ts and card-entry.ts.           *)
(***************************************************************************)
THEOREM SelectionStaysLive == CardSpec => []SelectionLives
<1>1. CardIInv /\ [CardNext]_cardVars => CardIInv'
  <2> SUFFICES ASSUME CardIInv, [CardNext]_cardVars PROVE CardIInv'
    OBVIOUS
  <2>1. CASE UNCHANGED cardVars
    <3>1. ListFollows'
      BY <2>1, FollowsStays DEF cardVars
    <3> QED
      BY <2>1, <3>1 DEF CardIInv, CardsTyped, cardVars
  <2>2. CASE CardNext
    <3>1. ASSUME NEW c \in Chains,
                 \/ \E card \in Cards : OnSetDefault(c, card) \/ OnRemove(c, card)
                 \/ UsersServes(c) \/ Reread(c) \/ Listed(c) \/ Fails(c)
                 \/ \E n \in New : Report(n, c)
          PROVE  CardIInv'
      BY <3>1, CallsCardInv, ServesCardInv, ListedCardInv, ReportCardInv
    <3>2. CASE \E n \in New : Confirm(n) \/ Confirmed(n) \/ Attach(n) \/ Promote(n) \/ EntryFails(n)
      BY <3>2, EntriesCardInv
    <3>3. CASE \/ \E card \in Cards : Pick(card)
               \/ OpenNewCard \/ CloseNewCard \/ Mounted \/ MountFails \/ RivalCards
      BY <3>3, BuyerCardInv
    <3> QED
      BY <2>2, <3>1, <3>2, <3>3 DEF CardNext
  <2> QED
    BY <2>1, <2>2
<1>2. CardIInv => SelectionLives
  <2> SUFFICES ASSUME CardIInv, AtRest, ~cardsError, ~stale
               PROVE  cards = View /\ (surface = "checkout" => SelectionOf(onFile))
    BY DEF SelectionLives, SelectionOf
  <2>1. ~ReadDue /\ Answers = {}
    BY DEF AtRest, Out, ReadDue, Answers
  <2> QED
    BY <2>1 DEF CardIInv, ListFollows
<1> QED
  BY InitCardInv, <1>1, <1>2, PTL DEF CardSpec

-----------------------------------------------------------------------------
(***************************************************************************)
(* The cart's types: what a click, a timer and the queue pass on are       *)
(* quantities, and every task is a job with a body it may have filled.     *)
(***************************************************************************)

CartType == [Products -> Nat]
JobType == [op : {"load", "add", "set", "remove"}, p : Products \cup {None}, q : Nat,
            at : {"queued", "sent", "served", "lost"}, try : {1, 2}, body : CartType]
PostType == [at : {"unused", "atOrders", "served"}, heard : {"waiting", "ok", "refused", "failed"},
             key : Nat, lines : [Products -> Nat \cup {None}],
             reply : {"none", "ok", "refused", "failed"}, visit : Nat]

CartTyped ==
    /\ CartTypeOK
    /\ queue \in Seq(JobType) /\ task \in JobType \cup {Idle}
    /\ \A n \in DOMAIN queue : queue[n].at = "queued"
    /\ key \in Nat /\ visit \in Nat /\ post \in [Pays -> PostType]
    /\ wanted \in [Products -> Nat \cup {None}]

(***************************************************************************)
(* The purchase. A key is one visit's, and of one call at a time; a key    *)
(* that was left behind was told of its order, or was given up in doubt,   *)
(* or no order was placed with it and no call that could is out.           *)
(***************************************************************************)

Used(i) == post[i].at # "unused"
Told(k) == \E i \in Pays : post[i].key = k /\ post[i].heard = "ok"
Barren(k) == /\ \A i \in Pays : Used(i) /\ post[i].key = k => post[i].at = "served"
             /\ \A o \in orders : o.key # k

CallsKept ==
    /\ \A i \in Pays : ~Used(i) => post[i] = Unused
    /\ \A i \in Pays : Used(i) =>
         /\ post[i].key <= key /\ post[i].visit <= visit
         /\ post[i].key = key => post[i].visit = visit
         /\ post[i].heard = "waiting" /\ post[i].visit = visit => post[i].key = key /\ placing
         /\ post[i].heard \in {"ok", "refused"} => post[i].key < key /\ post[i].reply = post[i].heard
         /\ post[i].heard = "failed" => post[i].key \in unsure
         /\ post[i].at = "served" <=> post[i].reply # "none"
    /\ \A i, j \in Pays : /\ Used(i) /\ post[i].heard = "waiting" /\ post[i].visit = visit
                          /\ Used(j) /\ post[j].heard = "waiting" /\ post[j].visit = visit
                          => i = j

OrdersAnswered ==
    \A o \in orders : \E i \in Pays : post[i].at = "served" /\ post[i].reply = "ok" /\ post[i].key = o.key

KeysSettled == \A k \in Nat : k < key => k \in disowned \/ Told(k) \/ Barren(k)

PayIInv == CallsKept /\ OrdersAnswered /\ KeysSettled

(***************************************************************************)
(* The basket. An overlay is owed a timer or a write; a copy that was read *)
(* is the server's as soon as its task ends; and the last quantity asked   *)
(* for waits for its timer, or is the last the queue holds for its         *)
(* product, or is what the running task writes, or was written.            *)
(***************************************************************************)

\* A set of p runs or waits: what Unsettled says, of any queue and task.
SetsIn(jobs, t, p) == (t.op = "set" /\ t.p = p) \/ \E n \in DOMAIN jobs : jobs[n].op = "set" /\ jobs[n].p = p
WaitsIn(jobs, p) == {n \in DOMAIN jobs : jobs[n].op # "load" /\ jobs[n].p = p}

OverlaysOwed == \A p \in Products : pending[p] # None => p \in armed \/ SetsIn(queue, task, p)

CopyRead ==
    /\ task.at = "served" /\ ~unread => task.body = row
    /\ task.at = "none" /\ ~failed /\ ~unread => Items(held) = row

Runs(p) == task # Idle /\ task.op # "load" /\ task.p = p

ArmedAlone == \A p \in armed \ crossed : ~SetsIn(queue, task, p) /\ (wanted[p] # None => pending[p] = wanted[p])

\* Nothing waits to write p: it is written, or about to be.
Landed(p) ==
    IF Runs(p)
    THEN /\ task.op \in {"set", "remove"} /\ task.q = wanted[p]
         /\ task.at \in {"sent", "served"} => task.body[p] = wanted[p]
         /\ task.at = "served" => row[p] = wanted[p]
    ELSE /\ row[p] = wanted[p] /\ held # NoCart /\ held[p] = wanted[p]
         /\ task.at = "served" \/ (task.at = "sent" /\ task.op # "load") => task.body[p] = wanted[p]

ClickKept(p) ==
    wanted[p] # None /\ p \notin armed /\ p \notin crossed =>
        /\ \A n \in WaitsIn(queue, p) : (\A m \in WaitsIn(queue, p) : m <= n) =>
               queue[n].op \in {"set", "remove"} /\ queue[n].q = wanted[p]
        /\ WaitsIn(queue, p) = {} => Landed(p)

BasketIInv == OverlaysOwed /\ CopyRead /\ ArmedAlone /\ \A p \in Products : ClickKept(p)

LEMMA JobsTyped ==
  ASSUME NEW op \in {"load", "add", "set", "remove"}, NEW p \in Products \cup {None}, NEW q \in Nat
  PROVE  /\ Job(op, p, q) \in JobType /\ Job(op, p, q).at = "queued"
         /\ Job(op, p, q).op = op /\ Job(op, p, q).p = p /\ Job(op, p, q).q = q
  BY DEF Job, Idle, JobType, CartType, Empty

LEMMA LinesTyped == ASSUME CartTyped PROVE Lines \in CartType /\ Items(held) \in CartType
<1>1. Items(held) \in CartType
  BY DEF CartTyped, CartTypeOK, Items, Empty, CartType
<1>2. \A p \in Products : pending[p] # None => pending[p] \in Nat
  BY DEF CartTyped, CartTypeOK
<1> QED
  BY <1>1, <1>2 DEF Lines, CartType

LEMMA TaskTyped ==
  ASSUME CartTyped
  PROVE  /\ task # Idle <=> task \in JobType
         /\ task.at = "none" <=> task = Idle
         /\ task \in JobType => task.op \in {"load", "add", "set", "remove"} /\ task.body \in CartType
         /\ Idle.op = "idle" /\ Idle.at = "none" /\ Idle.p = None
  BY DEF CartTyped, CartTypeOK, JobType, Idle

\* What a queue gains at its end, and loses at its head.
LEMMA QueueGains ==
  ASSUME CartTyped, NEW t \in JobType, t.at = "queued", queue' = Append(queue, t)
  PROVE  /\ queue' \in Seq(JobType) /\ Len(queue') = Len(queue) + 1 /\ queue'[Len(queue) + 1] = t
         /\ DOMAIN queue = 1 .. Len(queue) /\ DOMAIN queue' = 1 .. (Len(queue) + 1) /\ Len(queue) \in Nat
         /\ \A n \in DOMAIN queue : queue'[n] = queue[n]
         /\ \A n \in DOMAIN queue' : queue'[n].at = "queued"
  BY DEF CartTyped

LEMMA QueuesJob ==
  ASSUME CartTyped, NEW op \in {"load", "add", "set", "remove"}, NEW x \in Products \cup {None}, NEW q \in Nat,
         queue' = Append(queue, Job(op, x, q))
  PROVE  /\ queue' \in Seq(JobType) /\ \A n \in DOMAIN queue' : queue'[n].at = "queued"
         /\ Len(queue) \in Nat /\ DOMAIN queue = 1 .. Len(queue) /\ DOMAIN queue' = 1 .. (Len(queue) + 1)
         /\ \A n \in DOMAIN queue : queue'[n] = queue[n]
         /\ LET t == queue'[Len(queue) + 1] IN t.op = op /\ t.p = x /\ t.q = q
<1>1. /\ Job(op, x, q) \in JobType /\ Job(op, x, q).at = "queued"
      /\ Job(op, x, q).op = op /\ Job(op, x, q).p = x /\ Job(op, x, q).q = q
  BY JobsTyped
<1>2. queue' = Append(queue, Job(op, x, q))
  OBVIOUS
<1> HIDE DEF Job
<1> QED
  BY <1>1, <1>2, QueueGains

LEMMA QueueLoses ==
  ASSUME CartTyped, queue # <<>>, queue' = Tail(queue)
  PROVE  /\ queue' \in Seq(JobType) /\ Head(queue) = queue[1] /\ Head(queue) \in JobType
         /\ Head(queue).at = "queued" /\ Len(queue) \in Nat \ {0}
         /\ DOMAIN queue = 1 .. Len(queue) /\ DOMAIN queue' = 1 .. (Len(queue) - 1)
         /\ \A n \in DOMAIN queue' : n + 1 \in DOMAIN queue /\ queue'[n] = queue[n + 1]
         /\ \A n \in DOMAIN queue' : queue'[n].at = "queued"
  BY DEF CartTyped

LEMMA BodiesTyped ==
  ASSUME NEW t \in JobType, NEW c \in CartType
  PROVE  /\ ItemsFrom(t, c) \in CartType
         /\ \A p \in Products : p # t.p => ItemsFrom(t, c)[p] = c[p]
         /\ \A p \in Products : p = t.p /\ t.op \in {"set", "remove"} => ItemsFrom(t, c)[p] = t.q
<1>1. t.q \in Nat /\ (t.p \in Products => c[t.p] + t.q \in Nat)
  BY DEF JobType, CartType
<1> QED
  BY <1>1 DEF ItemsFrom, CartType

\* What the answer of Orders, and of the page's hearing of it, make of a call.
LEMMA CallServed ==
  ASSUME CartTyped, NEW i \in Pays, NEW r \in {"ok", "refused", "failed"},
         post' = [post EXCEPT ![i].at = "served", ![i].reply = r]
  PROVE  /\ post' \in [Pays -> PostType] /\ \A j \in Pays : j # i => post'[j] = post[j]
         /\ post'[i].at = "served" /\ post'[i].reply = r /\ post'[i].heard = post[i].heard
         /\ post'[i].key = post[i].key /\ post'[i].visit = post[i].visit
<1>1. post[i] \in PostType
  BY DEF CartTyped
<1>2. post' = [post EXCEPT ![i] = [post[i] EXCEPT !.at = "served", !.reply = r]]
  BY DEF CartTyped
<1>3. [post[i] EXCEPT !.at = "served", !.reply = r] \in PostType
  BY <1>1 DEF PostType
<1>4. post' \in [Pays -> PostType] /\ post'[i] = [post[i] EXCEPT !.at = "served", !.reply = r]
  BY <1>2, <1>3 DEF CartTyped
<1> QED
  BY <1>1, <1>2, <1>4 DEF CartTyped, PostType

LEMMA CallHeard ==
  ASSUME CartTyped, NEW i \in Pays, NEW h \in {"ok", "refused", "failed"}, post' = [post EXCEPT ![i].heard = h]
  PROVE  /\ post' \in [Pays -> PostType] /\ \A j \in Pays : j # i => post'[j] = post[j]
         /\ post'[i].heard = h /\ post'[i].at = post[i].at /\ post'[i].reply = post[i].reply
         /\ post'[i].key = post[i].key /\ post'[i].visit = post[i].visit
<1>1. post[i] \in PostType
  BY DEF CartTyped
<1>2. [post[i] EXCEPT !.heard = h] \in PostType
  BY <1>1 DEF PostType
<1>3. post' \in [Pays -> PostType] /\ post'[i] = [post[i] EXCEPT !.heard = h]
  BY <1>2 DEF CartTyped
<1> QED
  BY <1>1, <1>3 DEF CartTyped, PostType

-----------------------------------------------------------------------------
LEMMA InitCartTyped == CartInit => CartTyped
<1> SUFFICES ASSUME CartInit PROVE CartTyped
  OBVIOUS
<1>1. Job("load", None, 0) \in JobType /\ Job("load", None, 0).at = "queued"
  BY JobsTyped
<1>2. queue \in Seq(JobType) /\ \A n \in DOMAIN queue : queue[n].at = "queued"
  BY <1>1 DEF CartInit
<1>3. Unused \in PostType /\ Unused.at = "unused"
  BY DEF Unused, PostType, Empty
<1>4. post \in [Pays -> PostType] /\ \A i \in Pays : post[i].at = "unused"
  BY <1>3 DEF CartInit
<1>5. CartTypeOK
  BY <1>4 DEF CartInit, CartTypeOK, Idle
<1> QED
  BY <1>2, <1>4, <1>5 DEF CartInit, CartTyped

\* The steps that leave the row, the copy, the running task and the calls alone.
LEMMA QueuedTyped ==
  ASSUME CartTyped, UNCHANGED <<row, held, task, saving, loading, failed, placing, unread, key, visit, post>>,
         queue' \in Seq(JobType), \A n \in DOMAIN queue' : queue'[n].at = "queued",
         armed' \subseteq Products, pending' \in [Products -> Nat \cup {None}],
         wanted' \in [Products -> Nat \cup {None}]
  PROVE  CartTyped'
  BY DEF CartTyped, CartTypeOK

LEMMA ClicksTyped ==
  ASSUME CartTyped, NEW p \in Products, Increment(p) \/ Decrease(p) \/ Add(p) \/ Fire(p)
  PROVE  CartTyped'
<1>1. Lines[p] \in Nat
  BY LinesTyped DEF CartType
<1>2. ASSUME NEW q \in Nat, Adjust(p, q) PROVE CartTyped'
  BY <1>2, QueuedTyped DEF Adjust, CartTyped, CartTypeOK, Rearm, pageVars
<1>3. ASSUME NEW op \in {"load", "add", "set", "remove"}, NEW x \in Products \cup {None}, NEW q \in Nat,
             queue' = Append(queue, Job(op, x, q))
      PROVE  queue' \in Seq(JobType) /\ \A n \in DOMAIN queue' : queue'[n].at = "queued"
  BY <1>3, QueuesJob
<1>4. CASE Increment(p)
  BY <1>1, <1>2, <1>4 DEF Increment
<1>5. ASSUME Remove(p) PROVE CartTyped'
  BY <1>3, <1>5, QueuedTyped DEF Remove, CartTyped, CartTypeOK, pageVars
<1>6. CASE Decrease(p)
  <2>1. ~(Lines[p] <= 1) => Lines[p] - 1 \in Nat
    BY <1>1
  <2> QED
    BY <1>2, <1>5, <1>6, <2>1 DEF Decrease
<1>7. CASE Add(p)
  BY <1>3, <1>7, QueuedTyped DEF Add, CartTyped, CartTypeOK, pageVars
<1>9. CASE Fire(p)
  <2>1. pending[p] # None => pending[p] \in Nat
    BY DEF CartTyped, CartTypeOK
  <2>2. pending[p] # None => Job("set", p, pending[p]) \in JobType /\ Job("set", p, pending[p]).at = "queued"
    BY <2>1, JobsTyped
  <2>3. queue' \in Seq(JobType) /\ \A n \in DOMAIN queue' : queue'[n].at = "queued"
    BY <1>9, <2>2, QueueGains DEF Fire, CartTyped
  <2> QED
    BY <1>9, <2>3, QueuedTyped DEF Fire, CartTyped, CartTypeOK, pageVars, cartHist
<1> QED
  BY <1>4, <1>6, <1>7, <1>9

\* The queue's own steps.
LEMMA TasksTyped ==
  ASSUME CartTyped, Begin \/ Serve \/ Answered \/ CallFails \/ Retry \/ GiveUp \/ Rival
  PROVE  CartTyped'
<1>1. UNCHANGED <<placing, key, visit, post>>
  BY DEF Begin, Serve, Answered, CallFails, Retry, GiveUp, Rival, Finish, pageVars
<1>2. \A t \in JobType, c \in CartType : ItemsFrom(t, c) \in CartType
  BY BodiesTyped
<1>3. Empty \in CartType /\ Items(held) \in CartType /\ row \in CartType
  BY LinesTyped DEF Empty, CartType, CartTyped, CartTypeOK
<1>4. CASE Begin
  <2> DEFINE t == Head(queue)
  <2>1. queue # <<>> /\ queue' = Tail(queue)
    BY <1>4 DEF Begin
  <2>2. t \in JobType /\ queue' \in Seq(JobType) /\ \A n \in DOMAIN queue' : queue'[n].at = "queued"
    BY <2>1, QueueLoses
  <2>3. PICK b \in CartType : task' = [t EXCEPT !.at = "sent", !.body = b]
    BY <1>2, <1>3, <1>4, <2>2 DEF Begin
  <2>4. task' \in JobType /\ task'.at = "sent"
    BY <2>2, <2>3 DEF JobType
  <2>5. saving' \in BOOLEAN /\ loading' \in BOOLEAN /\ failed' \in BOOLEAN
    BY <1>4 DEF Begin
  <2>6. task' # Idle
    BY <2>4 DEF Idle
  <2> QED
    BY <1>1, <1>4, <2>2, <2>4, <2>5, <2>6 DEF Begin, CartTyped, CartTypeOK, cartHist
<1>5. CASE Serve
  <2>1. task \in JobType
    BY <1>5, TaskTyped DEF Serve
  <2>2. row' \in CartType
    BY <1>3, <1>5, <2>1, TaskTyped DEF Serve
  <2>3. task' \in JobType /\ task'.at = "served"
    BY <1>5, <2>1, <2>2 DEF Serve, JobType
  <2>4. task' # Idle
    BY <2>3 DEF Idle
  <2> QED
    BY <1>1, <1>5, <2>2, <2>3, <2>4 DEF Serve, CartTyped, CartTypeOK, CartType
<1>6. ASSUME NEW ok, Finish(ok), held' \in CartType \cup {held}, failed' \in BOOLEAN,
             wanted' \in [Products -> Nat \cup {None}]
      PROVE  CartTyped'
  <2>1. pending' \in [Products -> Nat \cup {None}]
    BY <1>6 DEF Finish, AfterSettling, CartTyped, CartTypeOK
  <2> QED
    BY <1>1, <1>6, <2>1 DEF Finish, CartTyped, CartTypeOK, CartType, Idle
<1>7. CASE Answered
  <2>1. held' \in CartType
    BY <1>7, TaskTyped DEF Answered
  <2>2. Finish(TRUE) /\ failed' = failed /\ wanted' = wanted
    BY <1>7 DEF Answered
  <2> QED
    BY <1>6, <2>1, <2>2 DEF CartTyped, CartTypeOK
<1>8. CASE GiveUp
  <2>1. /\ Finish(FALSE) /\ failed' = TRUE /\ held' = held
        /\ wanted' = IF task.op = "load" THEN wanted ELSE [wanted EXCEPT ![task.p] = None]
    BY <1>8 DEF GiveUp
  <2>2. wanted' \in [Products -> Nat \cup {None}]
    BY <2>1 DEF CartTyped
  <2> QED
    BY <1>6, <2>1, <2>2
<1>9. CASE CallFails \/ Retry
  <2>1. task \in JobType
    BY <1>9, TaskTyped DEF CallFails, Retry
  <2>2. PICK a \in {"lost", "sent"}, n \in {1, 2}, b \in CartType :
            task' = [task EXCEPT !.at = a, !.try = n, !.body = b]
    <3>1. CASE CallFails
      <4>1. task' = [task EXCEPT !.at = "lost"]
        BY <3>1 DEF CallFails
      <4>2. task' = [task EXCEPT !.at = "lost", !.try = task.try, !.body = task.body]
        BY <2>1, <4>1 DEF JobType
      <4> QED
        BY <2>1, <4>2 DEF JobType
    <3>2. CASE Retry
      BY <1>2, <1>3, <2>1, <3>2 DEF Retry
    <3> QED
      BY <1>9, <3>1, <3>2
  <2>3. task' \in JobType /\ task'.at \in {"lost", "sent"}
    BY <2>1, <2>2 DEF JobType
  <2>4. task' # Idle
    BY <2>3 DEF Idle
  <2> QED
    BY <1>1, <1>9, <2>3, <2>4 DEF CallFails, Retry, CartTyped, CartTypeOK, cartHist
<1>10. CASE Rival
  <2>1. PICK p \in Products, q \in 0 .. 1 : row' = [row EXCEPT ![p] = q]
    BY <1>10 DEF Rival
  <2>2. row' \in CartType /\ unread' = TRUE /\ wanted' \in [Products -> Nat \cup {None}]
    BY <1>3, <1>10, <2>1 DEF Rival, CartType
  <2> QED
    BY <1>1, <1>10, <2>2 DEF Rival, CartTyped, CartTypeOK, storeVars, CartType
<1> QED
  BY <1>4, <1>5, <1>7, <1>8, <1>9, <1>10

\* The checkout page and its calls.
LEMMA PagesTyped ==
  ASSUME CartTyped, EnterCheckout \/ Leave \/ \E i \in Pays : Pay(i) \/ OrdersServe(i) \/ Hear(i)
  PROVE  CartTyped'
<1>1. queue' = Append(queue, Job("load", None, 0)) =>
          queue' \in Seq(JobType) /\ \A n \in DOMAIN queue' : queue'[n].at = "queued"
  BY QueuesJob DEF CartTyped
<1>2. CASE EnterCheckout
  <2>1. queue' = Append(queue, Job("load", None, 0)) /\ visit' \in Nat /\ key' \in Nat /\ placing' = FALSE
    BY <1>2 DEF EnterCheckout, CartTyped
  <2> QED
    BY <1>1, <1>2, <2>1 DEF EnterCheckout, CartTyped, CartTypeOK, cartHist
<1>3. CASE Leave
  BY <1>3 DEF Leave, CartTyped, CartTypeOK, storeVars, cartHist
<1>4. ASSUME NEW i \in Pays, Pay(i) PROVE CartTyped'
  <2>1. Lines \in [Products -> Nat \cup {None}]
    BY LinesTyped DEF CartType
  <2>2. post' = [post EXCEPT ![i] = [at |-> "atOrders", heard |-> "waiting", key |-> key, lines |-> Lines,
                                    reply |-> "none", visit |-> visit]]
    BY <1>4 DEF Pay
  <2>3. post' \in [Pays -> PostType] /\ placing' \in BOOLEAN
    BY <1>4, <2>1, <2>2 DEF Pay, CartTyped, PostType
  <2>4. \A j \in Pays : post'[j].at \in {"unused", "atOrders", "served"}
    BY <2>3 DEF PostType
  <2> QED
    BY <1>4, <2>3, <2>4 DEF Pay, CartTyped, CartTypeOK, storeVars, cartHist
<1>5. ASSUME NEW i \in Pays, OrdersServe(i) PROVE CartTyped'
  <2>1. PICK reply \in {"ok", "refused", "failed"} : post' = [post EXCEPT ![i].at = "served", ![i].reply = reply]
    BY <1>5 DEF OrdersServe
  <2>2. post' \in [Pays -> PostType]
    BY <2>1, CallServed
  <2>3. /\ row' \in {row, Empty} /\ unread' \in {unread, TRUE}
        /\ wanted' \in {wanted, [p \in Products |-> None]}
    BY <1>5 DEF OrdersServe
  <2>4. row' \in CartType /\ wanted' \in [Products -> Nat \cup {None}] /\ unread' \in BOOLEAN
    <3>1. Empty \in CartType /\ [p \in Products |-> None] \in [Products -> Nat \cup {None}]
      BY DEF Empty, CartType
    <3>2. row \in CartType /\ wanted \in [Products -> Nat \cup {None}] /\ unread \in BOOLEAN
      BY DEF CartTyped, CartTypeOK, CartType
    <3> QED
      BY <2>3, <3>1, <3>2
  <2>5. \A j \in Pays : post'[j].at \in {"unused", "atOrders", "served"}
    BY <2>2 DEF PostType
  <2> QED
    BY <1>5, <2>2, <2>4, <2>5 DEF OrdersServe, CartTyped, CartTypeOK, storeVars, CartType
<1>6. ASSUME NEW i \in Pays, Hear(i) PROVE CartTyped'
  <2>1. PICK heard \in {post[i].reply, "failed"} \ {"none"} :
          /\ post' = [post EXCEPT ![i].heard = heard]
          /\ key' \in {key, key + 1} /\ placing' = (placing /\ post[i].visit # visit)
          /\ IF heard = "ok" THEN Forget
             ELSE /\ queue' = Append(queue, Job("load", None, 0))
                  /\ UNCHANGED <<page, held, pending, armed, saving, loading, failed, cartHist>>
    BY <1>6 DEF Hear
  <2>2. heard \in {"ok", "refused", "failed"}
    BY <2>1 DEF CartTyped, PostType
  <2>3. post' \in [Pays -> PostType] /\ key' \in Nat /\ placing' \in BOOLEAN
    <3>1. post' \in [Pays -> PostType]
      BY <2>1, <2>2, CallHeard
    <3>2. key' \in Nat
      BY <2>1 DEF CartTyped
    <3>3. placing' \in BOOLEAN
      BY <2>1
    <3> QED
      BY <3>1, <3>2, <3>3
  <2>4. \A j \in Pays : post'[j].at \in {"unused", "atOrders", "served"}
    BY <2>3 DEF PostType
  <2>5. UNCHANGED <<row, task, visit>>
    BY <1>6 DEF Hear
  <2>6. CASE heard = "ok"
    <3>1. /\ armed' = {} /\ held' = NoCart /\ pending' = [p \in Products |-> None]
          /\ saving' = FALSE /\ loading' = FALSE /\ failed' = FALSE
          /\ unread' = TRUE /\ wanted' = [p \in Products |-> None] /\ queue' = queue
      BY <2>1, <2>6 DEF Forget
    <3>2. [p \in Products |-> None] \in [Products -> Nat \cup {None}]
      OBVIOUS
    <3>3. pending' \in [Products -> Nat \cup {None}] /\ wanted' \in [Products -> Nat \cup {None}]
      BY <3>1, <3>2
    <3> QED
      BY <2>3, <2>4, <2>5, <3>1, <3>3 DEF CartTyped, CartTypeOK
  <2>7. CASE heard # "ok"
    BY <1>1, <2>1, <2>3, <2>4, <2>5, <2>7 DEF CartTyped, CartTypeOK, cartHist
  <2> QED
    BY <2>6, <2>7
<1> QED
  BY <1>2, <1>3, <1>4, <1>5, <1>6

LEMMA NextCartTyped == CartTyped /\ [CartNext]_cartVars => CartTyped'
<1> SUFFICES ASSUME CartTyped, [CartNext]_cartVars PROVE CartTyped'
  OBVIOUS
<1>1. CASE CartNext
  <2>1. CASE \/ EnterCheckout \/ Leave \/ \E i \in Pays : Pay(i) \/ OrdersServe(i) \/ Hear(i)
    BY <2>1, PagesTyped
  <2>2. CASE Begin \/ Serve \/ Answered \/ CallFails \/ Retry \/ GiveUp \/ Rival
    BY <2>2, TasksTyped
  <2>3. CASE \E p \in Products : Increment(p) \/ Decrease(p) \/ Add(p) \/ Fire(p)
    BY <2>3, ClicksTyped
  <2>4. CASE OpenDrawer
    <3>1. queue' \in Seq(JobType) /\ \A n \in DOMAIN queue' : queue'[n].at = "queued"
      BY <2>4, QueuesJob DEF OpenDrawer
    <3> QED
      BY <2>4, <3>1, QueuedTyped DEF OpenDrawer, CartTyped, CartTypeOK, pageVars, cartHist
  <2> QED
    BY <1>1, <2>1, <2>2, <2>3, <2>4 DEF CartNext, Drawer
<1>2. CASE UNCHANGED cartVars
  BY <1>2 DEF CartTyped, CartTypeOK, cartVars, storeVars, pageVars, cartHist
<1> QED
  BY <1>1, <1>2

-----------------------------------------------------------------------------
LEMMA InitPayInv == CartInit => PayIInv
<1> SUFFICES ASSUME CartInit PROVE PayIInv
  OBVIOUS
<1>1. key = 0 /\ orders = {} /\ \A i \in Pays : post[i] = Unused /\ ~Used(i)
  BY DEF CartInit, Used, Unused
<1>2. CallsKept /\ OrdersAnswered /\ KeysSettled
  BY <1>1 DEF CallsKept, OrdersAnswered, KeysSettled
<1> QED
  BY <1>2 DEF PayIInv

\* The steps of the cart know nothing of the calls.
LEMMA PayUntouched ==
  ASSUME PayIInv, UNCHANGED <<visit, key, placing, post, orders, unsure, disowned>>
  PROVE  PayIInv'
  BY DEF PayIInv, CallsKept, OrdersAnswered, KeysSettled, Used, Told, Barren

\* What is settled of a key stays so, whatever the calls of other keys do.
LEMMA SettledStays ==
  ASSUME NEW k, disowned \subseteq disowned', k \in disowned \/ Told(k) \/ Barren(k),
         \A i \in Pays : /\ post[i].heard = "ok" => post'[i].key = post[i].key /\ post'[i].heard = "ok"
                         /\ Used(i)' /\ post'[i].key = k =>
                              Used(i) /\ post[i].key = k /\ (post[i].at = "served" => post'[i].at = "served"),
         \A o \in orders' : o \in orders \/ o.key # k \/ ~Barren(k)
  PROVE  k \in disowned' \/ Told(k)' \/ Barren(k)'
<1>1. CASE k \in disowned
  BY <1>1
<1>2. CASE Told(k)
  <2>1. PICK i \in Pays : post[i].key = k /\ post[i].heard = "ok"
    BY <1>2 DEF Told
  <2> QED
    BY <2>1 DEF Told
<1>3. CASE Barren(k)
  BY <1>3 DEF Barren
<1> QED
  BY <1>1, <1>2, <1>3

\* A visit that opens takes a key of its own; if the one it leaves behind is not
\* disowned, no call was made with it.
LEMMA EnterPayInv ==
  ASSUME CartTyped, PayIInv, EnterCheckout
  PROVE  PayIInv'
<1>1. /\ visit' = visit + 1 /\ key' = key + 1 /\ placing' = FALSE
      /\ UNCHANGED <<post, orders, unsure>>
      /\ disowned' = IF key \in unsure \/ \E i \in Pays : post[i].key = key /\ post[i].heard = "waiting"
                     THEN disowned \cup {key} ELSE disowned
  BY DEF EnterCheckout
<1>2. key \in Nat /\ visit \in Nat /\ \A i \in Pays : post[i] \in PostType
  BY DEF CartTyped
<1>3. \A i \in Pays : /\ post[i].key \in Nat /\ post[i].visit \in Nat
                      /\ post[i].heard \in {"waiting", "ok", "refused", "failed"}
  BY <1>2 DEF PostType
<1>4. \A i \in Pays : Used(i) => post[i].visit # visit'
  BY <1>1, <1>2, <1>3 DEF PayIInv, CallsKept
<1>5. CallsKept'
  <2>1. \A i \in Pays : Used(i)' <=> Used(i)
    BY <1>1 DEF Used
  <2>2. \A i \in Pays : Used(i) => post[i].key <= key /\ post[i].key < key'
    BY <1>1, <1>2, <1>3 DEF PayIInv, CallsKept
  <2>3. \A i \in Pays : Used(i) => post[i].key # key' /\ post[i].key <= key'
    BY <1>1, <1>2, <1>3, <2>2
  <2>4. \A i \in Pays : Used(i) => post[i].visit <= visit'
    BY <1>1, <1>2, <1>3 DEF PayIInv, CallsKept
  <2> QED
    BY <1>1, <1>4, <2>1, <2>2, <2>3, <2>4 DEF PayIInv, CallsKept
<1>6. OrdersAnswered'
  BY <1>1 DEF PayIInv, OrdersAnswered
<1>7. KeysSettled'
  <2> SUFFICES ASSUME NEW k \in Nat, k < key + 1 PROVE k \in disowned' \/ Told(k)' \/ Barren(k)'
    BY <1>1 DEF KeysSettled
  <2>1. CASE k < key
    BY <1>1, <2>1, SettledStays DEF PayIInv, KeysSettled, Used
  <2>2. CASE k = key /\ key \notin disowned'
    <3>1. \A i \in Pays : Used(i) => post[i].key # key
      BY <1>1, <1>2, <1>3, <2>2 DEF PayIInv, CallsKept
    <3>2. \A o \in orders : o.key # key
      <4> SUFFICES ASSUME NEW o \in orders, o.key = key PROVE FALSE
        OBVIOUS
      <4> QED
        BY <3>1 DEF PayIInv, OrdersAnswered, Used
    <3> QED
      BY <1>1, <2>2, <3>1, <3>2 DEF Barren, Used
  <2> QED
    BY <1>2, <2>1, <2>2
<1> QED
  BY <1>5, <1>6, <1>7 DEF PayIInv

LEMMA PayCallInv ==
  ASSUME CartTyped, PayIInv, NEW i \in Pays, Pay(i)
  PROVE  PayIInv'
<1>1. /\ ~Used(i) /\ ~placing /\ placing' = TRUE /\ UNCHANGED <<visit, key, orders, unsure, disowned>>
      /\ post' = [post EXCEPT ![i] = [at |-> "atOrders", heard |-> "waiting", key |-> key, lines |-> Lines,
                                      reply |-> "none", visit |-> visit]]
  BY DEF Pay, CanPay, payHist, Used
<1>2. /\ post'[i].at = "atOrders" /\ post'[i].heard = "waiting" /\ post'[i].key = key
      /\ post'[i].reply = "none" /\ post'[i].visit = visit
      /\ \A j \in Pays : j # i => post'[j] = post[j]
  BY <1>1 DEF CartTyped
<1>3. key \in Nat /\ visit \in Nat
  BY DEF CartTyped
<1>4. Used(i)' /\ \A j \in Pays : j # i => (Used(j)' <=> Used(j))
  BY <1>2 DEF Used
<1>5. CallsKept'
  BY <1>1, <1>2, <1>3, <1>4 DEF PayIInv, CallsKept
<1>6. OrdersAnswered'
  <2> SUFFICES ASSUME NEW o \in orders
               PROVE  \E j \in Pays : post'[j].at = "served" /\ post'[j].reply = "ok" /\ post'[j].key = o.key
    BY <1>1 DEF OrdersAnswered
  <2>1. PICK j \in Pays : post[j].at = "served" /\ post[j].reply = "ok" /\ post[j].key = o.key
    BY DEF PayIInv, OrdersAnswered
  <2> QED
    BY <1>1, <1>2, <2>1 DEF Used
<1>7. KeysSettled'
  <2> SUFFICES ASSUME NEW k \in Nat, k < key PROVE k \in disowned' \/ Told(k)' \/ Barren(k)'
    BY <1>1 DEF KeysSettled
  <2>1. k # key
    BY <1>3
  <2>2. post[i].heard # "ok"
    BY <1>1 DEF PayIInv, CallsKept, Unused
  <2> QED
    BY <1>1, <1>2, <1>4, <2>1, <2>2, SettledStays DEF PayIInv, KeysSettled
<1> QED
  BY <1>5, <1>6, <1>7 DEF PayIInv

LEMMA ServePayInv ==
  ASSUME CartTyped, PayIInv, NEW i \in Pays, OrdersServe(i)
  PROVE  PayIInv'
<1>1. PICK r \in {"ok", "refused", "failed"} :
        /\ post[i].at = "atOrders" /\ post' = [post EXCEPT ![i].at = "served", ![i].reply = r]
        /\ orders' = orders \/ (r = "ok" /\ orders' = orders \cup {[key |-> post[i].key, lines |-> post[i].lines]})
  BY DEF OrdersServe
<1>2. /\ \A j \in Pays : j # i => post'[j] = post[j]
      /\ post'[i].at = "served" /\ post'[i].reply = r /\ post'[i].heard = post[i].heard
      /\ post'[i].key = post[i].key /\ post'[i].visit = post[i].visit
  BY <1>1, CallServed
<1>3. UNCHANGED <<visit, key, placing, unsure, disowned>>
  BY DEF OrdersServe, payHist
<1>4. \A j \in Pays : Used(j)' <=> Used(j)
  BY <1>1, <1>2 DEF Used
<1>5. post[i].heard \notin {"ok", "refused"}
  BY <1>1 DEF PayIInv, CallsKept, Used
<1>6. CallsKept'
  <2>1. Used(i)
    BY <1>1 DEF Used
  <2> QED
    BY <1>2, <1>3, <1>4, <1>5, <2>1 DEF PayIInv, CallsKept
<1>7. \A o \in orders' : o \in orders \/ (r = "ok" /\ o.key = post[i].key)
  BY <1>1
<1>8. OrdersAnswered'
  <2> SUFFICES ASSUME NEW o \in orders'
               PROVE  \E j \in Pays : post'[j].at = "served" /\ post'[j].reply = "ok" /\ post'[j].key = o.key
    BY DEF OrdersAnswered
  <2>1. CASE o \in orders
    <3>1. PICK j \in Pays : post[j].at = "served" /\ post[j].reply = "ok" /\ post[j].key = o.key
      BY <2>1 DEF PayIInv, OrdersAnswered
    <3> QED
      BY <1>1, <1>2, <3>1
  <2> QED
    BY <1>2, <1>7, <2>1
<1>9. KeysSettled'
  <2> SUFFICES ASSUME NEW k \in Nat, k < key PROVE k \in disowned' \/ Told(k)' \/ Barren(k)'
    BY <1>3 DEF KeysSettled
  <2>1. post[i].key = k => ~Barren(k)
    BY <1>1 DEF Barren, Used
  <2> QED
    BY <1>2, <1>3, <1>4, <1>7, <2>1, SettledStays DEF PayIInv, KeysSettled
<1> QED
  BY <1>6, <1>8, <1>9 DEF PayIInv

\* An answer of this visit's call that ends the attempt: "ok" was told, and a refusal
\* leaves its key barren unless another call of it was lost.
LEMMA HearPayInv ==
  ASSUME CartTyped, PayIInv, NEW i \in Pays, Hear(i)
  PROVE  PayIInv'
<1> DEFINE own == post[i].visit = visit
<1>1. PICK h \in {post[i].reply, "failed"} \ {"none"} :
        /\ Used(i) /\ post[i].heard = "waiting" /\ post' = [post EXCEPT ![i].heard = h]
        /\ key' = IF own /\ Definitive(h) THEN key + 1 ELSE key
        /\ placing' = (placing /\ ~own)
        /\ disowned' = IF h = "refused" /\ post[i].key \in unsure THEN disowned \cup {post[i].key} ELSE disowned
        /\ unsure' = IF h = "failed" THEN unsure \cup {post[i].key} ELSE unsure
  BY Zenon DEF Hear, Used
<1>2. UNCHANGED <<visit, orders>>
  BY DEF Hear
<1>3. h \in {"ok", "refused", "failed"} /\ key \in Nat /\ visit \in Nat
  BY <1>1 DEF CartTyped, PostType
<1>4. /\ \A j \in Pays : j # i => post'[j] = post[j]
      /\ post'[i].heard = h /\ post'[i].at = post[i].at /\ post'[i].reply = post[i].reply
      /\ post'[i].key = post[i].key /\ post'[i].visit = post[i].visit
  BY <1>1, <1>3, CallHeard
<1>5. \A j \in Pays : Used(j)' <=> Used(j)
  BY <1>4 DEF Used
<1>6. \A j \in Pays : post[j].key \in Nat /\ post[j].visit \in Nat
  BY DEF CartTyped, PostType
<1>7. own => post[i].key = key /\ \A j \in Pays : Used(j) /\ post[j].heard = "waiting" /\ post[j].visit = visit => j = i
  BY <1>1 DEF PayIInv, CallsKept
<1>8. ~own => post[i].key < key
  BY <1>1, <1>3, <1>6 DEF PayIInv, CallsKept
<1>9. CallsKept'
  <2>1. key' \in {key, key + 1} /\ (h \in {"ok", "refused"} => post[i].key < key')
    BY <1>1, <1>3, <1>6, <1>7, <1>8 DEF Definitive
  <2>2. h = "failed" => post[i].key \in unsure'
    BY <1>1
  <2>3. h \in {"ok", "refused"} => post[i].reply = h
    BY <1>1
  <2>4. unsure \subseteq unsure'
    BY <1>1
  <2>5. \A j \in Pays : ~Used(j) => post'[j] = Unused
    BY <1>1, <1>4 DEF PayIInv, CallsKept
  <2>6. \A j \in Pays : j # i /\ Used(j) /\ post[j].heard = "waiting" /\ post[j].visit = visit =>
            ~own /\ post[j].key = key' /\ placing'
    BY <1>1, <1>7 DEF PayIInv, CallsKept
  <2>7. \A j \in Pays : Used(j) => /\ post[j].key <= key' /\ (post[j].key = key' => post[j].visit = visit)
                                    /\ (j # i /\ post[j].heard \in {"ok", "refused"} => post[j].key < key')
    BY <1>3, <1>6, <2>1 DEF PayIInv, CallsKept
  <2>8. \A j \in Pays : Used(j)' =>
         /\ post'[j].key <= key' /\ post'[j].visit <= visit'
         /\ post'[j].key = key' => post'[j].visit = visit'
         /\ post'[j].heard = "waiting" /\ post'[j].visit = visit' => post'[j].key = key' /\ placing'
         /\ post'[j].heard \in {"ok", "refused"} => post'[j].key < key' /\ post'[j].reply = post'[j].heard
         /\ post'[j].heard = "failed" => post'[j].key \in unsure'
         /\ post'[j].at = "served" <=> post'[j].reply # "none"
    <3> SUFFICES ASSUME NEW j \in Pays, Used(j)
                 PROVE  /\ post'[j].key <= key' /\ post'[j].visit <= visit
                        /\ post'[j].key = key' => post'[j].visit = visit
                        /\ post'[j].heard = "waiting" /\ post'[j].visit = visit => post'[j].key = key' /\ placing'
                        /\ post'[j].heard \in {"ok", "refused"} => post'[j].key < key' /\ post'[j].reply = post'[j].heard
                        /\ post'[j].heard = "failed" => post'[j].key \in unsure'
                        /\ post'[j].at = "served" <=> post'[j].reply # "none"
      BY <1>2, <1>5
    <3>1. CASE j = i
      BY <1>3, <1>4, <2>1, <2>2, <2>3, <2>7, <3>1 DEF PayIInv, CallsKept
    <3>2. CASE j # i
      BY <1>4, <2>4, <2>6, <2>7, <3>2 DEF PayIInv, CallsKept
    <3> QED
      BY <3>1, <3>2
  <2>9. \A j, l \in Pays : /\ Used(j)' /\ post'[j].heard = "waiting" /\ post'[j].visit = visit'
                           /\ Used(l)' /\ post'[l].heard = "waiting" /\ post'[l].visit = visit'
                           => j = l
    BY <1>2, <1>3, <1>4, <1>5 DEF PayIInv, CallsKept
  <2> QED
    BY <1>5, <2>5, <2>8, <2>9 DEF CallsKept
<1>10. OrdersAnswered'
  BY <1>2, <1>4 DEF PayIInv, OrdersAnswered
<1>11. KeysSettled'
  <2> SUFFICES ASSUME NEW k \in Nat, k < key' PROVE k \in disowned' \/ Told(k)' \/ Barren(k)'
    BY DEF KeysSettled
  <2>1. CASE k < key
    <3>1. disowned \subseteq disowned'
      BY <1>1
    <3>2. k \in disowned \/ Told(k) \/ Barren(k)
      BY <2>1 DEF PayIInv, KeysSettled
    <3> QED
      BY <1>1, <1>2, <1>4, <1>5, <3>1, <3>2, SettledStays
  <2>2. CASE ~(k < key)
    <3>1. own /\ Definitive(h) /\ k = key /\ post[i].key = k
      BY <1>1, <1>3, <1>7, <2>2
    <3>2. CASE h = "ok"
      BY <1>4, <3>1, <3>2 DEF Told
    <3>3. CASE h = "refused" /\ key \in unsure
      BY <1>1, <3>1, <3>3
    <3>4. CASE h = "refused" /\ key \notin unsure
      <4>1. \A j \in Pays : Used(j) /\ post[j].key = key => j = i
        <5> SUFFICES ASSUME NEW j \in Pays, Used(j), post[j].key = key, j # i PROVE FALSE
          OBVIOUS
        <5>1. post[j].visit = visit /\ post[j].heard # "failed"
          BY <3>4 DEF PayIInv, CallsKept
        <5>2. post[j].heard \notin {"ok", "refused"}
          BY <1>3 DEF PayIInv, CallsKept
        <5>3. post[j].heard \in {"waiting", "ok", "refused", "failed"}
          BY DEF CartTyped, PostType
        <5> QED
          BY <1>7, <3>1, <5>1, <5>2, <5>3
      <4>2. post[i].reply = "refused" /\ post[i].at = "served"
        BY <1>1, <3>4 DEF PayIInv, CallsKept
      <4>3. \A o \in orders : o.key # key
        BY <4>1, <4>2 DEF PayIInv, OrdersAnswered, Used
      <4> QED
        BY <1>2, <1>4, <1>5, <3>1, <4>1, <4>2, <4>3 DEF Barren
    <3> QED
      BY <3>1, <3>2, <3>3, <3>4 DEF Definitive
  <2> QED
    BY <2>1, <2>2
<1> QED
  BY <1>9, <1>10, <1>11 DEF PayIInv

\* One purchase, one order: a second one follows an order the page was told of, unless
\* the page gave up the first one's key in doubt. For any number of visits and of calls,
\* whose answers are late or lost, and whatever the cart does meanwhile.
THEOREM BoughtOnceHolds == CartSpec => []BoughtOnce
<1>1. CartTyped /\ PayIInv /\ [CartNext]_cartVars => PayIInv'
  <2> SUFFICES ASSUME CartTyped, PayIInv, [CartNext]_cartVars PROVE PayIInv'
    OBVIOUS
  <2>1. CASE EnterCheckout
    BY <2>1, EnterPayInv
  <2>2. CASE \E i \in Pays : Pay(i) \/ OrdersServe(i) \/ Hear(i)
    BY <2>2, PayCallInv, ServePayInv, HearPayInv
  <2>3. CASE \/ \E p \in Products : Increment(p) \/ Decrease(p) \/ Add(p) \/ Fire(p)
             \/ OpenDrawer \/ Begin \/ Serve \/ Answered \/ CallFails \/ Retry \/ GiveUp \/ Rival \/ Leave
    <3>1. UNCHANGED <<visit, key, placing, post, orders, unsure, disowned>>
      BY <2>3
      DEF Increment, Decrease, Adjust, Remove, Add, Fire, OpenDrawer, Begin, Serve, Answered, CallFails,
          Retry, GiveUp, Finish, Rival, Leave, pageVars, payHist
    <3> QED
      BY <3>1, PayUntouched
  <2>4. CASE UNCHANGED cartVars
    BY <2>4, PayUntouched DEF cartVars, pageVars, payHist
  <2> QED
    BY <2>1, <2>2, <2>3, <2>4 DEF CartNext, Drawer
<1>2. CartTyped /\ PayIInv => BoughtOnce
  <2> SUFFICES ASSUME CartTyped, PayIInv, NEW a \in orders, NEW b \in orders, a.key < b.key
               PROVE  a.key \in disowned \/ \E i \in Pays : post[i].key = a.key /\ post[i].heard = "ok"
    BY DEF BoughtOnce
  <2>1. \A o \in orders : o.key \in Nat /\ o.key <= key
    BY DEF PayIInv, OrdersAnswered, CallsKept, CartTyped, PostType, Used
  <2>2. a.key \in Nat /\ a.key < key
    <3>1. a.key \in Nat /\ b.key \in Nat /\ b.key <= key /\ key \in Nat
      BY <2>1 DEF CartTyped
    <3> QED
      BY <3>1
  <2> QED
    BY <2>2 DEF PayIInv, KeysSettled, Told, Barren
<1> QED
  BY InitCartTyped, NextCartTyped, InitPayInv, <1>1, <1>2, PTL DEF CartSpec

-----------------------------------------------------------------------------
LEMMA InitBasketInv == CartInit => BasketIInv
<1> SUFFICES ASSUME CartInit PROVE BasketIInv
  OBVIOUS
<1>1. \A p \in Products : pending[p] = None /\ wanted[p] = None
  BY DEF CartInit
<1>2. armed = {} /\ unread = TRUE
  BY DEF CartInit
<1> QED
  BY <1>1, <1>2 DEF BasketIInv, OverlaysOwed, CopyRead, ArmedAlone, ClickKept

LEMMA UnsettledIs == \A p : Unsettled(p) <=> SetsIn(queue, task, p)
  BY DEF Unsettled, SetsIn

\* A job that joins the queue leaves what waits for another product alone,
\* and is the last of its own.
LEMMA JobJoins ==
  ASSUME CartTyped, NEW op \in {"load", "add", "set", "remove"}, NEW x \in Products \cup {None}, NEW q \in Nat,
         queue' = Append(queue, Job(op, x, q)), NEW p \in Products
  PROVE  /\ \A t : SetsIn(queue', t, p) <=> SetsIn(queue, t, p) \/ (op = "set" /\ x = p)
         /\ WaitsIn(queue, p) \subseteq DOMAIN queue
         /\ \A n \in DOMAIN queue : queue'[n] = queue[n]
         /\ op = "load" \/ x # p => WaitsIn(queue', p) = WaitsIn(queue, p)
         /\ op # "load" /\ x = p => Len(queue) + 1 \in WaitsIn(queue', p)
         /\ queue'[Len(queue) + 1].op = op /\ queue'[Len(queue) + 1].q = q
         /\ \A m \in WaitsIn(queue', p) : Len(queue) + 1 <= m => m = Len(queue) + 1
<1> DEFINE last == Len(queue) + 1
<1>1. /\ Len(queue) \in Nat /\ DOMAIN queue = 1 .. Len(queue) /\ DOMAIN queue' = 1 .. last
      /\ \A n \in DOMAIN queue : queue'[n] = queue[n]
      /\ queue'[last].op = op /\ queue'[last].p = x /\ queue'[last].q = q
  BY QueuesJob
<1>2. DOMAIN queue' = DOMAIN queue \cup {last} /\ last \notin DOMAIN queue
      /\ \A m \in DOMAIN queue' : last <= m => m = last
  BY <1>1
<1> HIDE DEF last
<1>3. \A t : SetsIn(queue', t, p) <=> SetsIn(queue, t, p) \/ (op = "set" /\ x = p)
  BY <1>1, <1>2 DEF SetsIn
<1>4. WaitsIn(queue, p) \subseteq DOMAIN queue
  BY DEF WaitsIn
<1>5. op = "load" \/ x # p => WaitsIn(queue', p) = WaitsIn(queue, p)
  BY <1>1, <1>2 DEF WaitsIn
<1>6. op # "load" /\ x = p => last \in WaitsIn(queue', p)
  BY <1>1, <1>2 DEF WaitsIn
<1>7. \A m \in WaitsIn(queue', p) : last <= m => m = last
  BY <1>1, <1>2 DEF WaitsIn
<1> QED
  BY <1>1, <1>3, <1>4, <1>5, <1>6, <1>7 DEF last

\* What is asked of a product is kept by any step that leaves its writes alone.
LEMMA ClickStays ==
  ASSUME NEW p \in Products, ClickKept(p), UNCHANGED <<row, held, task>>,
         wanted'[p] \in {wanted[p], None}, p \in armed \cup crossed => p \in armed' \cup crossed',
         WaitsIn(queue', p) = WaitsIn(queue, p), \A n \in WaitsIn(queue, p) : queue'[n] = queue[n]
  PROVE  ClickKept(p)'
<1> SUFFICES ASSUME wanted'[p] # None, p \notin armed', p \notin crossed'
             PROVE  /\ \A n \in WaitsIn(queue', p) : (\A m \in WaitsIn(queue', p) : m <= n) =>
                           queue'[n].op \in {"set", "remove"} /\ queue'[n].q = wanted'[p]
                    /\ WaitsIn(queue', p) = {} => Landed(p)'
  BY DEF ClickKept
<1>1. wanted'[p] = wanted[p] /\ wanted[p] # None /\ p \notin armed /\ p \notin crossed
  OBVIOUS
<1>2. Landed(p)' <=> Landed(p)
  BY <1>1 DEF Landed, Runs
<1> QED
  BY <1>1, <1>2 DEF ClickKept

\* A step that only adds a job which is not p's, or none.
LEMMA NoWrite ==
  ASSUME CartTyped, BasketIInv, UNCHANGED <<row, held, task, failed, unread, pending, armed, crossed, wanted>>,
         queue' = queue \/ queue' = Append(queue, Job("load", None, 0))
  PROVE  BasketIInv'
<1>1. ASSUME NEW p \in Products
      PROVE  /\ WaitsIn(queue', p) = WaitsIn(queue, p) /\ \A n \in WaitsIn(queue, p) : queue'[n] = queue[n]
             /\ SetsIn(queue', task', p) <=> SetsIn(queue, task, p)
  <2>1. CASE queue' = queue
    BY <2>1 DEF WaitsIn, SetsIn
  <2>2. CASE queue' = Append(queue, Job("load", None, 0))
    <3>1. "load" \in {"load", "add", "set", "remove"} /\ None \in Products \cup {None} /\ 0 \in Nat /\ task' = task
      OBVIOUS
    <3>2. SetsIn(queue', task, p) <=> SetsIn(queue, task, p) \/ ("load" = "set" /\ None = p)
      BY <2>2, <3>1, JobJoins
    <3>3. WaitsIn(queue, p) \subseteq DOMAIN queue /\ \A n \in DOMAIN queue : queue'[n] = queue[n]
      BY <2>2, <3>1, JobJoins
    <3>4. WaitsIn(queue', p) = WaitsIn(queue, p)
      BY <2>2, <3>1, JobJoins
    <3> QED
      BY <3>1, <3>2, <3>3, <3>4
  <2> QED
    BY <2>1, <2>2
<1>2. OverlaysOwed' /\ CopyRead'
  BY <1>1 DEF BasketIInv, OverlaysOwed, CopyRead
<1>3. ArmedAlone'
  <2>1. armed \subseteq Products
    BY DEF CartTyped, CartTypeOK
  <2> QED
    BY <1>1, <2>1 DEF BasketIInv, ArmedAlone
<1>4. \A p \in Products : ClickKept(p)'
  BY <1>1, ClickStays DEF BasketIInv
<1> QED
  BY <1>2, <1>3, <1>4 DEF BasketIInv

LEMMA AdjustBasket ==
  ASSUME CartTyped, BasketIInv, NEW p \in Products, NEW q \in Nat, Adjust(p, q)
  PROVE  BasketIInv'
<1>1. /\ pending' = [pending EXCEPT ![p] = q] /\ wanted' = [wanted EXCEPT ![p] = q] /\ armed' = armed \cup {p}
      /\ crossed' = IF Unsettled(p) THEN crossed \cup {p} ELSE crossed
      /\ UNCHANGED <<row, held, queue, task, failed, unread>>
  BY DEF Adjust, Rearm
<1>2. /\ pending'[p] = q /\ wanted'[p] = q
      /\ \A x \in Products \ {p} : pending'[x] = pending[x] /\ wanted'[x] = wanted[x]
      /\ armed \subseteq Products
  BY <1>1 DEF CartTyped, CartTypeOK
<1>3. \A x \in Products : (SetsIn(queue', task', x) <=> SetsIn(queue, task, x)) /\ WaitsIn(queue', x) = WaitsIn(queue, x)
  BY <1>1 DEF WaitsIn, SetsIn
<1>4. OverlaysOwed' /\ CopyRead'
  BY <1>1, <1>2, <1>3 DEF BasketIInv, OverlaysOwed, CopyRead
<1>5. ArmedAlone'
  BY <1>1, <1>2, <1>3, UnsettledIs DEF BasketIInv, ArmedAlone
<1>6. ASSUME NEW x \in Products PROVE ClickKept(x)'
  <2>1. CASE x = p
    BY <1>1, <2>1 DEF ClickKept
  <2>2. CASE x # p
    BY <1>1, <1>2, <1>3, <2>2, ClickStays DEF BasketIInv
  <2> QED
    BY <2>1, <2>2
<1> QED
  BY <1>4, <1>5, <1>6 DEF BasketIInv

\* A line added or removed, and a timer that fires: their write is p's last.
LEMMA WriteBasket ==
  ASSUME CartTyped, BasketIInv, NEW p \in Products, NEW op \in {"add", "set", "remove"}, NEW q \in Nat,
         queue' = Append(queue, Job(op, p, q)), UNCHANGED <<row, held, task, failed, unread>>,
         \A x \in Products \ {p} : pending'[x] = pending[x] /\ wanted'[x] = wanted[x],
         armed' \subseteq armed, armed \ {p} \subseteq armed',
         crossed' \subseteq crossed, crossed \ {p} \subseteq crossed',
         pending'[p] # None => op = "set" \/ (pending'[p] = pending[p] /\ armed' = armed),
         p \in armed' => op # "set" /\ p \in armed /\ wanted'[p] = None /\ crossed' = crossed,
         wanted'[p] # None /\ p \notin crossed' => op # "add" /\ q = wanted'[p]
  PROVE  BasketIInv'
<1>1. ASSUME NEW x \in Products
      PROVE  /\ SetsIn(queue', task', x) <=> SetsIn(queue, task, x) \/ (op = "set" /\ x = p)
             /\ x # p => WaitsIn(queue', x) = WaitsIn(queue, x) /\ \A n \in WaitsIn(queue, x) : queue'[n] = queue[n]
  <2>1. op \in {"load", "add", "set", "remove"} /\ p \in Products \cup {None} /\ op # "load" /\ task' = task
    OBVIOUS
  <2>2. SetsIn(queue', task, x) <=> SetsIn(queue, task, x) \/ (op = "set" /\ p = x)
    BY <2>1, JobJoins
  <2>3. WaitsIn(queue, x) \subseteq DOMAIN queue /\ \A n \in DOMAIN queue : queue'[n] = queue[n]
    BY <2>1, JobJoins
  <2>4. x # p => WaitsIn(queue', x) = WaitsIn(queue, x)
    BY <2>1, JobJoins
  <2> QED
    BY <2>1, <2>2, <2>3, <2>4
<1>2. armed \subseteq Products
  BY DEF CartTyped, CartTypeOK
<1>3. OverlaysOwed'
  BY <1>1 DEF BasketIInv, OverlaysOwed
<1>4. CopyRead'
  BY DEF BasketIInv, CopyRead
<1>5. ArmedAlone'
  BY <1>1, <1>2 DEF BasketIInv, ArmedAlone
<1>6. ASSUME NEW x \in Products PROVE ClickKept(x)'
  <2>1. CASE x = p
    <3> SUFFICES ASSUME wanted'[p] # None, p \notin crossed'
                 PROVE  /\ \A n \in WaitsIn(queue', p) : (\A m \in WaitsIn(queue', p) : m <= n) =>
                               queue'[n].op \in {"set", "remove"} /\ queue'[n].q = wanted'[p]
                        /\ WaitsIn(queue', p) # {}
      BY <2>1 DEF ClickKept
    <3> DEFINE last == Len(queue) + 1
    <3>1. op \in {"load", "add", "set", "remove"} /\ p \in Products \cup {None} /\ op # "load"
      OBVIOUS
    <3>2. queue'[last].op = op /\ queue'[last].q = q
      BY <3>1, JobJoins
    <3>3. last \in WaitsIn(queue', p)
      BY <3>1, JobJoins
    <3>4. \A m \in WaitsIn(queue', p) : last <= m => m = last
      BY <3>1, JobJoins
    <3> HIDE DEF last
    <3> QED
      BY <3>2, <3>3, <3>4
  <2>2. CASE x # p
    BY <1>1, <2>2, ClickStays DEF BasketIInv
  <2> QED
    BY <2>1, <2>2
<1> QED
  BY <1>3, <1>4, <1>5, <1>6 DEF BasketIInv

LEMMA ClicksBasket ==
  ASSUME CartTyped, BasketIInv, NEW p \in Products, Increment(p) \/ Decrease(p) \/ Add(p) \/ Fire(p)
  PROVE  BasketIInv'
<1>1. Lines[p] \in Nat /\ (~(Lines[p] <= 1) => Lines[p] - 1 \in Nat) /\ Lines[p] + 1 \in Nat
  <2>1. Lines[p] \in Nat
    BY LinesTyped DEF CartType
  <2> QED
    BY <2>1
<1>2. ASSUME Remove(p) PROVE BasketIInv'
  <2>1. /\ armed' = armed \ {p} /\ pending' = [pending EXCEPT ![p] = None] /\ crossed' = crossed \ {p}
        /\ queue' = Append(queue, Job("remove", p, 0)) /\ wanted' = [wanted EXCEPT ![p] = 0]
        /\ UNCHANGED <<row, held, task, failed, unread>>
    BY <1>2 DEF Remove
  <2>2. /\ pending'[p] = None /\ wanted'[p] = 0
        /\ \A x \in Products \ {p} : pending'[x] = pending[x] /\ wanted'[x] = wanted[x]
    BY <2>1 DEF CartTyped, CartTypeOK
  <2> QED
    BY <2>1, <2>2, WriteBasket
<1>3. CASE Increment(p)
  BY <1>1, <1>3, AdjustBasket DEF Increment
<1>4. CASE Decrease(p)
  BY <1>1, <1>2, <1>4, AdjustBasket DEF Decrease
<1>5. CASE Add(p)
  <2>1. /\ queue' = Append(queue, Job("add", p, 1)) /\ wanted' = [wanted EXCEPT ![p] = None]
        /\ UNCHANGED <<row, held, task, failed, unread, pending, armed, crossed>>
    BY <1>5 DEF Add
  <2>2. wanted'[p] = None /\ \A x \in Products \ {p} : wanted'[x] = wanted[x]
    BY <2>1 DEF CartTyped
  <2> QED
    BY <2>1, <2>2, WriteBasket
<1>6. CASE Fire(p)
  <2>1. /\ p \in armed /\ armed' = armed \ {p}
        /\ queue' = IF pending[p] = None THEN queue ELSE Append(queue, Job("set", p, pending[p]))
        /\ UNCHANGED <<row, held, task, failed, unread, pending, crossed, wanted>>
    BY <1>6 DEF Fire, cartHist
  <2>2. p \notin crossed => wanted[p] \in {None, pending[p]}
    BY <2>1 DEF BasketIInv, ArmedAlone
  <2>3. CASE pending[p] = None
    <3>1. \A x \in Products : (SetsIn(queue', task', x) <=> SetsIn(queue, task, x)) /\ WaitsIn(queue', x) = WaitsIn(queue, x)
      BY <2>1, <2>3 DEF WaitsIn, SetsIn
    <3>2. OverlaysOwed' /\ CopyRead'
      BY <2>1, <2>3, <3>1 DEF BasketIInv, OverlaysOwed, CopyRead
    <3>3. ArmedAlone'
      <4>1. armed \subseteq Products
        BY DEF CartTyped, CartTypeOK
      <4> QED
        BY <2>1, <3>1, <4>1 DEF BasketIInv, ArmedAlone
    <3>4. ASSUME NEW x \in Products PROVE ClickKept(x)'
      <4>1. CASE x = p
        BY <2>1, <2>2, <2>3, <4>1 DEF ClickKept
      <4>2. CASE x # p
        BY <2>1, <2>3, <3>1, <4>2, ClickStays DEF BasketIInv
      <4> QED
        BY <4>1, <4>2
    <3> QED
      BY <3>2, <3>3, <3>4 DEF BasketIInv
  <2>4. CASE pending[p] # None
    <3>1. pending[p] \in Nat
      BY <2>4 DEF CartTyped, CartTypeOK
    <3> QED
      BY <2>1, <2>2, <2>4, <3>1, WriteBasket
  <2> QED
    BY <2>3, <2>4
<1> QED
  BY <1>3, <1>4, <1>5, <1>6

\* The next task starts: its product's last word leaves the queue with it.
LEMMA BeginBasket == ASSUME CartTyped, BasketIInv, Begin PROVE BasketIInv'
<1> DEFINE t == Head(queue)
<1>1. /\ task = Idle /\ queue # <<>> /\ queue' = Tail(queue) /\ failed' = FALSE
      /\ task' = [t EXCEPT !.at = "sent", !.body = IF t.op = "load" THEN Empty ELSE ItemsFrom(t, Items(held))]
      /\ UNCHANGED <<row, held, pending, armed, wanted, crossed, unread>>
  BY DEF Begin, cartHist
<1>2. /\ t = queue[1] /\ t \in JobType /\ Len(queue) \in Nat \ {0}
      /\ DOMAIN queue = 1 .. Len(queue) /\ DOMAIN queue' = 1 .. (Len(queue) - 1)
      /\ \A n \in DOMAIN queue' : n + 1 \in DOMAIN queue /\ queue'[n] = queue[n + 1]
  BY <1>1, QueueLoses
<1>3. Items(held) \in CartType /\ Idle.op = "idle" /\ Idle.at = "none"
  BY LinesTyped, TaskTyped
<1>4. /\ task'.op = t.op /\ task'.p = t.p /\ task'.q = t.q /\ task'.at = "sent" /\ task' # Idle
      /\ t.op # "load" => task'.body = ItemsFrom(t, Items(held))
  <2>1. task'.op = t.op /\ task'.p = t.p /\ task'.q = t.q /\ task'.at = "sent"
    BY <1>1, <1>2 DEF JobType
  <2>2. t.op # "load" => task'.body = ItemsFrom(t, Items(held))
    BY <1>1, <1>2 DEF JobType
  <2> QED
    BY <1>3, <2>1, <2>2
<1> HIDE DEF t
<1>5. 1 \in DOMAIN queue /\ \A n \in DOMAIN queue : n = 1 \/ (n - 1 \in DOMAIN queue' /\ queue[n] = queue'[n - 1])
  <2>1. ASSUME NEW n \in DOMAIN queue, n # 1 PROVE n - 1 \in DOMAIN queue' /\ queue[n] = queue'[n - 1]
    <3>1. n - 1 \in DOMAIN queue' /\ n - 1 + 1 = n
      BY <1>2, <2>1
    <3> QED
      BY <1>2, <3>1
  <2> QED
    BY <1>2, <2>1
<1>6. \A x \in Products : SetsIn(queue', task', x) <=> SetsIn(queue, task, x)
  <2>1. ASSUME NEW x \in Products, SetsIn(queue', task', x) PROVE SetsIn(queue, task, x)
    BY <1>2, <1>4, <1>5, <2>1 DEF SetsIn
  <2>2. ASSUME NEW x \in Products, SetsIn(queue, task, x) PROVE SetsIn(queue', task', x)
    BY <1>1, <1>2, <1>3, <1>4, <1>5, <2>2 DEF SetsIn
  <2> QED
    BY <2>1, <2>2
<1>7. OverlaysOwed' /\ CopyRead'
  BY <1>1, <1>4, <1>6 DEF BasketIInv, OverlaysOwed, CopyRead
<1>8. ArmedAlone'
  <2>1. armed \subseteq Products
    BY DEF CartTyped, CartTypeOK
  <2> QED
    BY <1>1, <1>6, <2>1 DEF BasketIInv, ArmedAlone
<1>9. ASSUME NEW p \in Products PROVE ClickKept(p)'
  <2> SUFFICES ASSUME wanted[p] # None, p \notin armed, p \notin crossed
               PROVE  /\ \A n \in WaitsIn(queue', p) : (\A m \in WaitsIn(queue', p) : m <= n) =>
                             queue'[n].op \in {"set", "remove"} /\ queue'[n].q = wanted[p]
                      /\ WaitsIn(queue', p) = {} => Landed(p)'
    BY <1>1 DEF ClickKept
  <2>1. /\ \A n \in WaitsIn(queue, p) : (\A m \in WaitsIn(queue, p) : m <= n) =>
                 queue[n].op \in {"set", "remove"} /\ queue[n].q = wanted[p]
        /\ WaitsIn(queue, p) = {} => Landed(p)
    BY DEF BasketIInv, ClickKept
  <2>2. ASSUME NEW n \in WaitsIn(queue', p), \A m \in WaitsIn(queue', p) : m <= n
        PROVE  queue'[n].op \in {"set", "remove"} /\ queue'[n].q = wanted[p]
    <3>1. n \in DOMAIN queue' /\ n \in Nat /\ n >= 1 /\ n + 1 \in DOMAIN queue /\ queue'[n] = queue[n + 1]
      BY <1>2 DEF WaitsIn
    <3>2. n + 1 \in WaitsIn(queue, p)
      BY <3>1 DEF WaitsIn
    <3>3. ASSUME NEW m \in WaitsIn(queue, p) PROVE m <= n + 1
      <4>1. m \in DOMAIN queue /\ m \in Nat
        BY <1>2 DEF WaitsIn
      <4>2. CASE m = 1
        BY <3>1, <4>2
      <4>3. CASE m # 1
        <5>1. m - 1 \in WaitsIn(queue', p)
          BY <1>5, <4>1, <4>3 DEF WaitsIn
        <5> QED
          BY <2>2, <3>1, <4>1, <5>1
      <4> QED
        BY <4>2, <4>3
    <3> QED
      BY <2>1, <3>1, <3>2, <3>3
  <2>3. ASSUME WaitsIn(queue', p) = {} PROVE Landed(p)'
    <3>1. WaitsIn(queue, p) \subseteq {1}
      BY <1>5, <2>3 DEF WaitsIn
    <3>2. CASE 1 \in WaitsIn(queue, p)
      <4>1. t.op # "load" /\ t.p = p
        BY <1>2, <3>2 DEF WaitsIn
      <4>2. t.op \in {"set", "remove"} /\ t.q = wanted[p]
        BY <1>2, <2>1, <3>1, <3>2
      <4>3. task'.body[p] = wanted[p]
        BY <1>2, <1>3, <1>4, <4>1, <4>2, BodiesTyped
      <4> QED
        BY <1>1, <1>4, <4>1, <4>2, <4>3 DEF Landed, Runs
    <3>3. CASE 1 \notin WaitsIn(queue, p)
      <4>1. Landed(p) /\ ~Runs(p)
        BY <1>1, <2>1, <3>1, <3>3 DEF Runs
      <4>2. row[p] = wanted[p] /\ held # NoCart /\ held[p] = wanted[p]
        BY <4>1 DEF Landed
      <4>3. t.op = "load" \/ t.p # p
        BY <1>2, <1>5, <3>3 DEF WaitsIn
      <4>4. t.op # "load" => task'.body[p] = held[p]
        BY <1>2, <1>3, <1>4, <4>2, <4>3, BodiesTyped DEF Items
      <4> QED
        BY <1>1, <1>4, <4>2, <4>3, <4>4 DEF Landed, Runs
    <3> QED
      BY <3>2, <3>3
  <2> QED
    BY <2>2, <2>3
<1> QED
  BY <1>7, <1>8, <1>9 DEF BasketIInv

\* A step of the running task: it settles the overlay of its own product only.
LEMMA TaskMoves ==
  ASSUME CartTyped, BasketIInv, UNCHANGED <<queue, armed, crossed>>, CopyRead',
         task'.op \in {task.op, "idle"}, task'.p = task.p \/ task'.op = "idle",
         \A x \in Products : \/ pending'[x] = pending[x] /\ (task.op # "set" \/ task.p # x \/ task'.op = task.op)
                             \/ task.op = "set" /\ task.p = x /\ pending'[x] = None,
         \A x \in Products : wanted'[x] \in {wanted[x], None},
         \A x \in Products : Landed(x) /\ wanted'[x] # None => Landed(x)'
  PROVE  BasketIInv'
<1>1. \A x : SetsIn(queue, task', x) => SetsIn(queue, task, x)
  BY DEF SetsIn
<1>2. \A x \in Products : pending'[x] # None /\ SetsIn(queue, task, x) => SetsIn(queue, task', x)
  BY DEF SetsIn
<1>3. OverlaysOwed'
  BY <1>2 DEF BasketIInv, OverlaysOwed
<1>4. ArmedAlone'
  <2>1. armed \subseteq Products
    BY DEF CartTyped, CartTypeOK
  <2>2. ASSUME NEW x \in armed \ crossed PROVE ~SetsIn(queue, task', x) /\ (wanted'[x] # None => pending'[x] = wanted'[x])
    <3>1. ~SetsIn(queue, task, x) /\ (wanted[x] # None => pending[x] = wanted[x])
      BY DEF BasketIInv, ArmedAlone
    <3>2. pending'[x] = pending[x]
      BY <2>1, <3>1 DEF SetsIn
    <3> QED
      BY <1>1, <2>1, <3>1, <3>2
  <2> QED
    BY <2>2 DEF ArmedAlone
<1>5. ASSUME NEW x \in Products PROVE ClickKept(x)'
  <2> SUFFICES ASSUME wanted'[x] # None, x \notin armed, x \notin crossed
               PROVE  /\ \A n \in WaitsIn(queue, x) : (\A m \in WaitsIn(queue, x) : m <= n) =>
                             queue[n].op \in {"set", "remove"} /\ queue[n].q = wanted'[x]
                      /\ WaitsIn(queue, x) = {} => Landed(x)'
    BY DEF ClickKept
  <2>1. wanted'[x] = wanted[x]
    OBVIOUS
  <2> QED
    BY <2>1 DEF BasketIInv, ClickKept
<1> QED
  BY <1>3, <1>4, <1>5 DEF BasketIInv

\* The row, or the copy, goes its own way: no click stands any more.
LEMMA AskedAgain ==
  ASSUME CartTyped, BasketIInv, UNCHANGED <<queue, task, crossed>>, unread' = TRUE,
         \A x \in Products : wanted'[x] = None,
         \/ UNCHANGED <<pending, armed>>
         \/ armed' = {} /\ \A x \in Products : pending'[x] = None
  PROVE  BasketIInv'
<1>1. OverlaysOwed' /\ CopyRead'
  BY DEF BasketIInv, OverlaysOwed, CopyRead
<1>2. armed \subseteq Products
  BY DEF CartTyped, CartTypeOK
<1>3. ArmedAlone'
  BY <1>2 DEF BasketIInv, ArmedAlone
<1>4. \A x \in Products : ClickKept(x)'
  BY DEF ClickKept
<1> QED
  BY <1>1, <1>3, <1>4 DEF BasketIInv

LEMMA TasksBasket ==
  ASSUME CartTyped, BasketIInv, Serve \/ Answered \/ CallFails \/ Retry \/ GiveUp
  PROVE  BasketIInv'
<1>1. task \in JobType /\ task # Idle /\ task.body \in CartType /\ task.op \in {"load", "add", "set", "remove"}
  BY TaskTyped DEF Serve, Answered, CallFails, Retry, GiveUp
<1>2. Idle.op = "idle" /\ Idle.at = "none" /\ row \in CartType
  BY TaskTyped DEF CartTyped, CartTypeOK, CartType
<1>3. CASE Serve
  <2>1. /\ task.at = "sent" /\ row' = IF task.op = "load" THEN row ELSE task.body
        /\ task' = [task EXCEPT !.at = "served", !.body = row'] /\ unread' = FALSE
        /\ UNCHANGED <<held, pending, armed, queue, wanted, crossed>>
    BY <1>3 DEF Serve
  <2>2. /\ task'.at = "served" /\ task'.op = task.op /\ task'.p = task.p /\ task'.q = task.q
        /\ task'.body = row'
    BY <1>1, <2>1 DEF JobType
  <2>3. task' # Idle
    BY <1>2, <2>2
  <2>4. CopyRead'
    BY <2>2 DEF CopyRead
  <2>5. ASSUME NEW x \in Products, Landed(x) PROVE Landed(x)'
    <3>1. CASE Runs(x)
      BY <1>1, <2>1, <2>2, <2>3, <2>5, <3>1 DEF Landed, Runs
    <3>2. CASE ~Runs(x)
      <4>1. /\ row[x] = wanted[x] /\ held # NoCart /\ held[x] = wanted[x]
            /\ task.op # "load" => task.body[x] = wanted[x]
        BY <2>1, <2>5, <3>2 DEF Landed
      <4>2. row'[x] = wanted[x]
        BY <2>1, <4>1
      <4> QED
        BY <1>1, <2>1, <2>2, <3>2, <4>1, <4>2 DEF Landed, Runs
    <3> QED
      BY <3>1, <3>2
  <2> QED
    BY <2>1, <2>2, <2>4, <2>5, TaskMoves
<1>4. ASSUME NEW ok, Finish(ok)
      PROVE  /\ task' = Idle /\ task'.op = "idle" /\ task'.at = "none" /\ UNCHANGED <<row, armed, queue, crossed, unread>>
             /\ \A x \in Products : \/ pending'[x] = pending[x] /\ (task.op # "set" \/ task.p # x)
                                    \/ task.op = "set" /\ task.p = x /\ pending'[x] = None
  BY <1>2, <1>4 DEF Finish, AfterSettling, CartTyped, CartTypeOK
<1>5. CASE Answered
  <2>1. task.at = "served" /\ held' = task.body /\ Finish(TRUE) /\ UNCHANGED <<failed, wanted>>
    BY <1>5 DEF Answered
  <2>2. held' # NoCart /\ Items(held') = held'
    BY <1>1, <2>1, CartAssumption DEF Items, CartType
  <2>3. CopyRead'
    BY <1>4, <2>1, <2>2 DEF BasketIInv, CopyRead
  <2>4. ASSUME NEW x \in Products, Landed(x) PROVE Landed(x)'
    <3>1. row[x] = wanted[x] /\ task.body[x] = wanted[x]
      BY <2>1, <2>4 DEF Landed
    <3> QED
      BY <1>4, <2>1, <2>2, <3>1 DEF Landed, Runs
  <2> QED
    BY <1>4, <2>1, <2>3, <2>4, TaskMoves
<1>6. CASE GiveUp
  <2>1. /\ Finish(FALSE) /\ failed' = TRUE /\ held' = held
        /\ wanted' = IF task.op = "load" THEN wanted ELSE [wanted EXCEPT ![task.p] = None]
    BY <1>6 DEF GiveUp
  <2>2. CopyRead'
    BY <1>4, <2>1 DEF CopyRead
  <2>3. \A x \in Products : wanted'[x] \in {wanted[x], None} /\ (Runs(x) => wanted'[x] = None)
    BY <2>1 DEF Runs, CartTyped
  <2>4. ASSUME NEW x \in Products, Landed(x), wanted'[x] # None PROVE Landed(x)'
    <3>1. wanted'[x] = wanted[x] /\ row[x] = wanted[x] /\ held # NoCart /\ held[x] = wanted[x]
      BY <2>3, <2>4 DEF Landed
    <3> QED
      BY <1>4, <2>1, <3>1 DEF Landed, Runs
  <2> QED
    BY <1>4, <2>1, <2>2, <2>3, <2>4, TaskMoves
<1>7. CASE CallFails
  <2>1. /\ task' = [task EXCEPT !.at = "lost"]
        /\ UNCHANGED <<row, held, pending, armed, queue, failed, unread, wanted, crossed>>
    BY <1>7 DEF CallFails, cartHist
  <2>2. task'.at = "lost" /\ task'.op = task.op /\ task'.p = task.p /\ task'.q = task.q
    BY <1>1, <2>1 DEF JobType
  <2>3. task' # Idle
    BY <1>2, <2>2
  <2>4. CopyRead'
    BY <2>2 DEF CopyRead
  <2>5. \A x \in Products : Landed(x) => Landed(x)'
    BY <1>1, <2>1, <2>2, <2>3 DEF Landed, Runs
  <2> QED
    BY <2>1, <2>2, <2>4, <2>5, TaskMoves
<1>8. CASE Retry
  <2>1. /\ task.at = "lost" /\ task' = [task EXCEPT !.at = "sent", !.try = 2, !.body = ItemsFrom(task, row)]
        /\ UNCHANGED <<row, held, pending, armed, queue, failed, unread, wanted, crossed>>
    BY <1>8 DEF Retry, cartHist
  <2>2. /\ task'.at = "sent" /\ task'.op = task.op /\ task'.p = task.p /\ task'.q = task.q
        /\ task'.body = ItemsFrom(task, row)
    BY <1>1, <2>1 DEF JobType
  <2>3. task' # Idle
    BY <1>2, <2>2
  <2>4. CopyRead'
    BY <2>2 DEF CopyRead
  <2>5. ASSUME NEW x \in Products, Landed(x) PROVE Landed(x)'
    <3>1. CASE Runs(x)
      <4>1. task.op \in {"set", "remove"} /\ task.q = wanted[x] /\ task.p = x
        BY <2>5, <3>1 DEF Landed, Runs
      <4>2. task'.body[x] = wanted[x]
        BY <1>1, <1>2, <2>2, <4>1, BodiesTyped
      <4> QED
        BY <2>1, <2>2, <2>3, <4>1, <4>2 DEF Landed, Runs
    <3>2. CASE ~Runs(x)
      <4>1. row[x] = wanted[x] /\ held # NoCart /\ held[x] = wanted[x]
        BY <2>5, <3>2 DEF Landed
      <4>2. task.op # "load" => task'.body[x] = wanted[x]
        BY <1>1, <1>2, <2>2, <3>2, <4>1, BodiesTyped DEF Runs
      <4> QED
        BY <1>1, <2>1, <2>2, <3>2, <4>1, <4>2 DEF Landed, Runs
    <3> QED
      BY <3>1, <3>2
  <2> QED
    BY <2>1, <2>2, <2>4, <2>5, TaskMoves
<1> QED
  BY <1>3, <1>5, <1>6, <1>7, <1>8

\* The other writers of the row, the pages and the calls.
LEMMA PagesBasket ==
  ASSUME CartTyped, BasketIInv,
         \/ Rival \/ OpenDrawer \/ EnterCheckout \/ Leave
         \/ \E i \in Pays : Pay(i) \/ OrdersServe(i) \/ Hear(i)
  PROVE  BasketIInv'
<1>1. CASE Rival
  <2>1. /\ UNCHANGED <<queue, task, crossed, pending, armed>> /\ unread' = TRUE
        /\ wanted' = [p \in Products |-> None]
    BY <1>1 DEF Rival, storeVars
  <2> QED
    BY <2>1, AskedAgain
<1>2. CASE OpenDrawer \/ EnterCheckout
  BY <1>2, NoWrite DEF OpenDrawer, EnterCheckout, cartHist
<1>3. CASE Leave \/ \E i \in Pays : Pay(i)
  BY <1>3, NoWrite DEF Leave, Pay, storeVars, cartHist
<1>4. ASSUME NEW i \in Pays, OrdersServe(i) PROVE BasketIInv'
  <2>1. /\ UNCHANGED <<queue, task, crossed, pending, armed, held, failed>>
        /\ \/ unread' = TRUE /\ wanted' = [p \in Products |-> None]
           \/ UNCHANGED <<row, unread, wanted>>
    BY <1>4 DEF OrdersServe, storeVars
  <2>2. CASE unread' = TRUE /\ wanted' = [p \in Products |-> None]
    BY <2>1, <2>2, AskedAgain
  <2>3. CASE UNCHANGED <<row, unread, wanted>>
    BY <2>1, <2>3, NoWrite
  <2> QED
    BY <2>1, <2>2, <2>3
<1>5. ASSUME NEW i \in Pays, Hear(i) PROVE BasketIInv'
  <2>1. /\ UNCHANGED <<row, task>>
        /\ \/ Forget
           \/ /\ queue' = Append(queue, Job("load", None, 0))
              /\ UNCHANGED <<held, pending, armed, failed, cartHist>>
    BY <1>5 DEF Hear
  <2>2. CASE Forget
    <3>1. /\ armed' = {} /\ pending' = [p \in Products |-> None] /\ unread' = TRUE
          /\ wanted' = [p \in Products |-> None] /\ UNCHANGED <<queue, crossed>>
      BY <2>2 DEF Forget
    <3> QED
      BY <2>1, <3>1, AskedAgain
  <2>3. CASE /\ queue' = Append(queue, Job("load", None, 0))
             /\ UNCHANGED <<held, pending, armed, failed, cartHist>>
    BY <2>1, <2>3, NoWrite DEF cartHist
  <2> QED
    BY <2>1, <2>2, <2>3
<1> QED
  BY <1>1, <1>2, <1>3, <1>4, <1>5

LEMMA NextBasketInv == CartTyped /\ BasketIInv /\ [CartNext]_cartVars => BasketIInv'
<1> SUFFICES ASSUME CartTyped, BasketIInv, [CartNext]_cartVars PROVE BasketIInv'
  OBVIOUS
<1>1. CASE UNCHANGED cartVars
  BY <1>1, NoWrite DEF cartVars, storeVars, cartHist
<1>2. CASE CartNext
  <2>1. CASE \E p \in Products : Increment(p) \/ Decrease(p) \/ Add(p) \/ Fire(p)
    BY <2>1, ClicksBasket
  <2>2. CASE Begin
    BY <2>2, BeginBasket
  <2>3. CASE Serve \/ Answered \/ CallFails \/ Retry \/ GiveUp
    BY <2>3, TasksBasket
  <2>4. CASE \/ Rival \/ OpenDrawer \/ EnterCheckout \/ Leave
             \/ \E i \in Pays : Pay(i) \/ OrdersServe(i) \/ Hear(i)
    BY <2>4, PagesBasket
  <2> QED
    BY <1>2, <2>1, <2>2, <2>3, <2>4 DEF CartNext, Drawer
<1> QED
  BY <1>1, <1>2

LEMMA BasketInvAgrees == CartTyped /\ BasketIInv => BasketAgrees
<1> SUFFICES ASSUME CartTyped, BasketIInv PROVE BasketAgrees
  OBVIOUS
<1>1. ASSUME Quiet
      PROVE  /\ \A p \in Products : pending[p] = None
             /\ ~failed /\ ~unread => Items(held) = row
             /\ \A p \in Products \ crossed : wanted[p] # None => row[p] = wanted[p]
  <2>1. task = Idle /\ task.op = "idle" /\ task.at = "none" /\ queue = <<>> /\ DOMAIN queue = {} /\ armed = {}
    BY <1>1, TaskTyped DEF Quiet
  <2>2. \A p \in Products : ~SetsIn(queue, task, p) /\ WaitsIn(queue, p) = {} /\ ~Runs(p)
    BY <2>1 DEF SetsIn, WaitsIn, Runs
  <2> QED
    BY <2>1, <2>2 DEF BasketIInv, OverlaysOwed, CopyRead, ClickKept, Landed
<1>2. QuietAgrees
  <2>1. pending \in [Products -> Nat \cup {None}]
    BY DEF CartTyped, CartTypeOK
  <2>2. Quiet => pending = [p \in Products |-> None]
    BY <1>1, <2>1
  <2> QED
    BY <1>1, <2>2 DEF QuietAgrees
<1>3. ClickStands
  BY <1>1 DEF ClickStands
<1> QED
  BY <1>2, <1>3 DEF BasketAgrees, CartTyped

(***************************************************************************)
(* However the clicks, timers, writes, retries, other devices and orders   *)
(* interleave, a cart at rest is the server's, and the server's is what    *)
(* the buyer last asked for: cart-store.ts's queue and overlay.            *)
(***************************************************************************)
THEOREM BasketStaysAgreed == CartSpec => []BasketAgrees
<1>1. CartInit => CartTyped /\ BasketIInv
  BY InitCartTyped, InitBasketInv
<1>2. CartTyped /\ BasketIInv /\ [CartNext]_cartVars => (CartTyped /\ BasketIInv)'
  BY NextCartTyped, NextBasketInv
<1>3. CartTyped /\ BasketIInv => BasketAgrees
  BY BasketInvAgrees
<1> QED
  BY <1>1, <1>2, <1>3, PTL DEF CartSpec

-----------------------------------------------------------------------------
(***************************************************************************)
(* The plain card form. What is posted was checked by the rules Orders     *)
(* checks it by, in the month that paidOn remembers.                       *)
(***************************************************************************)

Checked(e, at) == Half \notin {e.mm, e.yy} /\ e.mm \in 1 .. 12 /\ MonthOf(e) >= at

CardFormInv ==
    /\ CardFormTypeOK /\ checkedIn \in Nat /\ month \in Nat /\ ordersMonth \in Nat /\ paidOn \in Nat
    /\ expiryFits => Checked(expiry, checkedIn)
    /\ posted # NoMetadata =>
          posted.expiry \in Expiries /\ Checked(posted.expiry, paidOn) /\ Len(posted.last4) = 4
    /\ RefusedForCause

\* A part of a number reads as the number does, as far as it goes.
LEMMA PartOfNumber ==
  ASSUME NEW n \in Seq(0 .. 9), NEW k \in 1 .. Len(n)
  PROVE  /\ SubSeq(n, 1, k) \in Seq(0 .. 9) /\ Len(SubSeq(n, 1, k)) = k
         /\ \A j \in 1 .. k : SubSeq(SubSeq(n, 1, k), 1, j) = SubSeq(n, 1, j)
<1>1. SubSeq(n, 1, k) \in Seq(0 .. 9) /\ Len(SubSeq(n, 1, k)) = k
  BY SubSeqProperties
<1>2. ASSUME NEW j \in 1 .. k PROVE SubSeq(SubSeq(n, 1, k), 1, j) = SubSeq(n, 1, j)
  BY SubSeqOfSubSeq
<1> QED
  BY <1>1, <1>2

LEMMA SameBrand ==
  ASSUME NEW n \in Seq(0 .. 9), NEW k \in 4 .. Len(n)
  PROVE  DetectCardBrand(SubSeq(n, 1, k)) = DetectCardBrand(n)
<1> DEFINE part == SubSeq(n, 1, k)
<1>1. Len(part) = k /\ \A j \in 1 .. 4 : SubSeq(part, 1, j) = SubSeq(n, 1, j)
  BY PartOfNumber
<1> HIDE DEF part
<1>2. ASSUME NEW j \in 1 .. 4 PROVE Prefix(part, j) = Prefix(n, j)
  <2>1. Len(n) \in Nat /\ ~(Len(part) < j) /\ ~(Len(n) < j)
    BY <1>1
  <2>2. Prefix(part, j) = Value(SubSeq(part, 1, j)) /\ Prefix(n, j) = Value(SubSeq(n, 1, j))
    BY <2>1, Zenon DEF Prefix
  <2> QED
    BY <1>1, <2>2, Zenon
<1>3. /\ Prefix(part, 1) = Prefix(n, 1) /\ Prefix(part, 2) = Prefix(n, 2)
      /\ Prefix(part, 3) = Prefix(n, 3) /\ Prefix(part, 4) = Prefix(n, 4)
  BY <1>2
<1>4. DetectCardBrand(part) = DetectCardBrand(n)
  BY <1>3 DEF DetectCardBrand
<1> QED
  BY <1>4 DEF part

Room(n) == IF DetectCardBrand(n) = "amex" THEN 15 ELSE 19

LEMMA GroupedIs ==
  ASSUME NEW n \in Seq(0 .. 9)
  PROVE  /\ Len(n) <= Room(n) => Grouped(n) = n
         /\ Len(n) >= Room(n) => Grouped(n) = SubSeq(n, 1, Room(n))
<1>1. SubSeq(n, 1, Len(n)) = n
  BY SubSeqFull
<1>2. Grouped(n) = SubSeq(n, 1, IF Len(n) < Room(n) THEN Len(n) ELSE Room(n))
  BY DEF Grouped, Room
<1>3. Len(n) \in Nat /\ Room(n) \in Nat
  BY DEF Room
<1>4. ASSUME Len(n) <= Room(n) PROVE Grouped(n) = n
  <2>1. (IF Len(n) < Room(n) THEN Len(n) ELSE Room(n)) = Len(n)
    BY <1>3, <1>4
  <2> QED
    BY <1>1, <1>2, <2>1, Zenon
<1>5. ASSUME Len(n) >= Room(n) PROVE Grouped(n) = SubSeq(n, 1, Room(n))
  <2>1. (IF Len(n) < Room(n) THEN Len(n) ELSE Room(n)) = Room(n)
    BY <1>3, <1>5
  <2> QED
    BY <1>2, <2>1, Zenon
<1> QED
  BY <1>4, <1>5

LEMMA GroupsOnce ==
  ASSUME NEW n \in Numbers
  PROVE  Grouped(n) \in Seq(0 .. 9) /\ Grouped(Grouped(n)) = Grouped(n)
<1>1. n \in Seq(0 .. 9) /\ Room(n) \in {15, 19}
  BY NumbersAssumption DEF Room
<1>2. CASE Len(n) <= Room(n)
  BY <1>1, <1>2, GroupedIs
<1>3. CASE ~(Len(n) <= Room(n))
  <2> DEFINE part == SubSeq(n, 1, Room(n))
  <2>1. Room(n) \in 1 .. Len(n) /\ Room(n) \in 4 .. Len(n) /\ Len(n) >= Room(n)
    BY <1>1, <1>3
  <2>2. Grouped(n) = part
    BY <1>1, <2>1, GroupedIs
  <2>3. part \in Seq(0 .. 9) /\ Len(part) = Room(n) /\ DetectCardBrand(part) = DetectCardBrand(n)
    BY <1>1, <2>1, PartOfNumber, SameBrand
  <2> HIDE DEF part
  <2>4. Room(part) = Room(n)
    BY <2>3 DEF Room
  <2>5. Grouped(part) = part
    BY <1>1, <2>3, <2>4, GroupedIs
  <2> QED
    BY <2>2, <2>3, <2>5
<1> QED
  BY <1>2, <1>3

LEMMA StaysTypeable ==
  ASSUME NEW n \in Typeable
  PROVE  n \in Seq(0 .. 9) /\ Grouped(n) \in Typeable
<1>1. CASE n = <<>>
  <2>1. n \in Seq(0 .. 9) /\ Len(n) <= Room(n)
    BY <1>1 DEF Room
  <2>2. Grouped(n) = n
    BY <2>1, GroupedIs
  <2> QED
    BY <1>1, <2>1, <2>2
<1>2. ASSUME NEW m \in Numbers, n = SubSeq(m, 1, 8)
      PROVE  n \in Seq(0 .. 9) /\ Grouped(n) \in Typeable
  <2>1. n \in Seq(0 .. 9) /\ Len(n) = 8
    BY <1>2, NumbersAssumption, PartOfNumber
  <2>2. Grouped(n) = n
    BY <2>1, GroupedIs DEF Room
  <2> QED
    BY <2>1, <2>2
<1>3. ASSUME NEW m \in Numbers, n = Grouped(m)
      PROVE  n \in Seq(0 .. 9) /\ Grouped(n) \in Typeable
  BY <1>3, GroupsOnce
<1> QED
  BY <1>1, <1>2, <1>3 DEF Typeable

LEMMA ExpiryTypes ==
  ASSUME NEW e \in Expiries
  PROVE  MonthOf(e) \in Nat /\ e.mm \in Nat
<1>1. e \in [mm : 0 .. 99 \cup {Half}, yy : 0 .. 99 \cup {Half}] /\ Half \in Nat
  BY CardFormAssumption
<1>2. e.mm \in 0 .. 99 \cup {Half} /\ e.yy \in 0 .. 99 \cup {Half}
  BY <1>1
<1>3. e.mm \in Nat /\ e.yy \in Nat
  BY <1>1, <1>2
<1> QED
  BY <1>3 DEF MonthOf

LEMMA ExpiryIsChecked ==
  ASSUME NEW e \in Expiries, NEW now \in Nat
  PROVE  IsValidExpiry(e, now) \in BOOLEAN /\ (IsValidExpiry(e, now) <=> Checked(e, now))
<1>1. MonthOf(e) \in Nat
  BY ExpiryTypes
<1>2. (now > MonthOf(e)) <=> ~(MonthOf(e) >= now)
  BY <1>1
<1> QED
  BY <1>2 DEF IsValidExpiry, IsCardExpired, Checked

\* A number the validators accept is long enough for the four digits that are posted.
LEMMA ValidIsLong ==
  ASSUME NEW n \in Seq(0 .. 9), IsValidCardNumber(n)
  PROVE  Len(SubSeq(n, Len(n) - 3, Len(n))) = 4
<1>1. DetectCardBrand(n) \in {"visa", "mastercard", "amex", "discover", "diners", "jcb", "unknown"}
  BY DEF DetectCardBrand
<1>2. Len(n) >= 12
  BY <1>1 DEF IsValidCardNumber, LengthsByBrand
<1>3. \A i \in Len(n) - 3 .. Len(n) : n[i] \in 0 .. 9
  BY <1>2
<1> QED
  BY <1>2, <1>3, SubSeqProperties

\* The form and Orders check a card by the same rules, at two times: Orders refuses one
\* that the form let through only for its brand, or because a month turned since.
LEMMA PayKeeps ==
  ASSUME CardFormInv, PayByCard
  PROVE  CardFormInv'
<1>1. /\ FormValid /\ posted' = CardMetadata /\ answer' = "none" /\ paidOn' = checkedIn
      /\ UNCHANGED <<number, expiry, code, named, expiryFits, checkedIn, month, ordersMonth>>
  BY DEF PayByCard
<1>2. number \in Seq(0 .. 9) /\ IsValidCardNumber(number)
  BY <1>1, StaysTypeable DEF CardFormInv, CardFormTypeOK, FormValid, NumberFits
<1>3. Len(SubSeq(number, Len(number) - 3, Len(number))) = 4
  BY <1>2, ValidIsLong
<1>4. expiry \in Expiries /\ Checked(expiry, checkedIn)
  BY <1>1 DEF CardFormInv, CardFormTypeOK, FormValid
<1>5. posted'.expiry = expiry /\ posted'.last4 = SubSeq(number, Len(number) - 3, Len(number))
  BY <1>1 DEF CardMetadata
<1>6. posted'.expiry \in Expiries /\ Checked(posted'.expiry, paidOn') /\ Len(posted'.last4) = 4
  BY <1>1, <1>3, <1>4, <1>5
<1>7. Checked(posted.expiry, paidOn)'
  BY <1>6 DEF Checked, MonthOf
<1>8. CardFormTypeOK' /\ RefusedForCause'
  BY <1>1 DEF CardFormInv, CardFormTypeOK, RefusedForCause
<1>9. expiryFits' => Checked(expiry, checkedIn)'
  BY <1>1 DEF CardFormInv, Checked, MonthOf
<1> QED
  BY <1>1, <1>6, <1>7, <1>8, <1>9 DEF CardFormInv

LEMMA OrdersAnswersKeeps ==
  ASSUME CardFormInv, OrdersAnswers
  PROVE  CardFormInv'
<1>1. /\ posted # NoMetadata
      /\ answer' = IF OrdersAccepts(posted, ordersMonth) THEN "placed" ELSE "refused"
      /\ UNCHANGED <<number, expiry, code, named, expiryFits, checkedIn, month, ordersMonth, posted, paidOn>>
  BY DEF OrdersAnswers
<1>2. /\ posted.expiry \in Expiries /\ Checked(posted.expiry, paidOn) /\ Len(posted.last4) = 4
      /\ paidOn \in Nat /\ ordersMonth \in Nat
  BY <1>1 DEF CardFormInv
<1>3. MonthOf(posted.expiry) \in Nat
  BY <1>2, ExpiryTypes
<1>4. RefusedForCause'
  <2> SUFFICES ASSUME answer' = "refused", posted.brand # NoBrand PROVE ordersMonth > paidOn
    BY <1>1 DEF RefusedForCause
  <2>1. ~(MonthOf(posted.expiry) >= ordersMonth)
    BY <1>1, <1>2 DEF OrdersAccepts, Checked
  <2>2. MonthOf(posted.expiry) >= paidOn
    BY <1>2 DEF Checked
  <2> QED
    BY <1>2, <1>3, <2>1, <2>2
<1>5. CardFormTypeOK'
  BY <1>1 DEF CardFormInv, CardFormTypeOK
<1> QED
  BY <1>1, <1>4, <1>5 DEF CardFormInv, Checked, MonthOf

LEMMA CardFormStep ==
  ASSUME CardFormInv, [CardFormNext]_cardFormVars
  PROVE  CardFormInv'
<1>1. CASE MonthTurns
  <2>1. CardFormTypeOK' /\ RefusedForCause'
    BY <1>1, CardFormAssumption DEF MonthTurns, CardFormInv, CardFormTypeOK, RefusedForCause
  <2> QED
    BY <1>1, <2>1, CardFormAssumption DEF MonthTurns, CardFormInv, Checked, MonthOf
<1>2. CASE \E n \in Typeable : OnCardNumberInput(n)
  <2>1. number' \in Typeable /\ UNCHANGED <<expiry, code, named, expiryFits, checkedIn, month, ordersMonth,
                                            posted, answer, paidOn>>
    BY <1>2, StaysTypeable DEF OnCardNumberInput
  <2> QED
    BY <2>1 DEF CardFormInv, CardFormTypeOK, RefusedForCause, Checked, MonthOf
<1>3. CASE \E e \in Expiries : OnCardExpiryInput(e)
  <2> SUFFICES ASSUME NEW e \in Expiries, OnCardExpiryInput(e) PROVE CardFormInv'
    BY <1>3
  <2>1. /\ expiry' = e /\ expiryFits' = IsValidExpiry(e, month) /\ checkedIn' = month
        /\ UNCHANGED <<number, code, named, month, ordersMonth, posted, answer, paidOn>>
    BY DEF OnCardExpiryInput
  <2>2. expiryFits' \in BOOLEAN /\ (expiryFits' => Checked(e, month))
    BY <2>1, ExpiryIsChecked DEF CardFormInv
  <2>3. CardFormTypeOK' /\ RefusedForCause'
    BY <2>1, <2>2 DEF CardFormInv, CardFormTypeOK, RefusedForCause
  <2>4. expiryFits' => Checked(expiry, checkedIn)'
    BY <2>1, <2>2 DEF Checked, MonthOf
  <2>5. posted' # NoMetadata => posted'.expiry \in Expiries /\ Checked(posted.expiry, paidOn)' /\ Len(posted'.last4) = 4
    BY <2>1 DEF CardFormInv, Checked, MonthOf
  <2> QED
    BY <2>1, <2>3, <2>4, <2>5 DEF CardFormInv
<1>4. CASE \E length \in {0, 3, 4} : OnCardCvcInput(length)
  BY <1>4 DEF OnCardCvcInput, CardFormInv, CardFormTypeOK, RefusedForCause, Checked, MonthOf
<1>5. CASE OnCardHolderInput
  <2>1. named' \in BOOLEAN /\ UNCHANGED <<number, expiry, code, expiryFits, checkedIn, month, ordersMonth,
                                          posted, answer, paidOn>>
    BY <1>5 DEF OnCardHolderInput
  <2> QED
    BY <2>1 DEF CardFormInv, CardFormTypeOK, RefusedForCause, Checked, MonthOf
<1>6. CASE UNCHANGED cardFormVars
  BY <1>6 DEF cardFormVars, CardFormInv, CardFormTypeOK, RefusedForCause, Checked, MonthOf
<1> QED
  BY <1>1, <1>2, <1>3, <1>4, <1>5, <1>6, PayKeeps, OrdersAnswersKeeps DEF CardFormNext

\* The checksum. A double digit less nine, like a digit, tells every digit from
\* every other; and from a digit by an amount that only 0 and 9 share.
Doubled(d) == IF 2 * d > 9 THEN 2 * d - 9 ELSE 2 * d
Weights(n) == [i \in 1 .. Len(n) |-> Weight(n, i)]

LEMMA WeightIs ==
  ASSUME NEW n \in Seq(0 .. 9), NEW i \in 1 .. Len(n)
  PROVE  /\ Weight(n, i) = (IF (Len(n) - i) % 2 = 1 THEN Doubled(n[i]) ELSE n[i])
         /\ Weight(n, i) \in 0 .. 9
<1>1. n[i] \in 0 .. 9
  OBVIOUS
<1>2. Weight(n, i) = (IF (Len(n) - i) % 2 = 1 THEN Doubled(n[i]) ELSE n[i])
  BY <1>1 DEF Weight, Doubled
<1>3. Doubled(n[i]) \in 0 .. 9
  BY <1>1 DEF Doubled
<1> QED
  BY <1>1, <1>2, <1>3

LEMMA WeightsAdd ==
  ASSUME NEW n \in Seq(0 .. 9)
  PROVE  /\ IsFiniteSet(1 .. Len(n)) /\ Weights(n) \in [1 .. Len(n) -> Nat] /\ SumOf(Weights(n)) \in Nat
         /\ PassesLuhn(n) <=> SumOf(Weights(n)) % 10 = 0
<1>1. IsFiniteSet(1 .. Len(n))
  BY FS_Interval
<1>2. \A i \in 1 .. Len(n) : Weight(n, i) \in Nat
  BY WeightIs
<1>3. Weights(n) \in [1 .. Len(n) -> Nat]
  BY <1>2 DEF Weights
<1>4. SumOf(Weights(n)) \in Nat
  BY <1>1, <1>3, SumIsNatural
<1>5. PassesLuhn(n) <=> SumOf(Weights(n)) % 10 = 0
  BY DEF PassesLuhn, Weights
<1> QED
  BY <1>1, <1>3, <1>4, <1>5

LEMMA OffByLessThanTen ==
  ASSUME NEW a \in Nat, NEW b \in Nat, NEW u \in Nat, NEW v \in Nat,
         a % 10 = 0, b + u = a + v, u # v, u - v < 10, v - u < 10
  PROVE  b % 10 # 0
  OBVIOUS

LEMMA MistypedCaught ==
  ASSUME NEW n \in Seq(0 .. 9), PassesLuhn(n), NEW m \in Mistyped(n)
  PROVE  ~PassesLuhn(m)
<1>1. PICK i \in 1 .. Len(n), d \in 0 .. 9 : m = [n EXCEPT ![i] = d] /\ m # n
  BY DEF Mistyped
<1>2. m \in Seq(0 .. 9) /\ Len(m) = Len(n) /\ m[i] = d /\ \A j \in 1 .. Len(n) : j # i => m[j] = n[j]
  BY <1>1
<1>3. n[i] # d
  BY <1>1, <1>2
<1>4. \A j \in 1 .. Len(n) : j # i => Weight(m, j) = Weight(n, j)
  BY <1>2 DEF Weight
<1>5. /\ Weight(m, i) # Weight(n, i)
      /\ Weight(m, i) \in 0 .. 9 /\ Weight(n, i) \in 0 .. 9
  <2>1. n[i] \in 0 .. 9 /\ (Doubled(d) # Doubled(n[i]))
    BY <1>3 DEF Doubled
  <2> QED
    BY <1>2, <1>3, <2>1, WeightIs
<1>6. SumOf(Weights(m)) + Weight(n, i) = SumOf(Weights(n)) + Weight(m, i)
  <2> DEFINE f == Weights(n)
             h == Weights(m)
             D == 1 .. Len(n)
  <2>1. \A j \in D : f[j] = Weight(n, j) /\ h[j] = Weight(m, j)
    BY <1>2 DEF Weights
  <2>2. f \in [D -> Nat] /\ h \in [D -> Nat] /\ IsFiniteSet(D)
    BY <1>2, WeightsAdd
  <2>3. i \in D /\ \A j \in D \ {i} : f[j] = h[j]
    BY <1>4, <2>1
  <2> HIDE DEF f, h, D
  <2>4. SumOf(h) + f[i] = SumOf(f) + h[i]
    BY <2>2, <2>3, SumDiffers
  <2>5. SumOf(h) + Weight(n, i) = SumOf(f) + Weight(m, i)
    BY <2>1, <2>3, <2>4
  <2> QED
    BY <2>5 DEF f, h
<1>7. SumOf(Weights(m)) % 10 # 0
  <2>1. SumOf(Weights(n)) \in Nat /\ SumOf(Weights(m)) \in Nat /\ SumOf(Weights(n)) % 10 = 0
    BY <1>2, WeightsAdd
  <2> QED
    <3>1. PICK a \in Nat, b \in Nat, u \in Nat, v \in Nat :
              /\ a = SumOf(Weights(n)) /\ b = SumOf(Weights(m)) /\ u = Weight(n, i) /\ v = Weight(m, i)
              /\ u \in 0 .. 9 /\ v \in 0 .. 9
      <4>1. Weight(n, i) \in Nat /\ Weight(m, i) \in Nat
        BY <1>5
      <4> QED
        BY <1>5, <2>1, <4>1, Zenon
    <3>2. a % 10 = 0 /\ b + u = a + v /\ u # v /\ u - v < 10 /\ v - u < 10
      <4>1. b + u = a + v
        BY <1>6, <3>1, Zenon
      <4>2. a % 10 = 0
        BY <2>1, <3>1, Zenon
      <4>3. u # v
        BY <1>5, <3>1, Zenon
      <4>4. u \in 0 .. 9 /\ v \in 0 .. 9
        BY <3>1, Zenon
      <4>5. u - v < 10 /\ v - u < 10
        BY <4>4
      <4> QED
        BY <4>1, <4>2, <4>3, <4>5, Zenon
    <3> QED
      BY <3>1, <3>2, OffByLessThanTen
<1> QED
  BY <1>2, <1>7, WeightsAdd

LEMMA SwappedCaught ==
  ASSUME NEW n \in Seq(0 .. 9), PassesLuhn(n), NEW m \in Swapped(n)
  PROVE  ~PassesLuhn(m)
<1>1. PICK i \in 1 .. Len(n) - 1 : /\ m = [n EXCEPT ![i] = n[i + 1], ![i + 1] = n[i]]
                                   /\ n[i] # n[i + 1] /\ {n[i], n[i + 1]} # {0, 9}
  BY DEF Swapped
<1> DEFINE k == i + 1
           x == n[i]
           y == n[k]
<1>2. /\ i \in 1 .. Len(n) /\ k \in 1 .. Len(n) /\ i # k
      /\ x \in 0 .. 9 /\ y \in 0 .. 9 /\ x # y /\ ~(x = 0 /\ y = 9) /\ ~(x = 9 /\ y = 0)
  BY <1>1
<1>3. /\ m \in Seq(0 .. 9) /\ Len(m) = Len(n) /\ m[i] = y /\ m[k] = x
      /\ \A j \in 1 .. Len(n) : j # i /\ j # k => m[j] = n[j]
  BY <1>1, <1>2
<1>4. (Len(n) - i) % 2 = 1 <=> (Len(n) - k) % 2 # 1
  BY <1>2
<1> HIDE DEF k, x, y
<1>5. \A j \in 1 .. Len(n) : j # i /\ j # k => Weight(m, j) = Weight(n, j)
  BY <1>3 DEF Weight
<1> DEFINE f == Weights(n)
           g == [f EXCEPT ![i] = Weight(m, i)]
           h == Weights(m)
<1>6. \A j \in 1 .. Len(n) : f[j] = Weight(n, j) /\ h[j] = Weight(m, j)
  BY <1>3 DEF Weights
<1>7. /\ f \in [1 .. Len(n) -> Nat] /\ h \in [1 .. Len(n) -> Nat] /\ IsFiniteSet(1 .. Len(n))
      /\ SumOf(f) \in Nat /\ SumOf(h) \in Nat /\ SumOf(f) % 10 = 0
  BY <1>3, WeightsAdd
<1> HIDE DEF f, h
<1> DEFINE D == 1 .. Len(n)
<1>8. /\ g \in [1 .. Len(n) -> Nat] /\ g[i] = h[i] /\ g[k] = f[k]
      /\ \A j \in 1 .. Len(n) : j # i => g[j] = f[j]
      /\ \A j \in 1 .. Len(n) : j # k => g[j] = h[j]
  BY <1>2, <1>5, <1>6, <1>7
<1> HIDE DEF g, D
<1>9. SumOf(g) + f[i] = SumOf(f) + h[i] /\ SumOf(h) + f[k] = SumOf(g) + h[k] /\ SumOf(g) \in Nat
  <2>1. f \in [D -> Nat] /\ g \in [D -> Nat] /\ h \in [D -> Nat] /\ IsFiniteSet(D)
    BY <1>7, <1>8 DEF D
  <2>2. i \in D /\ k \in D
    BY <1>2 DEF D
  <2>3. \A j \in D \ {i} : f[j] = g[j]
    BY <1>8 DEF D
  <2>4. \A j \in D \ {k} : g[j] = h[j]
    BY <1>8 DEF D
  <2>5. SumOf(g) + f[i] = SumOf(f) + g[i]
    BY <2>1, <2>2, <2>3, SumDiffers, Zenon
  <2>6. SumOf(h) + g[k] = SumOf(g) + h[k]
    BY <2>1, <2>2, <2>4, SumDiffers, Zenon
  <2>7. SumOf(g) \in Nat
    BY <2>1, SumIsNatural
  <2> QED
    BY <1>8, <2>5, <2>6, <2>7
<1>10. \/ f[i] = Doubled(x) /\ f[k] = y /\ h[i] = Doubled(y) /\ h[k] = x
       \/ f[i] = x /\ f[k] = Doubled(y) /\ h[i] = y /\ h[k] = Doubled(x)
  <2>1. /\ Weight(n, i) = IF (Len(n) - i) % 2 = 1 THEN Doubled(x) ELSE x
        /\ Weight(n, k) = IF (Len(n) - k) % 2 = 1 THEN Doubled(y) ELSE y
    BY <1>2, WeightIs DEF x, y
  <2>2. /\ Weight(m, i) = IF (Len(n) - i) % 2 = 1 THEN Doubled(y) ELSE y
        /\ Weight(m, k) = IF (Len(n) - k) % 2 = 1 THEN Doubled(x) ELSE x
    BY <1>2, <1>3, WeightIs
  <2>3. CASE (Len(n) - i) % 2 = 1
    BY <1>2, <1>4, <1>6, <2>1, <2>2, <2>3
  <2>4. CASE (Len(n) - i) % 2 # 1
    BY <1>2, <1>4, <1>6, <2>1, <2>2, <2>4
  <2> QED
    BY <2>3, <2>4
<1>11. f[i] \in Nat /\ f[k] \in Nat /\ h[i] \in Nat /\ h[k] \in Nat
  BY <1>2, <1>7
<1>12. PICK u \in Nat, v \in Nat : u = f[i] + f[k] /\ v = h[i] + h[k]
  <2>1. f[i] + f[k] \in Nat /\ h[i] + h[k] \in Nat
    BY <1>11
  <2> QED
    BY <2>1, Zenon
<1>13. u # v /\ u - v < 10 /\ v - u < 10 /\ SumOf(h) + u = SumOf(f) + v
  <2>1. SumOf(h) + u = SumOf(f) + v
    <3>1. PICK a \in Nat, b \in Nat, c \in Nat : a = SumOf(f) /\ b = SumOf(g) /\ c = SumOf(h)
      BY <1>7, <1>9, Zenon
    <3>2. b + f[i] = a + h[i] /\ c + f[k] = b + h[k]
      BY <1>9, <3>1, Zenon
    <3>3. c + u = a + v
      <4>1. PICK p \in Nat, q \in Nat, s \in Nat, t \in Nat : p = f[i] /\ q = f[k] /\ s = h[i] /\ t = h[k]
        BY <1>11, Zenon
      <4>2. b + p = a + s /\ c + q = b + t /\ u = p + q /\ v = s + t
        BY <1>12, <3>2, <4>1, Zenon
      <4> QED
        BY <4>2
    <3> QED
      BY <3>1, <3>3, Zenon
  <2>2. \/ u = Doubled(x) + y /\ v = Doubled(y) + x
        \/ u = x + Doubled(y) /\ v = y + Doubled(x)
    BY <1>10, <1>12
  <2>3. u # v /\ u - v < 10 /\ v - u < 10
    BY <1>2, <2>2 DEF Doubled
  <2> QED
    BY <2>1, <2>3
<1>14. SumOf(h) % 10 # 0
  BY <1>7, <1>13, OffByLessThanTen
<1> QED
  BY <1>3, <1>14, WeightsAdd DEF h

LEMMA CardTyposCaught == TyposCaught
  BY NumbersAssumption, MistypedCaught, SwappedCaught DEF TyposCaught, IsValidCardNumber

\* For any cards, expiries, edits and turns of the month on either clock, the form lets
\* through no number with one digit mistyped or two neighbours swapped, and Orders refuses
\* a card that the form let through only for a brand the form does not know, or because a
\* month turned since its expiry was checked (card-validation.ts, CardMetadataValidator).
THEOREM CardFormStaysHonest == CardFormSpec => []CardFormHonest
<1>1. CardFormInit => CardFormInv
  <2> SUFFICES ASSUME CardFormInit PROVE CardFormInv
    OBVIOUS
  <2>1. number \in Typeable
    BY DEF CardFormInit, Typeable
  <2>2. expiry \in Expiries /\ FirstMonth \in Nat
    BY CardFormAssumption DEF CardFormInit
  <2>3. CardFormTypeOK
    <3>1. {named, expiryFits} \subseteq BOOLEAN
      BY Zenon DEF CardFormInit
    <3>2. code \in 0 .. 4 /\ answer \in {"none", "placed", "refused"}
      BY DEF CardFormInit
    <3> QED
      BY <2>1, <2>2, <3>1, <3>2, Zenon DEF CardFormTypeOK
  <2>4. RefusedForCause
    BY DEF CardFormInit, RefusedForCause
  <2> QED
    <3>1. /\ checkedIn \in Nat /\ month \in Nat /\ ordersMonth \in Nat /\ paidOn \in Nat
          /\ ~expiryFits /\ posted = NoMetadata
      BY <2>2 DEF CardFormInit
    <3> QED
      BY <3>1, <2>3, <2>4, Zenon DEF CardFormInv
<1>2. CardFormInv /\ [CardFormNext]_cardFormVars => CardFormInv'
  BY CardFormStep
<1>3. CardFormInv => CardFormHonest
  BY CardTyposCaught DEF CardFormInv, CardFormHonest
<1> QED
  BY <1>1, <1>2, <1>3, PTL DEF CardFormSpec
=============================================================================
