---------------------------- MODULE AddressForm ----------------------------
(***************************************************************************)
(* The delivery address as the web application edits it: the checkout      *)
(* page's form and the profile's, and the street field whose suggestions   *)
(* fill both.  A place stands for city, state and ZIP code, which a        *)
(* suggestion fills together; its country has no input and is only known   *)
(* from a suggestion.  A text is one value; Lookup gives the suggestions   *)
(* the geocoder has for it.                                                *)
(*                                                                         *)
(* Left out: the phone number and the name, which the save carries as they *)
(* are, the banners, the dev-only filler, and the option highlighted.      *)
(***************************************************************************)
EXTENDS Naturals

CONSTANTS Texts, Long,    \* street texts, those the geocoder is asked about
          Lookup,         \* suggestions of each long text
          Typed,          \* a place typed by hand
          NoAddress, NoText

ASSUME AddressFormAssumption == NoText \notin Texts

Suggestions == UNION {Lookup[t] : t \in Long}
Country(place) == {""} \cup {s.country : s \in {r \in Suggestions : r.place = place}}

VARIABLES kind,           \* which of the two pages is on show
          address,        \* the session user's address
          fields, seeded,   \* the model; the values it was last seeded with
          resolved,       \* resolvedAddress
          editing, sending, shown, \* shown: history, the form when Save was pressed
          found, dismissed, pendingQuery, lastAccepted, \* StreetAutocomplete
          debounced, emitted, asked, \* its pipeline: debounceTime, distinctUntilChanged, switchMap
          backtracked     \* history: a text came back within the debounce

streetVars  == <<found, dismissed, pendingQuery, lastAccepted, debounced, emitted, asked, backtracked>>
addressVars == <<kind, address, fields, seeded, resolved, editing, sending, shown, streetVars>>

Blank == [street |-> "", line2 |-> "", place |-> ""]
FormOf(a) == IF a = NoAddress THEN Blank ELSE [street |-> a.street, line2 |-> a.line2, place |-> a.place]

AddressInit ==
    /\ kind \in {"checkout", "profile"}
    /\ address \in {NoAddress} \cup
         {[street |-> s.street, line2 |-> "", place |-> s.place, country |-> s.country] : s \in Suggestions}
    /\ fields = IF kind = "profile" THEN FormOf(address) ELSE Blank
    /\ seeded = fields /\ resolved = NoAddress
    /\ editing = FALSE /\ sending = NoAddress /\ shown = Blank
    /\ found = {} /\ dismissed = FALSE /\ pendingQuery = NoText /\ lastAccepted = NoText
    /\ debounced = NoText /\ emitted = NoText /\ asked = NoText /\ backtracked = FALSE

FormShown == kind = "profile" \/ address = NoAddress \/ editing

-----------------------------------------------------------------------------

\* onInput: a new query long enough to be asked is owed an answer.
Owed(t) == IF t = lastAccepted THEN pendingQuery ELSE IF t \in Long THEN t ELSE NoText

\* onStreetTyped: a longer street keeps what was resolved; clearing it starts over.
AfterStreetTyped(t) == IF t = "" THEN NoAddress ELSE resolved

\* The street input changes: the field, its dropdown, and the page's onStreetTyped.
TypeStreet(t) ==
    /\ FormShown /\ t # fields.street
    /\ fields' = [fields EXCEPT !.street = t]
    /\ resolved' = AfterStreetTyped(t)
    /\ dismissed' = FALSE /\ pendingQuery' = Owed(t) /\ lastAccepted' = t
    /\ debounced' = t
    /\ backtracked' = IF t = lastAccepted THEN backtracked ELSE t = emitted /\ debounced # NoText
    /\ UNCHANGED <<kind, address, seeded, editing, sending, shown, found, emitted, asked>>

Arrive(answer) == found' = answer /\ pendingQuery' = NoText

\* The debounce ends; a repeat is swallowed, a short text answers at once, and a
\* long one takes the place of the lookup in flight.
Emit ==
    /\ debounced # NoText /\ debounced' = NoText
    /\ IF debounced = emitted THEN UNCHANGED <<found, pendingQuery, emitted, asked>>
       ELSE /\ emitted' = debounced
            /\ IF debounced \in Long THEN asked' = debounced /\ UNCHANGED <<found, pendingQuery>>
               ELSE asked' = NoText /\ Arrive({})
    /\ UNCHANGED <<kind, address, fields, seeded, resolved, editing, sending, shown, dismissed,
                   lastAccepted, backtracked>>

\* GeocodeApi.suggest turns every failure into an empty list.
LookupAnswers ==
    /\ asked # NoText /\ asked' = NoText
    /\ Arrive(Lookup[asked]) \/ Arrive({})
    /\ UNCHANGED <<kind, address, fields, seeded, resolved, editing, sending, shown, dismissed,
                   lastAccepted, debounced, emitted, backtracked>>

Dismiss == dismissed' = TRUE /\ pendingQuery' = NoText

Escape ==
    /\ FormShown /\ ~dismissed /\ Dismiss
    /\ UNCHANGED <<kind, address, fields, seeded, resolved, editing, sending, shown, found,
                   lastAccepted, debounced, emitted, asked, backtracked>>

\* A chosen suggestion fills the street, and city, state and ZIP with it.
Fill(s) ==
    /\ fields' = [fields EXCEPT !.street = s.street, !.place = s.place]
    /\ resolved' = s

Accept(s) == Fill(s) /\ Dismiss

Select(s) ==
    /\ FormShown /\ ~dismissed /\ s \in found /\ Accept(s)
    /\ UNCHANGED <<kind, address, seeded, editing, sending, shown, found, lastAccepted,
                   debounced, emitted, asked, backtracked>>

\* Escape, or Enter on the option the arrows stand on; which one is left to chance.
OnKeydown == Escape \/ \E s \in Suggestions : Select(s)

-----------------------------------------------------------------------------
\* Mutant: a hand-edited city keeps the suggestion's country.
KeptResolution == resolved

\* Hand-editing city, state or ZIP drops the resolution at checkout only.
AfterPlaceTyped == IF kind = "checkout" THEN NoAddress ELSE resolved

TypePlace ==
    /\ FormShown
    /\ fields' = [fields EXCEPT !.place = Typed] /\ resolved' = AfterPlaceTyped
    /\ UNCHANGED <<kind, address, seeded, editing, sending, shown, streetVars>>

TypeLine2 ==
    /\ FormShown
    /\ \E l \in {"", "apt"} : fields' = [fields EXCEPT !.line2 = l]
    /\ UNCHANGED <<kind, address, seeded, resolved, editing, sending, shown, streetVars>>

StartEditing ==
    /\ kind = "checkout" /\ address # NoAddress /\ ~editing
    /\ editing' = TRUE /\ resolved' = NoAddress /\ fields' = FormOf(address)
    /\ UNCHANGED <<kind, address, seeded, sending, shown, streetVars>>

\* At checkout, Cancel leaves the form as scratch; in the profile it reseeds it
\* and keeps the resolution.
Cancel ==
    /\ IF kind = "checkout"
       THEN editing /\ sending = NoAddress /\ editing' = FALSE /\ resolved' = NoAddress /\ UNCHANGED <<fields, seeded>>
       ELSE fields' = FormOf(address) /\ seeded' = fields' /\ UNCHANGED <<editing, resolved>>
    /\ UNCHANGED <<kind, address, sending, shown, streetVars>>

Spelled(a, country) == [street |-> a.street, line2 |-> a.line2, place |-> a.place, country |-> country]

\* parseAddress: a suggestion's own record under the typed street, or the
\* fields without a country.
ParseAddress ==
    IF resolved # NoAddress
    THEN [street |-> fields.street, line2 |-> "", place |-> resolved.place, country |-> resolved.country]
    ELSE Spelled(fields, "")

\* The profile sends the fields, and prefers the suggestion's country.
ProfileAddress ==
    Spelled(fields, IF resolved # NoAddress THEN resolved.country
                  ELSE IF address # NoAddress THEN address.country ELSE "")

Save ==
    /\ FormShown /\ sending = NoAddress /\ shown' = fields
    /\ IF kind = "checkout" THEN fields.street # "" /\ fields.place # "" /\ sending' = ParseAddress
       ELSE fields.street # "" /\ sending' = ProfileAddress
    /\ UNCHANGED <<kind, address, fields, seeded, resolved, editing, streetVars>>

SaveAnswered ==
    /\ sending # NoAddress /\ address' = sending /\ sending' = NoAddress /\ shown' = Blank
    /\ editing' = FALSE
    /\ IF kind = "profile" THEN fields' = FormOf(sending) /\ seeded' = fields' ELSE UNCHANGED <<fields, seeded>>
    /\ UNCHANGED <<kind, resolved, streetVars>>

SaveFails ==
    /\ sending # NoAddress /\ sending' = NoAddress /\ shown' = Blank
    /\ UNCHANGED <<kind, address, fields, seeded, resolved, editing, streetVars>>

\* The profile's own GET lands with what another device saved: only a pristine
\* form, and none that is being saved, takes it.
Refetched ==
    /\ kind = "profile" /\ sending = NoAddress
    /\ \E s \in Suggestions : address' = Spelled([s EXCEPT !.line2 = "apt"], s.country)
    /\ IF fields = seeded THEN fields' = FormOf(address') /\ seeded' = fields' ELSE UNCHANGED <<fields, seeded>>
    /\ UNCHANGED <<kind, resolved, editing, sending, shown, streetVars>>

AddressNext ==
    \/ \E t \in Texts : TypeStreet(t)
    \/ Emit \/ LookupAnswers \/ OnKeydown
    \/ TypePlace \/ TypeLine2 \/ StartEditing \/ Cancel
    \/ Save \/ SaveAnswered \/ SaveFails \/ Refetched

AddressSpec == AddressInit /\ [][AddressNext]_addressVars

-----------------------------------------------------------------------------
\* While the field says it searches, an answer is on its way, unless the buyer
\* came back to the last query within the debounce.
SearchEnds == pendingQuery # NoText => debounced # NoText \/ asked # NoText \/ backtracked

\* The address a save sends is the one on the screen when it was pressed, but for
\* the second line that checkout drops under a suggestion; and checkout sends no
\* country the place does not belong to.
SavedIsShown ==
    sending # NoAddress =>
        /\ sending.street = shown.street /\ sending.place = shown.place
        /\ sending.line2 # shown.line2 => kind = "checkout" /\ \E s \in Suggestions : sending.place = s.place
        /\ kind = "checkout" => sending.country \in Country(sending.place)

\* The form does not claim to search when it does not, nor sends what it does not show.
AddressHonest == SearchEnds /\ SavedIsShown
=============================================================================
