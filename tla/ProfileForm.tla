----------------------------- MODULE ProfileForm -----------------------------
(***************************************************************************)
(* The web application's profile form: the values typed, the session user  *)
(* they are seeded from, the GET the page sends on arrival, the PATCH that *)
(* saves, the two effects that follow the user and the model, and the two  *)
(* banners that tell how a save ended.                                     *)
(*                                                                         *)
(* A form is one value.  Saving trims it, and the answer is the form of    *)
(* what was stored.  Effects run some time after the write they follow.    *)
(* Left out: what makes a form invalid, the wording, the scrolling, and    *)
(* the dev-only filler; the address within the form is AddressForm's.      *)
(***************************************************************************)
EXTENDS Naturals

CONSTANTS Values, Trimmed,  \* what may be typed; what the trims make of it
          NoForm,
          MaxSaves, MaxTypes, MaxHovers  \* bounds: saves pressed, edits, moves of the pointer or focus

ASSUME ProfileFormAssumption == "" \in Values /\ \A v \in Values : Trimmed[v] \in Values

VARIABLES
    stored,       \* the profile's row
    user,         \* the session user, as a form; NoForm is null
    getting,      \* load(): "asked", "failed", "idle" or the form read
    model, seededForm,
    sent,       \* the form sent, or NoForm
    patched,      \* the PATCH took effect
    savedForm, saveFailed,
    due,          \* effects due: of "user", of "model", of the banner's restartKey
    hovered, focused, timer,  \* SavedBanner
    saves, types, hovers,     \* counters of the bounds
    mine,         \* history: the text typed since the form was last seeded, saved or cancelled
    typedOver,    \* history: the answer of a save was seeded over it
    notSaved       \* history: the edits a save failed with, until the user acts on them

bannerVars == <<hovered, focused, timer>>
counted == <<saves, types, hovers>>
profileVars == <<stored, user, getting, model, seededForm, sent, patched, savedForm, saveFailed, due,
                 bannerVars, counted, mine, typedOver, notSaved>>

ProfileForms == {Trimmed[v] : v \in Values}

ProfileTypeOK ==
    /\ stored \in ProfileForms /\ user \in ProfileForms \cup {NoForm}
    /\ getting \in ProfileForms \cup {"asked", "failed", "idle"}
    /\ model \in Values /\ seededForm \in Values /\ sent \in Values \cup {NoForm}
    /\ savedForm \in ProfileForms \cup {NoForm} /\ due \subseteq {"user", "model", "banner"}
    /\ {patched, saveFailed, hovered, focused, timer} \subseteq BOOLEAN

\* The page opens over what the session holds already, and asks for the rest.
ProfileInit ==
    /\ stored \in ProfileForms /\ user \in ProfileForms \cup {NoForm}
    /\ getting = "asked" /\ model = "" /\ seededForm = ""
    /\ sent = NoForm /\ patched = FALSE /\ savedForm = NoForm /\ saveFailed = FALSE
    /\ due = {"user", "model"} /\ hovered = FALSE /\ focused = FALSE /\ timer = FALSE
    /\ saves = 0 /\ types = 0 /\ hovers = 0
    /\ mine = NoForm /\ typedOver = FALSE /\ notSaved = NoForm

-----------------------------------------------------------------------------
(* load(), once, and again from the button of the error it left. *)

ReadProfile == getting = "asked" /\ getting' = stored
        /\ UNCHANGED <<stored, user, model, seededForm, sent, patched, savedForm, saveFailed, due,
                       bannerVars, counted, mine, typedOver, notSaved>>

Loaded ==
    /\ getting \in ProfileForms /\ user' = getting /\ getting' = "idle" /\ due' = due \cup {"user"}
    /\ UNCHANGED <<stored, model, seededForm, sent, patched, savedForm, saveFailed, bannerVars, counted,
                   mine, typedOver, notSaved>>

LoadFails ==
    /\ getting = "asked" /\ getting' = "failed"
    /\ UNCHANGED <<stored, user, model, seededForm, sent, patched, savedForm, saveFailed, due, bannerVars,
                   counted, mine, typedOver, notSaved>>

TryAgain ==
    /\ getting = "failed" /\ getting' = "asked"
    /\ UNCHANGED <<stored, user, model, seededForm, sent, patched, savedForm, saveFailed, due, bannerVars,
                   counted, mine, typedOver, notSaved>>

-----------------------------------------------------------------------------
(* The form. *)

Type(v) ==
    /\ user # NoForm /\ types < MaxTypes /\ types' = types + 1
    /\ model' = v /\ due' = due \cup {"model"}
    /\ mine' = IF v = seededForm THEN NoForm ELSE v
    /\ typedOver' = FALSE /\ notSaved' = NoForm
    /\ UNCHANGED <<stored, user, getting, seededForm, sent, patched, savedForm, saveFailed, bannerVars,
                   saves, hovers>>

\* Mutant: the form is reseeded whenever the user changes.
AnyForm == sent = NoForm
Pristine == sent = NoForm /\ model = seededForm

Seed(v) == model' = v /\ seededForm' = v

\* The effects, in the order they were made: the reseed, then the banner's.
Effects ==
    /\ due # {} /\ due' = {}
    /\ LET reseed == "user" \in due /\ user # NoForm /\ Pristine
           kept   == savedForm # NoForm /\ savedForm = model'
       IN /\ IF reseed THEN Seed(user) /\ saveFailed' = FALSE ELSE UNCHANGED <<model, seededForm, saveFailed>>
          /\ savedForm' = IF kept THEN savedForm ELSE NoForm
          /\ IF "banner" \in due \/ ~kept
             THEN timer' = kept /\ hovered' = FALSE /\ focused' = FALSE
             ELSE UNCHANGED bannerVars
    /\ UNCHANGED <<stored, user, getting, sent, patched, counted, mine, typedOver, notSaved>>

DismissSaved == savedForm' = NoForm /\ timer' = FALSE /\ hovered' = FALSE /\ focused' = FALSE

\* discardEdits()
DiscardEdits ==
    /\ user # NoForm /\ DismissSaved /\ saveFailed' = FALSE /\ Seed(user) /\ due' = due \cup {"model"}
    /\ mine' = NoForm /\ notSaved' = NoForm
    /\ UNCHANGED <<stored, user, getting, sent, patched, counted, typedOver>>

SaveProfile ==
    /\ user # NoForm /\ sent = NoForm /\ saves < MaxSaves /\ saves' = saves + 1
    /\ sent' = model /\ patched' = FALSE /\ DismissSaved
    /\ UNCHANGED <<stored, user, getting, model, seededForm, saveFailed, due, types, hovers, mine, typedOver, notSaved>>

Patch ==
    /\ sent # NoForm /\ ~patched /\ patched' = TRUE /\ stored' = Trimmed[sent]
    /\ UNCHANGED <<user, getting, model, seededForm, sent, savedForm, saveFailed, due, bannerVars, counted,
                   mine, typedOver, notSaved>>

\* The answer is seeded, over whatever was typed since.
ProfileSaved ==
    /\ sent # NoForm /\ patched
    /\ user' = Trimmed[sent] /\ Seed(user') /\ saveFailed' = FALSE /\ savedForm' = user'
    /\ due' = due \cup {"user", "model", "banner"} /\ sent' = NoForm
    /\ typedOver' = (model # sent) /\ mine' = (IF typedOver' THEN mine ELSE NoForm) /\ notSaved' = NoForm
    /\ UNCHANGED <<stored, getting, patched, bannerVars, counted>>

\* A failure, or an answer lost after the row was written, keeps the edits.
SaveProfileFails ==
    /\ sent # NoForm /\ sent' = NoForm /\ saveFailed' = TRUE
    /\ notSaved' = IF model = seededForm THEN NoForm ELSE model
    /\ UNCHANGED <<stored, user, getting, model, seededForm, patched, savedForm, due, bannerVars, counted,
                   mine, typedOver>>

DismissSaveError ==
    /\ saveFailed /\ saveFailed' = FALSE /\ notSaved' = NoForm
    /\ UNCHANGED <<stored, user, getting, model, seededForm, sent, patched, savedForm, due, bannerVars,
                   counted, mine, typedOver>>

-----------------------------------------------------------------------------
(* SavedBanner: its X, and a countdown that hover and focus pause. *)

Shown == savedForm # NoForm /\ "banner" \notin due

\* syncTimer
SyncTimer(held) == timer' = ~held

Hover ==
    /\ Shown /\ hovers < MaxHovers /\ hovers' = hovers + 1
    /\ hovered' = ~hovered /\ SyncTimer(hovered' \/ focused) /\ UNCHANGED focused
    /\ UNCHANGED <<stored, user, getting, model, seededForm, sent, patched, savedForm, saveFailed, due,
                   saves, types, mine, typedOver, notSaved>>

Focus ==
    /\ Shown /\ hovers < MaxHovers /\ hovers' = hovers + 1
    /\ focused' = ~focused /\ SyncTimer(hovered \/ focused') /\ UNCHANGED hovered
    /\ UNCHANGED <<stored, user, getting, model, seededForm, sent, patched, savedForm, saveFailed, due,
                   saves, types, mine, typedOver, notSaved>>

CloseBanner ==
    /\ Shown /\ DismissSaved
    /\ UNCHANGED <<stored, user, getting, model, seededForm, sent, patched, saveFailed, due, counted,
                   mine, typedOver, notSaved>>

ProfileNext ==
    \/ ReadProfile \/ Loaded \/ LoadFails \/ TryAgain
    \/ \E v \in Values : Type(v)
    \/ Effects \/ DiscardEdits \/ SaveProfile \/ Patch \/ ProfileSaved \/ SaveProfileFails \/ DismissSaveError
    \/ Hover \/ Focus \/ CloseBanner

ProfileSpec == ProfileInit /\ [][ProfileNext]_profileVars

-----------------------------------------------------------------------------
\* What the user typed stays in the form until a save or Cancel takes it, whatever
\* answers land meanwhile; but the answer of a save overwrites what was typed while
\* it was out.
EditsSurvive == mine # NoForm /\ ~typedOver => model = mine

\* A save that failed over unsaved edits says so until the user acts.
FailureTold == notSaved # NoForm => saveFailed /\ model = notSaved

\* "Changes saved" stands only over the values that were saved, and goes by itself
\* unless the pointer or the focus holds it.
BannerTrue ==
    savedForm # NoForm /\ due = {} =>
        /\ model = savedForm /\ sent = NoForm
        /\ timer # (hovered \/ focused)

\* The form and its two banners tell the truth about what was typed and saved.
FormHonest == ProfileTypeOK /\ EditsSurvive /\ FailureTold /\ BannerTrue
=============================================================================
