---------------------------- MODULE PasswordReset ----------------------------
(***************************************************************************)
(* Users: forgotten passwords, their codes in Redis, and the change of a   *)
(* password by its owner, with the web pages that ask for them.            *)
(*                                                                         *)
(* All of it is about one user.  A request r for a reset mints the code r; *)
(* a form of the web application is a page "set a new password", or a call *)
(* of PATCH /me/password, which has no code to show.                       *)
(***************************************************************************)
EXTENDS Naturals, FiniteSets

CONSTANTS Resets,      \* requests for a reset, each minting a code of its own
          Pages,       \* pages that set a new password with a code
          Changes,     \* calls that change it as the signed-in user
          NoCode,
          Wrong,       \* a code nobody minted
          MaxTries,    \* bound: codes a page tries
          MaxOutages   \* bound: calls that fail, whether or not they happened

ASSUME ResetAssumption == /\ {NoCode, Wrong} \cap Resets = {} /\ NoCode # Wrong
                          /\ "old" \notin Pages \cup Changes
                          /\ {MaxTries, MaxOutages} \subseteq Nat

VARIABLES
    ask,      \* per request: its step
    kept,     \* Redis: the code whose hash is under the user's key
    mailed,   \* codes whose email was asked for
    latest,   \* history: the last code stored there
    form,     \* per page or change: its step, the code it sent, its tries
    setBy,    \* Cognito: which form's password is in force; "old" before any
    must,     \* users: must_change_password
    claim,    \* Cognito: the attribute that mirrors it
    demanded, \* whether a change is asked of the user
    spent,    \* history: codes a confirmation has deleted
    expired,  \* history: codes Redis dropped for their age
    crossed,  \* history: codes deleted by the confirmation of an earlier one
    outages   \* counter of the bound

askVars   == <<ask, mailed>>
codeVars  == <<kept, latest>>
userVars  == <<setBy, must, claim>>
histories == <<spent, expired, crossed, demanded>>
resetVars == <<askVars, codeVars, form, userVars, histories, outages>>

Forms == Pages \cup Changes
Outage == outages < MaxOutages /\ outages' = outages + 1

ResetTypeOK ==
    /\ ask \in [Resets -> {"new", "sent", "stored", "answered", "failed"}]
    /\ {kept, latest} \subseteq Resets \cup {NoCode} /\ setBy \in Forms \cup {"old"}
    /\ {must, claim, demanded} \subseteq BOOLEAN
    /\ mailed \cup spent \cup expired \cup crossed \subseteq Resets
    /\ form \in [Forms -> [at : {"open", "sent", "matched", "first", "second", "third", "done"},
                          code : Resets \cup {NoCode, Wrong}, tries : Nat]]

\* Somebody with access to the database may have asked for a change.
ResetInit ==
    /\ ask = [r \in Resets |-> "new"] /\ kept = NoCode /\ latest = NoCode /\ mailed = {}
    /\ form = [f \in Forms |-> [at |-> "open", code |-> NoCode, tries |-> 0]]
    /\ setBy = "old" /\ must \in BOOLEAN /\ claim = must /\ demanded = must
    /\ spent = {} /\ expired = {} /\ crossed = {} /\ outages = 0

-----------------------------------------------------------------------------
(***************************************************************************)
(* Asking for a code.                                                      *)
(***************************************************************************)

Asked(r, at) == ask' = [ask EXCEPT ![r] = at]

\* The request page sends one at a time; another page may send another.
SubmitRequest(r) ==
    /\ ask[r] = "new" /\ Asked(r, "sent")
    /\ UNCHANGED <<mailed, codeVars, form, userVars, histories, outages>>

\* One SET of the hash and its ten minutes over whatever was there.
StoreCode(r) ==
    /\ ask[r] = "sent"
    /\ \/ kept' = r /\ Asked(r, "stored") /\ UNCHANGED outages
       \/ kept' \in {kept, r} /\ Asked(r, "failed") /\ Outage
    /\ latest' = IF kept' = r THEN r ELSE latest
    /\ UNCHANGED <<mailed, form, userVars, histories>>

\* A failure to publish is swallowed: the page reads the same 202.
MailCode(r) ==
    /\ ask[r] = "stored" /\ Asked(r, "answered")
    /\ \/ mailed' = mailed \cup {r} /\ UNCHANGED outages
       \/ Outage /\ UNCHANGED mailed
    /\ UNCHANGED <<codeVars, form, userVars, histories>>

ForgotPassword(r) == StoreCode(r) \/ MailCode(r)

Lapse ==
    /\ kept # NoCode /\ kept' = NoCode /\ expired' = expired \cup {kept}
    /\ UNCHANGED <<askVars, latest, form, userVars, spent, crossed, demanded, outages>>

-----------------------------------------------------------------------------
(***************************************************************************)
(* Spending it.                                                            *)
(***************************************************************************)

FormAt(f, step) == form' = [form EXCEPT ![f].at = step]

\* The user types a code they were mailed, or gets it wrong.
SubmitPassword(f) ==
    /\ f \in Pages /\ form[f].at = "open" /\ form[f].tries < MaxTries
    /\ \E code \in mailed \cup {Wrong} :
          form' = [form EXCEPT ![f] = [at |-> "sent", code |-> code, tries |-> @.tries + 1]]
    /\ UNCHANGED <<askVars, codeVars, userVars, histories, outages>>

\* Looking at the code leaves it, right or wrong.
AfterGuess(f) == kept

\* GET and compare.  A mismatch is answered 401, and the page stays.
LookUp(f) ==
    /\ f \in Pages /\ form[f].at = "sent"
    /\ \/ /\ FormAt(f, IF kept = form[f].code THEN "matched" ELSE "open")
          /\ kept' = AfterGuess(f) /\ UNCHANGED outages
       \/ Outage /\ FormAt(f, "open") /\ UNCHANGED kept
    /\ UNCHANGED <<askVars, latest, userVars, histories>>

\* Mutant: the code stays until it expires.
Undeleted == kept
Deleted == NoCode

\* DEL: of whatever is under the key by now.
Consume(f) ==
    /\ form[f].at = "matched"
    /\ \/ /\ kept' = Deleted /\ spent' = spent \cup {form[f].code}
          /\ crossed' = crossed \cup ({kept} \ {NoCode, form[f].code})
          /\ \/ FormAt(f, "first") /\ UNCHANGED outages
             \/ FormAt(f, "open") /\ Outage
       \/ Outage /\ FormAt(f, "open") /\ UNCHANGED <<kept, spent, crossed>>
    /\ UNCHANGED <<askVars, latest, userVars, expired, demanded>>

-----------------------------------------------------------------------------
(***************************************************************************)
(* The change itself, of a page whose code was accepted or of the user.    *)
(***************************************************************************)

\* The token is the proof: no code, and no current password.
ChangePassword(f) ==
    /\ f \in Changes /\ form[f].at = "open" /\ form[f].tries < MaxTries
    /\ form' = [form EXCEPT ![f].at = "first", ![f].tries = @ + 1]
    /\ UNCHANGED <<askVars, codeVars, userVars, histories, outages>>

\* Mutant: the user is let off before the password is set.
FlagFirst == [first |-> "flag", second |-> "password", third |-> "mirror"]
PasswordFirst == [first |-> "password", second |-> "flag", third |-> "mirror"]

Onto == [first |-> "second", second |-> "third", third |-> "done"]
Doing(f, what) == form[f].at \in DOMAIN Onto /\ PasswordFirst[form[f].at] = what
\* A failure answers 500, or the pool's refusal of the password, and the page stays.
Either(f, happened, not) ==
    /\ \/ happened /\ FormAt(f, Onto[form[f].at]) /\ UNCHANGED outages
       \/ (happened \/ not) /\ FormAt(f, "open") /\ Outage
    /\ UNCHANGED <<askVars, codeVars, histories>>

SetPassword(f) ==
    /\ Doing(f, "password") /\ UNCHANGED <<must, claim>>
    /\ Either(f, setBy' = f, UNCHANGED setBy)

SaveFlag(f) ==
    /\ Doing(f, "flag") /\ UNCHANGED <<setBy, claim>>
    /\ Either(f, must' = FALSE, UNCHANGED must)

Mirrored == claim' = FALSE
\* A miss is logged, and the claim stays behind the column.
Mirror(f) ==
    /\ Doing(f, "mirror") /\ FormAt(f, Onto[form[f].at])
    /\ \/ Mirrored /\ UNCHANGED outages
       \/ Outage /\ UNCHANGED claim
    /\ UNCHANGED <<askVars, codeVars, setBy, must, histories>>

Changing(f) == SetPassword(f) \/ SaveFlag(f) \/ Mirror(f)
ConfirmPasswordReset(f) == f \in Pages /\ (LookUp(f) \/ Consume(f) \/ Changing(f))
ChangeMyPassword(f)     == f \in Changes /\ (ChangePassword(f) \/ Changing(f))

\* POST /password/forgot, answered 202 whatever happened, and POST /password/confirm.
PasswordRoutes == \/ \E r \in Resets : ForgotPassword(r)
                  \/ \E f \in Forms : ConfirmPasswordReset(f)

ResetNext ==
    \/ \E r \in Resets : SubmitRequest(r)
    \/ PasswordRoutes \/ Lapse
    \/ \E f \in Forms : SubmitPassword(f) \/ ChangeMyPassword(f)

ResetSpec == ResetInit /\ [][ResetNext]_resetVars

-----------------------------------------------------------------------------
\* Wrong guesses cannot cancel a reset (verifyAndConsume: "Consume only on SUCCESS"): the
\* newest code that was mailed works until it is used or expires, unless a confirmation
\* of an earlier one was between its GET and its DEL when it was stored.
NewestCodeStands ==
    latest \in mailed /\ latest \notin spent \cup expired \cup crossed => kept = latest

\* "The delete on success is what makes a code single-use" (verifyAndConsume): a code
\* that was used is not accepted from a confirmation that comes after.
SpentIsRefused ==
    [][\A f \in Pages : form[f].at = "sent" /\ form'[f].at = "matched"
                        => form[f].code \notin spent]_resetVars

\* A code works from its mail to its use, and no further (ResetCodeStore).
CodeHonoured == []NewestCodeStands /\ SpentIsRefused

\* Nobody is let off the change they were asked for, whatever fails on the way
\* (change-password: "Clearing the flag before a failed password set would tell the
\* frontend to stop asking for a change that never happened"), and the token's claim is
\* cleared after the column that is authoritative.
FlagHonest ==
    demanded => (~must => setBy # "old") /\ (~claim => ~must)
=============================================================================
