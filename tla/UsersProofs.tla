----------------------------- MODULE UsersProofs -----------------------------
(***************************************************************************)
(* Proofs about Users, each for any number of calls, pages, cards and      *)
(* rows: passwords and their codes, the profile cache, accounts, sign-in   *)
(* with a mailed code, soft deletion, and saved cards with their copy at   *)
(* Stripe.                                                                 *)
(***************************************************************************)
EXTENDS PasswordReset, ProfileCache, Accounts, CodeSignIn, SoftDelete, PaymentMethods, TLAPS

-----------------------------------------------------------------------------
(***************************************************************************)
(* Passwords. A code that was stored belongs to a request that is past its *)
(* SET, so a used code can never be stored again; and whoever is past the  *)
(* setting of a password has left the old one behind.                      *)
(***************************************************************************)

Ats == {"open", "sent", "matched", "first", "second", "third", "done"}
FormType == [at : Ats, code : Resets \cup {NoCode, Wrong}, tries : Nat]

\* The codes of requests that have stored them, or tried to.
StoredCodes == {r \in Resets : ask[r] \notin {"new", "sent"}}

\* Every code seen anywhere was stored, and the one in Redis was not used.
CodesKnown ==
    /\ kept \in StoredCodes \cup {NoCode}
    /\ mailed \subseteq StoredCodes /\ spent \subseteq StoredCodes
    /\ kept \notin spent
    /\ \A f \in Forms : /\ form[f].at = "sent" => form[f].code \in mailed \cup {Wrong}
                        /\ form[f].at = "matched" => form[f].code \in StoredCodes

\* The newest code is in Redis, or it is known how it left.
NewestTraced == latest \in spent \cup expired \cup crossed \cup {NoCode} \/ kept = latest

\* How far a change is says what is done of it.
ChangeOrder ==
    \A f \in Forms : /\ form[f].at \in {"second", "third"} => setBy # "old"
                     /\ form[f].at = "third" => ~must

ResetIInv == ResetTypeOK /\ CodesKnown /\ NewestTraced /\ ChangeOrder /\ FlagHonest

LEMMA InitResetInv == ResetInit => ResetIInv
<1> SUFFICES ASSUME ResetInit PROVE ResetIInv
  OBVIOUS
<1>1. form \in [Forms -> FormType] /\ \A f \in Forms : form[f].at = "open"
  BY DEF ResetInit, FormType, Ats
<1>2. ResetTypeOK
  BY <1>1 DEF ResetInit, ResetTypeOK, FormType, Ats
<1>3. CodesKnown
  BY <1>1, ResetAssumption DEF ResetInit, CodesKnown
<1>4. NewestTraced
  BY DEF ResetInit, NewestTraced
<1>5. ChangeOrder
  BY <1>1 DEF ChangeOrder
<1>6. FlagHonest
  BY Zenon DEF ResetInit, FlagHonest
<1> QED
  BY <1>2, <1>3, <1>4, <1>5, <1>6 DEF ResetIInv

-----------------------------------------------------------------------------
(* What a step that moves one form leaves of the others. *)
LEMMA FormMoves ==
  ASSUME form \in [Forms -> FormType], NEW f \in Forms, NEW step \in Ats, FormAt(f, step)
  PROVE  /\ form' \in [Forms -> FormType]
         /\ form'[f].at = step /\ form'[f].code = form[f].code
         /\ \A g \in Forms : g # f => form'[g] = form[g]
  BY DEF FormAt, FormType

\* A request's own steps: it stores its code once, and mails what it stored.
LEMMA AskInv ==
  ASSUME ResetIInv, NEW r \in Resets, SubmitRequest(r) \/ ForgotPassword(r)
  PROVE  ResetIInv'
<1>1. /\ ask \in [Resets -> {"new", "sent", "stored", "answered", "failed"}]
      /\ UNCHANGED <<form, setBy, must, claim, spent, expired, crossed, demanded>>
  BY DEF ResetIInv, ResetTypeOK, SubmitRequest, ForgotPassword, StoreCode, MailCode, userVars,
         histories
<1>2. ChangeOrder' /\ FlagHonest'
  BY <1>1, Zenon DEF ResetIInv, ChangeOrder, FlagHonest
<1>3. /\ ResetTypeOK' /\ CodesKnown' /\ NewestTraced'
  <2>1. CASE SubmitRequest(r)
    <3>1. /\ StoredCodes' = StoredCodes /\ UNCHANGED <<mailed, kept, latest>>
          /\ ask' \in [Resets -> {"new", "sent", "stored", "answered", "failed"}]
      BY <1>1, <2>1 DEF SubmitRequest, Asked, StoredCodes, codeVars
    <3> QED
      BY <1>1, <3>1 DEF ResetIInv, ResetTypeOK, CodesKnown, NewestTraced
  <2>2. CASE StoreCode(r)
    <3>1. /\ StoredCodes' = StoredCodes \cup {r} /\ r \notin StoredCodes /\ UNCHANGED mailed
          /\ ask' \in [Resets -> {"new", "sent", "stored", "answered", "failed"}]
          /\ kept' \in {kept, r}
          /\ latest' = IF kept' = r THEN r ELSE latest
      BY <1>1, <2>2 DEF StoreCode, Asked, StoredCodes
    <3> QED
      BY <1>1, <3>1 DEF ResetIInv, ResetTypeOK, CodesKnown, NewestTraced
  <2>3. CASE MailCode(r)
    <3>1. /\ StoredCodes' = StoredCodes /\ r \in StoredCodes /\ UNCHANGED <<kept, latest>>
          /\ ask' \in [Resets -> {"new", "sent", "stored", "answered", "failed"}]
          /\ mailed' \in {mailed, mailed \cup {r}}
      BY <1>1, <2>3 DEF MailCode, Asked, StoredCodes, codeVars
    <3> QED
      BY <1>1, <3>1 DEF ResetIInv, ResetTypeOK, CodesKnown, NewestTraced
  <2> QED
    BY <2>1, <2>2, <2>3 DEF ForgotPassword
<1> QED
  BY <1>2, <1>3 DEF ResetIInv

\* A form's steps before the change: the code is typed, compared and deleted.
LEMMA CodeInv ==
  ASSUME ResetIInv, NEW f \in Forms,
         SubmitPassword(f) \/ LookUp(f) \/ Consume(f) \/ ChangePassword(f)
  PROVE  ResetIInv'
<1>1. /\ form \in [Forms -> FormType] /\ mailed \subseteq Resets
      /\ UNCHANGED <<ask, mailed, latest, setBy, must, claim, demanded>>
  BY DEF ResetIInv, ResetTypeOK, FormType, Ats, SubmitPassword, LookUp, Consume, ChangePassword,
         askVars, codeVars, userVars, histories
<1>2. /\ form' \in [Forms -> FormType]
      /\ form'[f].at \in {"open", "sent", "matched", "first"}
      /\ \A g \in Forms : g # f => form'[g] = form[g]
  <2>1. CASE SubmitPassword(f)
    <3>1. PICK code \in mailed \cup {Wrong} :
            form' = [form EXCEPT ![f] = [at |-> "sent", code |-> code, tries |-> form[f].tries + 1]]
      BY <2>1 DEF SubmitPassword
    <3> QED
      BY <1>1, <3>1 DEF FormType, Ats
  <2>2. CASE LookUp(f) \/ Consume(f)
    <3>1. \E step \in {"open", "matched", "first"} : FormAt(f, step)
      BY <2>2 DEF LookUp, Consume
    <3> QED
      BY <1>1, <3>1, FormMoves DEF Ats
  <2>3. CASE ChangePassword(f)
    BY <1>1, <2>3 DEF ChangePassword, FormType, Ats
  <2> QED
    BY <2>1, <2>2, <2>3
<1>3. ChangeOrder'
  BY <1>1, <1>2 DEF ResetIInv, ChangeOrder
<1>4. FlagHonest'
  BY <1>1, Zenon DEF ResetIInv, FlagHonest
<1>5. /\ kept' \in {kept, NoCode} /\ spent' \subseteq StoredCodes
      /\ spent \subseteq spent' /\ UNCHANGED expired /\ crossed \subseteq crossed'
      /\ crossed' \subseteq Resets
      /\ kept' = NoCode \/ spent' = spent
      /\ kept # kept' => kept \in spent' \cup crossed' \cup {NoCode}
  BY DEF ResetIInv, ResetTypeOK, CodesKnown, SubmitPassword, LookUp, Consume, ChangePassword,
         codeVars, histories, AfterGuess, Deleted
<1>6. /\ form'[f].at = "sent" => form'[f].code \in mailed \cup {Wrong}
      /\ form'[f].at = "matched" => form'[f].code \in StoredCodes
  <2>1. CASE SubmitPassword(f)
    BY <1>1, <2>1 DEF SubmitPassword, FormType
  <2>2. CASE LookUp(f)
    <3>1. FormAt(f, IF kept = form[f].code THEN "matched" ELSE "open") \/ FormAt(f, "open")
      BY <2>2 DEF LookUp
    <3>2. form[f].code \in mailed \cup {Wrong}
      BY <2>2 DEF LookUp, ResetIInv, CodesKnown
    <3>3. kept = form[f].code => form[f].code \in StoredCodes
      BY <3>2, ResetAssumption DEF ResetIInv, CodesKnown, StoredCodes
    <3> QED
      BY <1>1, <3>1, <3>3, FormMoves DEF Ats
  <2>3. CASE Consume(f)
    <3>1. FormAt(f, "first") \/ FormAt(f, "open")
      BY <2>3 DEF Consume
    <3> QED
      BY <1>1, <3>1, FormMoves DEF Ats
  <2>4. CASE ChangePassword(f)
    BY <1>1, <2>4 DEF ChangePassword, FormType
  <2> QED
    BY <2>1, <2>2, <2>3, <2>4
<1>7. CodesKnown'
  <2>1. StoredCodes' = StoredCodes /\ NoCode \notin StoredCodes
    BY <1>1, ResetAssumption DEF StoredCodes
  <2> QED
    BY <1>1, <1>2, <1>5, <1>6, <2>1 DEF ResetIInv, CodesKnown
<1>8. ResetTypeOK'
  BY <1>1, <1>2, <1>5 DEF ResetIInv, ResetTypeOK, FormType, Ats, StoredCodes
<1>9. NewestTraced'
  BY <1>1, <1>5 DEF ResetIInv, NewestTraced
<1> QED
  BY <1>3, <1>4, <1>7, <1>8, <1>9 DEF ResetIInv

\* The three writes of a change, in their order.
LEMMA ChangingInv ==
  ASSUME ResetIInv, NEW f \in Forms, Changing(f)
  PROVE  ResetIInv'
<1>1. /\ form \in [Forms -> FormType]
      /\ UNCHANGED <<ask, mailed, kept, latest, spent, expired, crossed, demanded>>
  BY DEF ResetIInv, ResetTypeOK, FormType, Ats, Changing, SetPassword, SaveFlag, Mirror, Either,
         askVars, codeVars, histories
<1>2. \/ form[f].at = "first" /\ FormAt(f, "second") /\ setBy' = f /\ UNCHANGED <<must, claim>>
      \/ /\ form[f].at = "first" /\ FormAt(f, "open") /\ setBy' \in {setBy, f}
         /\ UNCHANGED <<must, claim>>
      \/ form[f].at = "second" /\ FormAt(f, "third") /\ must' = FALSE /\ UNCHANGED <<setBy, claim>>
      \/ /\ form[f].at = "second" /\ FormAt(f, "open") /\ must' \in {must, FALSE}
         /\ UNCHANGED <<setBy, claim>>
      \/ /\ form[f].at = "third" /\ FormAt(f, "done") /\ claim' \in {claim, FALSE}
         /\ UNCHANGED <<setBy, must>>
  <2>1. form[f].at \in {"first", "second", "third"}
    BY DEF Changing, SetPassword, SaveFlag, Mirror, Doing, Onto
  <2>2. CASE form[f].at = "first"
    <3>1. SetPassword(f) /\ Onto[form[f].at] = "second"
      BY <2>2 DEF Changing, SetPassword, SaveFlag, Mirror, Doing, Onto, PasswordFirst
    <3> QED
      BY <2>2, <3>1 DEF SetPassword, Either
  <2>3. CASE form[f].at = "second"
    <3>1. SaveFlag(f) /\ Onto[form[f].at] = "third"
      BY <2>3 DEF Changing, SetPassword, SaveFlag, Mirror, Doing, Onto, PasswordFirst
    <3> QED
      BY <2>3, <3>1 DEF SaveFlag, Either
  <2>4. CASE form[f].at = "third"
    <3>1. Mirror(f) /\ Onto[form[f].at] = "done"
      BY <2>4 DEF Changing, SetPassword, SaveFlag, Mirror, Doing, Onto, PasswordFirst
    <3> QED
      BY <2>4, <3>1 DEF Mirror, Mirrored
  <2> QED
    BY <2>1, <2>2, <2>3, <2>4
<1>3. /\ form' \in [Forms -> FormType] /\ form'[f].at \in {"open", "second", "third", "done"}
      /\ \A g \in Forms : g # f => form'[g] = form[g]
  BY <1>1, <1>2, FormMoves DEF Ats
<1>4. f # "old" /\ (setBy' # setBy => setBy' = f) /\ (must' => must) /\ (claim' => claim)
  <2>1. f # "old" /\ setBy' \in {setBy, f} /\ must' \in {must, FALSE} /\ claim' \in {claim, FALSE}
    BY <1>2, ResetAssumption DEF Forms
  <2>2. setBy' # setBy => setBy' = f
    BY <2>1
  <2>3. must' => must
    BY <2>1, Zenon
  <2>4. claim' => claim
    BY <2>1, Zenon
  <2> QED
    BY <2>1, <2>2, <2>3, <2>4
<1>5. CodesKnown' /\ NewestTraced'
  <2>1. StoredCodes' = StoredCodes
    BY <1>1 DEF StoredCodes
  <2> QED
    BY <1>1, <1>3, <2>1 DEF ResetIInv, CodesKnown, NewestTraced
<1>6. ResetTypeOK'
  BY <1>1, <1>2, <1>3 DEF ResetIInv, ResetTypeOK, FormType, Ats
<1>7. ChangeOrder'
  <2>1. /\ form'[f].at \in {"second", "third"} => setBy' # "old"
        /\ form'[f].at = "third" => ~must'
    BY <1>1, <1>2, <1>4, FormMoves DEF Ats, ResetIInv, ChangeOrder
  <2> QED
    BY <1>3, <1>4, <2>1 DEF ResetIInv, ChangeOrder
<1>8. FlagHonest'
  <2>1. (must /\ ~must') => setBy # "old" /\ setBy' = setBy
    BY <1>2 DEF ResetIInv, ChangeOrder
  <2>2. (claim /\ ~claim') => ~must /\ ~must'
    BY <1>2 DEF ResetIInv, ChangeOrder
  <2>3. UNCHANGED demanded
    BY <1>1
  <2> QED
    BY <1>4, <2>1, <2>2, <2>3, Zenon DEF ResetIInv, FlagHonest
<1> QED
  BY <1>5, <1>6, <1>7, <1>8 DEF ResetIInv

\* Redis drops the code for its age.
LEMMA LapseInv == ResetIInv /\ Lapse => ResetIInv'
<1> SUFFICES ASSUME ResetIInv, Lapse PROVE ResetIInv'
  OBVIOUS
<1>1. /\ UNCHANGED <<ask, mailed, latest, form, setBy, must, claim, spent, crossed, demanded>>
      /\ kept # NoCode /\ kept' = NoCode /\ expired' = expired \cup {kept}
  BY DEF Lapse, askVars, userVars
<1>2. StoredCodes' = StoredCodes /\ NoCode \notin StoredCodes
  BY <1>1, ResetAssumption DEF StoredCodes
<1>3. ResetTypeOK' /\ CodesKnown' /\ NewestTraced'
  BY <1>1, <1>2 DEF ResetIInv, ResetTypeOK, CodesKnown, NewestTraced
<1>4. ChangeOrder' /\ FlagHonest'
  BY <1>1, Zenon DEF ResetIInv, ChangeOrder, FlagHonest
<1> QED
  BY <1>3, <1>4 DEF ResetIInv

LEMMA NextResetInv == ResetIInv /\ [ResetNext]_resetVars => ResetIInv'
<1> SUFFICES ASSUME ResetIInv, [ResetNext]_resetVars PROVE ResetIInv'
  OBVIOUS
<1>1. CASE UNCHANGED resetVars
  <2>1. UNCHANGED <<ask, mailed, kept, latest, form, setBy, must, claim, spent, expired,
                    crossed, demanded>>
    BY <1>1 DEF resetVars, askVars, codeVars, userVars, histories
  <2>2. StoredCodes' = StoredCodes
    BY <2>1 DEF StoredCodes
  <2>3. ResetTypeOK' /\ CodesKnown' /\ NewestTraced'
    BY <2>1, <2>2 DEF ResetIInv, ResetTypeOK, CodesKnown, NewestTraced
  <2>4. ChangeOrder' /\ FlagHonest'
    BY <2>1, Zenon DEF ResetIInv, ChangeOrder, FlagHonest
  <2> QED
    BY <2>3, <2>4 DEF ResetIInv
<1>2. ASSUME NEW r \in Resets, SubmitRequest(r) \/ ForgotPassword(r) PROVE ResetIInv'
  BY <1>2, AskInv
<1>3. ASSUME NEW f \in Forms, ConfirmPasswordReset(f) \/ SubmitPassword(f) \/ ChangeMyPassword(f)
      PROVE  ResetIInv'
  BY <1>3, CodeInv, ChangingInv DEF ConfirmPasswordReset, ChangeMyPassword
<1> QED
  BY <1>1, <1>2, <1>3, LapseInv DEF ResetNext, PasswordRoutes

LEMMA ResetInv == ResetSpec => []ResetIInv
  BY InitResetInv, NextResetInv, PTL DEF ResetSpec

-----------------------------------------------------------------------------
\* Steps, codes and flags stay of their kind (the password commands, ResetCodeStore).
THEOREM ResetTypeCorrect == ResetSpec => []ResetTypeOK
<1>1. ResetIInv => ResetTypeOK
  BY DEF ResetIInv
<1> QED
  BY <1>1, ResetInv, PTL

\* However many pages, requests and changes overlap and fail, nobody is let off the
\* change they were asked for, and the claim follows the column (change-password).
THEOREM FlagStaysHonest == ResetSpec => []FlagHonest
<1>1. ResetIInv => FlagHonest
  BY DEF ResetIInv
<1> QED
  BY <1>1, ResetInv, PTL

\* The newest code that was mailed works until its use, its age or a crossing deletion
\* takes it, and a used code is refused ever after (ResetCodeStore).
THEOREM CodesAreHonoured == ResetSpec => CodeHonoured
<1>1. ResetIInv => NewestCodeStands
  BY ResetAssumption DEF ResetIInv, NewestTraced, NewestCodeStands, CodesKnown, StoredCodes
<1>2. ResetIInv /\ [ResetNext]_resetVars
        => [\A f \in Pages : form[f].at = "sent" /\ form'[f].at = "matched"
                             => form[f].code \notin spent]_resetVars
  <2> SUFFICES ASSUME ResetIInv, ResetNext, NEW f \in Pages,
                      form[f].at = "sent", form'[f].at = "matched"
               PROVE  form[f].code \notin spent
    OBVIOUS
  <2>1. form \in [Forms -> FormType] /\ f \in Forms
    BY DEF ResetIInv, ResetTypeOK, FormType, Ats, Forms
  <2>2. PICK g \in Forms : LookUp(g)
    <3>1. form' # form
      OBVIOUS
    <3>2. ASSUME NEW g \in Forms, SubmitPassword(g) PROVE FALSE
      BY <2>1, <3>2 DEF SubmitPassword, FormType
    <3>3. ASSUME NEW g \in Forms, ChangePassword(g) \/ Consume(g) PROVE FALSE
      BY <2>1, <3>3 DEF ChangePassword, Consume, FormAt, FormType
    <3>4. ASSUME NEW g \in Forms, Changing(g) PROVE FALSE
      <4>1. \E step \in Ats \ {"matched"} : FormAt(g, step)
        <5>1. form[g].at \in DOMAIN Onto
          BY <3>4 DEF Changing, SetPassword, SaveFlag, Mirror, Doing
        <5>2. Onto[form[g].at] \in {"second", "third", "done"}
          BY <5>1 DEF Onto
        <5> QED
          BY <3>4, <5>2 DEF Changing, SetPassword, SaveFlag, Mirror, Either, Ats
      <4> QED
        BY <2>1, <4>1 DEF FormAt, FormType
    <3>5. ASSUME NEW r \in Resets, SubmitRequest(r) \/ ForgotPassword(r) PROVE FALSE
      BY <3>1, <3>5 DEF SubmitRequest, ForgotPassword, StoreCode, MailCode
    <3>6. ~Lapse
      BY <3>1 DEF Lapse
    <3> QED
      BY <3>2, <3>3, <3>4, <3>5, <3>6
      DEF ResetNext, PasswordRoutes, ConfirmPasswordReset, ChangeMyPassword
  <2>3. f = g /\ kept = form[f].code
    <3>1. \/ FormAt(g, IF kept = form[g].code THEN "matched" ELSE "open")
          \/ FormAt(g, "open")
      BY <2>2 DEF LookUp
    <3> QED
      BY <2>1, <3>1 DEF FormAt, FormType
  <2> QED
    BY <2>3 DEF ResetIInv, CodesKnown
<1> QED
  BY <1>1, <1>2, ResetInv, PTL DEF ResetSpec, CodeHonoured, SpentIsRefused

-----------------------------------------------------------------------------
(***************************************************************************)
(* The profile cache. A body that is stale was read behind, or is stored   *)
(* late, or its deletion is still to come. A body that is none of these    *)
(* needs a pending invalidation as its witness, and the witness, when it   *)
(* runs, takes every body in sight with it.                                *)
(***************************************************************************)

\* A write that has persisted and whose deletion has not run.
Invalidating(e) == edit[e] \in {"second", "late"}

\* Why a body need not be the primary's.
Excused(x) == x.body = primary \/ x.behind \/ x.late \/ \E e \in Edits : Invalidating(e)

\* The body in the cache, and those on their way to it.
BInv == /\ cache # Empty => Excused(cache)
        /\ \A r \in Reads : read[r].at \in {"resolved", "filling"} => Excused(read[r].found)

CacheIInv == CacheTypeOK /\ BInv

ReadType == [at : {"new", "resolved", "filling", "done"}, found : Entry]

LEMMA InitCacheInv == CacheInit => CacheIInv
<1> SUFFICES ASSUME CacheInit PROVE CacheIInv
  OBVIOUS
<1>1. read \in [Reads -> ReadType] /\ edit \in [Edits -> {"new"}]
  BY DEF CacheInit, ReadType, Entry, Empty
<1>2. CacheTypeOK
  BY <1>1 DEF CacheInit, CacheTypeOK, ReadType, Entry, Empty
<1>3. BInv
  BY DEF CacheInit, BInv
<1> QED
  BY <1>2, <1>3 DEF CacheIInv

\* A deletion marks what is on its way and empties the rest.
LEMMA DroppedInv ==
  ASSUME CacheIInv, Dropped, UNCHANGED <<primary, replica>>,
         edit' \in [Edits -> {"new", "first", "second", "late", "done"}]
  PROVE  CacheIInv'
<1>1. /\ read \in [Reads -> ReadType] /\ primary \in Nat /\ replica \in 0 .. primary
  BY DEF CacheIInv, CacheTypeOK, ReadType
<1>2. ASSUME NEW r \in Reads
      PROVE  /\ read'[r] \in ReadType
             /\ read'[r].at \in {"resolved", "filling"} => read'[r].found.late
  <2>1. read[r] \in ReadType
    BY <1>1
  <2>2. CASE read[r].at \in {"resolved", "filling"}
    <3>1. PICK x \in Entry : read[r].found = x
      BY <2>1 DEF ReadType
    <3>2. [x EXCEPT !.late = TRUE] \in Entry /\ [x EXCEPT !.late = TRUE].late
      BY DEF Entry
    <3>3. read'[r] = [read[r] EXCEPT !.found = [x EXCEPT !.late = TRUE]]
      BY <2>2, <3>1 DEF Dropped
    <3> QED
      BY <2>1, <3>2, <3>3 DEF ReadType
  <2>3. CASE read[r].at \notin {"resolved", "filling"}
    BY <2>1, <2>3 DEF Dropped
  <2> QED
    BY <2>2, <2>3
<1>3. read' \in [Reads -> ReadType]
  BY <1>2 DEF Dropped
<1>4. CacheTypeOK'
  BY <1>1, <1>3 DEF CacheTypeOK, Dropped, ReadType, Entry, Empty
<1>5. BInv'
  BY <1>2 DEF BInv, Excused, Dropped
<1> QED
  BY <1>4, <1>5 DEF CacheIInv

-----------------------------------------------------------------------------
(* One step per action. *)

LEMMA NextCacheInv == CacheIInv /\ [CacheNext]_cacheVars => CacheIInv'
<1> SUFFICES ASSUME CacheIInv, [CacheNext]_cacheVars
             PROVE  CacheIInv'
  OBVIOUS
<1>1. /\ primary \in Nat /\ replica \in 0 .. primary
      /\ cache \in Entry /\ read \in [Reads -> ReadType]
      /\ edit \in [Edits -> {"new", "first", "second", "late", "done"}]
  BY DEF CacheIInv, CacheTypeOK, ReadType
<1>2. CASE UNCHANGED cacheVars
  BY <1>2 DEF cacheVars, CacheIInv, CacheTypeOK, BInv, Excused, Invalidating
<1>3. CASE Replicate
  BY <1>1, <1>3 DEF Replicate, CacheIInv, CacheTypeOK, BInv, Excused, Invalidating
<1>4. CASE Age
  BY <1>1, <1>4 DEF Age, CacheIInv, CacheTypeOK, BInv, Excused, Invalidating, Entry, Empty
<1>5. ASSUME NEW r \in Reads, GetMe(r)
      PROVE  CacheIInv'
  <2>1. ASSUME read' \in [Reads -> ReadType], cache' \in Entry,
               UNCHANGED <<primary, replica, edit>>,
               cache' # Empty => Excused(cache'),
               \A o \in Reads : read'[o].at \in {"resolved", "filling"} => Excused(read'[o].found)
        PROVE  CacheIInv'
    BY <1>1, <2>1 DEF CacheIInv, CacheTypeOK, ReadType, BInv, Excused, Invalidating
  <2>2. CASE Resolve(r)
    <3>0. PICK b \in BOOLEAN : b = (replica < primary)
      <4>1. (replica < primary) \in BOOLEAN
        OBVIOUS
      <4> QED
        BY <4>1, Zenon
    <3> DEFINE x == [body |-> replica, behind |-> b, late |-> FALSE]
    <3>1. x \in Entry /\ Excused(x)
      <4>1. x \in Entry
        BY <1>1 DEF Entry
      <4>2. b => Excused(x)
        BY Zenon DEF Excused
      <4>3. ~b => Excused(x)
        <5> SUFFICES ASSUME ~b PROVE x.body = primary
          BY DEF Excused
        <5>1. ~(replica < primary)
          BY <3>0, Zenon
        <5> QED
          BY <1>1, <5>1
      <4> QED
        BY <4>1, <4>2, <4>3, Zenon
    <3>2. /\ read' = [read EXCEPT ![r] = [at |-> "resolved", found |-> x]]
          /\ UNCHANGED <<primary, replica, cache, edit>>
      BY <2>2, <3>0 DEF Resolve
    <3> HIDE DEF x
    <3>3. /\ read'[r].found = x
          /\ \A o \in Reads \ {r} : read'[o] = read[o]
          /\ read' \in [Reads -> ReadType]
      BY <1>1, <3>1, <3>2 DEF ReadType
    <3> QED
      BY <1>1, <2>1, <3>1, <3>2, <3>3 DEF CacheIInv, BInv
  <2>3. CASE LookInCache(r) \/ Fill(r)
    <3>1. /\ read[r].at \in {"resolved", "filling"}
          /\ \E step \in {"done", "filling"} : read' = [read EXCEPT ![r].at = step]
          /\ UNCHANGED <<primary, replica, edit>>
          /\ cache' \in {cache, read[r].found}
      BY <2>3 DEF LookInCache, Fill, Stored, Hit
    <3>2. /\ read'[r].found = read[r].found
          /\ \A o \in Reads \ {r} : read'[o] = read[o]
          /\ read' \in [Reads -> ReadType]
      BY <1>1, <3>1 DEF ReadType
    <3>3. /\ Excused(read[r].found) /\ (cache # Empty => Excused(cache))
          /\ read[r].found \in Entry
      BY <1>1, <3>1 DEF CacheIInv, BInv, ReadType
    <3> QED
      BY <1>1, <2>1, <3>1, <3>2, <3>3 DEF CacheIInv, BInv
  <2> QED
    BY <1>5, <2>2, <2>3 DEF GetMe
<1>6. ASSUME NEW e \in Edits, UpdateMe(e)
      PROVE  CacheIInv'
  <2>1. CASE Submit(e)
    <3>1. \A o \in Edits : Invalidating(o) => edit'[o] = edit[o]
      BY <1>1, <2>1 DEF Submit, Invalidating
    <3> QED
      BY <1>1, <2>1, <3>1 DEF Submit, CacheIInv, CacheTypeOK, BInv, Excused, Invalidating
  <2>2. CASE PersistEdit(e)
    <3>1. /\ edit[e] = "first" /\ edit' = [edit EXCEPT ![e] = "second"]
          /\ primary' = primary + 1 /\ UNCHANGED <<replica, cache, read>>
      <4>1. edit[e] \in {"first", "second"} /\ WriteThenDelete[edit[e]] = "write"
        BY <2>2 DEF PersistEdit, DoingEdit, Onwards
      <4>2. edit[e] = "first"
        BY <4>1 DEF WriteThenDelete
      <4> QED
        BY <2>2, <4>2 DEF PersistEdit, Onwards
    <3>2. edit'[e] = "second"
      BY <1>1, <3>1
    <3> QED
      BY <1>1, <3>1, <3>2 DEF CacheIInv, CacheTypeOK, BInv, Excused, Invalidating
  <2>3. CASE DropEntry(e)
    <3>1. /\ edit[e] = "second" /\ UNCHANGED <<primary, replica>>
          /\ \/ Dropped /\ edit' = [edit EXCEPT ![e] = "done"]
             \/ edit' = [edit EXCEPT ![e] = "late"] /\ UNCHANGED <<cache, read>>
      BY <2>3 DEF DropEntry, DoingEdit, WriteThenDelete, Onwards
    <3>2. CASE Dropped /\ edit' = [edit EXCEPT ![e] = "done"]
      BY <1>1, <3>1, <3>2, DroppedInv
    <3>3. CASE edit' = [edit EXCEPT ![e] = "late"] /\ UNCHANGED <<cache, read>>
      <4>1. edit'[e] = "late"
        BY <1>1, <3>3
      <4> QED
        BY <1>1, <3>1, <3>3, <4>1 DEF CacheIInv, CacheTypeOK, BInv, Excused, Invalidating
    <3> QED
      BY <3>1, <3>2, <3>3
  <2>4. CASE DropLate(e)
    BY <1>1, <2>4, DroppedInv DEF DropLate
  <2> QED
    BY <1>6, <2>1, <2>2, <2>3, <2>4 DEF UpdateMe
<1> QED
  BY <1>2, <1>3, <1>4, <1>5, <1>6 DEF CacheNext

LEMMA CacheInv == CacheSpec => []CacheIInv
  BY InitCacheInv, NextCacheInv, PTL DEF CacheSpec

-----------------------------------------------------------------------------
\* Versions, steps and bodies stay of their kind, and the replica never runs ahead of
\* the primary (MeCacheInterceptor, the replica's reads).
THEOREM CacheTypeCorrect == CacheSpec => []CacheTypeOK
<1>1. CacheIInv => CacheTypeOK
  BY DEF CacheIInv
<1> QED
  BY <1>1, CacheInv, PTL

\* However many reads and writes overlap, "invalidate AFTER the write persists" (updateMe)
\* leaves a stale body no causes but the three that StaleHasCause names.
THEOREM StalenessHasCause == CacheSpec => []StaleHasCause
<1>1. CacheIInv => StaleHasCause
  BY DEF CacheIInv, BInv, StaleHasCause, Excused, Invalidating
<1> QED
  BY <1>1, CacheInv, PTL

-----------------------------------------------------------------------------
(***************************************************************************)
(* Registering and deleting.  Until its row is deleted, a registration     *)
(* that got past Cognito owns the address's account, unless another's      *)
(* deletion took it; and a deletion that has passed a leg has left nothing *)
(* there, unless something new came in behind it.                          *)
(***************************************************************************)

RegAts == {"new", "password", "insert", "capture", "publish", "created", "taken", "failed"}
AccountTypes ==
    /\ pool \in Regs \cup {NoOne} /\ ready \in BOOLEAN /\ inProcess \in BOOLEAN
    /\ userRow \in [Regs -> {"none", "live", "deleted"}] /\ reg \in [Regs -> RegAts]
    /\ entered \in [Regs -> {"no", "in", "refused"}]
    /\ hook \in [Regs -> {"none", "sent", "answered"}]
    /\ snapshot \in [Regs -> Regs \cup {NoOne}] /\ announced \cup orders \cup trackings \subseteq Regs
    /\ met \subseteq Regs \X {"account", "data"}
    /\ deletion \in [Deletions -> [leg : 0 .. 6, of : Regs \cup {NoOne}]]

\* A row exists from its INSERT on, and is deleted by the owner of a finished
\* registration only.
RowsFollowCalls ==
    \A r \in Regs : /\ userRow[r] # "none" => reg[r] \in {"capture", "publish", "created"}
                    /\ userRow[r] = "deleted" => reg[r] = "created"

OwnsAccount(r) ==
    /\ reg[r] \in {"password", "insert", "capture", "publish", "created"}
    /\ userRow[r] # "deleted" /\ <<r, "account">> \notin met

AccountsHeld == \A r \in Regs : OwnsAccount(r) => pool = r /\ (reg[r] # "password" => ready)

\* How far a deletion is says what is gone.
LegsClear ==
    \A d \in Deletions :
        /\ deletion[d].leg # 0 => deletion[d].of \in Regs /\ reg[deletion[d].of] = "created"
        /\ deletion[d].leg \in {4, 5} => userRow[deletion[d].of] = "deleted"
        /\ <<deletion[d].of, "data">> \notin met =>
             /\ deletion[d].leg \in 2 .. 5 => deletion[d].of \notin orders
             /\ deletion[d].leg \in 3 .. 5 => deletion[d].of \notin trackings

AccountsIInv ==
    AccountTypes /\ RowsFollowCalls /\ AccountsHeld /\ LegsClear /\ DataGoesFirst

LEMMA AccountTypesOK == AccountTypes => AccountsTypeOK
  BY DEF AccountTypes, AccountsTypeOK, RegAts

LEMMA InitAccounts == AccountsInit => AccountsIInv
<1> SUFFICES ASSUME AccountsInit PROVE AccountsIInv
  OBVIOUS
<1>1. AccountTypes
  <2>1. /\ deletion \in [Deletions -> [leg : 0 .. 6, of : Regs \cup {NoOne}]]
        /\ reg \in [Regs -> RegAts] /\ userRow \in [Regs -> {"none", "live", "deleted"}]
    BY DEF AccountsInit, RegAts
  <2> QED
    BY <2>1 DEF AccountsInit, AccountTypes
<1>2. RowsFollowCalls /\ AccountsHeld /\ LegsClear /\ DataGoesFirst
  BY DEF AccountsInit, RowsFollowCalls, AccountsHeld, OwnsAccount, LegsClear, DataGoesFirst
<1> QED
  BY <1>1, <1>2 DEF AccountsIInv

\* The legs by their number.
LEMMA LegNumbers ==
  ASSUME AccountTypes, NEW d \in Deletions
  PROVE  /\ OnLeg(d, "orders") <=> deletion[d].leg = 1
         /\ OnLeg(d, "trackings") <=> deletion[d].leg = 2
         /\ OnLeg(d, "row") <=> deletion[d].leg = 3
         /\ OnLeg(d, "identity") <=> deletion[d].leg = 4
         /\ deletion[d].leg \in 2 .. 5 => Past(deletion[d].of, "orders")
         /\ deletion[d].leg \in 3 .. 5 => Past(deletion[d].of, "trackings")
<1>1. deletion[d].leg \in 0 .. 6
  BY DEF AccountTypes
<1>2. /\ CascadeFirst[1] = "orders" /\ CascadeFirst[2] = "trackings"
      /\ CascadeFirst[3] = "row" /\ CascadeFirst[4] = "identity"
  BY DEF CascadeFirst
<1>3. \A n \in 1 .. 4 : n = 1 \/ n = 2 \/ n = 3 \/ n = 4
  OBVIOUS
<1>4. /\ OnLeg(d, "orders") <=> deletion[d].leg = 1
      /\ OnLeg(d, "trackings") <=> deletion[d].leg = 2
      /\ OnLeg(d, "row") <=> deletion[d].leg = 3
      /\ OnLeg(d, "identity") <=> deletion[d].leg = 4
  BY <1>1, <1>2, <1>3 DEF OnLeg
<1>5. deletion[d].leg \in 2 .. 5 => 1 \in 1 .. deletion[d].leg - 1
  BY <1>1
<1>6. deletion[d].leg \in 3 .. 5 => 2 \in 1 .. deletion[d].leg - 1
  BY <1>1
<1> QED
  BY <1>1, <1>2, <1>4, <1>5, <1>6 DEF Past

\* The register calls' own steps.
LEMMA RegisteringKeeps ==
  ASSUME AccountsIInv, NEW r \in Regs, Registering(r)
  PROVE  AccountsIInv'
<1> USE AccountsAssumption
<1>1. AccountTypes /\ RowsFollowCalls /\ AccountsHeld /\ LegsClear /\ DataGoesFirst
  BY DEF AccountsIInv
<1>2. /\ UNCHANGED <<met, deletion, orders, trackings>>
      /\ \E at \in RegAts \ {"new"} : Goes(r, at)
      /\ reg[r] \in {"new", "password", "insert", "capture", "publish"}
  BY DEF Registering, SignUp, SetFirstPassword, InsertUser, CaptureOnRegister, Announce,
         otherVars, RegAts
<1>3. /\ reg' \in [Regs -> RegAts] /\ reg'[r] # "new"
      /\ \A q \in Regs \ {r} : reg'[q] = reg[q]
  BY <1>1, <1>2 DEF Goes, AccountTypes
<1>4. AccountTypes'
  <2>1. CASE SignUp(r)
    BY <1>1, <1>2, <1>3, <2>1 DEF SignUp, AccountTypes, poolVars, usersTables, otherVars
  <2>2. CASE SetFirstPassword(r)
    BY <1>1, <1>2, <1>3, <2>2 DEF SetFirstPassword, AccountTypes, usersTables, otherVars
  <2>3. CASE InsertUser(r)
    BY <1>1, <1>2, <1>3, <2>3 DEF InsertUser, AccountTypes, poolVars, otherVars
  <2>4. CASE CaptureOnRegister(r)
    BY <1>1, <1>2, <1>3, <2>4
       DEF CaptureOnRegister, Captured, AccountTypes, poolVars, otherVars
  <2>5. CASE Announce(r)
    BY <1>1, <1>2, <1>3, <2>5 DEF Announce, AccountTypes, poolVars, usersTables, otherVars
  <2> QED
    BY <2>1, <2>2, <2>3, <2>4, <2>5 DEF Registering
<1>5. userRow[r] # "deleted" /\ \A q \in Regs \ {r} : userRow'[q] = userRow[q]
  BY <1>1, <1>2 DEF RowsFollowCalls, AccountTypes, Registering, SignUp, SetFirstPassword,
         InsertUser, CaptureOnRegister, Announce, usersTables
<1>6. /\ userRow'[r] # "none" => reg'[r] \in {"capture", "publish", "created"}
      /\ userRow'[r] # "deleted"
  <2>1. CASE InsertUser(r)
    BY <1>1, <2>1 DEF InsertUser, Goes, AccountTypes, RowsFollowCalls
  <2>2. CASE SignUp(r) \/ SetFirstPassword(r)
    BY <1>1, <2>2 DEF SignUp, SetFirstPassword, usersTables, RowsFollowCalls
  <2>3. CASE CaptureOnRegister(r) \/ Announce(r)
    BY <1>1, <1>5, <2>3 DEF CaptureOnRegister, Announce, Goes, usersTables, AccountTypes
  <2> QED
    BY <2>1, <2>2, <2>3 DEF Registering
<1>7. RowsFollowCalls'
  BY <1>1, <1>3, <1>5, <1>6 DEF RowsFollowCalls
<1>8. AccountsHeld'
  <2> SUFFICES ASSUME NEW q \in Regs, OwnsAccount(q)'
               PROVE  pool' = q /\ (reg'[q] # "password" => ready')
    BY DEF AccountsHeld
  <2>1. CASE SignUp(r)
    <3>1. CASE q = r
      BY <1>1, <2>1, <3>1 DEF SignUp, Goes, OwnsAccount, AccountTypes
    <3>2. CASE q # r
      <4>1. OwnsAccount(q) /\ pool = q /\ pool # NoOne
        BY <1>1, <1>2, <1>3, <1>5, <3>2 DEF OwnsAccount, AccountsHeld
      <4> QED
        BY <1>1, <1>3, <2>1, <3>2, <4>1 DEF SignUp, Free, AccountsHeld, poolVars
    <3> QED
      BY <3>1, <3>2
  <2>2. CASE ~SignUp(r)
    <3>1. OwnsAccount(q)
      BY <1>1, <1>2, <1>3, <1>5, <2>2
         DEF OwnsAccount, Registering, SetFirstPassword, InsertUser, CaptureOnRegister,
             Announce
    <3>2. pool = q /\ pool # NoOne /\ pool' = pool /\ (reg[q] # "password" => ready)
      BY <1>1, <2>2, <3>1
         DEF AccountsHeld, Registering, SetFirstPassword, InsertUser, CaptureOnRegister,
             Announce, poolVars
    <3>3. CASE SetFirstPassword(r)
      <4>1. ready' \in {ready, TRUE}
        BY <3>2, <3>3, Zenon DEF SetFirstPassword
      <4>2. q = r => reg'[r] = "failed" \/ ready'
        BY <1>1, <3>2, <3>3 DEF SetFirstPassword, Goes, AccountTypes
      <4> QED
        BY <1>3, <3>2, <4>1, <4>2 DEF OwnsAccount
    <3>4. CASE ~SetFirstPassword(r)
      BY <1>1, <1>2, <1>3, <2>2, <3>2, <3>4
         DEF Registering, InsertUser, CaptureOnRegister, Announce, poolVars
    <3> QED
      BY <3>3, <3>4
  <2> QED
    BY <2>1, <2>2
<1>9. LegsClear'
  BY <1>1, <1>2, <1>3, <1>5 DEF LegsClear, AccountTypes
<1>10. DataGoesFirst'
  BY <1>1, <1>2, <1>5, <1>6 DEF DataGoesFirst
<1> QED
  BY <1>4, <1>7, <1>8, <1>9, <1>10 DEF AccountsIInv

\* The sign-ins and the trigger leave all that the invariant speaks of.
LEMMA AsidesKeep ==
  ASSUME AccountsIInv, NEW r \in Regs,
         EnterWithPassword(r) \/ EnterWithCode(r) \/ IdentityWebhook(r)
  PROVE  AccountsIInv'
<1>1. /\ UNCHANGED <<pool, ready, userRow, reg, announced, deletion, orders, trackings,
                     inProcess, met>>
      /\ entered' \in [Regs -> {"no", "in", "refused"}]
      /\ hook' \in [Regs -> {"none", "sent", "answered"}]
      /\ snapshot' \in [Regs -> Regs \cup {NoOne}]
  BY DEF AccountsIInv, AccountTypes, EnterWithPassword, EnterWithCode, Entering,
         IdentityWebhook, Captured, poolVars, usersTables, otherVars
<1> QED
  BY <1>1 DEF AccountsIInv, AccountTypes, RowsFollowCalls, AccountsHeld, OwnsAccount,
              LegsClear, DataGoesFirst

\* A step of a deletion moves that one on, or ends it.
LEMMA DeletionMoves ==
  ASSUME AccountTypes, NEW d \in Deletions, deletion[d].leg \in 1 .. 4,
         Onward(d) \/ GivesUp(d)
  PROVE  /\ deletion' \in [Deletions -> [leg : 0 .. 6, of : Regs \cup {NoOne}]]
         /\ \A e \in Deletions : /\ deletion'[e].of = deletion[e].of
                                 /\ e # d => deletion'[e] = deletion[e]
         /\ Onward(d) => deletion'[d].leg = deletion[d].leg + 1
         /\ GivesUp(d) => deletion'[d].leg = 6
  BY DEF AccountTypes, Onward, GivesUp

\* The two legs of the cascade.
LEMMA CascadeKeeps ==
  ASSUME AccountsIInv, NEW d \in Deletions, DeleteOrders(d) \/ DeleteTrackings(d)
  PROVE  AccountsIInv'
<1>1. AccountTypes /\ RowsFollowCalls /\ AccountsHeld /\ LegsClear /\ DataGoesFirst
  BY DEF AccountsIInv
<1>2. /\ UNCHANGED <<pool, ready, userRow, snapshot, reg, entered, announced, hook,
                     inProcess, met>>
      /\ orders' \subseteq orders /\ trackings' \subseteq trackings
      /\ Onward(d) \/ GivesUp(d)
  BY DEF DeleteOrders, DeleteTrackings, Cascade, poolVars, usersTables
<1>3. /\ deletion[d].leg \in {1, 2}
      /\ Onward(d) /\ deletion[d].leg = 1 => deletion[d].of \notin orders'
      /\ Onward(d) /\ deletion[d].leg = 2 => deletion[d].of \notin trackings'
  <2>1. deletion[d].leg \in {1, 2}
    BY <1>1, LegNumbers DEF DeleteOrders, DeleteTrackings, Cascade
  <2>2. ~(Onward(d) /\ GivesUp(d))
    BY <1>1, <2>1, DeletionMoves
  <2>3. /\ deletion[d].leg = 1 => DeleteOrders(d)
        /\ deletion[d].leg = 2 => DeleteTrackings(d)
    BY <1>1, <2>1, LegNumbers DEF DeleteOrders, DeleteTrackings, Cascade
  <2> QED
    BY <2>1, <2>2, <2>3 DEF DeleteOrders, DeleteTrackings, Cascade
<1>4. /\ deletion' \in [Deletions -> [leg : 0 .. 6, of : Regs \cup {NoOne}]]
      /\ \A e \in Deletions : /\ deletion'[e].of = deletion[e].of
                              /\ e # d => deletion'[e] = deletion[e]
      /\ Onward(d) => deletion'[d].leg = deletion[d].leg + 1
      /\ GivesUp(d) => deletion'[d].leg = 6
  BY <1>1, <1>2, <1>3, DeletionMoves
<1>5. AccountTypes'
  BY <1>1, <1>2, <1>4 DEF AccountTypes
<1>6. LegsClear'
  <2> SUFFICES ASSUME NEW e \in Deletions
               PROVE  /\ deletion'[e].leg # 0 => deletion'[e].of \in Regs /\ reg'[deletion'[e].of] = "created"
                      /\ deletion'[e].leg \in {4, 5} => userRow'[deletion'[e].of] = "deleted"
                      /\ <<deletion'[e].of, "data">> \notin met' =>
                           /\ deletion'[e].leg \in 2 .. 5 => deletion'[e].of \notin orders'
                           /\ deletion'[e].leg \in 3 .. 5 => deletion'[e].of \notin trackings'
    BY DEF LegsClear
  <2>1. CASE e # d
    BY <1>1, <1>2, <1>4, <2>1 DEF LegsClear
  <2>2. CASE e = d
    BY <1>1, <1>2, <1>3, <1>4, <2>2 DEF LegsClear
  <2> QED
    BY <2>1, <2>2
<1>7. RowsFollowCalls' /\ AccountsHeld' /\ DataGoesFirst'
  BY <1>1, <1>2 DEF RowsFollowCalls, AccountsHeld, OwnsAccount, DataGoesFirst
<1> QED
  BY <1>5, <1>6, <1>7 DEF AccountsIInv

\* The row's deletion, and the account's.
LEMMA LastLegsKeep ==
  ASSUME AccountsIInv, NEW d \in Deletions, DeleteRow(d) \/ DeleteIdentity(d)
  PROVE  AccountsIInv'
<1> USE AccountsAssumption
<1>1. AccountTypes /\ RowsFollowCalls /\ AccountsHeld /\ LegsClear /\ DataGoesFirst
  BY DEF AccountsIInv
<1> DEFINE r == deletion[d].of
<1>2. /\ UNCHANGED <<snapshot, reg, entered, announced, hook, orders, trackings, inProcess>>
      /\ Onward(d) \/ GivesUp(d)
      /\ deletion[d].leg \in {3, 4}
      /\ deletion[d].leg = 3 => DeleteRow(d)
      /\ deletion[d].leg = 4 => DeleteIdentity(d)
  BY <1>1, LegNumbers DEF DeleteRow, DeleteIdentity, usersTables, otherVars
<1>3. r \in Regs /\ reg[r] = "created"
  <2>1. deletion[d].leg # 0
    BY <1>2
  <2> QED
    BY <1>1, <2>1 DEF LegsClear
<1>4. /\ deletion' \in [Deletions -> [leg : 0 .. 6, of : Regs \cup {NoOne}]]
      /\ \A e \in Deletions : /\ deletion'[e].of = deletion[e].of
                              /\ e # d => deletion'[e] = deletion[e]
      /\ Onward(d) => deletion'[d].leg = deletion[d].leg + 1
      /\ GivesUp(d) => deletion'[d].leg = 6
  BY <1>1, <1>2, DeletionMoves
<1> HIDE DEF r
<1>5. CASE deletion[d].leg = 3
  <2>1. /\ UNCHANGED <<pool, ready, met>>
        /\ \/ Onward(d) /\ userRow' = [userRow EXCEPT ![r] = "deleted"]
           \/ GivesUp(d) /\ UNCHANGED userRow
    BY <1>2, <1>5 DEF DeleteRow, poolVars, r
  <2>2. /\ userRow' \in [Regs -> {"none", "live", "deleted"}]
        /\ \A q \in Regs \ {r} : userRow'[q] = userRow[q]
        /\ userRow'[r] \in {userRow[r], "deleted"}
    BY <1>1, <1>3, <2>1 DEF AccountTypes
  <2>3. AccountTypes'
    BY <1>1, <1>2, <1>4, <2>1, <2>2 DEF AccountTypes
  <2>4. RowsFollowCalls' /\ AccountsHeld'
    BY <1>1, <1>2, <1>3, <2>1, <2>2 DEF RowsFollowCalls, AccountsHeld, OwnsAccount
  <2>5. <<r, "data">> \notin met => r \notin orders \cup trackings
    BY <1>1, <1>5 DEF LegsClear, r
  <2>6. DataGoesFirst'
    BY <1>1, <1>2, <2>1, <2>2, <2>5 DEF DataGoesFirst
  <2>7. LegsClear'
    <3> SUFFICES ASSUME NEW e \in Deletions
                 PROVE  /\ deletion'[e].leg # 0 => deletion[e].of \in Regs /\ reg[deletion[e].of] = "created"
                        /\ deletion'[e].leg \in {4, 5} => userRow'[deletion[e].of] = "deleted"
                        /\ <<deletion[e].of, "data">> \notin met =>
                             /\ deletion'[e].leg \in 2 .. 5 => deletion[e].of \notin orders
                             /\ deletion'[e].leg \in 3 .. 5 => deletion[e].of \notin trackings
      BY <1>2, <1>4, <2>1 DEF LegsClear
    <3>1. CASE e # d
      <4>1. deletion'[e].leg \in {4, 5} => deletion[e].of \in Regs /\ userRow[deletion[e].of] = "deleted"
        <5>1. deletion'[e] = deletion[e] /\ (deletion[e].leg \in {4, 5} => deletion[e].leg # 0)
          BY <1>4, <3>1
        <5> QED
          BY <1>1, <5>1 DEF LegsClear
      <4> QED
        BY <1>1, <1>4, <2>2, <3>1, <4>1 DEF LegsClear
    <3>2. CASE e = d
      <4>1. Onward(d) => userRow'[r] = "deleted"
        BY <1>1, <1>3, <1>4, <2>1, <1>5 DEF AccountTypes
      <4> QED
        BY <1>1, <1>2, <1>3, <1>4, <1>5, <2>5, <3>2, <4>1 DEF r
    <3> QED
      BY <3>1, <3>2
  <2> QED
    BY <2>3, <2>4, <2>6, <2>7 DEF AccountsIInv
<1>6. CASE deletion[d].leg = 4
  <2>1. /\ UNCHANGED userRow /\ Onward(d)
        /\ \/ /\ pool' = NoOne /\ ready' = FALSE
              /\ met' = IF pool \in {NoOne, r} THEN met ELSE met \cup {<<pool, "account">>}
           \/ UNCHANGED <<pool, ready, met>>
    BY <1>2, <1>6 DEF DeleteIdentity, poolVars, usersTables, r
  <2>2. userRow[r] = "deleted"
    BY <1>1, <1>6 DEF LegsClear, r
  <2>3. AccountTypes'
    <3>1. met' \subseteq Regs \X {"account", "data"}
      BY <1>1, <2>1 DEF AccountTypes
    <3>2. pool' \in Regs \cup {NoOne} /\ ready' \in BOOLEAN
      BY <1>1, <2>1 DEF AccountTypes
    <3> QED
      BY <1>1, <1>2, <1>4, <2>1, <3>1, <3>2 DEF AccountTypes
  <2>4. \A q \in Regs : /\ <<q, "data">> \in met' <=> <<q, "data">> \in met
                        /\ <<q, "account">> \in met => <<q, "account">> \in met'
    BY <2>1
  <2>5. AccountsHeld'
    BY <1>1, <1>2, <2>1, <2>2 DEF AccountsHeld, OwnsAccount
  <2>6. RowsFollowCalls' /\ DataGoesFirst'
    BY <1>1, <1>2, <2>1, <2>4 DEF RowsFollowCalls, DataGoesFirst
  <2>7. LegsClear'
    <3>1. ASSUME NEW e \in Deletions, deletion'[e].leg # 0
          PROVE  /\ deletion'[e].of \in Regs /\ reg'[deletion'[e].of] = "created"
                 /\ deletion'[e].leg \in {4, 5} => userRow'[deletion'[e].of] = "deleted"
                 /\ <<deletion'[e].of, "data">> \notin met' =>
                      /\ deletion'[e].leg \in 2 .. 5 => deletion'[e].of \notin orders'
                      /\ deletion'[e].leg \in 3 .. 5 => deletion'[e].of \notin trackings'
      <4>1. CASE e # d
        BY <1>1, <1>2, <1>4, <2>1, <2>4, <3>1, <4>1 DEF LegsClear
      <4>2. CASE e = d
        BY <1>1, <1>2, <1>3, <1>4, <1>6, <2>1, <2>2, <2>4, <4>2 DEF LegsClear, r
      <4> QED
        BY <4>1, <4>2
    <3>2. \A e \in Deletions : deletion'[e].leg = 0 => deletion'[e].leg \notin 2 .. 5 /\ deletion'[e].leg \notin {4, 5}
      OBVIOUS
    <3>3. \A e \in Deletions : deletion'[e].leg \in 3 .. 5 => deletion'[e].leg \in 2 .. 5
      OBVIOUS
    <3> QED
      BY <3>1, <3>2, <3>3 DEF LegsClear
  <2> QED
    BY <2>3, <2>5, <2>6, <2>7 DEF AccountsIInv
<1> QED
  BY <1>2, <1>5, <1>6

\* What comes in for a live row, behind a deletion that has passed or not.
LEMMA DataComesIn ==
  ASSUME AccountsIInv, NEW r \in Regs, Order(r) \/ Track(r)
  PROVE  AccountsIInv'
<1>1. AccountTypes /\ RowsFollowCalls /\ AccountsHeld /\ LegsClear /\ DataGoesFirst
  BY DEF AccountsIInv
<1>2. /\ UNCHANGED <<pool, ready, userRow, snapshot, reg, entered, announced, hook, deletion,
                     inProcess>>
      /\ orders' \in {orders, orders \cup {r}} /\ trackings' \in {trackings, trackings \cup {r}}
      /\ met' \in {met, met \cup {<<r, "data">>}}
  BY DEF Order, Track, poolVars, usersTables, callVars
<1>3. /\ AccountTypes'
      /\ \A q \in Regs : <<q, "account">> \in met' <=> <<q, "account">> \in met
      /\ \A q \in Regs : <<q, "data">> \in met => <<q, "data">> \in met'
  BY <1>1, <1>2 DEF AccountTypes
<1>4. RowsFollowCalls' /\ AccountsHeld'
  BY <1>1, <1>2, <1>3 DEF RowsFollowCalls, AccountsHeld, OwnsAccount
<1>5. /\ orders' # orders => /\ userRow[r] # "deleted"
                             /\ Past(r, "orders") => <<r, "data">> \in met'
      /\ trackings' # trackings => /\ r \in orders
                                   /\ Past(r, "trackings") => <<r, "data">> \in met'
  BY DEF Order, Track, IsLive
<1>6. DataGoesFirst'
  BY <1>1, <1>2, <1>3, <1>5 DEF DataGoesFirst
<1>7. LegsClear'
  <2>1. ASSUME NEW d \in Deletions, <<deletion[d].of, "data">> \notin met', deletion[d].leg # 0
        PROVE  /\ deletion[d].leg \in 2 .. 5 => deletion[d].of \notin orders'
               /\ deletion[d].leg \in 3 .. 5 => deletion[d].of \notin trackings'
    <3>1. deletion[d].of \in Regs /\ <<deletion[d].of, "data">> \notin met
      BY <1>1, <1>3, <2>1 DEF LegsClear
    <3>2. /\ deletion[d].leg \in 2 .. 5 => Past(deletion[d].of, "orders")
          /\ deletion[d].leg \in 3 .. 5 => Past(deletion[d].of, "trackings")
      BY <1>1, LegNumbers
    <3> QED
      BY <1>1, <1>2, <1>5, <2>1, <3>1, <3>2 DEF LegsClear
  <2>2. \A d \in Deletions : deletion[d].leg = 0 => deletion[d].leg \notin 2 .. 5
    OBVIOUS
  <2>3. \A d \in Deletions : deletion[d].leg \in 3 .. 5 => deletion[d].leg \in 2 .. 5
    BY <1>1 DEF AccountTypes
  <2> QED
    BY <1>1, <1>2, <2>1, <2>2, <2>3 DEF LegsClear
<1> QED
  BY <1>3, <1>4, <1>6, <1>7 DEF AccountsIInv

LEMMA NextAccounts == AccountsIInv /\ [AccountsNext]_accountVars => AccountsIInv'
<1> SUFFICES ASSUME AccountsIInv, [AccountsNext]_accountVars PROVE AccountsIInv'
  OBVIOUS
<1>1. CASE UNCHANGED accountVars
  BY <1>1 DEF accountVars, poolVars, usersTables, callVars, otherVars, AccountsIInv,
     AccountTypes, RowsFollowCalls, AccountsHeld, OwnsAccount, LegsClear, DataGoesFirst
<1>2. ASSUME NEW r \in Regs, Register(r) \/ RegisterPasswordless(r) PROVE AccountsIInv'
  BY <1>2, RegisteringKeeps DEF Register, RegisterPasswordless
<1>3. ASSUME NEW r \in Regs, EnterWithPassword(r) \/ EnterWithCode(r) \/ IdentityWebhook(r)
      PROVE  AccountsIInv'
  BY <1>3, AsidesKeep
<1>4. ASSUME NEW r \in Regs, Order(r) \/ Track(r) PROVE AccountsIInv'
  BY <1>4, DataComesIn
<1>5. ASSUME NEW d \in Deletions, DeleteAccount(d) PROVE AccountsIInv'
  BY <1>5, CascadeKeeps, LastLegsKeep DEF DeleteAccount
<1>6. ASSUME NEW d \in Deletions, NEW s \in Regs, DeleteMe(d, s) PROVE AccountsIInv'
  <2>1. AccountTypes /\ RowsFollowCalls /\ AccountsHeld /\ LegsClear /\ DataGoesFirst
    BY DEF AccountsIInv
  <2>2. PICK leg \in {1, 6} : deletion' = [deletion EXCEPT ![d] = [leg |-> leg, of |-> s]]
    BY <1>6 DEF DeleteMe
  <2>3. /\ UNCHANGED <<pool, ready, userRow, snapshot, reg, entered, announced, hook, orders,
                       trackings, inProcess, met>>
        /\ reg[s] = "created"
    BY <1>6 DEF DeleteMe, poolVars, usersTables, otherVars
  <2>4. /\ deletion' \in [Deletions -> [leg : 0 .. 6, of : Regs \cup {NoOne}]]
        /\ deletion'[d] = [leg |-> leg, of |-> s]
        /\ \A e \in Deletions \ {d} : deletion'[e] = deletion[e]
    BY <2>1, <2>2 DEF AccountTypes
  <2>5. AccountTypes'
    BY <2>1, <2>3, <2>4 DEF AccountTypes
  <2>6. RowsFollowCalls' /\ AccountsHeld' /\ DataGoesFirst'
    BY <2>1, <2>3 DEF RowsFollowCalls, AccountsHeld, OwnsAccount, DataGoesFirst
  <2>7. LegsClear'
    BY <2>1, <2>3, <2>4 DEF LegsClear
  <2> QED
    BY <2>5, <2>6, <2>7 DEF AccountsIInv
<1> QED
  BY <1>1, <1>2, <1>3, <1>4, <1>5, <1>6 DEF AccountsNext

\* Whatever fails or overlaps, who was told 201 can sign in while their row is live, and a
\* deleted row leaves no orders or trackings behind (register, delete-account).
THEOREM AccountsStayHonest == AccountsSpec => []AccountsHonest
<1>1. AccountsIInv => AccountsHonest
  <2>1. AccountsIInv => CreatedCanSignIn
    BY DEF AccountsIInv, AccountsHeld, OwnsAccount, CreatedCanSignIn, IsLive
  <2> QED
    BY <2>1, AccountTypesOK DEF AccountsIInv, AccountsHonest
<1> QED
  BY <1>1, InitAccounts, NextAccounts, PTL DEF AccountsSpec

-----------------------------------------------------------------------------
(***************************************************************************)
(* Signing in with a code.  Of two starts that are under way together both *)
(* are overlapped; so whoever else still has an answer coming minted its   *)
(* code before the newest one, and overlapped with it.                     *)
(***************************************************************************)

StartType == [at : {"new", "sent", "served", "answered", "failed"},
              by : {"login", "resend"}, here : BOOLEAN]
ChallengeType == [at : {"none", "open", "over"}, wrong : 0 .. MAX_ATTEMPTS]
CodeTypes ==
    /\ start \in [Starts -> StartType] /\ challenge \in [Starts -> ChallengeType]
    /\ mail \subseteq Starts \X Nat /\ held \in Starts \cup {NoChallenge}
    /\ answer \in [to : Starts \cup {NoChallenge}, code : Nat \X Nat, here : BOOLEAN,
                   result : {"none", "asked", "tokens", "refused"}]
    /\ answer.result = "asked" => answer.to \in Starts
    /\ overlapped \subseteq Starts
    /\ minted \in [Starts -> Nat]

\* A challenge takes its one code when it opens, and has a try left for as long as it is.
OneCodeEach ==
    /\ mail \subseteq {FirstCode(c) : c \in Starts}
    /\ \A c \in Starts : /\ challenge[c].at = "open" => /\ minted[c] = 1
                                                        /\ challenge[c].wrong < MAX_ATTEMPTS
                         /\ start[c].at \in {"new", "sent"} => challenge[c].wrong = 0

\* A session is of a start that was answered.
SessionsAnswered ==
    /\ held # NoChallenge => start[held].at = "answered"
    /\ answer.result = "asked" => start[answer.to].at = "answered"

TogetherOverlap == \A c, d \in UnderWay : c # d => c \in overlapped
LateIsOverlapped ==
    \A c, d \in Starts : newest[1] = c /\ d # c /\ start[d].at = "served" => c \in overlapped

NewestHeld ==
    \A c \in Starts \ overlapped :
        newest[1] = c /\ start[c].at = "answered" => held \in {c, NoChallenge}

CodeIInv == /\ CodeTypes /\ OneCodeEach /\ SessionsAnswered
            /\ TogetherOverlap /\ LateIsOverlapped /\ NewestHeld

LEMMA InitCode == CodeInit => CodeIInv
<1> SUFFICES ASSUME CodeInit PROVE CodeIInv
  OBVIOUS
<1>1. /\ start \in [Starts -> StartType] /\ \A c \in Starts : start[c].at = "new"
      /\ challenge \in [Starts -> ChallengeType]
      /\ \A c \in Starts : challenge[c].at = "none" /\ challenge[c].wrong = 0
  BY DEF CodeInit, StartType, ChallengeType, MAX_ATTEMPTS
<1>2. CodeTypes
  BY <1>1 DEF CodeInit, CodeTypes, NoAnswer
<1>3. /\ OneCodeEach /\ SessionsAnswered /\ TogetherOverlap
      /\ LateIsOverlapped /\ NewestHeld
  BY <1>1 DEF CodeInit, OneCodeEach, SessionsAnswered, TogetherOverlap, UnderWay,
              LateIsOverlapped, NewestHeld, NoAnswer
<1> QED
  BY <1>2, <1>3 DEF CodeIInv

\* A start that asks: from here on it is under way.
LEMMA AskKeeps ==
  ASSUME CodeIInv, NEW c \in Starts, NEW by \in {"login", "resend"}, Ask(c, by)
  PROVE  CodeIInv'
<1>1. /\ CodeTypes /\ OneCodeEach /\ SessionsAnswered
      /\ TogetherOverlap /\ LateIsOverlapped /\ NewestHeld
  BY DEF CodeIInv
<1>2. /\ start' = [start EXCEPT ![c] = [at |-> "sent", by |-> by, here |-> TRUE]]
      /\ start[c].at = "new"
      /\ UNCHANGED <<challenge, minted, mail, newest, renews, held, answer>>
      /\ overlapped' = IF UnderWay = {} THEN overlapped ELSE overlapped \cup UnderWay \cup {c}
  BY DEF Ask, poolSide
<1>3. /\ start' \in [Starts -> StartType] /\ start'[c].at = "sent"
      /\ \A d \in Starts \ {c} : start'[d] = start[d]
      /\ UnderWay' = UnderWay \cup {c} /\ overlapped \subseteq overlapped'
      /\ overlapped' \subseteq Starts
  BY <1>1, <1>2 DEF CodeTypes, StartType, UnderWay
<1>4. CodeTypes' /\ OneCodeEach' /\ SessionsAnswered'
  BY <1>1, <1>2, <1>3 DEF CodeTypes, OneCodeEach, FirstCode, SessionsAnswered
<1>5. TogetherOverlap'
  BY <1>1, <1>2, <1>3 DEF TogetherOverlap
<1>6. LateIsOverlapped' /\ NewestHeld'
  BY <1>1, <1>2, <1>3 DEF LateIsOverlapped, NewestHeld
<1> QED
  BY <1>4, <1>5, <1>6 DEF CodeIInv

\* The first round of a challenge mints and mails its code.
LEMMA CreateChallengeKeeps ==
  ASSUME CodeIInv, NEW c \in Starts, CreateChallenge(c)
  PROVE  CodeIInv'
<1>1. /\ CodeTypes /\ OneCodeEach /\ SessionsAnswered
      /\ TogetherOverlap /\ LateIsOverlapped /\ NewestHeld
  BY DEF CodeIInv
<1>2. /\ start[c].at = "sent" /\ UNCHANGED <<renews, held, answer, overlapped>>
      /\ \/ /\ minted' = [minted EXCEPT ![c] = 1] /\ challenge' = [challenge EXCEPT ![c].at = "open"]
            /\ mail' = mail \cup {FirstCode(c)} /\ newest' = FirstCode(c)
            /\ start' = [start EXCEPT ![c].at = "served"]
         \/ /\ start' = [start EXCEPT ![c].at = "failed"] /\ UNCHANGED <<minted, challenge>>
            /\ \/ mail' = mail \cup {FirstCode(c)} /\ newest' = FirstCode(c)
               \/ UNCHANGED <<mail, newest>>
  BY DEF CreateChallenge, Mailed
<1>3. /\ start' \in [Starts -> StartType] /\ start'[c].at \in {"served", "failed"}
      /\ \A d \in Starts \ {c} : start'[d] = start[d]
      /\ UnderWay' \subseteq UnderWay /\ c \in UnderWay
      /\ challenge' \in [Starts -> ChallengeType] /\ minted' \in [Starts -> Nat]
      /\ \A d \in Starts \ {c} : challenge'[d] = challenge[d] /\ minted'[d] = minted[d]
      /\ challenge'[c].at = "open" => challenge'[c].wrong = 0 /\ minted'[c] = 1
  <2>1. /\ start' \in [Starts -> StartType] /\ start'[c].at \in {"served", "failed"}
        /\ \A d \in Starts \ {c} : start'[d] = start[d]
    <3>1. \E at \in {"served", "failed"} : start' = [start EXCEPT ![c].at = at]
      BY <1>2
    <3> QED
      BY <1>1, <3>1 DEF CodeTypes, StartType
  <2>2. UnderWay' \subseteq UnderWay /\ c \in UnderWay
    BY <1>2, <2>1 DEF UnderWay
  <2>3. challenge[c].wrong = 0 /\ (challenge[c].at = "open" => minted[c] = 1)
    BY <1>1, <1>2 DEF OneCodeEach
  <2>4. CASE UNCHANGED <<minted, challenge>>
    BY <1>1, <2>1, <2>2, <2>3, <2>4 DEF CodeTypes
  <2>5. CASE minted' = [minted EXCEPT ![c] = 1] /\ challenge' = [challenge EXCEPT ![c].at = "open"]
    <3>1. /\ challenge' \in [Starts -> ChallengeType] /\ minted' \in [Starts -> Nat]
          /\ \A d \in Starts \ {c} : challenge'[d] = challenge[d] /\ minted'[d] = minted[d]
          /\ challenge'[c].wrong = 0 /\ minted'[c] = 1
      BY <1>1, <2>3, <2>5 DEF CodeTypes, ChallengeType
    <3> QED
      BY <2>1, <2>2, <3>1
  <2> QED
    BY <1>2, <2>4, <2>5
<1>4. FirstCode(c)[1] = c /\ FirstCode(c) \in Starts \X Nat
  BY DEF FirstCode
<1>5. CodeTypes'
  BY <1>1, <1>2, <1>3, <1>4 DEF CodeTypes
<1>6. OneCodeEach'
  BY <1>1, <1>2, <1>3 DEF OneCodeEach, FirstCode, MAX_ATTEMPTS
<1>7. SessionsAnswered' /\ TogetherOverlap'
  BY <1>1, <1>2, <1>3 DEF SessionsAnswered, TogetherOverlap, CodeTypes
<1>8. \A d \in Starts : d # c /\ start[d].at = "served" => c \in overlapped
  BY <1>1, <1>3 DEF TogetherOverlap, UnderWay
<1>9. LateIsOverlapped'
  <2>1. (newest' = newest /\ start'[c].at = "failed") \/ newest'[1] = c
    BY <1>1, <1>2, <1>4 DEF CodeTypes, StartType
  <2> QED
    BY <1>1, <1>2, <1>3, <1>8, <2>1 DEF LateIsOverlapped
<1>10. NewestHeld'
  BY <1>1, <1>2, <1>3, <1>4 DEF NewestHeld
<1> QED
  BY <1>5, <1>6, <1>7, <1>9, <1>10 DEF CodeIInv

\* Its answer gives the page the session, or is lost.
LEMMA StartAnsweredKeeps ==
  ASSUME CodeIInv, NEW c \in Starts, StartAnswered(c)
  PROVE  CodeIInv'
<1> USE StartsAssumption
<1>1. /\ CodeTypes /\ OneCodeEach /\ SessionsAnswered
      /\ TogetherOverlap /\ LateIsOverlapped /\ NewestHeld
  BY DEF CodeIInv
<1>2. /\ start[c].at = "served"
      /\ UNCHANGED <<challenge, minted, mail, newest, renews, answer, overlapped>>
      /\ \/ held' \in {c, NoChallenge} /\ start' = [start EXCEPT ![c].at = "answered"]
         \/ held' = held /\ start' = [start EXCEPT ![c].at = "failed"]
  BY DEF StartAnswered, Replaced, poolSide
<1>3. /\ start' \in [Starts -> StartType]
      /\ \/ held' \in {c, NoChallenge} /\ start'[c].at = "answered"
         \/ held' = held /\ start'[c].at = "failed"
      /\ \A d \in Starts \ {c} : start'[d] = start[d]
      /\ UnderWay' \subseteq UnderWay
  <2>1. PICK s \in {"answered", "failed"} :
           /\ start' = [start EXCEPT ![c].at = s]
           /\ IF s = "answered" THEN held' \in {c, NoChallenge} ELSE held' = held
    BY <1>2
  <2>2. start \in [Starts -> StartType]
    BY <1>1 DEF CodeTypes
  <2>3. start' \in [Starts -> StartType]
    BY <2>1, <2>2 DEF StartType
  <2>4. start'[c].at = s
    BY <2>1, <2>2 DEF StartType
  <2>5. \A d \in Starts \ {c} : start'[d] = start[d]
    BY <2>1, <2>2
  <2>6. UnderWay' \subseteq UnderWay
    BY <2>1, <2>4, <2>5 DEF UnderWay
  <2> QED
    BY <2>1, <2>3, <2>4, <2>5, <2>6
<1>4. CodeTypes' /\ OneCodeEach' /\ TogetherOverlap'
  BY <1>1, <1>2, <1>3 DEF CodeTypes, OneCodeEach, FirstCode, TogetherOverlap
<1>5. SessionsAnswered'
  BY <1>1, <1>2, <1>3 DEF SessionsAnswered, CodeTypes
<1>6. LateIsOverlapped'
  BY <1>1, <1>2, <1>3 DEF LateIsOverlapped
<1>7. NewestHeld'
  BY <1>1, <1>2, <1>3 DEF NewestHeld, LateIsOverlapped
<1> QED
  BY <1>4, <1>5, <1>6, <1>7 DEF CodeIInv

\* The answers of the page, and Cognito's judgement of them.
LEMMA AnswersKeep ==
  ASSUME CodeIInv, Respond \/ SubmitCode \/ CodeAnswered
  PROVE  CodeIInv'
<1> USE StartsAssumption
<1>1. /\ CodeTypes /\ OneCodeEach /\ SessionsAnswered
      /\ TogetherOverlap /\ LateIsOverlapped /\ NewestHeld
  BY DEF CodeIInv
<1>2. UNCHANGED <<minted, mail, newest, renews, start, overlapped>>
  BY DEF Respond, SubmitCode, CodeAnswered, Reused, poolSide
<1>3. held' \in {held, NoChallenge}
  BY DEF Respond, SubmitCode, CodeAnswered
<1>4. /\ answer' \in [to : Starts \cup {NoChallenge}, code : Nat \X Nat, here : BOOLEAN,
                      result : {"none", "asked", "tokens", "refused"}]
      /\ answer'.result = "asked" => answer'.to \in Starts /\ start'[answer'.to].at = "answered"
  <2>1. CASE Respond
    <3>1. \E result \in {"tokens", "refused"} : answer' = [answer EXCEPT !.result = result]
      BY <2>1 DEF Respond, Judged
    <3> QED
      BY <1>1, <3>1 DEF CodeTypes
  <2>2. CASE SubmitCode
    <3>1. PICK code \in mail \cup {<<0, 0>>} :
            answer' = [to |-> held, code |-> code, here |-> TRUE, result |-> "asked"]
      BY <2>2 DEF SubmitCode
    <3>2. code \in Nat \X Nat /\ held \in Starts
      <4>1. mail \subseteq Nat \X Nat /\ <<0, 0>> \in Nat \X Nat
        BY <1>1 DEF CodeTypes
      <4>2. held # NoChallenge
        BY <2>2 DEF SubmitCode
      <4> QED
        BY <1>1, <4>1, <4>2 DEF CodeTypes
    <3> QED
      BY <1>1, <1>2, <2>2, <3>1, <3>2 DEF SubmitCode, SessionsAnswered
  <2>3. CASE CodeAnswered
    BY <2>3 DEF CodeAnswered, NoAnswer
  <2> QED
    BY <2>1, <2>2, <2>3
<1>5. /\ challenge' \in [Starts -> ChallengeType]
      /\ \A c \in Starts :
           /\ challenge'[c].at = "open" => /\ challenge[c].at = "open"
                                           /\ challenge'[c].wrong < MAX_ATTEMPTS
           /\ start[c].at \in {"new", "sent"} => challenge'[c].wrong = challenge[c].wrong
  <2>1. CASE SubmitCode \/ CodeAnswered \/ UNCHANGED challenge
    BY <1>1, <2>1 DEF SubmitCode, CodeAnswered, poolSide, CodeTypes, OneCodeEach
  <2>2. CASE Respond /\ challenge' # challenge
    <3> DEFINE c == answer.to
    <3>1. c \in Starts /\ start[c].at = "answered"
      BY <1>1, <2>2 DEF Respond, CodeTypes, SessionsAnswered
    <3>2. \/ challenge' = [challenge EXCEPT ![c].at = "over"]
          \/ /\ WrongAnswer
             /\ challenge' = [challenge EXCEPT ![c] =
                    [at |-> IF TryLeft /\ renews THEN "open" ELSE "over", wrong |-> @.wrong + 1]]
      BY <2>2 DEF Respond
    <3>3. CASE challenge' = [challenge EXCEPT ![c].at = "over"]
      BY <1>1, <3>1, <3>3 DEF CodeTypes, ChallengeType, OneCodeEach
    <3>4. CASE /\ WrongAnswer
               /\ challenge' = [challenge EXCEPT ![c] =
                    [at |-> IF TryLeft /\ renews THEN "open" ELSE "over", wrong |-> @.wrong + 1]]
      <4>1. challenge[c].at = "open" /\ challenge[c].wrong + 1 \in 0 .. MAX_ATTEMPTS
        <5>1. challenge[c].at = "open" /\ challenge[c].wrong < MAX_ATTEMPTS
          BY <1>1, <3>1, <3>4 DEF WrongAnswer, OneCodeEach
        <5>2. challenge[c].wrong \in 0 .. MAX_ATTEMPTS
          BY <1>1, <3>1 DEF CodeTypes, ChallengeType
        <5> HIDE DEF c
        <5> QED
          BY <5>1, <5>2 DEF MAX_ATTEMPTS
      <4> DEFINE new == [at |-> IF TryLeft /\ renews THEN "open" ELSE "over",
                         wrong |-> challenge[c].wrong + 1]
      <4>2. new \in ChallengeType /\ (new.at = "open" => new.wrong < MAX_ATTEMPTS)
        BY <4>1 DEF ChallengeType, TryLeft
      <4>3. challenge' = [challenge EXCEPT ![c] = new]
        BY <3>4
      <4> HIDE DEF new
      <4>4. /\ challenge'[c] = new /\ challenge' \in [Starts -> ChallengeType]
            /\ \A d \in Starts \ {c} : challenge'[d] = challenge[d]
        BY <1>1, <3>1, <4>2, <4>3 DEF CodeTypes
      <4> QED
        BY <1>1, <3>1, <4>1, <4>2, <4>4 DEF OneCodeEach
    <3> QED
      BY <3>2, <3>3, <3>4
  <2> QED
    BY <2>1, <2>2
<1>6. CodeTypes' /\ OneCodeEach'
  BY <1>1, <1>2, <1>3, <1>4, <1>5 DEF CodeTypes, OneCodeEach, FirstCode
<1>7. SessionsAnswered' /\ TogetherOverlap' /\ LateIsOverlapped' /\ NewestHeld'
  BY <1>1, <1>2, <1>3, <1>4
     DEF SessionsAnswered, TogetherOverlap, UnderWay, LateIsOverlapped, NewestHeld
<1> QED
  BY <1>6, <1>7 DEF CodeIInv

\* The user leaves, Cognito forgets, or nothing happens.
LEMMA LeavingKeeps ==
  ASSUME CodeIInv, LeavePage \/ (\E c \in Starts : Forget(c)) \/ UNCHANGED signInVars
  PROVE  CodeIInv'
<1>1. /\ CodeTypes /\ OneCodeEach /\ SessionsAnswered
      /\ TogetherOverlap /\ LateIsOverlapped /\ NewestHeld
  BY DEF CodeIInv
<1>2. UNCHANGED <<minted, mail, newest, renews, held, overlapped>>
  BY DEF LeavePage, Forget, signInVars, poolSide
<1>3. /\ start' \in [Starts -> StartType] /\ \A c \in Starts : start'[c].at = start[c].at
      /\ answer' \in [to : Starts \cup {NoChallenge}, code : Nat \X Nat, here : BOOLEAN,
                      result : {"none", "asked", "tokens", "refused"}]
      /\ answer'.result = answer.result /\ answer'.to = answer.to
  <2>1. CASE LeavePage
    <3>1. /\ start' = [c \in Starts |-> [start[c] EXCEPT !.here = FALSE]]
          /\ answer' = [answer EXCEPT !.here = FALSE]
      BY <2>1 DEF LeavePage
    <3>2. start' \in [Starts -> StartType] /\ \A c \in Starts : start'[c].at = start[c].at
      BY <1>1, <3>1 DEF CodeTypes, StartType
    <3> QED
      BY <1>1, <3>1, <3>2 DEF CodeTypes
  <2>2. CASE UNCHANGED <<start, answer>>
    BY <1>1, <2>2 DEF CodeTypes
  <2> QED
    BY <2>1, <2>2 DEF Forget, signInVars
<1>4. /\ challenge' \in [Starts -> ChallengeType]
      /\ \A c \in Starts : /\ challenge'[c].wrong = challenge[c].wrong
                           /\ challenge'[c].at = "open" => challenge[c].at = "open"
  BY <1>1 DEF LeavePage, Forget, signInVars, poolSide, CodeTypes, ChallengeType
<1>5. CodeTypes' /\ OneCodeEach'
  BY <1>1, <1>2, <1>3, <1>4 DEF CodeTypes, OneCodeEach, FirstCode
<1>6. UnderWay' = UnderWay
  BY <1>3 DEF UnderWay
<1>7. SessionsAnswered' /\ TogetherOverlap' /\ LateIsOverlapped' /\ NewestHeld'
  BY <1>1, <1>2, <1>3, <1>6
     DEF CodeTypes, SessionsAnswered, TogetherOverlap, LateIsOverlapped, NewestHeld
<1> QED
  BY <1>5, <1>7 DEF CodeIInv

LEMMA NextCode == CodeIInv /\ [CodeNext]_signInVars => CodeIInv'
  BY AskKeeps, CreateChallengeKeeps, StartAnsweredKeeps, AnswersKeep, LeavingKeeps
     DEF CodeNext, SubmitEmail, Resend, OtpRoutes, StartOtpChallenge

\* However starts, answers and failures interleave, a mailed code opens its challenge while
\* that is open, and the page holds the newest one's session (otp-start, verify-code).
THEOREM NewestCodeDoesOpen == CodeSpec => []NewestCodeOpens
<1>1. CodeIInv => NewestCodeOpens
  <2> SUFFICES ASSUME CodeIInv PROVE NewestCodeOpens
    OBVIOUS
  <2>1. CodeTypeOK
    BY DEF CodeIInv, CodeTypes, CodeTypeOK, StartType, ChallengeType
  <2>2. ASSUME NEW c \in Starts, challenge[c].at = "open", NEW code \in mail, code[1] = c
        PROVE  code = Expected(c)
    <3>1. PICK d \in Starts : code = <<d, 1>>
      BY <2>2 DEF CodeIInv, OneCodeEach, FirstCode
    <3> QED
      BY <2>2, <3>1 DEF CodeIInv, OneCodeEach, Expected
  <2> QED
    BY <2>1, <2>2 DEF CodeIInv, NewestHeld, NewestCodeOpens
<1> QED
  BY <1>1, InitCode, NextCode, PTL DEF CodeSpec

-----------------------------------------------------------------------------
(***************************************************************************)
(* Soft deletion.  The mark of a row is set with its grave and no stamp    *)
(* clears it, and the last node of a path filters whatever led to it.      *)
(***************************************************************************)

Stamped == [there : {TRUE}, deleted : BOOLEAN, createdBy : GetActor, updatedBy : GetActor,
            deletedBy : GetActor]
RowsIInv == /\ stored \in [Rows -> Stamped \cup {Absent}] /\ graves \subseteq Rows
            /\ ReadsHideDeleted /\ DeletedStay

\* A write that stamps the rows of a set, none of them a revival, keeps them.
LEMMA WriteKeeps ==
  ASSUME RowsIInv, NEW S \in SUBSET Rows, NEW stamp \in [S -> Stamped], Write(stamp),
         graves' \subseteq graves \cup S,
         \A r \in S : r \in graves' => stamp[r].deleted
  PROVE  RowsIInv'
<1>1. /\ stored' = [r \in Rows |-> IF r \in S THEN stamp[r] ELSE stored[r]]
      /\ found' = {}
  BY DEF Write
<1>2. \A r \in S : stamp[r] \in Stamped
  OBVIOUS
<1>3. stored' \in [Rows -> Stamped \cup {Absent}] /\ graves' \subseteq Rows
  BY <1>1, <1>2 DEF RowsIInv
<1>4. DeletedStay'
  <2> SUFFICES ASSUME NEW r \in graves' PROVE stored'[r].there /\ stored'[r].deleted
    BY DEF DeletedStay, There, IsDeleted
  <2>1. CASE r \in S
    BY <1>1, <2>1 DEF Stamped
  <2>2. CASE r \notin S
    BY <1>1, <2>2 DEF RowsIInv, DeletedStay, There, IsDeleted
  <2> QED
    BY <2>1, <2>2
<1> QED
  BY <1>1, <1>3, <1>4 DEF RowsIInv, ReadsHideDeleted

\* What a stamp of an existing row is.
LEMMA Stamps ==
  ASSUME RowsIInv, NEW by \in GetActor, NEW r \in Rows, There(r)
  PROVE  /\ StampUpdate(stored[r], by) \in Stamped
         /\ StampUpdate(stored[r], by).deleted = stored[r].deleted
         /\ StampDelete(stored[r], by) \in Stamped
         /\ StampDelete(stored[r], by).deleted
<1>1. stored[r] \in Stamped
  BY DEF RowsIInv, There, Absent
<1> QED
  BY <1>1 DEF StampUpdate, StampDelete, Stamped

LEMMA CreateKeeps ==
  ASSUME RowsIInv, NEW by \in GetActor, NEW r \in Rows, CreateRow(r, by)
  PROVE  RowsIInv'
<1> DEFINE stamp == [only \in {r} |-> StampCreate(by)]
<1>1. stamp \in [{r} -> Stamped]
  BY DEF StampCreate, Stamped, GetActor
<1>2. Write(stamp) /\ graves' = graves /\ r \notin graves
  BY DEF CreateRow, WriteRow, RowsIInv, DeletedStay
<1> HIDE DEF stamp
<1> QED
  BY <1>1, <1>2, WriteKeeps

LEMMA NextRows == RowsIInv /\ [RowsNext]_rowVars => RowsIInv'
<1> SUFFICES ASSUME RowsIInv, [RowsNext]_rowVars PROVE RowsIInv'
  OBVIOUS
<1>1. ASSUME NEW by \in GetActor, NEW r \in Rows, There(r),
             WriteRow(r, StampUpdate(stored[r], by)), UNCHANGED graves
      PROVE  RowsIInv'
  <2> DEFINE stamp == [only \in {r} |-> StampUpdate(stored[r], by)]
  <2>1. stamp \in [{r} -> Stamped] /\ stamp[r].deleted = stored[r].deleted
    BY <1>1, Stamps
  <2>2. r \in graves => stored[r].deleted
    BY DEF RowsIInv, DeletedStay, IsDeleted
  <2>3. Write(stamp) /\ graves' = graves
    BY <1>1 DEF WriteRow
  <2> HIDE DEF stamp
  <2> QED
    BY <2>1, <2>2, <2>3, WriteKeeps
<1>2. ASSUME NEW by \in GetActor, NEW r \in Rows, UpsertRow(r, by) PROVE RowsIInv'
  BY <1>1, <1>2, CreateKeeps DEF UpsertRow
<1>3. ASSUME NEW by \in GetActor, NEW r \in Rows, NEW own \in BOOLEAN, UpdateRow(r, by, own)
      PROVE  RowsIInv'
  <2>1. There(r) /\ WriteRow(r, StampUpdate(stored[r], by)) /\ UNCHANGED graves
    BY <1>3 DEF UpdateRow, ExcludeSoftDeleted
  <2> QED
    BY <1>1, <2>1
<1>4. ASSUME NEW by \in GetActor, NEW S \in SUBSET Rows, NEW own \in BOOLEAN, UpdateMany(S, by, own)
      PROVE  RowsIInv'
  <2> DEFINE reached == ExcludeSoftDeleted(S, own)
             stamp == [r \in reached |-> StampUpdate(stored[r], by)]
  <2>1. reached \in SUBSET Rows /\ \A r \in reached : There(r)
    BY DEF ExcludeSoftDeleted
  <2>2. Write(stamp) /\ graves' = graves
    BY <1>4 DEF UpdateMany
  <2> HIDE DEF reached
  <2>3. stamp \in [reached -> Stamped] /\ \A r \in reached : stamp[r].deleted = stored[r].deleted
    BY <2>1, Stamps
  <2>4. \A r \in graves : stored[r].deleted
    BY DEF RowsIInv, DeletedStay, IsDeleted
  <2> HIDE DEF stamp
  <2> QED
    BY <2>1, <2>2, <2>3, <2>4, WriteKeeps
<1>5. ASSUME NEW by \in GetActor, NEW S \in SUBSET Rows, DeleteRows(S, by) PROVE RowsIInv'
  <2> DEFINE reached == {r \in S : There(r)}
             stamp == [r \in reached |-> StampDelete(stored[r], by)]
  <2>1. reached \in SUBSET Rows /\ \A r \in reached : There(r)
    OBVIOUS
  <2>2. Write(stamp) /\ graves' = graves \cup reached
    BY <1>5 DEF DeleteRows
  <2> HIDE DEF reached
  <2>3. stamp \in [reached -> Stamped] /\ \A r \in reached : stamp[r].deleted
    BY <2>1, Stamps
  <2> HIDE DEF stamp
  <2> QED
    BY <2>1, <2>2, <2>3, WriteKeeps
<1>6. ASSUME NEW q \in Queries, FindMany(q) PROVE RowsIInv'
  <2>1. /\ UNCHANGED <<stored, graves>>
        /\ found' = UNION {{[row |-> r, deleted |-> IsDeleted(stored[r]), asked |-> p \in q.own] :
                               r \in RowsAt(q, InjectRelationFilter(q), p)} : p \in q.paths}
    BY <1>6 DEF FindMany
  <2>2. PICK m \in Models : q.paths \subseteq Paths(m)
    BY DEF Queries
  <2>3. ASSUME NEW p \in q.paths, NEW r \in RowsAt(q, InjectRelationFilter(q), p), p \notin q.own
        PROVE  ~IsDeleted(stored[r])
    <3>1. p \in InjectRelationFilter(q)
      BY <2>3 DEF InjectRelationFilter
    <3>2. p = <<>> \/ Len(p) = 1 \/ Len(p) = 2
      BY <2>2 DEF Paths
    <3>3. \E S : r \in Passing(S, p \in InjectRelationFilter(q))
      <4>1. CASE p = <<>>
        BY <2>3, <4>1 DEF RowsAt
      <4>2. CASE Len(p) = 1
        BY <2>3, <4>2 DEF RowsAt, Below
      <4>3. CASE Len(p) = 2
        BY <2>3, <4>3 DEF RowsAt, Below
      <4> QED
        BY <3>2, <4>1, <4>2, <4>3
    <3> QED
      BY <3>1, <3>3 DEF Passing
  <2>4. ReadsHideDeleted'
    <3> SUFFICES ASSUME NEW f \in found' PROVE f.deleted => f.asked
      BY DEF ReadsHideDeleted
    <3>1. PICK p \in q.paths : \E r \in RowsAt(q, InjectRelationFilter(q), p) :
            f = [row |-> r, deleted |-> IsDeleted(stored[r]), asked |-> p \in q.own]
      BY <2>1
    <3>2. PICK r \in RowsAt(q, InjectRelationFilter(q), p) :
            f = [row |-> r, deleted |-> IsDeleted(stored[r]), asked |-> p \in q.own]
      BY <3>1
    <3>3. f.deleted = IsDeleted(stored[r]) /\ f.asked = (p \in q.own)
      BY <3>2
    <3> QED
      BY <2>3, <3>3
  <2> QED
    BY <2>1, <2>4 DEF RowsIInv, DeletedStay, There
<1>7. UNCHANGED rowVars => RowsIInv'
  BY DEF rowVars, RowsIInv, ReadsHideDeleted, DeletedStay, There
<1> QED
  BY <1>2, <1>3, <1>4, <1>5, <1>6, <1>7, CreateKeeps DEF RowsNext

\* Whatever rows, models and actors there are, a deletion lasts, and no read shows a
\* deleted row at a node that did not ask for it (prisma-extensions.ts).
THEOREM SoftDeletionHolds == RowsSpec => []SoftDeleteHolds
<1>1. RowsInit => RowsIInv
  BY DEF RowsInit, RowsIInv, ReadsHideDeleted, DeletedStay
<1>2. RowsIInv => SoftDeleteHolds
  BY DEF RowsIInv, SoftDeleteHolds
<1> QED
  BY <1>1, <1>2, NextRows, PTL DEF RowsSpec

-----------------------------------------------------------------------------
(***************************************************************************)
(* Saved cards: types, one default, one customer, no card the table has    *)
(* deleted still attached, and a table that follows Stripe.  The row lock  *)
(* carries the first of these, the conditional update of the customer the  *)
(* second, the order "Stripe first, the row after" the third, and the      *)
(* events Stripe owes the last.                                            *)
(***************************************************************************)

(* Types. *)

CallType == [at : {"idle", "ensure", "create", "persist", "attach", "find",
                   "lock", "default", "late", "write", "detach", "delete", "done"},
             op : {None, "setup", "attach", "detach", "setDefault"},
             card : Cards \cup {None},
             customer : Customers \cup {None},
             first : BOOLEAN]
HandlerType == [at : {"idle", "retrieve", "upsert", "remove", "lock", "apply"},
                topic : Topics \cup {None},
                default : Cards \cup {None}]

\* A call under way is about a card, and past "ensure" it names a customer.
CallsKnow ==
  \A p \in Calls :
    /\ call[p].at \notin {"idle", "done"} => call[p].card \in Cards
    /\ call[p].at \in {"persist", "attach", "lock", "default", "late", "write"}
         => call[p].customer \in Customers
    /\ call[p].at = "find" => call[p].op \in {"detach", "setDefault"}
\* A delivery under way is of a topic, a card's unless it takes the lock.
HandlersKnow ==
  \A h \in Handlers :
    /\ handler[h] # Waiting => handler[h].topic \in Topics
    /\ handler[h].at \in {"retrieve", "upsert", "remove"} => handler[h].topic \in Cards

TInv == TypeOK /\ CallsKnow /\ HandlersKnow

\* Initially nothing is under way.
LEMMA InitTInv == Init => TInv
<1> SUFFICES ASSUME Init PROVE TInv
  OBVIOUS
<1> USE DEF Init
<1>1. Ready \in CallType /\ Ready.at = "idle"
  BY DEF Ready, CallType
<1>2. Waiting \in HandlerType /\ Waiting.at = "idle"
  BY DEF Waiting, HandlerType
<1>3. call \in [Calls -> CallType] /\ handler \in [Handlers -> HandlerType]
  BY <1>1, <1>2
<1>4. \A p \in Calls : call[p].at = "idle"
  BY <1>1
<1>5. CallsKnow /\ HandlersKnow
  BY <1>2, <1>4 DEF CallsKnow, HandlersKnow
<1>6. TypeOK
  BY <1>3, <1>4, PaymentMethodsAssumption
     DEF TypeOK, InTransaction, CallType, HandlerType, Topics
<1> QED
  BY <1>5, <1>6 DEF TInv

\* What it takes to type the calls after one of them moved.
LEMMA CallMoves ==
  ASSUME TInv, NEW p \in Calls, NEW r \in CallType,
         call' = [call EXCEPT ![p] = r],
         r.at \notin {"idle", "done"} => r.card \in Cards,
         r.at \in {"persist", "attach", "lock", "default", "late", "write"}
           => r.customer \in Customers,
         r.at = "find" => r.op \in {"detach", "setDefault"}
  PROVE  call' \in [Calls -> CallType] /\ CallsKnow'
<1>1. call \in [Calls -> CallType]
  BY DEF TInv, TypeOK, CallType
<1>2. call' \in [Calls -> CallType]
  BY <1>1
<1>3. \A q \in Calls : call'[q] = IF q = p THEN r ELSE call[q]
  BY <1>1
<1> QED
  BY <1>2, <1>3 DEF TInv, CallsKnow

\* A call moves on, and keeps what it knows.
LEMMA CallGoes ==
  ASSUME TInv, NEW p \in Calls,
         NEW step \in {"create", "attach", "lock", "default", "late", "write",
                       "detach", "delete"},
         Goto(p, step),
         call[p].at \notin {"idle", "done"},
         step \in {"attach", "lock", "default", "late", "write"}
           => call[p].customer \in Customers
  PROVE  call' \in [Calls -> CallType] /\ CallsKnow'
<1> DEFINE r == [call[p] EXCEPT !.at = step]
<1>1. call[p] \in CallType /\ call[p].card \in Cards
  BY DEF TInv, TypeOK, CallType, CallsKnow
<1>2. /\ r \in CallType /\ r.at = step
      /\ r.card = call[p].card /\ r.customer = call[p].customer
  BY <1>1 DEF CallType
<1>3. call' = [call EXCEPT ![p] = r]
  BY DEF Goto
<1> HIDE DEF r
<1> QED
  BY <1>1, <1>2, <1>3, CallMoves

\* A call is answered.
LEMMA CallEnds ==
  ASSUME TInv, NEW p \in Calls, Answer(p)
  PROVE  call' \in [Calls -> CallType] /\ CallsKnow'
<1>1. Answered \in CallType /\ Answered.at = "done"
  BY DEF Answered, Ready, CallType
<1> QED
  BY <1>1, CallMoves DEF Answer

\* ensureStripeCustomer returns a customer.
LEMMA CallEnsured ==
  ASSUME TInv, NEW p \in Calls, NEW id \in Customers, Ensured(p, id),
         call[p].at \notin {"idle", "done"}
  PROVE  call' \in [Calls -> CallType] /\ CallsKnow'
<1> DEFINE r == [call[p] EXCEPT !.at = "attach", !.customer = id]
<1>1. call[p] \in CallType /\ call[p].card \in Cards
  BY DEF TInv, TypeOK, CallType, CallsKnow
<1>2. /\ r \in CallType /\ r.at = "attach"
      /\ r.card = call[p].card /\ r.customer = id
  BY <1>1 DEF CallType
<1>3. CASE call[p].op = "setup"
  BY <1>3, CallEnds DEF Ensured, Answer
<1>4. CASE call[p].op # "setup"
  <2>1. call' = [call EXCEPT ![p] = r]
    BY <1>4 DEF Ensured
  <2> HIDE DEF r
  <2> QED
    BY <1>1, <1>2, <2>1, CallMoves
<1> QED
  BY <1>3, <1>4

\* Events come on top of those owed.
LEMMA EmitTyped ==
  ASSUME owed \in [Topics -> Nat], NEW ts, Emit(ts)
  PROVE  owed' \in [Topics -> Nat]
BY DEF Emit

\* What Stripe does keeps its own types.
LEMMA StripeTyped ==
  ASSUME TInv, NEW c \in Cards, NEW id \in Customers,
         Attach(c, id) \/ DetachAtStripe(c) \/ MakeDefault(c, id)
  PROVE  /\ holder' \in [Cards -> {"new", "detached"} \cup Customers]
         /\ default' \in Cards \cup {None}
         /\ made' \subseteq Customers /\ key' \in Customers \cup {None}
         /\ owed' \in [Topics -> Nat]
<1>1. owed' \in [Topics -> Nat]
  BY EmitTyped DEF TInv, TypeOK, Attach, DetachAtStripe, MakeDefault
<1> QED
  BY <1>1 DEF TInv, TypeOK, Attach, DetachAtStripe, MakeDefault

\* Marking the default yields marks.
LEMMA MarkOnlyTyped ==
  ASSUME isDefault \in [Cards -> BOOLEAN], NEW cs
  PROVE  MarkOnly(cs) \in [Cards -> BOOLEAN]
<1>1. \A c \in Cards : (IF c \in Live THEN c \in cs ELSE isDefault[c]) \in BOOLEAN
  <2> TAKE c \in Cards
  <2>1. CASE c \in Live
    <3>1. (c \in cs) \in BOOLEAN
      OBVIOUS
    <3> QED
      BY <2>1, <3>1
  <2>2. CASE c \notin Live
    BY <2>2
  <2> QED
    BY <2>1, <2>2
<1> QED
  BY <1>1 DEF MarkOnly

\* The types, by who keeps the variables.
StripeTypes == /\ holder \in [Cards -> {"new", "detached"} \cup Customers]
               /\ default \in Cards \cup {None}
               /\ made \subseteq Customers /\ key \in Customers \cup {None}
               /\ owed \in [Topics -> Nat]
               /\ outside \in 0..MaxOutside
TableTypes == /\ row \in [Cards -> {"absent", "live", "deleted"}]
              /\ isDefault \in [Cards -> BOOLEAN]
              /\ customer \in Customers \cup {None}
              /\ lock \in Calls \cup Handlers \cup {None}
              /\ ghosts \subseteq Cards /\ missed \subseteq Cards
CallsTyped == call \in [Calls -> CallType] /\ CallsKnow
HandlersTyped == handler \in [Handlers -> HandlerType] /\ HandlersKnow

LEMMA TypesByOwner ==
  TInv <=> StripeTypes /\ TableTypes /\ CallsTyped /\ HandlersTyped
BY DEF TInv, TypeOK, StripeTypes, TableTypes, CallsTyped, HandlersTyped,
       CallType, HandlerType, CallsKnow, InTransaction

LEMMA TypesByOwnerNext ==
  TInv' <=> StripeTypes' /\ TableTypes' /\ CallsTyped' /\ HandlersTyped'
BY TypesByOwner, PTL

\* A step of one of the routes.
LEMMA RouteTyped ==
  ASSUME TInv, NEW p \in Calls, Route(p)
  PROVE  TInv'
<1> USE DEF stripe, table, seen
<1>0. StripeTypes /\ TableTypes /\ CallsTyped /\ HandlersTyped
  BY TypesByOwner
<1>1. call[p] \in CallType
  BY <1>0 DEF CallsTyped
<1> SUFFICES StripeTypes' /\ TableTypes' /\ CallsTyped' /\ UNCHANGED handler
  BY <1>0, TypesByOwnerNext DEF HandlersTyped, HandlersKnow
<1>2. ASSUME NEW op \in {"setup", "attach", "detach", "setDefault"},
             NEW c \in Cards, Request(p, op, c)
      PROVE  StripeTypes' /\ TableTypes' /\ CallsTyped' /\ UNCHANGED handler
  <2> DEFINE r == [call[p] EXCEPT
                     !.at = IF op \in {"setup", "attach"} THEN "ensure" ELSE "find",
                     !.op = op, !.card = c]
  <2>1. r \in CallType /\ r.card = c /\ r.at \in {"ensure", "find"}
       /\ (r.at = "find" => r.op \in {"detach", "setDefault"})
    BY <1>1 DEF CallType
  <2>2. call' = [call EXCEPT ![p] = r]
    BY <1>2 DEF Request
  <2> HIDE DEF r
  <2>3. CallsTyped'
    BY <2>1, <2>2, CallMoves DEF CallsTyped
  <2> QED
    BY <1>0, <1>2, <2>3 DEF Request, StripeTypes, TableTypes
<1>3. CASE Ensure(p)
  <2>1. call[p].at = "ensure" /\ customer \in Customers \cup {None}
    BY <1>0, <1>3 DEF Ensure, TableTypes
  <2>2. CallsTyped'
    <3>1. CASE customer = None
      BY <1>3, <2>1, <3>1, CallGoes DEF Ensure, CallsTyped
    <3>2. CASE customer # None
      BY <1>3, <2>1, <3>2, CallEnsured DEF Ensure, CallsTyped
    <3> QED
      BY <3>1, <3>2
  <2> QED
    BY <1>0, <1>3, <2>2 DEF Ensure, StripeTypes, TableTypes
<1>4. CASE Create(p)
  <2>1. PICK id \in Created :
          /\ made' = made \cup {id} /\ key' = id
          /\ call' = [call EXCEPT ![p].at = "persist", ![p].customer = id]
    BY <1>4 DEF Create
  <2>2. id \in Customers
    BY <1>0, <2>1 DEF Created, StripeTypes
  <2> DEFINE r == [call[p] EXCEPT !.at = "persist", !.customer = id]
  <2>3. /\ r \in CallType /\ r.at = "persist"
        /\ r.card = call[p].card /\ r.customer = id
    BY <1>1, <2>2 DEF CallType
  <2>4. call' = [call EXCEPT ![p] = r]
    BY <2>1
  <2>5. call[p].card \in Cards
    BY <1>0, <1>4 DEF Create, CallsTyped, CallsKnow
  <2> HIDE DEF r
  <2>6. CallsTyped'
    BY <2>2, <2>3, <2>4, <2>5, CallMoves DEF CallsTyped
  <2> QED
    BY <1>0, <1>4, <2>1, <2>2, <2>6 DEF Create, StripeTypes, TableTypes
<1>5. CASE Persist(p)
  <2>1. Persisted(call[p].customer) \in Customers
    BY <1>0, <1>5 DEF Persist, Persisted, CallsTyped, CallsKnow, TableTypes
  <2>2. CallsTyped'
    BY <1>5, <2>1, CallEnsured DEF Persist, CallsTyped
  <2> QED
    BY <1>0, <1>5, <2>1, <2>2 DEF Persist, StripeTypes, TableTypes
<1>6. CASE AttachCard(p)
  <2>1. /\ call[p].at = "attach"
        /\ call[p].card \in Cards /\ call[p].customer \in Customers
    BY <1>0, <1>6 DEF AttachCard, CallsTyped, CallsKnow
  <2>2. CallsTyped'
    BY <1>6, <2>1, CallGoes, CallEnds DEF AttachCard, CallsTyped
  <2>3. StripeTypes'
    BY <1>0, <1>6, <2>1, StripeTyped DEF AttachCard, StripeTypes
  <2> QED
    BY <1>0, <1>6, <2>2, <2>3 DEF AttachCard, TableTypes
<1>7. CASE Find(p)
  <2>1. CallsTyped'
    <3>1. CASE Answer(p)
      BY <3>1, CallEnds DEF CallsTyped
    <3>2. CASE ~Answer(p)
      <4> DEFINE r == [call[p] EXCEPT !.customer = customer, !.at =
                         IF call[p].op = "detach" THEN "detach" ELSE "lock"]
      <4>1. call[p].at = "find" /\ call' = [call EXCEPT ![p] = r]
        BY <1>7, <3>2 DEF Find
      <4>2. call[p].op = "detach" \/ customer \in Customers
        BY <1>0, <1>7, <3>2 DEF Find, TableTypes, CallsTyped, CallsKnow
      <4>3. /\ r \in CallType /\ r.card = call[p].card /\ r.customer = customer
            /\ r.at = IF call[p].op = "detach" THEN "detach" ELSE "lock"
        BY <1>0, <1>1 DEF CallType, TableTypes
      <4>4. call[p].card \in Cards
        BY <1>0, <4>1 DEF CallsTyped, CallsKnow
      <4> HIDE DEF r
      <4> QED
        BY <4>1, <4>2, <4>3, <4>4, CallMoves DEF CallsTyped
    <3> QED
      BY <3>1, <3>2
  <2> QED
    BY <1>0, <1>7, <2>1 DEF Find, StripeTypes, TableTypes
<1>8. CASE Lock(p)
  <2>1. PICK first \in BOOLEAN, step \in {"default", "write"} :
          call' = [call EXCEPT ![p].first = first, ![p].at = step]
    BY <1>8 DEF Lock
  <2> DEFINE r == [call[p] EXCEPT !.first = first, !.at = step]
  <2>2. /\ r \in CallType /\ r.at = step
        /\ r.card = call[p].card /\ r.customer = call[p].customer
    BY <1>1 DEF CallType
  <2>3. call' = [call EXCEPT ![p] = r]
    BY <2>1
  <2>4. call[p].card \in Cards /\ call[p].customer \in Customers
    BY <1>0, <1>8 DEF Lock, CallsTyped, CallsKnow
  <2> HIDE DEF r
  <2>5. CallsTyped'
    BY <2>2, <2>3, <2>4, CallMoves DEF CallsTyped
  <2> QED
    BY <1>0, <1>8, <2>5 DEF Lock, StripeTypes, TableTypes
<1>9. CASE SetDefaultAtStripe(p) \/ LateDefault(p)
  <2>1. /\ call[p].at \in {"default", "late"}
        /\ call[p].card \in Cards /\ call[p].customer \in Customers
        /\ MakeDefault(call[p].card, call[p].customer)
    BY <1>0, <1>9 DEF SetDefaultAtStripe, LateDefault, CallsTyped, CallsKnow
  <2>2. CallsTyped'
    BY <1>9, <2>1, CallGoes, CallEnds DEF SetDefaultAtStripe, LateDefault, CallsTyped
  <2>3. StripeTypes'
    BY <1>0, <1>9, <2>1, StripeTyped DEF SetDefaultAtStripe, LateDefault, StripeTypes
  <2> QED
    BY <1>0, <1>9, <2>2, <2>3 DEF SetDefaultAtStripe, LateDefault, TableTypes
<1>10. CASE Expire(p)
  <2>1. call[p].at = "default" /\ call[p].customer \in Customers
    BY <1>0, <1>10 DEF Expire, CallsTyped, CallsKnow
  <2>2. CallsTyped'
    BY <1>10, <2>1, CallGoes DEF Expire, CallsTyped
  <2> QED
    BY <1>0, <1>10, <2>2 DEF Expire, StripeTypes, TableTypes
<1>11. CASE CommitAttach(p) \/ CommitDefault(p) \/ Delete(p) \/ Fail(p)
  <2>1. CallsTyped'
    BY <1>11, CallEnds DEF CommitAttach, CommitDefault, Delete, Fail, CallsTyped
  <2>2. call[p].card \in Cards
    BY <1>0, <1>11 DEF CommitAttach, CommitDefault, Delete, Fail, CallsTyped, CallsKnow
  <2>3. TableTypes'
    <3> USE <1>0, <2>2 DEF TableTypes
    <3>1. CASE CommitAttach(p)
      BY <3>1 DEF CommitAttach, Upsert
    <3>2. CASE CommitDefault(p)
      BY <3>2, MarkOnlyTyped DEF CommitDefault
    <3>3. CASE Delete(p)
      BY <3>3 DEF Delete
    <3>4. CASE Fail(p)
      BY <3>4 DEF Fail
    <3> QED
      BY <1>11, <3>1, <3>2, <3>3, <3>4
  <2> QED
    BY <1>0, <1>11, <2>1, <2>3
       DEF CommitAttach, CommitDefault, Delete, Fail, StripeTypes
<1>12. CASE DetachCard(p)
  <2>1. call[p].at = "detach" /\ call[p].card \in Cards
    BY <1>0, <1>12 DEF DetachCard, CallsTyped, CallsKnow
  <2>2. CallsTyped'
    BY <1>12, <2>1, CallGoes DEF DetachCard, CallsTyped
  <2>3. StripeTypes'
    <3>1. CASE Attached(call[p].card)
      <4>1. holder[call[p].card] \in Customers
        BY <3>1 DEF Attached
      <4> QED
        BY <1>0, <1>12, <2>1, <3>1, <4>1, StripeTyped DEF DetachCard, StripeTypes
    <3>2. CASE ~Attached(call[p].card)
      BY <1>0, <1>12, <3>2 DEF DetachCard, StripeTypes
    <3> QED
      BY <3>1, <3>2
  <2> QED
    BY <1>0, <1>12, <2>2, <2>3 DEF DetachCard, TableTypes
<1> QED
  BY <1>2, <1>3, <1>4, <1>5, <1>6, <1>7, <1>8, <1>9, <1>10, <1>11, <1>12 DEF Route

\* A step of a webhook delivery.
LEMMA WebhookTyped ==
  ASSUME TInv, NEW h \in Handlers, Webhook(h)
  PROVE  TInv'
<1> USE DEF stripe, table, seen
<1>0. StripeTypes /\ TableTypes /\ CallsTyped /\ HandlersTyped
  BY TypesByOwner
<1>1. handler[h] \in HandlerType
  BY <1>0 DEF HandlersTyped
<1>2. Waiting \in HandlerType /\ Waiting.at = "idle"
  BY DEF Waiting, HandlerType
<1>3. ASSUME NEW r \in HandlerType, handler' = [handler EXCEPT ![h] = r],
             r # Waiting => r.topic \in Topics,
             r.at \in {"retrieve", "upsert", "remove"} => r.topic \in Cards
      PROVE  HandlersTyped'
  <2>1. \A g \in Handlers : handler'[g] = IF g = h THEN r ELSE handler[g]
    BY <1>0, <1>3 DEF HandlersTyped
  <2> QED
    BY <1>0, <1>3, <2>1 DEF HandlersTyped, HandlersKnow
<1>4. Acknowledge(h) => HandlersTyped'
  BY <1>2, <1>3 DEF Acknowledge
<1> SUFFICES StripeTypes' /\ TableTypes' /\ HandlersTyped' /\ UNCHANGED call
  BY <1>0, TypesByOwnerNext DEF CallsTyped, CallsKnow
<1>5. ASSUME NEW t \in Topics, Deliver(h, t)
      PROVE  StripeTypes' /\ TableTypes' /\ HandlersTyped' /\ UNCHANGED call
  <2> DEFINE step == IF t = "customer" THEN "lock" ELSE "retrieve"
             r == [handler[h] EXCEPT !.topic = t, !.at = step]
  <2>1. /\ r \in HandlerType /\ r.topic = t /\ r.at = step
        /\ handler' = [handler EXCEPT ![h] = r]
    BY <1>1, <1>5 DEF Deliver, HandlerType
  <2>2. step = "retrieve" => t \in Cards
    BY DEF Topics
  <2>3. step \in {"lock", "retrieve"}
    OBVIOUS
  <2> HIDE DEF r, step
  <2>4. HandlersTyped'
    BY <1>3, <2>1, <2>2, <2>3
  <2>5. owed[t] \in Nat /\ owed[t] > 0
    BY <1>0, <1>5 DEF Deliver, StripeTypes
  <2>6. StripeTypes'
    BY <1>0, <1>5, <2>5 DEF Deliver, StripeTypes
  <2> QED
    BY <1>0, <1>5, <2>4, <2>6 DEF Deliver, TableTypes
<1>6. CASE Retrieve(h)
  <2> DEFINE step == IF AttachedNow(handler[h].topic) THEN "upsert" ELSE "remove"
             r == [handler[h] EXCEPT !.at = step]
  <2>1. r \in HandlerType /\ r.topic = handler[h].topic /\ r.at = step
    BY <1>1 DEF HandlerType
  <2>2. handler[h].topic \in Cards /\ handler[h].topic \in Topics
    BY <1>0, <1>6 DEF Retrieve, HandlersTyped, HandlersKnow, Topics
  <2>3. Acknowledge(h) \/ handler' = [handler EXCEPT ![h] = r]
    BY <1>6 DEF Retrieve
  <2> HIDE DEF r
  <2>4. HandlersTyped'
    BY <1>3, <1>4, <2>1, <2>2, <2>3
  <2> QED
    BY <1>0, <1>6, <2>4 DEF Retrieve, StripeTypes, TableTypes
<1>7. CASE Reconcile(h)
  <2>1. handler[h].topic \in Cards
    BY <1>0, <1>7 DEF Reconcile, HandlersTyped, HandlersKnow
  <2> QED
    BY <1>0, <1>4, <1>7, <2>1 DEF Reconcile, Upsert, StripeTypes, TableTypes
<1>8. CASE SoftDelete(h)
  BY <1>0, <1>4, <1>8 DEF SoftDelete, Live, StripeTypes, TableTypes
<1>9. CASE LockDefault(h)
  <2> DEFINE r == [handler[h] EXCEPT !.at = "apply", !.default = default]
  <2>1. r \in HandlerType /\ r.topic = handler[h].topic /\ r.at = "apply"
    BY <1>0, <1>1 DEF HandlerType, StripeTypes
  <2>2. handler[h].topic \in Topics
    <3>1. handler[h] # Waiting
      BY <1>2, <1>9 DEF LockDefault
    <3> QED
      BY <1>0, <3>1 DEF HandlersTyped, HandlersKnow
  <2>3. handler' = [handler EXCEPT ![h] = r]
    BY <1>9 DEF LockDefault
  <2> HIDE DEF r
  <2>4. HandlersTyped'
    BY <1>3, <2>1, <2>2, <2>3
  <2> QED
    BY <1>0, <1>9, <2>4 DEF LockDefault, StripeTypes, TableTypes
<1>10. CASE ApplyDefault(h)
  <2>1. isDefault' \in [Cards -> BOOLEAN]
    BY <1>0, <1>10, MarkOnlyTyped DEF ApplyDefault, TableTypes
  <2>2. missed' \subseteq Cards
    BY <1>0, <1>1, <1>10 DEF ApplyDefault, TableTypes, HandlerType
  <2> QED
    BY <1>0, <1>4, <1>10, <2>1, <2>2 DEF ApplyDefault, StripeTypes, TableTypes
<1>11. CASE Redeliver(h)
  <2>1. owed' \in [Topics -> Nat]
    BY <1>0, <1>11, EmitTyped DEF Redeliver, StripeTypes
  <2> QED
    BY <1>0, <1>4, <1>11, <2>1 DEF Redeliver, StripeTypes, TableTypes
<1> QED
  BY <1>5, <1>6, <1>7, <1>8, <1>9, <1>10, <1>11 DEF Webhook

\* What happens at Stripe without the routes.
LEMMA OutsideTyped ==
  ASSUME TInv, Outside \/ KeyExpires
  PROVE  TInv'
<1> USE DEF stripe, table, seen
<1>0. StripeTypes /\ TableTypes /\ CallsTyped /\ HandlersTyped
  BY TypesByOwner
<1>1. CASE Outside
  <2>1. customer \in Customers
    BY <1>0, <1>1 DEF Outside, TableTypes
  <2>2. outside' \in 0..MaxOutside
    BY <1>0, <1>1, PaymentMethodsAssumption DEF Outside, StripeTypes
  <2>3. StripeTypes'
    <3>1. PICK c \in Cards :
            \/ Attach(c, customer) \/ DetachAtStripe(c) \/ MakeDefault(c, customer)
            \/ /\ \E t \in {c, "customer"} : Emit({t})
               /\ UNCHANGED <<holder, default, made, key>>
      BY <1>1 DEF Outside
    <3>2. CASE Attach(c, customer) \/ DetachAtStripe(c) \/ MakeDefault(c, customer)
      BY <2>1, <2>2, <3>2, StripeTyped DEF StripeTypes
    <3>3. CASE /\ \E t \in {c, "customer"} : Emit({t})
               /\ UNCHANGED <<holder, default, made, key>>
      BY <1>0, <2>2, <3>3, EmitTyped DEF StripeTypes
    <3> QED
      BY <3>1, <3>2, <3>3
  <2> QED
    BY <1>0, <1>1, <2>3, TypesByOwnerNext
       DEF Outside, TableTypes, CallsTyped, CallsKnow, HandlersTyped, HandlersKnow
<1>2. CASE KeyExpires
  BY <1>0, <1>2, TypesByOwnerNext
     DEF KeyExpires, StripeTypes, TableTypes, CallsTyped, CallsKnow,
         HandlersTyped, HandlersKnow
<1> QED
  BY <1>1, <1>2

\* The types are kept by every step.
LEMMA TInvKept == TInv /\ [Next]_vars => TInv'
<1> SUFFICES ASSUME TInv, [Next]_vars PROVE TInv'
  OBVIOUS
<1>1. CASE UNCHANGED vars
  BY <1>1 DEF vars, stripe, table, seen, TInv, TypeOK, InTransaction, CallsKnow,
              HandlersKnow
<1> QED
  BY <1>1, RouteTyped, WebhookTyped, OutsideTyped DEF Next

\* Every variable keeps its type, and a route that is about to name a customer
\* to Stripe has one (ensureStripeCustomer, and the guards of set-default).
THEOREM TypeCorrect == Spec => []TypeOK
<1>1. TInv => TypeOK
  BY DEF TInv
<1> QED
  BY <1>1, InitTInv, TInvKept, PTL DEF Spec

-----------------------------------------------------------------------------
(* One default. *)

\* Whoever is inside a transaction holds the user's row.
LockHeld ==
  /\ \A p \in Calls : InTransaction(p) => lock = p
  /\ \A h \in Handlers : handler[h].at = "apply" => lock = h
\* While attach is about to make its card the default, no other is.
FirstAlone ==
  \A p \in Calls :
    InTransaction(p) /\ call[p].op = "attach" /\ call[p].first
      => Defaults \subseteq {call[p].card}
\* A card enters the table unmarked.
AbsentPlain == \A c \in Cards : row[c] = "absent" => ~isDefault[c]

DInv == TInv /\ LockHeld /\ FirstAlone /\ AbsentPlain /\ OneDefault

\* Initially there are neither transactions nor cards.
LEMMA InitDInv == Init => DInv
<1> SUFFICES ASSUME Init PROVE DInv
  OBVIOUS
<1>1. TInv
  BY InitTInv
<1>2. \A p \in Calls : call[p].at = "idle"
  BY DEF Init, Ready
<1>3. \A h \in Handlers : handler[h].at = "idle"
  BY DEF Init, Waiting
<1>4. LockHeld /\ FirstAlone
  BY <1>2, <1>3 DEF LockHeld, FirstAlone, InTransaction
<1>5. AbsentPlain /\ OneDefault
  BY DEF Init, AbsentPlain, OneDefault, Defaults, Live
<1> QED
  BY <1>1, <1>4, <1>5 DEF DInv

\* A step of a route touches no other call and no delivery.
LEMMA RouteIsLocal ==
  ASSUME TInv, NEW p \in Calls, Route(p)
  PROVE  /\ \A q \in Calls : q # p => call'[q] = call[q]
         /\ call' \in [Calls -> CallType] /\ UNCHANGED handler
<1>1. call \in [Calls -> CallType]
  BY DEF TInv, TypeOK, CallType
<1>2. call' \in [Calls -> CallType]
  BY RouteTyped, TypesByOwnerNext DEF CallsTyped
<1>3. \A q \in Calls : q # p => call'[q] = call[q]
  BY <1>1 DEF Route, Request, Ensure, Create, Persist, AttachCard, Find, Lock,
              SetDefaultAtStripe, Expire, LateDefault, CommitAttach,
              CommitDefault, DetachCard, Delete, Fail, Goto, Answer, Ensured
<1>4. UNCHANGED handler
  BY DEF Route, Request, Ensure, Create, Persist, AttachCard, Find, Lock,
         SetDefaultAtStripe, Expire, LateDefault, CommitAttach,
         CommitDefault, DetachCard, Delete, Fail
<1> QED
  BY <1>2, <1>3, <1>4

\* A step of a delivery touches no other delivery and no call.
LEMMA WebhookIsLocal ==
  ASSUME TInv, NEW h \in Handlers, Webhook(h)
  PROVE  /\ \A g \in Handlers : g # h => handler'[g] = handler[g]
         /\ handler' \in [Handlers -> HandlerType] /\ UNCHANGED call
<1>1. handler \in [Handlers -> HandlerType]
  BY DEF TInv, TypeOK, HandlerType
<1>2. handler' \in [Handlers -> HandlerType]
  BY WebhookTyped, TypesByOwnerNext DEF HandlersTyped
<1>3. \A g \in Handlers : g # h => handler'[g] = handler[g]
  BY <1>1 DEF Webhook, Deliver, Retrieve, Reconcile, SoftDelete, LockDefault,
              ApplyDefault, Redeliver, Acknowledge
<1>4. UNCHANGED call
  BY DEF Webhook, Deliver, Retrieve, Reconcile, SoftDelete, LockDefault,
         ApplyDefault, Redeliver
<1> QED
  BY <1>2, <1>3, <1>4

\* An insert marks nothing: the marked cards stay the same.
LEMMA UpsertMarksNothing ==
  ASSUME TInv, AbsentPlain, NEW c \in Cards, Upsert(c), UNCHANGED isDefault
  PROVE  AbsentPlain' /\ Defaults' = Defaults
<1>1. row \in [Cards -> {"absent", "live", "deleted"}]
  BY DEF TInv, TypeOK
<1>2. \A d \in Cards : row'[d] = IF d = c /\ row[d] = "absent" THEN "live" ELSE row[d]
  BY <1>1 DEF Upsert
<1> QED
  BY <1>2 DEF AbsentPlain, Defaults, Live

\* Marking some cards unmarks the others.
LEMMA MarkOnlyMarks ==
  ASSUME TInv, AbsentPlain, NEW cs, isDefault' = MarkOnly(cs), UNCHANGED row
  PROVE  AbsentPlain' /\ Defaults' \subseteq cs
BY DEF AbsentPlain, Defaults, Live, MarkOnly

\* A step of a route keeps the user's one default.
LEMMA RouteKeepsDefault ==
  ASSUME DInv, NEW p \in Calls, Route(p)
  PROVE  DInv'
<1> USE DEF InTransaction, table
<1>0. TInv /\ TInv'
  BY RouteTyped DEF DInv
<1>1. /\ \A q \in Calls : q # p => call'[q] = call[q]
      /\ call \in [Calls -> CallType] /\ call' \in [Calls -> CallType]
      /\ UNCHANGED handler
  BY <1>0, RouteIsLocal DEF TInv, TypeOK, CallType
<1> SUFFICES LockHeld' /\ FirstAlone' /\ AbsentPlain' /\ OneDefault'
  BY <1>0 DEF DInv
<1>2. ASSUME UNCHANGED <<row, isDefault, lock>>, ~InTransaction(p)'
      PROVE  LockHeld' /\ FirstAlone' /\ AbsentPlain' /\ OneDefault'
  <2>1. Defaults' = Defaults
    BY <1>2 DEF Defaults, Live
  <2> QED
    BY <1>1, <1>2, <2>1 DEF DInv, LockHeld, FirstAlone, AbsentPlain, OneDefault
<1>3. ASSUME lock = p, lock' = None, ~InTransaction(p)',
             AbsentPlain', OneDefault'
      PROVE  LockHeld' /\ FirstAlone'
  <2>1. \A q \in Calls : ~InTransaction(q)'
    BY <1>1, <1>3 DEF DInv, LockHeld
  <2>2. \A h \in Handlers : handler[h].at # "apply"
    BY <1>3, PaymentMethodsAssumption DEF DInv, LockHeld
  <2> QED
    BY <1>1, <2>1, <2>2 DEF LockHeld, FirstAlone
<1>4. CASE \/ \E op \in {"setup", "attach", "detach", "setDefault"}, c \in Cards :
                Request(p, op, c)
           \/ Ensure(p) \/ Create(p) \/ Persist(p) \/ AttachCard(p) \/ Find(p)
           \/ DetachCard(p) \/ LateDefault(p)
  <2>1. UNCHANGED <<row, isDefault, lock>>
    BY <1>4 DEF Request, Ensure, Create, Persist, AttachCard, Find, DetachCard,
                LateDefault
  <2>2. ~InTransaction(p)'
    <3>1. (\E op \in {"setup", "attach", "detach", "setDefault"}, c \in Cards :
             Request(p, op, c))
          => call'[p].at \in {"ensure", "find"}
      BY <1>1 DEF Request, CallType
    <3>2. Ensure(p) \/ Persist(p)
          => call'[p].at \in {"create", "attach", "done"}
      BY <1>1 DEF Ensure, Persist, Ensured, Answered, Ready, Goto, CallType
    <3>3. Create(p) => call'[p].at = "persist"
      BY <1>1 DEF Create, CallType
    <3>4. AttachCard(p) \/ DetachCard(p) \/ LateDefault(p)
          => call'[p].at \in {"lock", "delete", "done"}
      BY <1>1 DEF AttachCard, DetachCard, LateDefault, Answer, Answered, Ready,
                  Goto, CallType
    <3>5. Find(p) => call'[p].at \in {"detach", "lock", "done"}
      BY <1>1 DEF Find, Answer, Answered, Ready, CallType
    <3> QED
      BY <1>4, <3>1, <3>2, <3>3, <3>4, <3>5
  <2> QED
    BY <1>2, <2>1, <2>2
<1>5. CASE Lock(p)
  <2>1. lock = None /\ lock' = p /\ UNCHANGED <<row, isDefault>>
    BY <1>5 DEF Lock, LockFree
  <2>2. /\ \A q \in Calls : ~InTransaction(q)
        /\ \A h \in Handlers : handler[h].at # "apply"
    BY <2>1, PaymentMethodsAssumption DEF DInv, LockHeld
  <2>3. LockHeld'
    BY <1>1, <2>1, <2>2 DEF LockHeld
  <2>4. Defaults' = Defaults
    BY <2>1 DEF Defaults, Live
  <2>5. /\ call'[p].card = call[p].card
        /\ call'[p].first => Live \ {call[p].card} = {}
    BY <1>1, <1>5 DEF Lock, CallType
  <2>6. FirstAlone'
    BY <1>1, <2>2, <2>4, <2>5 DEF FirstAlone, Defaults
  <2> QED
    BY <2>1, <2>3, <2>4, <2>6 DEF DInv, AbsentPlain, OneDefault
<1>6. CASE SetDefaultAtStripe(p)
  <2>1. UNCHANGED <<row, isDefault, lock>>
    BY <1>6 DEF SetDefaultAtStripe
  <2>2. /\ InTransaction(p)
        /\ call'[p].card = call[p].card /\ call'[p].op = call[p].op
        /\ call'[p].first = call[p].first
    BY <1>1, <1>6 DEF SetDefaultAtStripe, Goto, CallType
  <2>3. Defaults' = Defaults
    BY <2>1 DEF Defaults, Live
  <2> QED
    BY <1>1, <2>1, <2>2, <2>3 DEF DInv, LockHeld, FirstAlone, AbsentPlain, OneDefault
<1>7. CASE Expire(p)
  <2>1. UNCHANGED <<row, isDefault>> /\ lock = p /\ lock' = None
    BY <1>7 DEF Expire, DInv, LockHeld
  <2>2. ~InTransaction(p)'
    BY <1>1, <1>7 DEF Expire, Goto, CallType
  <2>3. AbsentPlain' /\ OneDefault'
    BY <2>1 DEF DInv, AbsentPlain, OneDefault, Defaults, Live
  <2> QED
    BY <1>3, <2>1, <2>2, <2>3
<1>8. CASE CommitAttach(p) \/ CommitDefault(p)
  <2>1. InTransaction(p) /\ lock = p /\ lock' = None
    BY <1>8 DEF CommitAttach, CommitDefault, DInv, LockHeld
  <2>2. ~InTransaction(p)'
    BY <1>1, <1>8 DEF CommitAttach, CommitDefault, Answer, Answered, Ready
  <2>3. call[p].card \in Cards
    BY <1>0, <2>1 DEF TInv, CallsKnow
  <2>4. AbsentPlain' /\ OneDefault'
    <3>1. CASE CommitDefault(p)
      <4>1. AbsentPlain' /\ Defaults' \subseteq {call[p].card}
        BY <1>0, <3>1, MarkOnlyMarks DEF CommitDefault, DInv
      <4> QED
        BY <4>1 DEF OneDefault
    <3>2. CASE CommitAttach(p) /\ ~call[p].first
      <4>1. AbsentPlain' /\ Defaults' = Defaults
        BY <1>0, <2>3, <3>2, UpsertMarksNothing DEF CommitAttach, DInv
      <4> QED
        BY <4>1 DEF DInv, OneDefault
    <3>3. CASE CommitAttach(p) /\ call[p].first
      <4> DEFINE c == call[p].card
      <4>1. Defaults \subseteq {c}
        BY <2>1, <3>3 DEF CommitAttach, DInv, FirstAlone
      <4>2. /\ isDefault \in [Cards -> BOOLEAN]
            /\ row \in [Cards -> {"absent", "live", "deleted"}]
        BY <1>0 DEF TInv, TypeOK
      <4>3. /\ \A d \in Cards : d # c => row'[d] = row[d] /\ isDefault'[d] = isDefault[d]
            /\ row'[c] # "absent"
        BY <2>3, <3>3, <4>2 DEF CommitAttach, Upsert
      <4>4. Defaults' \subseteq {c}
        BY <4>1, <4>3 DEF Defaults, Live
      <4> QED
        BY <4>3, <4>4 DEF DInv, AbsentPlain, OneDefault
    <3> QED
      BY <1>8, <3>1, <3>2, <3>3
  <2> QED
    BY <1>3, <2>1, <2>2, <2>4
<1>9. CASE Delete(p)
  <2>1. UNCHANGED <<isDefault, lock>> /\ ~InTransaction(p)'
    BY <1>1, <1>9 DEF Delete, Answer, Answered, Ready
  <2>2. row \in [Cards -> {"absent", "live", "deleted"}]
    BY <1>0 DEF TInv, TypeOK
  <2>3. \A c \in Cards : row'[c] = row[c] \/ row'[c] = "deleted"
    BY <1>9, <2>2 DEF Delete
  <2>4. Defaults' \subseteq Defaults
    BY <2>1, <2>3 DEF Defaults, Live
  <2> QED
    BY <1>1, <2>1, <2>3, <2>4 DEF DInv, LockHeld, FirstAlone, AbsentPlain, OneDefault
<1>10. CASE Fail(p)
  <2>1. UNCHANGED <<row, isDefault>> /\ ~InTransaction(p)'
    BY <1>1, <1>10 DEF Fail, Answer, Answered, Ready
  <2>2. CASE lock = p
    <3>1. AbsentPlain' /\ OneDefault'
      BY <2>1 DEF DInv, AbsentPlain, OneDefault, Defaults, Live
    <3> QED
      BY <1>3, <1>10, <2>1, <2>2, <3>1 DEF Fail
  <2>3. CASE lock # p
    BY <1>2, <1>10, <2>1, <2>3 DEF Fail
  <2> QED
    BY <2>2, <2>3
<1> QED
  BY <1>4, <1>5, <1>6, <1>7, <1>8, <1>9, <1>10 DEF Route

\* A step of a delivery keeps the user's one default.
LEMMA WebhookKeepsDefault ==
  ASSUME DInv, NEW h \in Handlers, Webhook(h)
  PROVE  DInv'
<1> USE DEF InTransaction, table
<1>0. TInv /\ TInv'
  BY WebhookTyped DEF DInv
<1>1. /\ \A g \in Handlers : g # h => handler'[g] = handler[g]
      /\ handler \in [Handlers -> HandlerType]
      /\ handler' \in [Handlers -> HandlerType]
      /\ UNCHANGED call
  BY <1>0, WebhookIsLocal DEF TInv, TypeOK, HandlerType
<1>2. Acknowledge(h) => handler'[h].at = "idle"
  BY <1>1 DEF Acknowledge, Waiting
<1> SUFFICES LockHeld' /\ FirstAlone' /\ AbsentPlain' /\ OneDefault'
  BY <1>0 DEF DInv
<1>3. ASSUME UNCHANGED <<isDefault, lock>>, Defaults' \subseteq Defaults, AbsentPlain',
             handler'[h].at # "apply"
      PROVE  LockHeld' /\ FirstAlone' /\ AbsentPlain' /\ OneDefault'
  BY <1>1, <1>3 DEF DInv, LockHeld, FirstAlone, OneDefault
<1>4. ASSUME lock = h, lock' = None, handler'[h].at # "apply",
             AbsentPlain', OneDefault'
      PROVE  LockHeld' /\ FirstAlone'
  <2>1. /\ \A q \in Calls : ~InTransaction(q)
        /\ \A g \in Handlers : handler'[g].at # "apply"
    BY <1>1, <1>4, PaymentMethodsAssumption DEF DInv, LockHeld
  <2> QED
    BY <1>1, <2>1 DEF LockHeld, FirstAlone
<1>5. CASE (\E t \in Topics : Deliver(h, t)) \/ Retrieve(h)
  <2>1. UNCHANGED <<row, isDefault, lock>>
    BY <1>5 DEF Deliver, Retrieve
  <2>2. Defaults' = Defaults /\ AbsentPlain'
    BY <2>1 DEF DInv, AbsentPlain, Defaults, Live
  <2>3. (\E t \in Topics : Deliver(h, t)) => handler'[h].at # "apply"
    BY <1>1 DEF Deliver, HandlerType
  <2>4. Retrieve(h) => handler'[h].at # "apply"
    BY <1>1, <1>2 DEF Retrieve, HandlerType
  <2> QED
    BY <1>3, <1>5, <2>1, <2>2, <2>3, <2>4
<1>6. CASE Reconcile(h)
  <2>1. handler[h].topic \in Cards
    BY <1>0, <1>6 DEF Reconcile, TInv, HandlersKnow
  <2>2. AbsentPlain' /\ Defaults' = Defaults
    BY <1>0, <1>6, <2>1, UpsertMarksNothing DEF Reconcile, DInv
  <2> QED
    BY <1>2, <1>3, <1>6, <2>2 DEF Reconcile
<1>7. CASE SoftDelete(h)
  <2>1. row \in [Cards -> {"absent", "live", "deleted"}]
    BY <1>0 DEF TInv, TypeOK
  <2>2. \A c \in Cards : row'[c] = row[c] \/ (row[c] = "live" /\ row'[c] = "deleted")
    BY <1>7, <2>1 DEF SoftDelete, Live
  <2>3. AbsentPlain' /\ Defaults' \subseteq Defaults
    BY <1>7, <2>2 DEF SoftDelete, DInv, AbsentPlain, Defaults, Live
  <2> QED
    BY <1>2, <1>3, <1>7, <2>3 DEF SoftDelete
<1>8. CASE LockDefault(h)
  <2>1. lock = None /\ lock' = h /\ UNCHANGED <<row, isDefault>>
    BY <1>8 DEF LockDefault, LockFree
  <2>2. /\ \A q \in Calls : ~InTransaction(q)
        /\ \A g \in Handlers : handler[g].at # "apply"
    BY <2>1, PaymentMethodsAssumption DEF DInv, LockHeld
  <2> QED
    BY <1>1, <2>1, <2>2 DEF DInv, LockHeld, FirstAlone, AbsentPlain, OneDefault,
                            Defaults, Live
<1>9. CASE ApplyDefault(h)
  <2>1. lock = h /\ lock' = None /\ handler'[h].at # "apply"
    BY <1>2, <1>9 DEF ApplyDefault, DInv, LockHeld
  <2>2. AbsentPlain' /\ OneDefault'
    <3> DEFINE wanted == {handler[h].default} \ {None}
    <3>1. UNCHANGED row /\ (UNCHANGED isDefault \/ isDefault' = MarkOnly(wanted))
      BY <1>9 DEF ApplyDefault
    <3>2. CASE UNCHANGED isDefault
      BY <3>1, <3>2 DEF DInv, AbsentPlain, OneDefault, Defaults, Live
    <3>3. CASE isDefault' = MarkOnly(wanted)
      <4>1. AbsentPlain' /\ Defaults' \subseteq wanted
        BY <1>0, <3>1, <3>3, MarkOnlyMarks DEF DInv
      <4> QED
        BY <4>1 DEF OneDefault
    <3> QED
      BY <3>1, <3>2, <3>3
  <2> QED
    BY <1>4, <2>1, <2>2
<1>10. CASE Redeliver(h)
  <2>1. UNCHANGED <<row, isDefault>> /\ handler'[h].at # "apply"
    BY <1>2, <1>10 DEF Redeliver
  <2>2. AbsentPlain' /\ OneDefault' /\ Defaults' = Defaults
    BY <2>1 DEF DInv, AbsentPlain, OneDefault, Defaults, Live
  <2>3. CASE lock = h
    BY <1>4, <1>10, <2>1, <2>2, <2>3 DEF Redeliver
  <2>4. CASE lock # h
    BY <1>3, <1>10, <2>1, <2>2, <2>4 DEF Redeliver
  <2> QED
    BY <2>3, <2>4
<1> QED
  BY <1>5, <1>6, <1>7, <1>8, <1>9, <1>10 DEF Webhook

\* The default stays one through every step.
LEMMA DInvKept == DInv /\ [Next]_vars => DInv'
<1> SUFFICES ASSUME DInv, [Next]_vars PROVE DInv'
  OBVIOUS
<1>1. CASE Outside \/ KeyExpires \/ UNCHANGED vars
  <2>1. TInv'
    BY TInvKept DEF DInv
  <2>2. UNCHANGED <<row, isDefault, lock, call, handler>>
    BY <1>1 DEF Outside, KeyExpires, vars, table
  <2> QED
    BY <2>1, <2>2 DEF DInv, LockHeld, FirstAlone, AbsentPlain, OneDefault,
                            Defaults, Live, InTransaction
<1> QED
  BY <1>1, RouteKeepsDefault, WebhookKeepsDefault DEF Next

\* However attach, set-default and customer.updated interleave, fail and time
\* out, the user never has two default cards (lockUserRow).
THEOREM AtMostOneDefault == Spec => []OneDefault
<1>1. DInv => OneDefault
  BY DEF DInv
<1> QED
  BY <1>1, InitDInv, DInvKept, PTL DEF Spec

-----------------------------------------------------------------------------
(* One customer. *)

\* Who acts for a customer acts for the one the table knows.
CallsAgree ==
  \A p \in Calls :
    call[p].at \in {"attach", "lock", "default", "late", "write"}
      => call[p].customer = customer

KInv == TInv /\ CallsAgree /\ CustomerIsKnown

\* A step of a route keeps to the customer the table knows.
LEMMA RouteKeepsCustomer ==
  ASSUME KInv, NEW p \in Calls, Route(p)
  PROVE  CallsAgree' /\ CustomerIsKnown'
<1> USE DEF table, stripe
<1>0. TInv /\ TInv'
  BY RouteTyped DEF KInv
<1>1. /\ \A q \in Calls : q # p => call'[q] = call[q]
      /\ call \in [Calls -> CallType] /\ call' \in [Calls -> CallType]
  BY <1>0, RouteIsLocal DEF TInv, TypeOK, CallType
<1>2. holder \in [Cards -> {"new", "detached"} \cup Customers]
  BY <1>0 DEF TInv, TypeOK
<1>3. ASSUME UNCHANGED customer,
             call'[p].at \in {"attach", "lock", "default", "late", "write"}
               => call'[p].customer = customer
      PROVE  CallsAgree'
  BY <1>1, <1>3 DEF KInv, CallsAgree
<1>4. ASSUME UNCHANGED <<customer, holder>>
      PROVE  CustomerIsKnown'
  BY <1>4 DEF KInv, CustomerIsKnown, Attached
<1>5. Answer(p) => call'[p].at = "done"
  BY <1>1 DEF Answer, Answered, Ready
<1>6. CASE \E op \in {"setup", "attach", "detach", "setDefault"}, c \in Cards :
             Request(p, op, c)
  <2>1. UNCHANGED <<customer, holder>> /\ call'[p].at \in {"ensure", "find"}
    BY <1>1, <1>6 DEF Request, CallType
  <2> QED
    BY <1>3, <1>4, <2>1
<1>7. CASE Ensure(p)
  <2>1. call'[p].at \in {"create", "done"} \/ call'[p].customer = customer
    BY <1>1, <1>7 DEF Ensure, Ensured, Answered, Ready, Goto, CallType
  <2> QED
    BY <1>3, <1>4, <1>7, <2>1 DEF Ensure
<1>8. CASE Create(p)
  <2>1. call'[p].at = "persist"
    BY <1>1, <1>8 DEF Create, CallType
  <2> QED
    BY <1>3, <1>4, <1>8, <2>1 DEF Create
<1>9. CASE Persist(p)
  <2>1. /\ customer' = Persisted(call[p].customer) /\ UNCHANGED holder
        /\ customer # None => UNCHANGED customer
    BY <1>9 DEF Persist, Persisted
  <2>2. call'[p].at = "done" \/ call'[p].customer = customer'
    BY <1>1, <1>9, <2>1 DEF Persist, Ensured, Answered, Ready, CallType
  <2>3. CASE customer # None
    BY <1>3, <1>4, <2>1, <2>2, <2>3
  <2>4. CASE customer = None
    <3>1. \A c \in Cards : ~Attached(c)
      BY <2>4, PaymentMethodsAssumption DEF KInv, CustomerIsKnown, Attached
    <3>2. \A q \in Calls :
            call[q].at \notin {"attach", "lock", "default", "late", "write"}
      BY <1>0, <2>4, PaymentMethodsAssumption DEF KInv, CallsAgree, TInv, CallsKnow
    <3> QED
      BY <1>1, <2>1, <2>2, <3>1, <3>2 DEF CallsAgree, CustomerIsKnown, Attached
  <2> QED
    BY <2>3, <2>4
<1>10. CASE AttachCard(p)
  <2> DEFINE c == call[p].card
  <2>1. /\ call[p].customer = customer /\ UNCHANGED customer
        /\ holder' = holder \/ holder' = [holder EXCEPT ![c] = customer]
    BY <1>10 DEF AttachCard, Attach, KInv, CallsAgree
  <2>2. CustomerIsKnown'
    BY <1>2, <2>1 DEF KInv, CustomerIsKnown, Attached
  <2>3. call'[p].at = "done" \/ call'[p].customer = call[p].customer
    BY <1>1, <1>5, <1>10 DEF AttachCard, Goto, CallType
  <2> QED
    BY <1>3, <2>1, <2>2, <2>3
<1>11. CASE Find(p)
  <2>1. call'[p].at = "done" \/ call'[p].customer = customer
    BY <1>1, <1>5, <1>11 DEF Find, CallType
  <2> QED
    BY <1>3, <1>4, <1>11, <2>1 DEF Find
<1>12. CASE Lock(p) \/ SetDefaultAtStripe(p) \/ Expire(p)
  <2>1. call[p].customer = customer /\ UNCHANGED <<customer, holder>>
    BY <1>12 DEF Lock, SetDefaultAtStripe, Expire, MakeDefault, KInv, CallsAgree
  <2>2. call'[p].customer = call[p].customer
    BY <1>1, <1>12 DEF Lock, SetDefaultAtStripe, Expire, Goto, CallType
  <2> QED
    BY <1>3, <1>4, <2>1, <2>2
<1>13. CASE LateDefault(p) \/ CommitAttach(p) \/ CommitDefault(p) \/ Delete(p) \/ Fail(p)
  <2>1. UNCHANGED <<customer, holder>> /\ Answer(p)
    BY <1>13 DEF LateDefault, CommitAttach, CommitDefault, Delete, Fail, MakeDefault
  <2> QED
    BY <1>3, <1>4, <1>5, <2>1
<1>14. CASE DetachCard(p)
  <2>1. /\ UNCHANGED customer
        /\ holder' = holder \/ holder' = [holder EXCEPT ![call[p].card] = "detached"]
    BY <1>14 DEF DetachCard, DetachAtStripe
  <2>2. CustomerIsKnown'
    BY <1>2, <2>1, PaymentMethodsAssumption DEF KInv, CustomerIsKnown, Attached
  <2>3. call'[p].at = "delete"
    BY <1>1, <1>14 DEF DetachCard, Goto, CallType
  <2> QED
    BY <1>3, <2>1, <2>2, <2>3
<1> QED
  BY <1>6, <1>7, <1>8, <1>9, <1>10, <1>11, <1>12, <1>13, <1>14 DEF Route

\* The customer stays one through every step.
LEMMA KInvKept == KInv /\ [Next]_vars => KInv'
<1> SUFFICES ASSUME KInv, [Next]_vars PROVE KInv'
  OBVIOUS
<1>0. TInv /\ TInv'
  BY TInvKept DEF KInv
<1>1. CASE Outside
  <2>1. /\ UNCHANGED <<customer, call>>
        /\ \/ holder' = holder
           \/ \E c \in Cards : \/ holder' = [holder EXCEPT ![c] = customer]
                               \/ holder' = [holder EXCEPT ![c] = "detached"]
    BY <1>1 DEF Outside, Attach, DetachAtStripe, MakeDefault, table
  <2>2. holder \in [Cards -> {"new", "detached"} \cup Customers]
    BY <1>0 DEF TInv, TypeOK
  <2>3. CustomerIsKnown'
    BY <2>1, <2>2, PaymentMethodsAssumption DEF KInv, CustomerIsKnown, Attached
  <2> QED
    BY <1>0, <2>1, <2>3 DEF KInv, CallsAgree
<1>2. CASE KeyExpires \/ UNCHANGED vars \/ \E h \in Handlers : Webhook(h)
  <2>1. UNCHANGED <<customer, holder, call>>
    BY <1>2 DEF KeyExpires, vars, Webhook, Deliver, Retrieve, Reconcile, SoftDelete,
                LockDefault, ApplyDefault, Redeliver, table, stripe
  <2> QED
    BY <1>0, <2>1 DEF KInv, CallsAgree, CustomerIsKnown, Attached
<1> QED
  BY <1>0, <1>1, <1>2, RouteKeepsCustomer DEF KInv, Next

\* Initially nobody acts for a customer.
LEMMA InitKInv == Init => KInv
<1> SUFFICES ASSUME Init PROVE KInv
  OBVIOUS
<1>1. \A p \in Calls : call[p].at = "idle"
  BY DEF Init, Ready
<1>2. CustomerIsKnown
  BY PaymentMethodsAssumption DEF Init, CustomerIsKnown, Attached
<1> QED
  BY <1>1, <1>2, InitTInv DEF KInv, CallsAgree

\* Cards are attached only to the customer the table knows: the conditional
\* update keeps the first one, and nobody acts for another (ensureStripeCustomer).
THEOREM OneCustomer == Spec => []CustomerIsKnown
<1>1. KInv => CustomerIsKnown
  BY DEF KInv
<1> QED
  BY InitKInv, <1>1, KInvKept, PTL DEF Spec

-----------------------------------------------------------------------------
(* Deleted cards stay detached. *)

Begun(c) == holder[c] # "new"
Gone(c) == holder[c] = "detached"

\* Whatever knows a card knows it after Stripe attached it ...
KnownArePast ==
  /\ \A c \in Cards : row[c] # "absent" \/ owed[c] > 0 => Begun(c)
  /\ \A h \in Handlers : handler[h].topic \in Cards => Begun(handler[h].topic)
  /\ \A p \in Calls :
       call[p].at \in {"lock", "default", "late", "write", "detach", "delete"}
         => Begun(call[p].card)
\* ... and whatever deletes its row comes after Stripe detached it.
DeletersAreLate ==
  /\ \A c \in Cards : row[c] = "deleted" => Gone(c)
  /\ \A h \in Handlers : handler[h].at = "remove" => Gone(handler[h].topic)
  /\ \A p \in Calls : call[p].at = "delete" => Gone(call[p].card)

GInv == TInv /\ KnownArePast /\ DeletersAreLate

\* At Stripe a card is attached once, and detached for good.
LEMMA HolderMovesOn ==
  ASSUME TInv, TInv', [Next]_vars
  PROVE  \A c \in Cards : (Begun(c) => Begun(c)') /\ (Gone(c) => Gone(c)')
<1> USE DEF Begun, Gone
<1>1. holder \in [Cards -> {"new", "detached"} \cup Customers]
  BY DEF TInv, TypeOK
<1>2. ASSUME NEW c \in Cards, NEW id \in Customers, holder[c] = "new", Attach(c, id)
      PROVE  \A d \in Cards : (Begun(d) => Begun(d)') /\ (Gone(d) => Gone(d)')
  BY <1>1, <1>2, PaymentMethodsAssumption DEF Attach
<1>3. ASSUME NEW c \in Cards, DetachAtStripe(c)
      PROVE  \A d \in Cards : (Begun(d) => Begun(d)') /\ (Gone(d) => Gone(d)')
  BY <1>1, <1>3 DEF DetachAtStripe
<1>4. CASE UNCHANGED holder
  BY <1>4
<1>5. CASE Outside
  <2>1. customer \in Customers
    BY <1>5 DEF Outside, TInv, TypeOK
  <2>2. UNCHANGED holder \/ \E c \in Cards :
          (holder[c] = "new" /\ Attach(c, customer)) \/ DetachAtStripe(c)
    BY <1>5 DEF Outside, MakeDefault
  <2> QED
    BY <1>2, <1>3, <1>4, <2>1, <2>2
<1>6. ASSUME NEW p \in Calls, Route(p)
      PROVE  \A c \in Cards : (Begun(c) => Begun(c)') /\ (Gone(c) => Gone(c)')
  <2>1. CASE AttachCard(p)
    <3>1. call[p].card \in Cards /\ call[p].customer \in Customers
      BY <2>1 DEF AttachCard, TInv, CallsKnow
    <3> QED
      BY <1>2, <1>4, <2>1, <3>1 DEF AttachCard, stripe
  <2>2. CASE DetachCard(p)
    <3>1. call[p].card \in Cards
      BY <2>2 DEF DetachCard, TInv, CallsKnow
    <3> QED
      BY <1>3, <1>4, <2>2, <3>1 DEF DetachCard, stripe
  <2>3. CASE ~AttachCard(p) /\ ~DetachCard(p)
    <3>1. UNCHANGED holder
      BY <1>6, <2>3 DEF Route, Request, Ensure, Create, Persist, Find, Lock,
             SetDefaultAtStripe, Expire, LateDefault, CommitAttach, CommitDefault,
             Delete, Fail, MakeDefault, stripe
    <3> QED
      BY <1>4, <3>1
  <2> QED
    BY <2>1, <2>2, <2>3
<1>7. CASE KeyExpires \/ UNCHANGED vars \/ \E h \in Handlers : Webhook(h)
  <2>1. UNCHANGED holder
    BY <1>7 DEF KeyExpires, vars, Webhook, Deliver, Retrieve, Reconcile, SoftDelete,
                LockDefault, ApplyDefault, Redeliver, stripe
  <2> QED
    BY <1>4, <2>1
<1> QED
  BY <1>5, <1>6, <1>7 DEF Next

\* A step of a route deletes only what Stripe has let go.
LEMMA RouteDeletesLate ==
  ASSUME GInv, NEW p \in Calls, Route(p)
  PROVE  KnownArePast' /\ DeletersAreLate'
<1> USE DEF table, stripe, Begun, Gone
<1>0. TInv /\ TInv'
  BY RouteTyped DEF GInv
<1>1. /\ \A q \in Calls : q # p => call'[q] = call[q]
      /\ call \in [Calls -> CallType] /\ call' \in [Calls -> CallType]
      /\ UNCHANGED handler
  BY <1>0, RouteIsLocal DEF TInv, TypeOK, CallType
<1>2. \A c \in Cards : (Begun(c) => Begun(c)') /\ (Gone(c) => Gone(c)')
  BY <1>0, HolderMovesOn DEF Next
<1>3. /\ row \in [Cards -> {"absent", "live", "deleted"}] /\ owed \in [Topics -> Nat]
      /\ holder \in [Cards -> {"new", "detached"} \cup Customers]
  BY <1>0 DEF TInv, TypeOK
<1>4. \A q \in Calls : call[q].at \notin {"idle", "done"} => call[q].card \in Cards
  BY <1>0 DEF TInv, CallsKnow
<1>5. \A h \in Handlers : handler[h].at = "remove" => handler[h].topic \in Cards
  BY <1>0 DEF TInv, HandlersKnow
\* What the step has to show of the call that took it, and of rows and events.
<1>6. ASSUME call'[p].at \in {"lock", "default", "late", "write", "detach", "delete"}
               => call'[p].card \in Cards /\ Begun(call[p].card)',
             call'[p].at = "delete" => Gone(call[p].card)',
             \A c \in Cards : row'[c] # "absent" => Begun(c)',
             \A c \in Cards : owed'[c] > 0 => Begun(c)',
             \A c \in Cards : row'[c] = "deleted" => Gone(c)'
      PROVE  KnownArePast' /\ DeletersAreLate'
  <2>1. \A q \in Calls : q # p =>
          /\ call'[q].at \in {"lock", "default", "late", "write", "detach", "delete"}
               => Begun(call[q].card)'
          /\ call'[q].at = "delete" => Gone(call[q].card)'
    BY <1>1, <1>2, <1>4 DEF GInv, KnownArePast, DeletersAreLate, Begun, Gone
  <2>2. \A h \in Handlers :
          /\ handler'[h].topic \in Cards => Begun(handler[h].topic)'
          /\ handler'[h].at = "remove" => Gone(handler[h].topic)'
    BY <1>1, <1>2, <1>5 DEF GInv, KnownArePast, DeletersAreLate, Begun, Gone
  <2> QED
    BY <1>6, <2>1, <2>2 DEF KnownArePast, DeletersAreLate, Begun, Gone
<1>7. ASSUME UNCHANGED row
      PROVE  \A c \in Cards : /\ row'[c] # "absent" => Begun(c)'
                              /\ row'[c] = "deleted" => Gone(c)'
  BY <1>2, <1>7 DEF GInv, KnownArePast, DeletersAreLate
<1>8. ASSUME UNCHANGED owed
      PROVE  \A c \in Cards : owed'[c] > 0 => Begun(c)'
  BY <1>2, <1>8 DEF GInv, KnownArePast
<1>9. ASSUME NEW ts, Emit(ts), \A c \in Cards : c \in ts => Begun(c)'
      PROVE  \A c \in Cards : owed'[c] > 0 => Begun(c)'
  BY <1>2, <1>3, <1>9 DEF Emit, Topics, GInv, KnownArePast
<1>10. Answer(p) => call'[p].at = "done"
  BY <1>1 DEF Answer, Answered, Ready
<1>12. CASE (\E op \in {"setup", "attach", "detach", "setDefault"}, c \in Cards :
               Request(p, op, c))
            \/ Ensure(p) \/ Create(p) \/ Persist(p)
  <2>1. UNCHANGED <<row, owed>>
    BY <1>12 DEF Request, Ensure, Create, Persist
  <2>2. (\E op \in {"setup", "attach", "detach", "setDefault"}, c \in Cards :
           Request(p, op, c))
        => call'[p].at \in {"ensure", "find"}
    BY <1>1 DEF Request, CallType
  <2>3. Ensure(p) \/ Persist(p) => call'[p].at \in {"create", "attach", "done"}
    BY <1>1 DEF Ensure, Persist, Ensured, Answered, Ready, Goto, CallType
  <2>4. Create(p) => call'[p].at = "persist"
    BY <1>1 DEF Create, CallType
  <2>5. call'[p].at \in {"ensure", "find", "create", "attach", "done", "persist"}
    BY <1>12, <2>2, <2>3, <2>4
  <2> QED
    BY <1>6, <1>7, <1>8, <2>1, <2>5
<1>13. CASE AttachCard(p)
  <2> DEFINE c == call[p].card
  <2>1. c \in Cards /\ call[p].customer \in Customers /\ UNCHANGED row
    BY <1>0, <1>13 DEF AttachCard, TInv, CallsKnow
  <2>2. /\ call'[p].at = "done" \/ (call'[p].at = "lock" /\ call'[p].card = c)
        /\ call'[p].at = "lock" => Begun(c)'
    BY <1>1, <1>3, <1>10, <1>13, <2>1, PaymentMethodsAssumption
       DEF AttachCard, Attach, Goto, CallType, Begun
  <2>3. UNCHANGED owed \/ (Emit({c}) /\ holder'[c] # "new")
    BY <1>3, <1>13, <2>1, PaymentMethodsAssumption DEF AttachCard, Attach, Begun
  <2>4. \A d \in Cards : owed'[d] > 0 => Begun(d)'
    BY <1>8, <1>9, <2>3
  <2> QED
    BY <1>6, <1>7, <2>1, <2>2, <2>4
<1>14. CASE Find(p)
  <2>1. UNCHANGED <<row, owed>> /\ call[p].card \in Cards
    BY <1>4, <1>14 DEF Find
  <2>2. \/ call'[p].at = "done"
        \/ /\ call'[p].at \in {"detach", "lock"}
           /\ call'[p].card = call[p].card /\ call[p].card \in Live
    BY <1>1, <1>10, <1>14 DEF Find, CallType
  <2>3. call[p].card \in Live => Begun(call[p].card)
    BY <2>1 DEF Live, GInv, KnownArePast
  <2>4. call'[p].card = call[p].card /\ Begun(call[p].card) => Begun(call[p].card)'
    BY <1>2, <2>1 DEF Begun
  <2> QED
    BY <1>6, <1>7, <1>8, <2>1, <2>2, <2>3, <2>4
<1>15. CASE Lock(p) \/ SetDefaultAtStripe(p) \/ Expire(p)
  <2>1. /\ UNCHANGED row /\ call[p].at \in {"lock", "default"}
        /\ UNCHANGED owed \/ Emit({"customer"})
    BY <1>15 DEF Lock, SetDefaultAtStripe, Expire, MakeDefault
  <2>2. /\ call'[p].at \in {"default", "write", "late"}
        /\ call'[p].card = call[p].card
    BY <1>1, <1>15 DEF Lock, SetDefaultAtStripe, Expire, Goto, CallType
  <2>3. call[p].card \in Cards /\ Begun(call[p].card)'
    <3>1. call[p].card \in Cards /\ Begun(call[p].card)
      BY <1>4, <2>1 DEF GInv, KnownArePast
    <3> QED
      BY <1>2, <2>2, <3>1 DEF Begun
  <2>4. \A c \in Cards : owed'[c] > 0 => Begun(c)'
    BY <1>8, <1>9, <2>1, PaymentMethodsAssumption
  <2> QED
    BY <1>6, <1>7, <2>1, <2>2, <2>3, <2>4
<1>16. CASE LateDefault(p) \/ CommitDefault(p) \/ Fail(p)
  <2>1. /\ UNCHANGED row /\ Answer(p)
        /\ UNCHANGED owed \/ Emit({"customer"})
    BY <1>16 DEF LateDefault, CommitDefault, Fail, MakeDefault
  <2>2. \A c \in Cards : owed'[c] > 0 => Begun(c)'
    BY <1>8, <1>9, <2>1, PaymentMethodsAssumption
  <2>3. call'[p].at = "done"
    BY <1>10, <2>1
  <2>4. \A c \in Cards : row'[c] # "absent" => Begun(c)'
    BY <1>7, <2>1
  <2>5. \A c \in Cards : row'[c] = "deleted" => Gone(c)'
    BY <1>7, <2>1
  <2> QED
    BY <1>6, <2>2, <2>3, <2>4, <2>5
<1>17. CASE CommitAttach(p)
  <2>1. /\ UNCHANGED <<owed, holder>> /\ Answer(p) /\ Upsert(call[p].card)
        /\ call[p].card \in Cards /\ Begun(call[p].card)
    BY <1>4, <1>17 DEF CommitAttach, GInv, KnownArePast
  <2>2. \A c \in Cards : row'[c] = row[c] \/ (c = call[p].card /\ row'[c] = "live")
    BY <1>3, <2>1 DEF Upsert
  <2>3. \A c \in Cards : /\ row'[c] # "absent" => Begun(c)'
                         /\ row'[c] = "deleted" => Gone(c)'
    BY <2>1, <2>2 DEF GInv, KnownArePast, DeletersAreLate, Begun, Gone
  <2> QED
    BY <1>6, <1>8, <1>10, <2>1, <2>3
<1>18. CASE DetachCard(p)
  <2> DEFINE c == call[p].card
  <2>1. c \in Cards /\ Begun(c) /\ UNCHANGED row
    BY <1>4, <1>18 DEF DetachCard, GInv, KnownArePast
  <2>2. call'[p].at = "delete" /\ call'[p].card = c
    BY <1>1, <1>18 DEF DetachCard, Goto, CallType
  <2>3. holder'[c] = "detached"
    BY <1>3, <1>18, <2>1 DEF DetachCard, DetachAtStripe, Attached, Begun
  <2>4. Begun(call[p].card)' /\ Gone(call[p].card)'
    BY <2>2, <2>3 DEF Begun, Gone
  <2>5. \A d \in Cards : owed'[d] > 0 => Begun(d)'
    <3>1. CASE UNCHANGED owed
      BY <1>8, <3>1
    <3>2. CASE DetachAtStripe(c)
      <4>1. PICK ts : Emit(ts) /\ ts \subseteq {c, "customer"}
        BY <3>2 DEF DetachAtStripe
      <4>2. \A d \in Cards : d \in ts => Begun(d)'
        BY <2>3, <4>1, PaymentMethodsAssumption DEF Begun
      <4> QED
        BY <1>9, <4>1, <4>2
    <3> QED
      BY <1>18, <3>1, <3>2 DEF DetachCard
  <2> QED
    BY <1>6, <1>7, <2>1, <2>2, <2>4, <2>5
<1>19. CASE Delete(p)
  <2>1. /\ UNCHANGED <<owed, holder>> /\ Answer(p)
        /\ row' = [row EXCEPT ![call[p].card] = "deleted"]
        /\ call[p].card \in Cards /\ Begun(call[p].card) /\ Gone(call[p].card)
    BY <1>4, <1>19 DEF Delete, GInv, KnownArePast, DeletersAreLate
  <2>2. \A c \in Cards : row'[c] = IF c = call[p].card THEN "deleted" ELSE row[c]
    BY <1>3, <2>1
  <2>3. \A c \in Cards : /\ row'[c] # "absent" => Begun(c)'
                         /\ row'[c] = "deleted" => Gone(c)'
    BY <2>1, <2>2 DEF GInv, KnownArePast, DeletersAreLate, Begun, Gone
  <2> QED
    BY <1>6, <1>8, <1>10, <2>1, <2>3
<1> QED
  BY <1>12, <1>13, <1>14, <1>15, <1>16, <1>17, <1>18, <1>19 DEF Route

\* A step of a delivery deletes only what Stripe has let go.
LEMMA WebhookDeletesLate ==
  ASSUME GInv, NEW h \in Handlers, Webhook(h)
  PROVE  KnownArePast' /\ DeletersAreLate'
<1> USE DEF table, stripe, Begun, Gone
<1>0. TInv /\ UNCHANGED holder
  BY DEF GInv, Webhook, Deliver, Retrieve, Reconcile, SoftDelete, LockDefault,
         ApplyDefault, Redeliver
<1>1. /\ \A g \in Handlers : g # h => handler'[g] = handler[g]
      /\ handler \in [Handlers -> HandlerType]
      /\ handler' \in [Handlers -> HandlerType]
      /\ UNCHANGED call
  BY <1>0, WebhookIsLocal DEF TInv, TypeOK, HandlerType
<1>2. /\ row \in [Cards -> {"absent", "live", "deleted"}] /\ owed \in [Topics -> Nat]
      /\ holder \in [Cards -> {"new", "detached"} \cup Customers]
  BY <1>0 DEF TInv, TypeOK
<1>3. Acknowledge(h) => handler'[h].at = "idle" /\ handler'[h].topic = None
  BY <1>1 DEF Acknowledge, Waiting
\* What the step has to show of the delivery that took it, and of rows and events.
<1>4. ASSUME \A c \in Cards : row'[c] # row[c] => Begun(c),
             \A c \in Cards : row'[c] # row[c] /\ row'[c] = "deleted" => Gone(c),
             \A c \in Cards : owed'[c] > 0 => Begun(c),
             handler'[h].topic \in Cards => Begun(handler'[h].topic),
             handler'[h].at = "remove" => Gone(handler'[h].topic)
      PROVE  KnownArePast' /\ DeletersAreLate'
  BY <1>0, <1>1, <1>4 DEF GInv, KnownArePast, DeletersAreLate
<1>5. \A c \in Cards : owed[c] > 0 => Begun(c)
  BY DEF GInv, KnownArePast
<1>6. handler[h].topic \in Cards => Begun(handler[h].topic)
  BY DEF GInv, KnownArePast
<1>7. \A c \in Cards : c # None
  BY PaymentMethodsAssumption
<1>8. ASSUME NEW t \in Topics, Deliver(h, t) PROVE KnownArePast' /\ DeletersAreLate'
  <2>1. /\ handler'[h].topic = t /\ handler'[h].at \in {"lock", "retrieve"}
        /\ owed[t] > 0 /\ UNCHANGED row
    BY <1>1, <1>8 DEF Deliver, HandlerType
  <2>2. \A c \in Cards : owed'[c] > 0 => owed[c] > 0
    BY <1>2, <1>8 DEF Deliver, Topics
  <2> QED
    BY <1>4, <1>5, <2>1, <2>2
<1>9. CASE Retrieve(h)
  <2> DEFINE c == handler[h].topic
  <2>1. UNCHANGED <<row, owed>> /\ c \in Cards
    BY <1>0, <1>9 DEF Retrieve, TInv, HandlersKnow
  <2>2. Attached(c) \/ Gone(c)
    BY <1>2, <1>6, <2>1 DEF Attached
  <2>3. \/ handler'[h].topic = None /\ handler'[h].at = "idle"
        \/ /\ handler'[h].topic = c
           /\ handler'[h].at = IF Attached(c) THEN "upsert" ELSE "remove"
    BY <1>1, <1>3, <1>9 DEF Retrieve, AttachedNow, HandlerType
  <2> QED
    BY <1>4, <1>5, <1>6, <1>7, <2>1, <2>2, <2>3
<1>10. CASE Reconcile(h)
  <2>1. handler[h].topic \in Cards /\ UNCHANGED owed /\ Acknowledge(h)
    BY <1>0, <1>10 DEF Reconcile, TInv, HandlersKnow
  <2>2. \A c \in Cards : row'[c] # row[c] => c = handler[h].topic /\ row'[c] = "live"
    BY <1>2, <1>10, <2>1 DEF Reconcile, Upsert
  <2> QED
    BY <1>3, <1>4, <1>5, <1>6, <1>7, <2>1, <2>2
<1>11. CASE SoftDelete(h)
  <2>1. UNCHANGED owed /\ Acknowledge(h) /\ Gone(handler[h].topic)
    BY <1>11 DEF SoftDelete, GInv, DeletersAreLate
  <2>2. \A c \in Cards : row'[c] # row[c] => c = handler[h].topic
    BY <1>2, <1>11 DEF SoftDelete
  <2> QED
    BY <1>3, <1>4, <1>5, <1>7, <2>1, <2>2
<1>12. CASE LockDefault(h)
  <2>1. UNCHANGED <<row, owed>>
    BY <1>12 DEF LockDefault
  <2>2. handler'[h].topic = handler[h].topic /\ handler'[h].at = "apply"
    BY <1>1, <1>12 DEF LockDefault, HandlerType
  <2> QED
    BY <1>4, <1>5, <1>6, <2>1, <2>2
<1>13. CASE ApplyDefault(h)
  <2>1. UNCHANGED <<row, owed>> /\ Acknowledge(h)
    BY <1>13 DEF ApplyDefault
  <2> QED
    BY <1>3, <1>4, <1>5, <1>7, <2>1
<1>14. CASE Redeliver(h)
  <2>1. UNCHANGED row /\ Emit({handler[h].topic}) /\ Acknowledge(h)
    BY <1>14 DEF Redeliver
  <2>2. \A c \in Cards : owed'[c] > 0 => owed[c] > 0 \/ c = handler[h].topic
    BY <1>2, <2>1 DEF Emit, Topics
  <2> QED
    BY <1>3, <1>4, <1>5, <1>6, <1>7, <2>1, <2>2
<1> QED
  BY <1>8, <1>9, <1>10, <1>11, <1>12, <1>13, <1>14 DEF Webhook

\* Whoever deletes stays late through every step.
LEMMA GInvKept == GInv /\ [Next]_vars => GInv'
<1> SUFFICES ASSUME GInv, [Next]_vars PROVE GInv'
  OBVIOUS
<1>0. TInv /\ TInv'
  BY TInvKept DEF GInv
<1>1. \A c \in Cards : (Begun(c) => Begun(c)') /\ (Gone(c) => Gone(c)')
  BY <1>0, HolderMovesOn
<1>2. CASE Outside \/ KeyExpires \/ UNCHANGED vars
  <2>1. UNCHANGED <<row, call, handler>>
    BY <1>2 DEF Outside, KeyExpires, vars, table
  <2>2. \A c \in Cards : owed'[c] > 0 => Begun(c)'
    <3>1. CASE KeyExpires \/ UNCHANGED vars
      BY <1>1, <3>1 DEF KeyExpires, vars, GInv, KnownArePast
    <3>2. CASE Outside
      <4>1. owed \in [Topics -> Nat] /\ customer \in Customers
            /\ holder \in [Cards -> {"new", "detached"} \cup Customers]
        BY <1>0, <3>2 DEF Outside, TInv, TypeOK
      <4>2. UNCHANGED owed \/ \E c \in Cards :
              \E ts : Emit(ts) /\ ts \subseteq {c, "customer"} /\ holder'[c] # "new"
        BY <3>2, <4>1, PaymentMethodsAssumption
           DEF Outside, Attach, DetachAtStripe, MakeDefault, Attached
      <4>3. \A c \in Cards : owed'[c] > 0 => owed[c] > 0 \/ holder'[c] # "new"
        BY <4>1, <4>2, PaymentMethodsAssumption DEF Emit, Topics
      <4> QED
        BY <1>1, <4>3 DEF GInv, KnownArePast, Begun
    <3> QED
      BY <1>2, <3>1, <3>2
  <2>3. /\ \A p \in Calls : call[p].at \notin {"idle", "done"} => call[p].card \in Cards
        /\ \A h \in Handlers : handler[h].at = "remove" => handler[h].topic \in Cards
    BY <1>0 DEF TInv, CallsKnow, HandlersKnow
  <2> QED
    BY <1>0, <1>1, <2>1, <2>2, <2>3
       DEF GInv, KnownArePast, DeletersAreLate, Begun, Gone
<1> QED
  BY <1>0, <1>2, RouteDeletesLate, WebhookDeletesLate DEF GInv, Next

\* Initially nothing is known of a card.
LEMMA InitGInv == Init => GInv
<1> SUFFICES ASSUME Init PROVE GInv
  OBVIOUS
<1>1. \A p \in Calls : call[p].at = "idle"
  BY DEF Init, Ready
<1>2. \A h \in Handlers : handler[h].at = "idle" /\ handler[h].topic \notin Cards
  BY PaymentMethodsAssumption DEF Init, Waiting
<1>3. \A c \in Cards : row[c] = "absent" /\ ~(owed[c] > 0)
  BY DEF Init, Topics
<1> QED
  BY <1>1, <1>2, <1>3, InitTInv DEF GInv, KnownArePast, DeletersAreLate

\* A card the table shows as deleted cannot be charged any more: whoever deletes
\* its row does so after Stripe let the card go, and Stripe never takes it back
\* (detach's order of steps; softDeleteIfPresent).
THEOREM DeletedCardsAreDetached == Spec => []DeletedIsDetached
<1>1. GInv => DeletedIsDetached
  BY PaymentMethodsAssumption DEF GInv, DeletersAreLate, DeletedIsDetached, Gone, Attached
<1> QED
  BY InitGInv, <1>1, GInvKept, PTL DEF Spec

\* What the table says of a card holds, for any number of cards, calls and
\* webhook handlers.
THEOREM CardRecordsHold == Spec => []CardRecords
<1>1. OneDefault /\ DeletedIsDetached /\ CustomerIsKnown => CardRecords
  BY DEF CardRecords
<1> QED
  BY <1>1, AtMostOneDefault, DeletedCardsAreDetached, OneCustomer, PTL

-----------------------------------------------------------------------------
(***************************************************************************)
(* The table follows Stripe. Every difference between the two has an event *)
(* owed, or a delivery under way, that will make it good; and whoever is   *)
(* about to write a default has read the present one, or another event is  *)
(* owed for what became of it.                                             *)
(***************************************************************************)

\* An event about a card that will be answered by Stripe's present state.
Coming(c) == owed[c] > 0 \/ \E h \in Handlers : handler[h].topic = c /\ handler[h].at = "retrieve"

\* An event about the default that will be answered by Stripe's present one.
Pending == owed["customer"] > 0 \/ \E h \in Handlers : handler[h].at = "lock"

CustomerTopic == \A h \in Handlers : handler[h].at \in {"lock", "apply"} => handler[h].topic = "customer"
DefaultAttached == default \in Cards => Attached(default)

\* A card that is attached is listed, or will be; one that is not, is not, or
\* will not be.
CardFollows(c) ==
    /\ Attached(c) => \/ c \in Live \/ Coming(c)
                      \/ \E h \in Handlers : handler[h].topic = c /\ handler[h].at = "upsert"
    /\ c \in Live /\ ~Attached(c) =>
         \/ c \in ghosts \/ Coming(c)
         \/ \E h \in Handlers : handler[h].topic = c /\ handler[h].at = "remove"

\* Whoever writes a default has it from Stripe as it is, or is to be corrected.
WritersCurrent ==
    /\ \A p \in Calls : call[p].at = "write" /\ (call[p].op = "setDefault" \/ call[p].first)
                           => default = call[p].card \/ Pending
    /\ \A h \in Handlers : handler[h].at = "apply" => handler[h].default = default \/ Pending

DefaultFollows ==
    \/ Pending \/ \E h \in Handlers : handler[h].at = "apply"
    \/ default \in missed \/ Defaults = {default} \ {None}

SInv == /\ DInv /\ KInv /\ GInv /\ CustomerTopic /\ DefaultAttached
        /\ \A c \in Cards : CardFollows(c)
        /\ WritersCurrent /\ DefaultFollows

\* Initially Stripe has no card and the table lists none.
LEMMA InitSInv == Init => SInv
<1> SUFFICES ASSUME Init PROVE SInv
  OBVIOUS
<1>1. DInv /\ KInv /\ GInv
  BY InitDInv, InitKInv, InitGInv
<1>2. \A p \in Calls : call[p].at = "idle"
  BY DEF Init, Ready
<1>3. \A h \in Handlers : handler[h].at = "idle"
  BY DEF Init, Waiting
<1>4. CustomerTopic /\ WritersCurrent
  BY <1>2, <1>3 DEF CustomerTopic, WritersCurrent
<1>5. DefaultAttached /\ \A c \in Cards : CardFollows(c)
  BY PaymentMethodsAssumption DEF Init, DefaultAttached, CardFollows, Attached, Live
<1>6. DefaultFollows
  BY DEF Init, DefaultFollows, Defaults, Live
<1> QED
  BY <1>1, <1>4, <1>5, <1>6 DEF SInv

\* What happens at Stripe is told: no event is forgotten, a card that came or went
\* is told of, and so is a new default.
StripeTells ==
  /\ \A t \in Topics : owed[t] > 0 => owed'[t] > 0
  /\ \A c \in Cards : holder'[c] = holder[c] \/ owed'[c] > 0
  /\ default' = default \/ owed'["customer"] > 0

\* An event emitted is owed, and no other is taken back.
LEMMA EmitOwes ==
  ASSUME owed \in [Topics -> Nat], NEW ts, Emit(ts)
  PROVE  \A t \in Topics : owed[t] > 0 \/ t \in ts => owed'[t] > 0
BY DEF Emit

\* What Stripe does it tells, and its default is a card it has.
LEMMA StripeIsHeard ==
  ASSUME TInv, DefaultAttached, NEW c \in Cards, NEW id \in Customers,
         (holder[c] = "new" /\ Attach(c, id)) \/ DetachAtStripe(c) \/ MakeDefault(c, id)
  PROVE  StripeTells /\ DefaultAttached'
<1>1. /\ owed \in [Topics -> Nat] /\ "customer" \in Topics /\ c \in Topics
      /\ holder \in [Cards -> {"new", "detached"} \cup Customers]
      /\ default \in Cards \cup {None} /\ None \notin Cards
  BY PaymentMethodsAssumption DEF TInv, TypeOK, Topics
<1>2. \A t \in Cards : t \in Topics
  BY DEF Topics
<1>3. CASE holder[c] = "new" /\ Attach(c, id)
  <2>1. /\ holder' = [holder EXCEPT ![c] = id] /\ default' = default
        /\ Emit({c})
    BY <1>3 DEF Attach
  <2>2. StripeTells
    BY <1>1, <1>2, <2>1, EmitOwes DEF StripeTells
  <2>3. DefaultAttached'
    BY <1>1, <2>1 DEF DefaultAttached, Attached
  <2> QED
    BY <2>2, <2>3
<1>4. CASE DetachAtStripe(c)
  <2>1. PICK ts : Emit(ts) /\ c \in ts /\ (default = c => "customer" \in ts)
    BY <1>4 DEF DetachAtStripe
  <2>2. /\ holder' = [holder EXCEPT ![c] = "detached"]
        /\ default' = IF default = c THEN None ELSE default
    BY <1>4 DEF DetachAtStripe
  <2>3. StripeTells
    BY <1>1, <1>2, <2>1, <2>2, EmitOwes DEF StripeTells
  <2>4. DefaultAttached'
    BY <1>1, <2>2 DEF DefaultAttached, Attached
  <2> QED
    BY <2>3, <2>4
<1>5. CASE MakeDefault(c, id)
  <2>1. /\ holder[c] = id /\ UNCHANGED holder /\ default' = c
        /\ IF default = c THEN UNCHANGED owed ELSE Emit({"customer"})
    BY <1>5 DEF MakeDefault
  <2>2. StripeTells
    BY <1>1, <1>2, <2>1, EmitOwes DEF StripeTells
  <2>3. DefaultAttached'
    BY <2>1 DEF DefaultAttached, Attached
  <2> QED
    BY <2>2, <2>3
<1> QED
  BY <1>3, <1>4, <1>5

\* So it is whoever asks Stripe, a route ...
LEMMA RouteIsHeard ==
  ASSUME SInv, NEW p \in Calls, Route(p)
  PROVE  StripeTells /\ DefaultAttached'
<1> USE DEF stripe, table
<1>0. TInv /\ DefaultAttached
  BY DEF SInv, DInv
<1>1. ASSUME UNCHANGED <<holder, default, owed>>
      PROVE  StripeTells /\ DefaultAttached'
  BY <1>0, <1>1 DEF StripeTells, DefaultAttached, Attached
<1>2. call[p].at \notin {"idle", "done"} => call[p].card \in Cards
  BY <1>0 DEF TInv, CallsKnow
<1>3. call[p].at \in {"attach", "default", "late"} => call[p].customer \in Customers
  BY <1>0 DEF TInv, CallsKnow
<1>4. CASE AttachCard(p)
  BY <1>0, <1>1, <1>2, <1>3, <1>4, StripeIsHeard DEF AttachCard
<1>5. CASE SetDefaultAtStripe(p) \/ LateDefault(p)
  BY <1>0, <1>2, <1>3, <1>5, StripeIsHeard DEF SetDefaultAtStripe, LateDefault
<1>6. CASE DetachCard(p)
  <2>1. CASE Attached(call[p].card)
    BY <1>0, <1>2, <1>6, <2>1, StripeIsHeard DEF DetachCard, Attached
  <2>2. CASE ~Attached(call[p].card)
    BY <1>1, <1>6, <2>2 DEF DetachCard
  <2> QED
    BY <2>1, <2>2
<1>7. CASE ~AttachCard(p) /\ ~SetDefaultAtStripe(p) /\ ~LateDefault(p) /\ ~DetachCard(p)
  <2>1. UNCHANGED <<holder, default, owed>>
    BY <1>7 DEF Route, Request, Ensure, Create, Persist, Find, Lock, Expire,
                CommitAttach, CommitDefault, Delete, Fail
  <2> QED
    BY <1>1, <2>1
<1> QED
  BY <1>4, <1>5, <1>6, <1>7

\* ... or somebody else.
LEMMA OutsideIsHeard ==
  ASSUME SInv, Outside \/ KeyExpires \/ UNCHANGED vars
  PROVE  /\ StripeTells /\ DefaultAttached'
         /\ UNCHANGED <<table, lock, call, handler, seen>>
<1>0. TInv /\ DefaultAttached
  BY DEF SInv, DInv
<1>1. ASSUME UNCHANGED <<holder, default, owed>>
      PROVE  StripeTells /\ DefaultAttached'
  BY <1>0, <1>1 DEF StripeTells, DefaultAttached, Attached
<1>2. CASE KeyExpires \/ UNCHANGED vars
  BY <1>1, <1>2 DEF KeyExpires, vars, stripe
<1>3. CASE Outside
  <2>1. customer \in Customers /\ owed \in [Topics -> Nat]
    BY <1>0, <1>3 DEF Outside, TInv, TypeOK
  <2>2. PICK c \in Cards :
          \/ holder[c] = "new" /\ Attach(c, customer)
          \/ DetachAtStripe(c)
          \/ MakeDefault(c, customer)
          \/ /\ \E t \in {c, "customer"} : Emit({t})
             /\ UNCHANGED <<holder, default, made, key>>
    BY <1>3 DEF Outside
  <2>3. CASE \/ holder[c] = "new" /\ Attach(c, customer)
             \/ DetachAtStripe(c) \/ MakeDefault(c, customer)
    <3>1. StripeTells /\ DefaultAttached'
      BY <1>0, <2>1, <2>3, StripeIsHeard
    <3> QED
      BY <1>3, <3>1 DEF Outside
  <2>4. CASE /\ \E t \in {c, "customer"} : Emit({t})
             /\ UNCHANGED <<holder, default, made, key>>
    <3>1. \A t \in Topics : owed[t] > 0 => owed'[t] > 0
      BY <2>1, <2>4, EmitOwes
    <3>2. StripeTells /\ DefaultAttached'
      BY <1>0, <2>4, <3>1 DEF StripeTells, DefaultAttached, Attached
    <3> QED
      BY <1>3, <3>2 DEF Outside
  <2> QED
    BY <2>2, <2>3, <2>4
<1> QED
  BY <1>2, <1>3 DEF KeyExpires, vars

\* What a step does to the rows: a new one is of a card that is attached, or was
\* read too early, and the deleted one of a card that is gone.
RowsFollow ==
  /\ ghosts \subseteq ghosts'
  /\ \A c \in Cards :
       \/ row'[c] = row[c]
       \/ row[c] = "absent" /\ row'[c] = "live" /\ (Attached(c) \/ c \in ghosts')
       \/ row'[c] = "deleted" /\ Gone(c)

\* A card no delivery of its own is at work on is followed as it was.
LEMMA CardFollowsOn ==
  ASSUME SInv, StripeTells, RowsFollow, NEW c \in Cards,
         \A h \in Handlers : /\ handler[h].topic = c
                             /\ handler[h].at \in {"retrieve", "upsert", "remove"}
           => /\ handler'[h].topic = c
              /\ handler'[h].at = handler[h].at
  PROVE  CardFollows(c)'
<1>1. CardFollows(c) /\ c \in Topics
  BY DEF SInv, Topics
<1>2. Coming(c) => Coming(c)'
  BY <1>1 DEF Coming, StripeTells
<1>3. CASE holder'[c] # holder[c]
  BY <1>1, <1>3 DEF StripeTells, CardFollows, Coming
<1>4. CASE holder'[c] = holder[c]
  <2>1. Attached(c)' = Attached(c) /\ (Gone(c) => ~Attached(c))
    BY <1>4, PaymentMethodsAssumption DEF Attached, Gone
  <2>2. Attached(c) /\ c \in Live => (c \in Live)'
    BY <2>1 DEF RowsFollow, Live
  <2>3. (c \in Live)' /\ ~Attached(c) => c \in Live \/ c \in ghosts'
    BY DEF RowsFollow, Live
  <2>4. ghosts \subseteq ghosts'
    BY DEF RowsFollow
  <2>5. (\E h \in Handlers : handler[h].topic = c /\ handler[h].at = "upsert")
          => (\E h \in Handlers : handler'[h].topic = c /\ handler'[h].at = "upsert")
    OBVIOUS
  <2>6. (\E h \in Handlers : handler[h].topic = c /\ handler[h].at = "remove")
          => (\E h \in Handlers : handler'[h].topic = c /\ handler'[h].at = "remove")
    OBVIOUS
  <2> QED
    BY <1>1, <1>2, <2>1, <2>2, <2>3, <2>4, <2>5, <2>6 DEF CardFollows
<1> QED
  BY <1>3, <1>4

\* What a route does to the rows.
LEMMA RouteRowsFollow ==
  ASSUME SInv, NEW p \in Calls, Route(p)
  PROVE  RowsFollow
<1> USE DEF table, seen
<1>0. TInv /\ GInv /\ row \in [Cards -> {"absent", "live", "deleted"}]
  BY DEF SInv, DInv, TInv, TypeOK
<1>1. CASE CommitAttach(p)
  <2>1. call[p].card \in Cards
    BY <1>0, <1>1 DEF CommitAttach, TInv, CallsKnow
  <2> QED
    BY <1>0, <1>1, <2>1 DEF CommitAttach, Upsert, RowsFollow
<1>2. CASE Delete(p)
  <2>1. call[p].card \in Cards /\ Gone(call[p].card)
    BY <1>0, <1>2 DEF Delete, TInv, CallsKnow, GInv, DeletersAreLate
  <2> QED
    BY <1>0, <1>2, <2>1 DEF Delete, RowsFollow
<1>3. CASE ~CommitAttach(p) /\ ~Delete(p)
  <2>1. UNCHANGED <<row, ghosts>>
    BY <1>3 DEF Route, Request, Ensure, Create, Persist, AttachCard, Find, Lock,
         SetDefaultAtStripe, Expire, LateDefault, CommitDefault, DetachCard, Fail
  <2> QED
    BY <2>1 DEF RowsFollow
<1> QED
  BY <1>1, <1>2, <1>3

\* A step of a delivery follows the card it is about, and leaves the others.
LEMMA WebhookFollowsCards ==
  ASSUME SInv, NEW h \in Handlers, Webhook(h)
  PROVE  \A c \in Cards : CardFollows(c)'
<1> USE DEF table, seen, stripe
<1>0. /\ TInv /\ GInv /\ UNCHANGED holder
      /\ row \in [Cards -> {"absent", "live", "deleted"}] /\ owed \in [Topics -> Nat]
  BY DEF SInv, DInv, TInv, TypeOK, Webhook, Deliver, Retrieve, Reconcile, SoftDelete,
         LockDefault, ApplyDefault, Redeliver
<1>1. /\ \A g \in Handlers : g # h => handler'[g] = handler[g]
      /\ handler \in [Handlers -> HandlerType]
      /\ handler' \in [Handlers -> HandlerType]
  BY <1>0, WebhookIsLocal DEF TInv, TypeOK, HandlerType
<1>2. \A c \in Cards : CardFollows(c) /\ c \in Topics /\ c # "customer" /\ c # None
  BY PaymentMethodsAssumption DEF SInv, Topics
<1>3. ASSUME RowsFollow, UNCHANGED default, NEW c \in Cards,
             \A t \in Topics : owed[t] > 0 => owed'[t] > 0,
             handler[h].at \notin {"retrieve", "upsert", "remove"} \/ handler[h].topic # c
      PROVE  CardFollows(c)'
  <2>1. StripeTells
    BY <1>0, <1>3 DEF StripeTells
  <2> QED
    BY <1>1, <1>3, <2>1, CardFollowsOn
<1>4. UNCHANGED <<row, ghosts>> => RowsFollow
  BY DEF RowsFollow
<1>5. UNCHANGED default
  BY DEF Webhook, Deliver, Retrieve, Reconcile, SoftDelete, LockDefault,
         ApplyDefault, Redeliver
<1>6. UNCHANGED owed => \A t \in Topics : owed[t] > 0 => owed'[t] > 0
  OBVIOUS
<1>7. ASSUME NEW t \in Topics, Deliver(h, t), NEW c \in Cards PROVE CardFollows(c)'
  <2>1. /\ owed' = [owed EXCEPT ![t] = @ - 1] /\ UNCHANGED <<row, ghosts>>
        /\ handler[h] = Waiting /\ handler'[h].topic = t
        /\ t # "customer" => handler'[h].at = "retrieve"
    BY <1>1, <1>7 DEF Deliver, HandlerType
  <2>2. CASE c = t
    <3>1. Coming(c)'
      BY <1>2, <2>1, <2>2 DEF Coming
    <3>2. Attached(c)' = Attached(c)
      BY <1>0 DEF Attached
    <3> QED
      BY <3>1 DEF CardFollows
  <2>3. CASE c # t
    <3>1. owed'[c] = owed[c]
      BY <1>0, <1>2, <2>1, <2>3
    <3>2. \A g \in Handlers : handler[g].topic = c => handler'[g] = handler[g]
      BY <1>1, <1>2, <2>1 DEF Waiting
    <3>3. Coming(c) => Coming(c)'
      BY <3>1, <3>2 DEF Coming
    <3> QED
      BY <1>0, <1>2, <2>1, <3>2, <3>3 DEF CardFollows, Attached, Live
  <2> QED
    BY <2>2, <2>3
<1>8. CASE Retrieve(h)
  <2>0. PICK t \in Cards : t = handler[h].topic
    BY <1>0, <1>8 DEF Retrieve, TInv, HandlersKnow
  <2>1. /\ UNCHANGED <<row, ghosts, owed>>
        /\ handler[h].at = "retrieve"
    BY <1>8 DEF Retrieve
  <2>2. Attached(t) => holder[t] = customer
    BY DEF SInv, KInv, CustomerIsKnown
  <2>3. /\ handler'[h].topic = t
        /\ handler'[h].at = IF Attached(t) THEN "upsert" ELSE "remove"
    BY <1>1, <1>8, <2>0, <2>2 DEF Retrieve, AttachedNow, HandlerType
  <2>4. CardFollows(t)'
    BY <1>0, <2>0, <2>3 DEF CardFollows, Attached
  <2>5. ASSUME NEW c \in Cards, c # t PROVE CardFollows(c)'
    BY <1>3, <1>4, <1>5, <1>6, <2>0, <2>1, <2>5
  <2> QED
    BY <2>4, <2>5
<1>9. CASE Reconcile(h)
  <2>0. PICK t \in Cards : t = handler[h].topic
    BY <1>0, <1>9 DEF Reconcile, TInv, HandlersKnow
  <2>1. UNCHANGED owed /\ handler[h].at = "upsert"
    BY <1>9 DEF Reconcile
  <2>2. /\ \A c \in Cards : row'[c] = IF c = t /\ row[c] = "absent" THEN "live" ELSE row[c]
        /\ ghosts' = IF row[t] = "absent" /\ ~Attached(t) THEN ghosts \cup {t} ELSE ghosts
    BY <1>0, <1>9, <2>0, <2>1 DEF Reconcile, Upsert
  <2>3. RowsFollow
    BY <2>2 DEF RowsFollow
  <2>4. CardFollows(t)'
    <3>1. Attached(t)' = Attached(t)
      BY <1>0 DEF Attached
    <3>2. Attached(t) => row[t] # "deleted"
      BY <2>0, <2>1, PaymentMethodsAssumption DEF SInv, GInv, DeletersAreLate, Gone, Attached
    <3>3. row'[t] \in {"live", "deleted"} /\ (row'[t] = "deleted" <=> row[t] = "deleted")
      BY <1>0, <2>0, <2>1, <2>2
    <3>4. Attached(t) => (t \in Live)'
      BY <2>0, <2>1, <3>2, <3>3 DEF Live
    <3>5. (t \in Live)' /\ ~Attached(t) => t \in Live \/ t \in ghosts'
      BY <1>0, <2>0, <2>1, <2>2 DEF Live
    <3>6. Coming(t) => Coming(t)'
      BY <1>1, <2>0, <2>1 DEF Coming
    <3>7. (\E g \in Handlers : handler[g].topic = t /\ handler[g].at = "remove")
          => (\E g \in Handlers : handler'[g].topic = t /\ handler'[g].at = "remove")
      BY <1>1, <2>0, <2>1
    <3>8. CardFollows(t) /\ ghosts \subseteq ghosts'
      BY <1>2, <2>0, <2>1, <2>2
    <3> QED
      BY <3>1, <3>4, <3>5, <3>6, <3>7, <3>8 DEF CardFollows
  <2>5. ASSUME NEW c \in Cards, c # t PROVE CardFollows(c)'
    BY <1>3, <1>5, <1>6, <2>0, <2>1, <2>3, <2>5
  <2> QED
    BY <2>4, <2>5
<1>10. CASE SoftDelete(h)
  <2>0. PICK t \in Cards : t = handler[h].topic
    BY <1>0, <1>10 DEF SoftDelete, TInv, HandlersKnow
  <2>1. /\ UNCHANGED <<owed, ghosts>> /\ handler[h].at = "remove"
        /\ Gone(t)
    BY <1>0, <1>10, <2>0 DEF SoftDelete, GInv, DeletersAreLate
  <2>2. \A c \in Cards : row'[c] = IF c = t /\ row[c] = "live" THEN "deleted" ELSE row[c]
    BY <1>0, <1>10, <2>0, <2>1 DEF SoftDelete, Live
  <2>3. RowsFollow
    BY <2>1, <2>2 DEF RowsFollow
  <2>4. CardFollows(t)'
    <3>1. ~Attached(t)' /\ ~(t \in Live)'
      BY <1>0, <2>0, <2>1, <2>2, PaymentMethodsAssumption DEF Gone, Attached, Live
    <3> QED
      BY <3>1 DEF CardFollows
  <2>5. ASSUME NEW c \in Cards, c # t PROVE CardFollows(c)'
    BY <1>3, <1>5, <1>6, <2>0, <2>1, <2>3, <2>5
  <2> QED
    BY <2>4, <2>5
<1>11. CASE LockDefault(h) \/ ApplyDefault(h)
  <2>1. /\ UNCHANGED <<row, ghosts, owed>> /\ handler[h].at \in {"lock", "apply"}
    BY <1>11 DEF LockDefault, ApplyDefault
  <2> QED
    BY <1>3, <1>4, <1>5, <1>6, <2>1
<1>12. CASE Redeliver(h)
  <2>1. /\ UNCHANGED <<row, ghosts>>
        /\ \A t \in Topics : owed[t] > 0 \/ t = handler[h].topic => owed'[t] > 0
    BY <1>0, <1>12, EmitOwes DEF Redeliver
  <2>2. ASSUME NEW c \in Cards PROVE CardFollows(c)'
    <3>1. CASE c = handler[h].topic
      <4>1. Coming(c)'
        BY <1>2, <2>1, <3>1 DEF Coming
      <4> QED
        BY <4>1 DEF CardFollows
    <3>2. CASE c # handler[h].topic
      BY <1>3, <1>4, <1>5, <2>1, <3>2
    <3> QED
      BY <3>1, <3>2
  <2> QED
    BY <2>2
<1> QED
  BY <1>7, <1>8, <1>9, <1>10, <1>11, <1>12 DEF Webhook

\* A route puts the table's default where Stripe has it, or leaves it there.
LEMMA RouteMarksDefault ==
  ASSUME SInv, NEW p \in Calls, Route(p), ~Pending, UNCHANGED default,
         Defaults = {default} \ {None}
  PROVE  Defaults' = {default} \ {None}
<1> USE DEF table, seen
<1>0. /\ TInv /\ row \in [Cards -> {"absent", "live", "deleted"}]
      /\ isDefault \in [Cards -> BOOLEAN]
  BY DEF SInv, DInv, TInv, TypeOK
<1>1. call[p].at \notin {"idle", "done"} => call[p].card \in Cards
  BY <1>0 DEF TInv, CallsKnow
<1>2. CASE Delete(p)
  <2> DEFINE c == call[p].card
  <2>1. /\ UNCHANGED isDefault /\ row' = [row EXCEPT ![c] = "deleted"]
        /\ c \in Cards /\ Gone(c)
    BY <1>1, <1>2 DEF Delete, SInv, GInv, DeletersAreLate
  <2>2. default # c
    BY <2>1, PaymentMethodsAssumption DEF SInv, DefaultAttached, Gone, Attached
  <2>3. c \notin Defaults
    BY <2>2
  <2>4. \A d \in Cards : row'[d] = IF d = c THEN "deleted" ELSE row[d]
    BY <1>0, <2>1
  <2>5. Defaults' = Defaults
    BY <2>1, <2>3, <2>4 DEF Defaults, Live
  <2> QED
    BY <2>5
<1>3. CASE CommitAttach(p) /\ ~call[p].first
  <2>1. call[p].card \in Cards /\ Upsert(call[p].card) /\ UNCHANGED isDefault
    BY <1>1, <1>3 DEF CommitAttach
  <2> QED
    BY <1>0, <2>1, UpsertMarksNothing DEF SInv, DInv
<1>4. CASE CommitAttach(p) /\ call[p].first
  <2> DEFINE c == call[p].card
  <2>1. /\ call[p].at = "write" /\ call[p].op = "attach" /\ c \in Cards /\ Upsert(c)
        /\ isDefault' = [isDefault EXCEPT ![c] = TRUE]
    BY <1>1, <1>4 DEF CommitAttach
  <2>2. default = c /\ Defaults \subseteq {c}
    BY <1>4, <2>1 DEF SInv, WritersCurrent, DInv, FirstAlone, InTransaction
  <2>3. row[c] # "deleted" /\ c # None
    BY <2>1, <2>2, PaymentMethodsAssumption
       DEF SInv, DefaultAttached, GInv, DeletersAreLate, Gone, Attached
  <2>4. /\ \A d \in Cards : row'[d] = IF d = c THEN "live" ELSE row[d]
        /\ \A d \in Cards : isDefault'[d] = (d = c \/ isDefault[d])
    BY <1>0, <2>1, <2>3 DEF Upsert
  <2>5. Defaults' = {c}
    BY <2>1, <2>2, <2>4 DEF Defaults, Live
  <2> QED
    BY <2>2, <2>3, <2>5
<1>5. CASE CommitDefault(p)
  <2> DEFINE c == call[p].card
  <2>1. /\ call[p].at = "write" /\ call[p].op = "setDefault" /\ c \in Live
        /\ isDefault' = MarkOnly({c}) /\ UNCHANGED row
    BY <1>5 DEF CommitDefault
  <2>2. default = c
    BY <2>1 DEF SInv, WritersCurrent
  <2>3. c # None /\ c \in Cards
    BY <2>1, PaymentMethodsAssumption DEF Live
  <2>4. \A d \in Cards : d \in Live => isDefault'[d] = (d = c)
    BY <2>1 DEF MarkOnly
  <2>5. Defaults' = {c}
    BY <2>1, <2>3, <2>4 DEF Defaults, Live
  <2> QED
    BY <2>2, <2>3, <2>5
<1>6. CASE ~Delete(p) /\ ~CommitAttach(p) /\ ~CommitDefault(p)
  <2>1. UNCHANGED <<row, isDefault>>
    BY <1>6 DEF Route, Request, Ensure, Create, Persist, AttachCard, Find, Lock,
         SetDefaultAtStripe, Expire, LateDefault, DetachCard, Fail
  <2> QED
    BY <2>1 DEF Defaults, Live
<1> QED
  BY <1>2, <1>3, <1>4, <1>5, <1>6

\* A route that is about to write a default has just had Stripe accept it.
LEMMA RouteWritesCurrent ==
  ASSUME SInv, NEW p \in Calls, Route(p),
         call'[p].at = "write", call'[p].op = "setDefault" \/ call'[p].first
  PROVE  default' = call'[p].card
<1>0. TInv
  BY DEF SInv, DInv
<1>1. call \in [Calls -> CallType] /\ call' \in [Calls -> CallType]
  BY <1>0, RouteIsLocal DEF TInv, TypeOK, CallType
<1>2. CASE SetDefaultAtStripe(p)
  BY <1>1, <1>2 DEF SetDefaultAtStripe, MakeDefault, Goto, CallType
<1>3. ~Lock(p)
  BY <1>1 DEF Lock, CallType
<1>4. \A op \in {"setup", "attach", "detach", "setDefault"}, c \in Cards : ~Request(p, op, c)
  BY <1>1 DEF Request, CallType
<1>5. Answer(p) => call'[p].at = "done"
  BY <1>1 DEF Answer, Answered, Ready
<1>6. ~Ensure(p) /\ ~Persist(p) /\ ~Create(p)
  <2>1. Ensure(p) \/ Persist(p) => call'[p].at \in {"create", "attach", "done"}
    BY <1>1 DEF Ensure, Persist, Ensured, Answered, Ready, Goto, CallType
  <2>2. Create(p) => call'[p].at = "persist"
    BY <1>1 DEF Create, CallType
  <2> QED
    BY <2>1, <2>2
<1>7. ~AttachCard(p) /\ ~Find(p) /\ ~Expire(p) /\ ~LateDefault(p) /\ ~DetachCard(p)
  BY <1>1, <1>5 DEF AttachCard, Find, Expire, LateDefault, DetachCard, Goto, CallType
<1>8. ~CommitAttach(p) /\ ~CommitDefault(p) /\ ~Delete(p) /\ ~Fail(p)
  BY <1>5 DEF CommitAttach, CommitDefault, Delete, Fail
<1> QED
  BY <1>2, <1>3, <1>4, <1>6, <1>7, <1>8 DEF Route

\* After a step of a route the table's default is Stripe's, or will be.
LEMMA RouteFollowsDefault ==
  ASSUME SInv, NEW p \in Calls, Route(p)
  PROVE  CustomerTopic' /\ WritersCurrent' /\ DefaultFollows'
<1>0. TInv /\ StripeTells
  BY RouteIsHeard DEF SInv, DInv
<1>1. /\ \A q \in Calls : q # p => call'[q] = call[q]
      /\ UNCHANGED handler
  BY <1>0, RouteIsLocal
<1>2. UNCHANGED missed
  BY DEF Route, Request, Ensure, Create, Persist, AttachCard, Find, Lock,
         SetDefaultAtStripe, Expire, LateDefault, CommitAttach, CommitDefault,
         DetachCard, Delete, Fail, seen
<1>3. CustomerTopic'
  BY <1>1 DEF SInv, CustomerTopic
<1>4. "customer" \in Topics
  BY DEF Topics
<1>5. CASE Pending'
  BY <1>3, <1>5 DEF WritersCurrent, DefaultFollows, Pending
<1>6. CASE ~Pending'
  <2>1. ~Pending
    BY <1>0, <1>1, <1>4, <1>6 DEF Pending, StripeTells
  <2>2. UNCHANGED default
    BY <1>0, <1>6 DEF Pending, StripeTells
  <2>3. WritersCurrent'
    BY <1>1, <2>1, <2>2, RouteWritesCurrent DEF SInv, WritersCurrent
  <2>4. DefaultFollows'
    BY <1>1, <1>2, <2>1, <2>2, RouteMarksDefault DEF SInv, DefaultFollows
  <2> QED
    BY <1>3, <2>3, <2>4
<1> QED
  BY <1>5, <1>6

\* After a step of a delivery the table's default is Stripe's, or will be.
LEMMA WebhookFollowsDefault ==
  ASSUME SInv, NEW h \in Handlers, Webhook(h)
  PROVE  CustomerTopic' /\ WritersCurrent' /\ DefaultFollows'
<1> USE DEF table, seen, stripe
<1>0. /\ TInv /\ DInv /\ UNCHANGED <<default, holder>>
      /\ row \in [Cards -> {"absent", "live", "deleted"}] /\ owed \in [Topics -> Nat]
  BY DEF SInv, DInv, TInv, TypeOK, Webhook, Deliver, Retrieve, Reconcile, SoftDelete,
         LockDefault, ApplyDefault, Redeliver
<1>1. /\ \A g \in Handlers : g # h => handler'[g] = handler[g]
      /\ handler \in [Handlers -> HandlerType]
      /\ handler' \in [Handlers -> HandlerType]
      /\ UNCHANGED call
  BY <1>0, WebhookIsLocal DEF TInv, TypeOK, HandlerType
<1>2. "customer" \in Topics
  BY DEF Topics
<1>3. Acknowledge(h) => handler'[h].at = "idle"
  BY <1>1 DEF Acknowledge, Waiting
\* A delivery that neither waits for the lock nor has it changes nothing here.
<1>4. ASSUME handler[h].at \notin {"lock", "apply"},
             handler'[h].at \notin {"lock", "apply"},
             owed["customer"] > 0 => owed'["customer"] > 0,
             UNCHANGED missed,
             Defaults = {default} \ {None} => Defaults' = {default} \ {None}
      PROVE  CustomerTopic' /\ WritersCurrent' /\ DefaultFollows'
  <2>1. Pending => Pending'
    BY <1>1, <1>4 DEF Pending
  <2>2. \A g \in Handlers : handler'[g].at \in {"lock", "apply"}
          => handler'[g] = handler[g]
    BY <1>1, <1>4
  <2>3. (\E g \in Handlers : handler[g].at = "apply")
          => \E g \in Handlers : handler'[g].at = "apply"
    BY <1>1, <1>4
  <2>4. CustomerTopic'
    BY <2>2 DEF SInv, CustomerTopic
  <2>5. WritersCurrent'
    BY <1>0, <1>1, <2>1, <2>2 DEF SInv, WritersCurrent
  <2>6. DefaultFollows'
    BY <1>0, <1>4, <2>1, <2>3 DEF SInv, DefaultFollows
  <2> QED
    BY <2>4, <2>5, <2>6
\* One that leaves an event owed is made good by it.
<1>5. ASSUME CustomerTopic', Pending'
      PROVE  CustomerTopic' /\ WritersCurrent' /\ DefaultFollows'
  BY <1>5 DEF WritersCurrent, DefaultFollows, Pending
<1>6. ASSUME handler'[h].at \in {"lock", "apply"} => handler'[h].topic = "customer"
      PROVE  CustomerTopic'
  BY <1>1, <1>6 DEF SInv, CustomerTopic
<1>7. UNCHANGED <<row, isDefault>> => Defaults' = Defaults
  BY DEF Defaults, Live
<1>8. ASSUME NEW t \in Topics, Deliver(h, t)
      PROVE  CustomerTopic' /\ WritersCurrent' /\ DefaultFollows'
  <2>1. /\ owed' = [owed EXCEPT ![t] = @ - 1] /\ UNCHANGED <<row, isDefault, missed>>
        /\ handler[h].at = "idle" /\ handler'[h].topic = t
        /\ handler'[h].at = IF t = "customer" THEN "lock" ELSE "retrieve"
    BY <1>1, <1>8 DEF Deliver, HandlerType, Waiting
  <2>2. CASE t = "customer"
    <3>1. CustomerTopic' /\ Pending'
      BY <1>6, <2>1, <2>2 DEF Pending
    <3> QED
      BY <1>5, <3>1
  <2>3. CASE t # "customer"
    <3>1. owed'["customer"] = owed["customer"]
      BY <1>0, <1>2, <2>1, <2>3
    <3> QED
      BY <1>4, <1>7, <2>1, <2>3, <3>1
  <2> QED
    BY <2>2, <2>3
<1>9. CASE Retrieve(h)
  <2>1. /\ UNCHANGED <<row, isDefault, missed, owed>>
        /\ handler[h].at = "retrieve" /\ handler'[h].at \notin {"lock", "apply"}
    BY <1>1, <1>3, <1>9 DEF Retrieve, HandlerType
  <2> QED
    BY <1>4, <1>7, <2>1
<1>10. CASE Reconcile(h)
  <2>1. handler[h].topic \in Cards
    BY <1>0, <1>10 DEF Reconcile, TInv, HandlersKnow
  <2>2. Defaults' = Defaults
    BY <1>0, <1>10, <2>1, UpsertMarksNothing DEF Reconcile, DInv
  <2>3. /\ UNCHANGED <<missed, owed>>
        /\ handler[h].at = "upsert" /\ handler'[h].at \notin {"lock", "apply"}
    BY <1>3, <1>10 DEF Reconcile
  <2> QED
    BY <1>4, <2>2, <2>3
<1>11. CASE SoftDelete(h)
  <2> DEFINE c == handler[h].topic
  <2>1. /\ UNCHANGED <<isDefault, missed, owed>> /\ c \in Cards /\ Gone(c)
        /\ handler[h].at = "remove" /\ handler'[h].at \notin {"lock", "apply"}
    BY <1>0, <1>3, <1>11 DEF SoftDelete, TInv, HandlersKnow, SInv, GInv, DeletersAreLate
  <2>2. \A d \in Cards : row'[d] = IF d = c /\ row[d] = "live" THEN "deleted" ELSE row[d]
    BY <1>0, <1>11, <2>1 DEF SoftDelete, Live
  <2>3. default # c
    BY <2>1, PaymentMethodsAssumption DEF SInv, DefaultAttached, Gone, Attached
  <2>4. c \notin Defaults => Defaults' = Defaults
    BY <2>1, <2>2 DEF Defaults, Live
  <2> QED
    BY <1>4, <2>1, <2>3, <2>4
<1>12. CASE LockDefault(h)
  <2>1. /\ lock = None /\ handler[h].at = "lock"
        /\ handler'[h].at = "apply" /\ handler'[h].default = default
        /\ handler'[h].topic = handler[h].topic
    BY <1>1, <1>12 DEF LockDefault, LockFree, HandlerType
  <2>2. /\ \A p \in Calls : call[p].at # "write"
        /\ \A g \in Handlers : handler[g].at # "apply"
    BY <1>0, <2>1, PaymentMethodsAssumption DEF DInv, LockHeld, InTransaction
  <2>3. CustomerTopic'
    BY <1>6, <2>1 DEF SInv, CustomerTopic
  <2>4. WritersCurrent'
    BY <1>0, <1>1, <2>1, <2>2 DEF WritersCurrent
  <2>5. DefaultFollows'
    BY <2>1 DEF DefaultFollows
  <2> QED
    BY <2>3, <2>4, <2>5
<1>13. CASE ApplyDefault(h)
  <2>1. handler[h].at = "apply" /\ handler'[h].at = "idle" /\ UNCHANGED <<owed, row>>
    BY <1>3, <1>13 DEF ApplyDefault
  <2>2. CustomerTopic'
    BY <1>6, <2>1
  <2>3. Pending => Pending'
    BY <1>1, <2>1 DEF Pending
  <2>4. /\ \A p \in Calls : call[p].at # "write"
        /\ \A g \in Handlers : handler'[g].at # "apply"
    BY <1>0, <1>1, <2>1, PaymentMethodsAssumption DEF DInv, LockHeld, InTransaction
  <2>5. WritersCurrent'
    BY <1>1, <2>4 DEF WritersCurrent
  <2>6. CASE Pending
    BY <1>5, <2>2, <2>3, <2>6
  <2>7. CASE ~Pending
    <3> DEFINE wanted == {default} \ {None}
    <3>1. handler[h].default = default
      BY <2>1, <2>7 DEF SInv, WritersCurrent
    <3>2. /\ isDefault' = IF Defaults = wanted THEN isDefault ELSE MarkOnly(wanted)
          /\ missed' = missed \cup (wanted \ Live)
      BY <1>13, <3>1 DEF ApplyDefault, Agrees
    <3>3. CASE Defaults = wanted
      <4>1. Defaults' = wanted
        BY <1>7, <2>1, <3>2, <3>3
      <4> QED
        BY <1>0, <2>2, <2>5, <4>1 DEF DefaultFollows
    <3>4. CASE Defaults # wanted
      <4>1. isDefault' = MarkOnly(wanted)
        BY <3>2, <3>4
      <4>2. \A d \in Live : isDefault'[d] = (d \in wanted)
        BY <4>1 DEF MarkOnly, Live
      <4>3. Defaults' = wanted \cap Live
        BY <2>1, <4>2 DEF Defaults, Live
      <4>4. default \in missed' \/ Defaults' = wanted
        BY <3>2, <4>3
      <4> QED
        BY <1>0, <2>2, <2>5, <4>4 DEF DefaultFollows
    <3> QED
      BY <3>3, <3>4
  <2> QED
    BY <2>6, <2>7
<1>14. CASE Redeliver(h)
  <2>1. /\ UNCHANGED <<row, isDefault, missed>> /\ handler'[h].at = "idle"
        /\ \A t \in Topics : owed[t] > 0 \/ t = handler[h].topic => owed'[t] > 0
    BY <1>0, <1>3, <1>14, EmitOwes DEF Redeliver
  <2>2. CASE handler[h].at \in {"lock", "apply"}
    <3>1. handler[h].topic = "customer"
      BY <2>2 DEF SInv, CustomerTopic
    <3>2. CustomerTopic' /\ Pending'
      BY <1>2, <1>6, <2>1, <3>1 DEF Pending
    <3> QED
      BY <1>5, <3>2
  <2>3. CASE handler[h].at \notin {"lock", "apply"}
    BY <1>2, <1>4, <1>7, <2>1, <2>3
  <2> QED
    BY <2>2, <2>3
<1> QED
  BY <1>8, <1>9, <1>10, <1>11, <1>12, <1>13, <1>14 DEF Webhook

\* Through every step the table follows Stripe.
LEMMA SInvKept == SInv /\ [Next]_vars => SInv'
<1> SUFFICES ASSUME SInv, [Next]_vars PROVE SInv'
  OBVIOUS
<1>1. DInv' /\ KInv' /\ GInv'
  BY DInvKept, KInvKept, GInvKept DEF SInv
<1> SUFFICES /\ CustomerTopic' /\ DefaultAttached' /\ WritersCurrent' /\ DefaultFollows'
             /\ \A c \in Cards : CardFollows(c)'
  BY <1>1 DEF SInv
<1>2. CASE Outside \/ KeyExpires \/ UNCHANGED vars
  <2>1. /\ StripeTells /\ DefaultAttached'
        /\ UNCHANGED <<row, isDefault, call, handler, ghosts, missed>>
    BY <1>2, OutsideIsHeard DEF table, seen
  <2>2. RowsFollow
    BY <2>1 DEF RowsFollow
  <2>3. \A c \in Cards : CardFollows(c)'
    BY <2>1, <2>2, CardFollowsOn
  <2>4. CustomerTopic'
    BY <2>1 DEF SInv, CustomerTopic
  <2>5. "customer" \in Topics
    BY DEF Topics
  <2>6. CASE Pending'
    BY <2>1, <2>3, <2>4, <2>6 DEF WritersCurrent, DefaultFollows, Pending
  <2>7. CASE ~Pending'
    <3>1. ~Pending /\ UNCHANGED default
      BY <2>1, <2>5, <2>7 DEF Pending, StripeTells
    <3>2. Defaults' = Defaults
      BY <2>1 DEF Defaults, Live
    <3>3. WritersCurrent' /\ DefaultFollows'
      BY <2>1, <3>1, <3>2 DEF SInv, WritersCurrent, DefaultFollows
    <3> QED
      BY <2>1, <2>3, <2>4, <3>3
  <2> QED
    BY <2>6, <2>7
<1>3. ASSUME NEW p \in Calls, Route(p)
      PROVE  /\ CustomerTopic' /\ DefaultAttached' /\ WritersCurrent' /\ DefaultFollows'
             /\ \A c \in Cards : CardFollows(c)'
  <2>1. StripeTells /\ DefaultAttached' /\ RowsFollow
    BY <1>3, RouteIsHeard, RouteRowsFollow
  <2>2. UNCHANGED handler
    BY <1>3, RouteIsLocal DEF SInv, DInv
  <2>3. \A c \in Cards : CardFollows(c)'
    BY <2>1, <2>2, CardFollowsOn
  <2> QED
    BY <1>3, <2>1, <2>3, RouteFollowsDefault
<1>4. ASSUME NEW h \in Handlers, Webhook(h)
      PROVE  /\ CustomerTopic' /\ DefaultAttached' /\ WritersCurrent' /\ DefaultFollows'
             /\ \A c \in Cards : CardFollows(c)'
  <2>1. UNCHANGED <<holder, default>>
    BY <1>4 DEF Webhook, Deliver, Retrieve, Reconcile, SoftDelete, LockDefault,
                ApplyDefault, Redeliver, stripe
  <2>2. DefaultAttached'
    BY <2>1 DEF SInv, DefaultAttached, Attached
  <2> QED
    BY <1>4, <2>2, WebhookFollowsCards, WebhookFollowsDefault
<1> QED
  BY <1>2, <1>3, <1>4 DEF Next

\* Once nothing is under way and Stripe has no event to deliver, the table lists
\* the cards that are attached and has Stripe's default, for any number of cards,
\* calls and deliveries, failing anywhere (payment_method.*, customer.updated).
THEOREM TableStaysInSync == Spec => []TableInSync
<1>1. SInv => TableInSync
  <2> SUFFICES ASSUME SInv, Quiet PROVE TableInSync
    BY DEF TableInSync, CardsInSync, DefaultInSync
  <2>1. \A h \in Handlers : handler[h].at = "idle"
    BY DEF Quiet, Waiting
  <2>2. \A t \in Topics : ~(owed[t] > 0)
    BY DEF Quiet
  <2>3. ~Pending /\ \A c \in Cards : ~Coming(c)
    BY <2>1, <2>2 DEF Pending, Coming, Topics
  <2>4. CardsInSync
    BY <2>1, <2>3 DEF SInv, CardFollows, CardsInSync
  <2>5. DefaultInSync
    BY <2>1, <2>3 DEF SInv, DefaultFollows, DefaultInSync
  <2> QED
    BY <2>4, <2>5 DEF TableInSync
<1> QED
  BY <1>1, InitSInv, SInvKept, PTL DEF Spec
=============================================================================
