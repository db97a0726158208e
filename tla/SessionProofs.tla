----------------------------- MODULE SessionProofs -----------------------------
(***************************************************************************)
(* Proofs about what runs behind every page of the web application, and    *)
(* the registry that pushes to it, each for any number of tabs, calls,     *)
(* notifications and pushes.                                               *)
(***************************************************************************)
EXTENDS WebSession, LiveSocket, Inbox, Toasts, Connections, AuthPages,
        FiniteSetTheorems, TLAPS

-----------------------------------------------------------------------------
(***************************************************************************)
(* The session. A token is told apart by its session and by its age: what  *)
(* a refresh, or a sign-in, is about to store is held nowhere yet, so what *)
(* a call tries again with is not what it was refused with. And unless a   *)
(* late answer crossed a teardown, who is signed in, what is stored and    *)
(* the layout follow one another whenever no teardown is under way.        *)
(***************************************************************************)

MaybeToken == Token \cup {NoTokens}
CallStates == {"idle", "sent", "stale", "waiting", "again", "done"}
RefreshStates == {"none", "sent", "served", "refused", "tearing"}
CallRecord == [at : CallStates, try : 0 .. 2, hdr : MaybeToken, first : MaybeToken]
RefreshRecord == [at : RefreshStates, s : Sessions \cup {0}, tok : MaybeToken]
LeaveRecord == [at : {"no", "revoking", "clearing"}, hdr : MaybeToken]

SessTypes ==
    /\ stored \in MaybeToken /\ user \in Sessions \cup {Nobody}
    /\ memo \in BOOLEAN /\ crossed \in BOOLEAN /\ layout \in {"boot", "app", "auth"}
    /\ call \in [All -> CallRecord] /\ refresh \in RefreshRecord
    /\ leaving \in [Who -> LeaveRecord] /\ entering \in {"no", "writing", "calling"}
    /\ issued \in [Sessions -> Nat] /\ dead \in Nat
    /\ \A c \in All : call[c].at = "sent" => call[c].hdr \in Token
    /\ refresh.at \in {"sent", "served"} => refresh.s \in Sessions
    /\ refresh.at = "served" => refresh.tok \in Token /\ refresh.tok.s = refresh.s

\* The sign-ins so far are the first ones there can be.
HasLast == \E s \in Sessions : \A r \in Sessions : issued[r] <= issued[s]
SignedInInOrder == \A s, r \in Sessions : issued[s] > 0 /\ r < s => issued[r] > 0
HasNewest == \E s \in Sessions : issued[s] > 0 /\ \A r \in Sessions : r > s => issued[r] = 0
Ledger == HasLast /\ SignedInInOrder /\ HasNewest

\* The tokens the page has in hand.
Known(t) == t \in Token => issued[t.s] > 0 /\ t.g <= LastIssued
Older(t) == t \in Token /\ entering = "writing" => t.s # NewestSession
Apart(t) == t \in Token /\ refresh.at = "served" => t # refresh.tok
InHand(t) == Known(t) /\ Older(t) /\ Apart(t)
TokensInHand == InHand(stored) /\ \A c \in All : InHand(call[c].hdr) /\ InHand(call[c].first)
RefreshInHand ==
    /\ refresh.at \in {"sent", "served"} =>
          issued[refresh.s] > 0 /\ (entering = "writing" => refresh.s # NewestSession)
    /\ refresh.at = "served" => refresh.tok.g <= LastIssued

\* The second try takes another token than the first.
TriesAnew ==
    \A c \in All :
        call[c].first \in Token =>
            /\ call[c].at = "again" => stored # call[c].first
            /\ call[c].at \in {"sent", "stale"} /\ call[c].try = 2 => call[c].hdr # call[c].first

TokensInv == Ledger /\ TokensInHand /\ RefreshInHand /\ TriesAnew

Clearing == \E w \in Who : leaving[w].at = "clearing"

\* Boot waits for one profile, if it found tokens.
BootIsAlone ==
    layout = "boot" =>
        /\ user = Nobody /\ entering = "no" /\ \A c \in Calls : call[c].at = "idle"
        /\ call[Me].at # "idle" => memo /\ stored \in Token
AuthIsSettled == layout = "auth" => ~memo
\* The user is whoever's tokens are stored, but while a sign-in reads its profile.
UserIsStored ==
    stored \in Token /\ layout # "boot" /\ entering # "calling" =>
        user = stored.s \/ (user = Nobody /\ memo)
SignedInIsStored ==
    /\ user # Nobody \/ layout = "app" \/ entering = "calling" => stored \in Token
    /\ layout = "app" => user # Nobody \/ memo
ProfileIsStored ==
    entering = "calling" /\ call[Me].at \in {"sent", "stale"} => call[Me].hdr \in Token /\ call[Me].hdr.s = stored.s
AuthIsGuest ==
    layout = "auth" => user \in MustChange \cup {Nobody} \/ entering = "calling"

OneStory ==
    /\ Clearing => user = Nobody
    /\ ~Clearing => UserIsStored /\ SignedInIsStored /\ ProfileIsStored /\ AuthIsGuest

Story == BootIsAlone /\ AuthIsSettled /\ (~crossed => OneStory)

SessInv == SessTypes /\ TokensInv /\ Story

LEMMA TokensAreApart == /\ NoTokens \notin Token /\ Nobody \notin Sessions /\ 0 \notin Sessions
                        /\ Me \in All /\ Calls \subseteq All /\ Sessions \subseteq Nat
  BY SessionAssumption DEF Token, All

\* The newest access token there is, and the newest session.
LEMMA LastIsThere ==
  ASSUME SessTypes, Ledger
  PROVE  /\ LastIssued \in Nat /\ \A s \in Sessions : issued[s] <= LastIssued
         /\ LastIssued \in {issued[s] : s \in Sessions}
<1>1. \E g \in {issued[s] : s \in Sessions} : \A s \in Sessions : issued[s] <= g
  BY DEF Ledger, HasLast
<1>2. LastIssued \in {issued[s] : s \in Sessions} /\ \A s \in Sessions : issued[s] <= LastIssued
  BY <1>1 DEF LastIssued
<1> QED
  BY <1>2 DEF SessTypes

LEMMA NewestIsThere ==
  ASSUME SessTypes, Ledger
  PROVE  /\ NewestSession \in Sessions /\ issued[NewestSession] > 0
         /\ \A r \in Sessions : r > NewestSession => issued[r] = 0
BY DEF Ledger, HasNewest, NewestSession

LEMMA NewestIsOne ==
  ASSUME SessTypes, NEW s \in Sessions, issued[s] > 0, \A r \in Sessions : r > s => issued[r] = 0
  PROVE  NewestSession = s
<1>1. /\ NewestSession \in Sessions /\ issued[NewestSession] > 0
      /\ \A r \in Sessions : r > NewestSession => issued[r] = 0
  BY DEF NewestSession
<1> QED
  BY <1>1, TokensAreApart DEF SessTypes

\* A token is stored over what was issued last.
IssuesLast(s) == issued' = [issued EXCEPT ![s] = LastIssued + 1]

LEMMA IssuesLastKeeps ==
  ASSUME SessTypes, Ledger, NEW s \in Sessions, IssuesLast(s),
         \/ issued[s] > 0
         \/ issued[s] = 0 /\ \A r \in Sessions : r < s => issued[r] > 0
  PROVE  /\ issued' \in [Sessions -> Nat] /\ Ledger' /\ LastIssued' = LastIssued + 1
         /\ NewestSession' = IF issued[s] > 0 THEN NewestSession ELSE s
<1> DEFINE n == LastIssued
<1>1. n \in Nat /\ \A r \in Sessions : issued[r] <= n
  BY LastIsThere
<1>2. issued' = [issued EXCEPT ![s] = n + 1]
  BY DEF IssuesLast
<1>3. PICK w \in Sessions : w = NewestSession
  BY NewestIsThere
<1>4. issued[w] > 0 /\ \A r \in Sessions : r > w => issued[r] = 0
  BY <1>3, NewestIsThere
<1>5. LastIssued' = n + 1
  <2>1. LastIssued' = CHOOSE g \in {issued'[r] : r \in Sessions} : \A r \in Sessions : issued'[r] <= g
    BY DEF LastIssued
  <2> HIDE DEF n
  <2>2. issued'[s] = n + 1 /\ \A r \in Sessions : issued'[r] \in Nat /\ issued'[r] <= n + 1
    BY <1>1, <1>2 DEF SessTypes
  <2>3. \A g \in {issued'[r] : r \in Sessions} :
            (\A r \in Sessions : issued'[r] <= g) <=> g = n + 1
    BY <1>1, <2>2
  <2>4. n + 1 \in {issued'[r] : r \in Sessions}
    BY <2>2
  <2>5. \E g \in {issued'[r] : r \in Sessions} : \A r \in Sessions : issued'[r] <= g
    BY <2>3, <2>4
  <2> QED
    BY <2>1, <2>3, <2>5
<1> HIDE DEF n
<1>6. issued' \in [Sessions -> Nat]
  BY <1>1, <1>2 DEF SessTypes
<1>7. issued'[s] = n + 1 /\ \A r \in Sessions \ {s} : issued'[r] = issued[r]
  BY <1>2 DEF SessTypes
<1>8. HasLast'
  <2>1. \A r \in Sessions : issued'[r] <= issued'[s]
    BY <1>1, <1>7 DEF SessTypes
  <2> QED
    BY <2>1 DEF HasLast
<1>9. SignedInInOrder'
  <2> SUFFICES ASSUME NEW q \in Sessions, NEW r \in Sessions, issued'[q] > 0, r < q
               PROVE  issued'[r] > 0
    BY DEF SignedInInOrder
  <2>1. SignedInInOrder
    BY DEF Ledger
  <2> QED
    BY <1>1, <1>7, <2>1, TokensAreApart DEF SignedInInOrder, SessTypes
<1>10. PICK v : v = IF issued[s] > 0 THEN w ELSE s
  OBVIOUS
<1>11. v \in Sessions /\ issued'[v] > 0 /\ \A r \in Sessions : r > v => issued'[r] = 0
  <2>1. CASE issued[s] > 0
    <3>1. ~(s > w)
      BY <1>4, <2>1
    <3> QED
      BY <1>1, <1>4, <1>7, <1>10, <2>1, <3>1 DEF SessTypes
  <2>2. CASE ~(issued[s] > 0)
    <3>1. \A r \in Sessions : r > s => issued[r] = 0
      <4>1. SignedInInOrder /\ issued \in [Sessions -> Nat]
        BY DEF Ledger, SessTypes
      <4> SUFFICES ASSUME NEW r \in Sessions, r > s PROVE issued[r] = 0
        OBVIOUS
      <4>2. issued[r] \in Nat /\ s < r
        BY <4>1, TokensAreApart
      <4>3. issued[r] > 0 => issued[s] > 0
        BY <4>1, <4>2 DEF SignedInInOrder
      <4> QED
        BY <2>2, <4>2, <4>3
    <3> QED
      BY <1>1, <1>7, <1>10, <2>2, <3>1, TokensAreApart DEF SessTypes
  <2> QED
    BY <2>1, <2>2
<1>12. HasNewest'
  BY <1>11 DEF HasNewest
<1>13. NewestSession' = v
  <2> DEFINE z == CHOOSE q \in Sessions : issued'[q] > 0 /\ \A r \in Sessions : r > q => issued'[r] = 0
  <2>1. NewestSession' = z
    BY DEF NewestSession
  <2>2. \A q \in Sessions : issued'[q] > 0 /\ (\A r \in Sessions : r > q => issued'[r] = 0) => q = v
    BY <1>6, <1>11, TokensAreApart
  <2>3. z \in Sessions /\ issued'[z] > 0 /\ \A r \in Sessions : r > z => issued'[r] = 0
    BY <1>11
  <2> QED
    BY <2>1, <2>2, <2>3
<1> QED
  BY <1>3, <1>5, <1>6, <1>8, <1>9, <1>10, <1>12, <1>13 DEF Ledger, n

LEMMA LedgerKept ==
  ASSUME Ledger, issued' = issued
  PROVE  Ledger' /\ LastIssued' = LastIssued /\ NewestSession' = NewestSession
BY DEF Ledger, HasLast, SignedInInOrder, HasNewest, LastIssued, NewestSession

\* One call's record changes.
LEMMA CallIsSet ==
  ASSUME SessTypes, NEW c \in All, NEW rec \in CallRecord, call' = [call EXCEPT ![c] = rec],
         rec.at = "sent" => rec.hdr \in Token
  PROVE  /\ call' \in [All -> CallRecord] /\ call'[c] = rec
         /\ \A d \in All : call'[d].at = "sent" => call'[d].hdr \in Token
         /\ \A d \in All \ {c} : call'[d] = call[d]
<1>1. call \in [All -> CallRecord] /\ \A d \in All : call[d].at = "sent" => call[d].hdr \in Token
  BY DEF SessTypes
<1> HIDE DEF CallRecord
<1>2. call' \in [All -> CallRecord] /\ call'[c] = rec /\ \A d \in All \ {c} : call'[d] = call[d]
  BY <1>1
<1> QED
  BY <1>1, <1>2

LEMMA CallIsSent ==
  ASSUME SessTypes, NEW c \in All, NEW try \in {1, 2}, NEW store \in MaybeToken, Send(c, try, store)
  PROVE  /\ call' \in [All -> CallRecord]
         /\ \A d \in All : call'[d].at = "sent" => call'[d].hdr \in Token
         /\ call'[c].at \in {"sent", "stale"} /\ call'[c].try = try /\ call'[c].hdr = store
         /\ call'[c].first = IF try = 1 THEN store ELSE call[c].first
         /\ \A d \in All \ {c} : call'[d] = call[d]
<1> DEFINE rec == [at |-> IF Accepted(store) THEN "sent" ELSE "stale", try |-> try, hdr |-> store,
                   first |-> IF try = 1 THEN store ELSE call[c].first]
<1>1. call[c].first \in MaybeToken
  BY DEF SessTypes, CallRecord
<1>2. rec \in CallRecord
  BY <1>1 DEF CallRecord, CallStates
<1>3. rec.at = "sent" => rec.hdr \in Token
  BY DEF Accepted, MaybeToken
<1>4. call' = [call EXCEPT ![c] = rec]
  BY DEF Send, Header
<1>5. /\ rec.at \in {"sent", "stale"} /\ rec.try = try /\ rec.hdr = store
      /\ rec.first = IF try = 1 THEN store ELSE call[c].first
  OBVIOUS
<1> HIDE DEF rec
<1>6. /\ call' \in [All -> CallRecord] /\ call'[c] = rec
      /\ \A d \in All : call'[d].at = "sent" => call'[d].hdr \in Token
      /\ \A d \in All \ {c} : call'[d] = call[d]
  BY <1>2, <1>3, <1>4, CallIsSet
<1> QED
  BY <1>5, <1>6

LEMMA EndedRecord ==
  ASSUME NEW c \in All
  PROVE  /\ Ended(c) \in CallRecord /\ Ended(c).at \in {"idle", "done"}
         /\ Ended(c).hdr = NoTokens /\ Ended(c).first = NoTokens
         /\ c = Me => Ended(c).at = "idle"
BY DEF Ended, NoCall, CallRecord, CallStates, MaybeToken

LEMMA CallEnds ==
  ASSUME SessTypes, NEW c \in All, call' = End(c)
  PROVE  /\ call' \in [All -> CallRecord]
         /\ \A d \in All : call'[d].at = "sent" => call'[d].hdr \in Token
         /\ call'[c] = Ended(c) /\ \A d \in All \ {c} : call'[d] = call[d]
<1> DEFINE rec == Ended(c)
<1>1. rec \in CallRecord /\ rec.at # "sent"
  BY EndedRecord
<1>2. call' = [call EXCEPT ![c] = rec]
  BY DEF End
<1> HIDE DEF rec
<1>3. /\ call' \in [All -> CallRecord] /\ call'[c] = rec
      /\ \A d \in All : call'[d].at = "sent" => call'[d].hdr \in Token
      /\ \A d \in All \ {c} : call'[d] = call[d]
  BY <1>1, <1>2, CallIsSet
<1> QED
  BY <1>3 DEF rec

\* A call waits for a refresh.
LEMMA Waits ==
  ASSUME SessTypes, NEW c \in All, Unauthorized(c)
  PROVE  /\ call' \in [All -> CallRecord]
         /\ \A d \in All : call'[d].at = "sent" => call'[d].hdr \in Token
         /\ call'[c].at = "waiting" /\ call'[c].hdr = call[c].hdr /\ call'[c].first = call[c].first
         /\ \A d \in All \ {c} : call'[d] = call[d]
         /\ refresh' \in RefreshRecord
         /\ \/ refresh' = refresh
            \/ refresh.at = "none" /\ refresh'.at = "refused"
            \/ /\ refresh.at = "none" /\ refresh'.at = "sent"
               /\ stored \in Token /\ refresh'.s = stored.s
<1> DEFINE rec == [at |-> "waiting", try |-> call[c].try, hdr |-> call[c].hdr, first |-> call[c].first]
<1>1. call[c] \in CallRecord
  BY DEF SessTypes
<1>2. rec \in CallRecord /\ rec = [call[c] EXCEPT !.at = "waiting"]
  BY <1>1 DEF CallRecord, CallStates
<1>3. call' = [call EXCEPT ![c] = rec]
  BY <1>2 DEF Unauthorized
<1>4. rec.at = "waiting" /\ rec.hdr = call[c].hdr /\ rec.first = call[c].first
  OBVIOUS
<1> HIDE DEF rec
<1>5. /\ call' \in [All -> CallRecord] /\ call'[c] = rec
      /\ \A d \in All : call'[d].at = "sent" => call'[d].hdr \in Token
      /\ \A d \in All \ {c} : call'[d] = call[d]
  BY <1>2, <1>3, <1>4, CallIsSet
<1>6. /\ refresh' \in RefreshRecord
      /\ \/ refresh' = refresh
         \/ refresh.at = "none" /\ refresh'.at = "refused"
         \/ /\ refresh.at = "none" /\ refresh'.at = "sent"
            /\ stored \in Token /\ refresh'.s = stored.s
  BY TokensAreApart DEF Unauthorized, SessTypes, RefreshRecord, RefreshStates, NoRefresh, MaybeToken, Token
<1> QED
  BY <1>4, <1>5, <1>6

\* The callers of a refresh that ended: they try again, or fail.
LEMMA Resumes ==
  ASSUME SessTypes, call' = Resume
  PROVE  /\ call' \in [All -> CallRecord]
         /\ \A d \in All : call'[d].at = "sent" => call'[d].hdr \in Token
         /\ \A d \in All :
               \/ call'[d] = call[d] /\ d \notin Waiting
               \/ /\ d \in Waiting /\ call'[d].at = "again"
                  /\ call'[d].hdr = call[d].hdr /\ call'[d].first = call[d].first
<1> DEFINE again(d) == [at |-> "again", try |-> call[d].try, hdr |-> call[d].hdr, first |-> call[d].first]
<1>1. \A d \in All : call[d] \in CallRecord /\ (call[d].at = "sent" => call[d].hdr \in Token)
  BY DEF SessTypes
<1>2. \A d \in All : again(d) \in CallRecord /\ again(d) = [call[d] EXCEPT !.at = "again"]
  BY <1>1 DEF CallRecord, CallStates
<1>3. \A d \in All : /\ again(d).at = "again" /\ again(d).hdr = call[d].hdr
                     /\ again(d).first = call[d].first
  OBVIOUS
<1>4. call' = [d \in All |-> IF d \in Waiting THEN again(d) ELSE call[d]]
  BY <1>2 DEF Resume
<1> HIDE DEF again
<1>5. call' \in [All -> CallRecord]
  BY <1>1, <1>2, <1>4
<1>6. \A d \in All : call'[d] = IF d \in Waiting THEN again(d) ELSE call[d]
  BY <1>4
<1> QED
  BY <1>1, <1>3, <1>5, <1>6

LEMMA Gives ==
  ASSUME SessTypes, call' = [c \in All |-> IF c \in Waiting THEN Ended(c) ELSE call[c]]
  PROVE  /\ call' \in [All -> CallRecord]
         /\ \A d \in All : call'[d].at = "sent" => call'[d].hdr \in Token
         /\ \A d \in All : call'[d] = call[d] \/ call'[d] = Ended(d)
<1>1. \A d \in All : call[d] \in CallRecord /\ (call[d].at = "sent" => call[d].hdr \in Token)
  BY DEF SessTypes
<1>2. \A d \in All : Ended(d) \in CallRecord /\ Ended(d).at # "sent"
  BY EndedRecord
<1>3. \A d \in All : call'[d] = IF d \in Waiting THEN Ended(d) ELSE call[d]
  OBVIOUS
<1>4. call' \in [All -> CallRecord]
  BY <1>1, <1>2
<1> QED
  BY <1>1, <1>2, <1>3, <1>4

LEMMA LeaveIsSet ==
  ASSUME SessTypes, NEW w \in Who, NEW a \in {"no", "revoking", "clearing"}, NEW h \in MaybeToken,
         leaving' = [leaving EXCEPT ![w] = [at |-> a, hdr |-> h]]
  PROVE  /\ leaving' \in [Who -> LeaveRecord] /\ leaving'[w].at = a
         /\ \A v \in Who \ {w} : leaving'[v] = leaving[v]
<1> DEFINE rec == [at |-> a, hdr |-> h]
<1>1. rec \in LeaveRecord /\ rec.at = a
  BY DEF LeaveRecord
<1>2. leaving \in [Who -> LeaveRecord] /\ leaving' = [leaving EXCEPT ![w] = rec]
  BY DEF SessTypes
<1> HIDE DEF rec, LeaveRecord
<1> QED
  BY <1>1, <1>2

LEMMA Discards ==
  ASSUME SessTypes, NEW w \in Who, Leave(w)
  PROVE  /\ leaving' \in [Who -> LeaveRecord] /\ user' = Nobody
         /\ leaving'[w].at = "clearing" /\ Clearing'
<1>1. leaving' = [leaving EXCEPT ![w] = [at |-> "clearing", hdr |-> NoTokens]] /\ user' = Nobody
  BY DEF Leave, Discard
<1>2. leaving' \in [Who -> LeaveRecord] /\ leaving'[w].at = "clearing"
  BY <1>1, LeaveIsSet DEF MaybeToken
<1> QED
  BY <1>1, <1>2 DEF Clearing

LEMMA StopsLeaving ==
  ASSUME SessTypes, NEW w \in Who, leaving' = [leaving EXCEPT ![w].at = "no"]
  PROVE  /\ leaving' \in [Who -> LeaveRecord] /\ leaving'[w].at = "no"
         /\ \A v \in Who \ {w} : leaving'[v] = leaving[v]
<1> DEFINE h == leaving[w].hdr
<1>1. leaving[w] \in LeaveRecord
  BY DEF SessTypes
<1>2. h \in MaybeToken /\ [leaving[w] EXCEPT !.at = "no"] = [at |-> "no", hdr |-> h]
  BY <1>1 DEF LeaveRecord
<1>3. leaving' = [leaving EXCEPT ![w] = [at |-> "no", hdr |-> h]]
  BY <1>2
<1> HIDE DEF h
<1> QED
  BY <1>2, <1>3, LeaveIsSet

LEMMA Arrives ==
  ASSUME NEW from, NEW to \in {"app", "auth"}, NEW u, NEW m
  PROVE  /\ Arrive(from, to, u, m) \in {"app", "auth"}
         /\ from = to => Arrive(from, to, u, m) = to
         /\ from # to => Arrive(from, to, u, m) = IF u # Nobody \/ m THEN "app" ELSE "auth"
BY DEF Arrive, HasSession

\* A refresh that is served names a token of its session.
LEMMA IsServed ==
  ASSUME SessTypes, NEW g \in Nat, refresh.at = "sent",
         refresh' = [refresh EXCEPT !.at = "served", !.tok = [s |-> refresh.s, g |-> g]]
  PROVE  /\ refresh' \in RefreshRecord /\ refresh'.at = "served" /\ refresh'.s = refresh.s
         /\ refresh'.s \in Sessions /\ refresh'.tok \in Token
         /\ refresh'.tok.s = refresh.s /\ refresh'.tok.g = g
<1>1. refresh \in RefreshRecord /\ refresh.s \in Sessions
  BY DEF SessTypes
<1> QED
  BY <1>1 DEF RefreshRecord, RefreshStates, Token, MaybeToken

LEMMA IsRefused ==
  ASSUME SessTypes, NEW a \in {"refused", "tearing"}, refresh' = [refresh EXCEPT !.at = a]
  PROVE  refresh' \in RefreshRecord /\ refresh'.at = a
<1>1. refresh \in RefreshRecord
  BY DEF SessTypes
<1> QED
  BY <1>1 DEF RefreshRecord, RefreshStates

LEMMA NoRefreshIs == NoRefresh \in RefreshRecord /\ NoRefresh.at = "none"
  BY DEF NoRefresh, RefreshRecord, RefreshStates, MaybeToken

\* A step keeps the types of what it sets.
LEMMA SessTypesKept ==
  ASSUME stored' \in MaybeToken, user' \in Sessions \cup {Nobody},
         memo' \in BOOLEAN, crossed' \in BOOLEAN, layout' \in {"boot", "app", "auth"},
         call' \in [All -> CallRecord], \A c \in All : call'[c].at = "sent" => call'[c].hdr \in Token,
         leaving' \in [Who -> LeaveRecord], entering' \in {"no", "writing", "calling"},
         issued' \in [Sessions -> Nat], dead' \in Nat,
         \/ refresh' = refresh /\ SessTypes
         \/ refresh' \in RefreshRecord /\ refresh'.at \notin {"sent", "served"}
         \/ /\ refresh' \in RefreshRecord /\ refresh'.at \in {"sent", "served"} /\ refresh'.s \in Sessions
            /\ refresh'.at = "served" => refresh'.tok \in Token /\ refresh'.tok.s = refresh'.s
  PROVE  SessTypes'
BY DEF SessTypes

LEMMA SessTypesFacts ==
  ASSUME SessTypes
  PROVE  /\ stored \in MaybeToken /\ user \in Sessions \cup {Nobody}
         /\ memo \in BOOLEAN /\ crossed \in BOOLEAN /\ layout \in {"boot", "app", "auth"}
         /\ call \in [All -> CallRecord] /\ \A c \in All : call[c].at = "sent" => call[c].hdr \in Token
         /\ leaving \in [Who -> LeaveRecord] /\ entering \in {"no", "writing", "calling"}
         /\ issued \in [Sessions -> Nat] /\ dead \in Nat
BY DEF SessTypes

LEMMA SessTypesStep ==
  ASSUME SessTypes, Ledger, [SessNext]_sessVars
  PROVE  SessTypes'
<1> USE SessTypesFacts, TokensAreApart
<1>1. CASE Expire
  <2>1. dead' \in Nat
    BY <1>1, LastIsThere DEF Expire
  <2> QED
    BY <1>1, <2>1, SessTypesKept DEF Expire, memoryVars, flowVars
<1>2. CASE BootRead
  <2>1. memo' \in BOOLEAN
    <3>1. (stored # NoTokens) \in BOOLEAN
      OBVIOUS
    <3>2. memo' = (stored # NoTokens)
      BY <1>2 DEF BootRead
    <3> QED
      BY <3>1, <3>2, Zenon
  <2>2. /\ layout' \in {"boot", "app", "auth"} /\ call' \in [All -> CallRecord]
        /\ \A c \in All : call'[c].at = "sent" => call'[c].hdr \in Token
    <3>1. CASE stored = NoTokens
      <4>1. layout' = Arrive("boot", "app", user, FALSE) /\ call' = call
        BY <1>2, <3>1 DEF BootRead
      <4> QED
        BY <4>1 DEF Arrive
    <3>2. CASE stored # NoTokens
      <4>1. layout' = layout /\ Send(Me, 1, stored)
        BY <1>2, <3>2 DEF BootRead
      <4> QED
        BY <4>1, CallIsSent
    <3> QED
      BY <3>1, <3>2
  <2> QED
    BY <1>2, <2>1, <2>2, SessTypesKept DEF BootRead, tokenVars
<1>3. CASE Wander
  <2>1. layout' \in {"app", "auth"}
    <3> DEFINE to == IF layout = "app" THEN "auth" ELSE "app"
    <3>1. to \in {"app", "auth"} /\ layout' = Arrive(layout, to, user, memo)
      BY <1>3 DEF Wander
    <3> HIDE DEF to
    <3> QED
      BY <3>1, Arrives
  <2> QED
    BY <1>3, <2>1, SessTypesKept DEF Wander, tokenVars, flowVars
<1>4. CASE \E c \in Calls : Issue(c)
  <2> SUFFICES ASSUME NEW c \in Calls, Issue(c) PROVE SessTypes'
    BY <1>4
  <2>1. call' \in [All -> CallRecord] /\ \A d \in All : call'[d].at = "sent" => call'[d].hdr \in Token
    BY CallIsSent DEF Issue
  <2> QED
    BY <2>1, SessTypesKept DEF Issue, tokenVars, memoryVars
<1>5. CASE \E c \in All : TryAgain(c)
  <2> SUFFICES ASSUME NEW c \in All, TryAgain(c) PROVE SessTypes'
    BY <1>5
  <2>1. call' \in [All -> CallRecord] /\ \A d \in All : call'[d].at = "sent" => call'[d].hdr \in Token
    BY CallIsSent DEF TryAgain
  <2> QED
    BY <2>1, SessTypesKept DEF TryAgain, tokenVars, memoryVars
<1>6. CASE \E c \in All : Succeed(c)
  <2> SUFFICES ASSUME NEW c \in All, Succeed(c) PROVE SessTypes'
    BY <1>6
  <2>1. call' \in [All -> CallRecord] /\ \A d \in All : call'[d].at = "sent" => call'[d].hdr \in Token
    BY CallEnds DEF Succeed
  <2>2. user' \in Sessions \cup {Nobody}
    BY DEF Succeed, Token
  <2>3. layout' \in {"boot", "app", "auth"}
    <3> PICK u : u = user'
      OBVIOUS
    <3>1. \/ layout' = layout
          \/ layout' = Arrive(layout, "app", u, memo)
      BY DEF Succeed
    <3> QED
      BY <3>1, Arrives
  <2>4. crossed' \in BOOLEAN /\ entering' \in {"no", "writing", "calling"}
    BY DEF Succeed
  <2> QED
    BY <2>1, <2>2, <2>3, <2>4, SessTypesKept DEF Succeed, tokenVars
<1>7. CASE \E c \in All : Unauthorized(c)
  <2> SUFFICES ASSUME NEW c \in All, Unauthorized(c) PROVE SessTypes'
    BY <1>7
  <2>1. /\ call' \in [All -> CallRecord] /\ refresh' \in RefreshRecord
        /\ \A d \in All : call'[d].at = "sent" => call'[d].hdr \in Token
        /\ \/ refresh' = refresh
           \/ refresh'.at = "refused"
           \/ refresh'.at = "sent" /\ refresh'.s \in Sessions
    BY Waits DEF Token
  <2> QED
    BY <2>1, SessTypesKept DEF Unauthorized, tokenVars, memoryVars
<1>8. CASE \E c \in All : Fail(c)
  <2> SUFFICES ASSUME NEW c \in All, Fail(c) PROVE SessTypes'
    BY <1>8
  <2>1. call' \in [All -> CallRecord] /\ \A d \in All : call'[d].at = "sent" => call'[d].hdr \in Token
    BY CallEnds DEF Fail
  <2>2. layout' \in {"boot", "app", "auth"}
    BY Arrives DEF Fail
  <2>3. crossed' \in BOOLEAN /\ entering' \in {"no", "writing", "calling"}
    BY DEF Fail
  <2> QED
    BY <2>1, <2>2, <2>3, SessTypesKept DEF Fail
<1>9. CASE RefreshServed
  <2>1. CASE refresh'.at = "refused" /\ UNCHANGED issued /\ refresh' = [refresh EXCEPT !.at = "refused"]
    <3>1. refresh' \in RefreshRecord
      BY <2>1, IsRefused
    <3> QED
      BY <1>9, <2>1, <3>1, SessTypesKept DEF RefreshServed, memoryVars
  <2>2. CASE /\ issued' = [issued EXCEPT ![refresh.s] = LastIssued + 1]
             /\ refresh' = [refresh EXCEPT !.at = "served", !.tok = [s |-> refresh.s, g |-> LastIssued + 1]]
    <3>1. LastIssued + 1 \in Nat
      BY LastIsThere
    <3>2. /\ refresh' \in RefreshRecord /\ refresh'.at = "served" /\ refresh'.s = refresh.s
          /\ refresh'.s \in Sessions /\ refresh'.tok \in Token /\ refresh'.tok.s = refresh.s
      <4> PICK g \in Nat : g = LastIssued + 1
        BY <3>1
      <4>1. refresh.at = "sent" /\ refresh' = [refresh EXCEPT !.at = "served", !.tok = [s |-> refresh.s, g |-> g]]
        BY <1>9, <2>2 DEF RefreshServed
      <4> QED
        BY <4>1, IsServed
    <3>3. issued' \in [Sessions -> Nat]
      BY <2>2, <3>1, <3>2
    <3> QED
      BY <1>9, <3>2, <3>3, SessTypesKept DEF RefreshServed, memoryVars
  <2>3. refresh \in RefreshRecord
    BY DEF SessTypes
  <2> QED
    BY <1>9, <2>1, <2>2, <2>3, IsRefused DEF RefreshServed
<1>10. CASE RefreshStored
  <2>1. stored' \in MaybeToken
    BY <1>10 DEF RefreshStored, SessTypes, MaybeToken
  <2>2. call' \in [All -> CallRecord] /\ \A d \in All : call'[d].at = "sent" => call'[d].hdr \in Token
    BY <1>10, Resumes DEF RefreshStored
  <2>3. crossed' \in BOOLEAN /\ refresh' \in RefreshRecord /\ refresh'.at = "none"
    BY <1>10, NoRefreshIs DEF RefreshStored, Finalized
  <2> QED
    BY <1>10, <2>1, <2>2, <2>3, SessTypesKept DEF RefreshStored, memoryVars
<1>11. CASE RefreshRefused
  <2>1. leaving' \in [Who -> LeaveRecord] /\ user' = Nobody
    BY <1>11, Discards DEF RefreshRefused, Who
  <2>2. refresh' \in RefreshRecord /\ refresh'.at = "tearing"
    BY <1>11, IsRefused DEF RefreshRefused
  <2> QED
    BY <1>11, <2>1, <2>2, SessTypesKept DEF RefreshRefused, tokenVars
<1>12. CASE SignOut
  <2>1. leaving' \in [Who -> LeaveRecord]
    BY <1>12, LeaveIsSet DEF SignOut, Who
  <2> QED
    BY <1>12, <2>1, SessTypesKept DEF SignOut, tokenVars, memoryVars
<1>13. CASE Revoked
  <2>1. leaving' \in [Who -> LeaveRecord] /\ user' = Nobody
    BY <1>13, Discards DEF Revoked, Who
  <2> QED
    BY <1>13, <2>1, SessTypesKept DEF Revoked
<1>14. CASE \E w \in Who : Clear(w)
  <2> SUFFICES ASSUME NEW w \in Who, Clear(w) PROVE SessTypes'
    BY <1>14
  <2>1. leaving' \in [Who -> LeaveRecord]
    BY StopsLeaving DEF Clear
  <2>2. memo' = FALSE /\ layout' \in {"boot", "app", "auth"}
    <3> PICK m : m = memo'
      OBVIOUS
    <3>1. m = FALSE /\ layout' = Arrive(layout, "auth", user, m)
      BY DEF Clear, Unrestored
    <3> QED
      BY <3>1, Arrives
  <2>3. /\ call' \in [All -> CallRecord] /\ \A d \in All : call'[d].at = "sent" => call'[d].hdr \in Token
        /\ refresh' = refresh \/ (refresh' \in RefreshRecord /\ refresh'.at = "none")
        /\ entering' \in {"no", "writing", "calling"}
    <3>1. CASE w = "refresh"
      BY <3>1, Gives, NoRefreshIs DEF Clear
    <3>2. CASE w # "refresh"
      BY <3>2 DEF Clear
    <3> QED
      BY <3>1, <3>2
  <2>4. crossed' \in BOOLEAN /\ stored' \in MaybeToken
    BY DEF Clear, MaybeToken
  <2> QED
    BY <2>1, <2>2, <2>3, <2>4, SessTypesKept DEF Clear
<1>15. CASE \E s \in Sessions : SignIn(s)
  <2> SUFFICES ASSUME NEW s \in Sessions, SignIn(s) PROVE SessTypes'
    BY <1>15
  <2>1. issued' \in [Sessions -> Nat]
    BY LastIsThere DEF SignIn
  <2> QED
    BY <2>1, SessTypesKept DEF SignIn, memoryVars
<1>16. CASE SignInStored
  <2> PICK t : t = stored'
    OBVIOUS
  <2>1. t \in Token /\ t \in MaybeToken
    BY <1>16, NewestIsThere DEF SignInStored, Token, MaybeToken
  <2>2. call' \in [All -> CallRecord] /\ \A d \in All : call'[d].at = "sent" => call'[d].hdr \in Token
    BY <1>16, <2>1, CallIsSent DEF SignInStored
  <2> QED
    BY <1>16, <2>1, <2>2, SessTypesKept DEF SignInStored, memoryVars
<1>17. CASE UNCHANGED sessVars
  BY <1>17, SessTypesKept DEF sessVars, tokenVars, memoryVars, flowVars
<1> QED
  BY <1>1, <1>2, <1>3, <1>4, <1>5, <1>6, <1>7, <1>8, <1>9, <1>10, <1>11, <1>12, <1>13, <1>14, <1>15,
     <1>16, <1>17 DEF SessNext, SessionRoutes

\* No token is issued, and none is had that was not.
LEMMA TokensKept ==
  ASSUME SessTypes, TokensInv, issued' = issued,
         entering' = "writing" => entering = "writing",
         \/ refresh' = refresh
         \/ refresh'.at \notin {"sent", "served"}
         \/ refresh'.at = "sent" /\ stored \in Token /\ refresh'.s = stored.s,
         stored' \in {stored, NoTokens},
         \A c \in All : /\ call'[c].hdr \in {call[c].hdr, stored, NoTokens}
                        /\ call'[c].first \in {call[c].first, stored, NoTokens}
  PROVE  Ledger' /\ TokensInHand' /\ RefreshInHand'
<1>1. Ledger' /\ LastIssued' = LastIssued /\ NewestSession' = NewestSession
  BY LedgerKept DEF TokensInv
<1>2. PICK last : last = LastIssued
  OBVIOUS
<1>3. PICK latest : latest = NewestSession
  OBVIOUS
<1>4. \A t : InHand(t) /\ t \in Token =>
          /\ issued[t.s] > 0 /\ t.g <= last /\ (entering = "writing" => t.s # latest)
          /\ refresh.at = "served" => t # refresh.tok
  BY <1>2, <1>3 DEF InHand, Known, Older, Apart
<1>5. InHand(stored) /\ \A c \in All : InHand(call[c].hdr) /\ InHand(call[c].first)
  BY DEF TokensInv, TokensInHand
<1>6. \A t : InHand(t) /\ t \in Token =>
          /\ issued'[t.s] > 0 /\ t.g <= last /\ (entering' = "writing" => t.s # latest)
          /\ refresh'.at = "served" => t # refresh'.tok
  BY <1>4
<1>7. InHand(NoTokens)
  BY TokensAreApart DEF InHand, Known, Older, Apart
<1>8. \A t \in {stored'} \cup {call'[c].hdr : c \in All} \cup {call'[c].first : c \in All} :
          t \in Token => /\ issued'[t.s] > 0 /\ t.g <= last /\ (entering' = "writing" => t.s # latest)
                         /\ refresh'.at = "served" => t # refresh'.tok
  <2>1. \A t \in {stored'} \cup {call'[c].hdr : c \in All} \cup {call'[c].first : c \in All} : InHand(t)
    BY <1>5, <1>7
  <2> QED
    BY <1>6, <2>1
<1>9. TokensInHand'
  BY <1>1, <1>2, <1>3, <1>8 DEF TokensInHand, InHand, Known, Older, Apart
<1>10. RefreshInHand'
  BY <1>1, <1>2, <1>3, <1>4, <1>5 DEF RefreshInHand, TokensInv
<1> QED
  BY <1>1, <1>9, <1>10

LEMMA TriesKept ==
  ASSUME TriesAnew, stored' \in {stored, NoTokens},
         \A c \in All : \/ call'[c] = call[c]
                        \/ call'[c].first = NoTokens
                        \/ call'[c].at \notin {"again", "sent", "stale"}
                        \/ call'[c].at # "again" /\ (call'[c].try # 2 \/ call'[c].hdr # call'[c].first)
  PROVE  TriesAnew'
BY TokensAreApart DEF TriesAnew

LEMMA CallIsTwoTokens ==
  ASSUME SessTypes
  PROVE  \A c \in All : call[c].hdr \in MaybeToken /\ call[c].first \in MaybeToken
BY DEF SessTypes, CallRecord

\* The steps that issue or store a token.
LEMMA RefreshServedKeeps ==
  ASSUME SessTypes, TokensInv, RefreshServed, issued' # issued
  PROVE  TokensInv'
<1>1. /\ issued' = [issued EXCEPT ![refresh.s] = LastIssued + 1] /\ refresh.at = "sent"
      /\ refresh' = [refresh EXCEPT !.at = "served", !.tok = [s |-> refresh.s, g |-> LastIssued + 1]]
      /\ UNCHANGED <<stored, call, entering>>
  BY DEF RefreshServed, memoryVars
<1>2. Ledger /\ TokensInHand /\ RefreshInHand /\ TriesAnew
  BY DEF TokensInv
<1>3. refresh.s \in Sessions /\ issued[refresh.s] > 0 /\ (entering = "writing" => refresh.s # NewestSession)
  BY <1>1, <1>2 DEF SessTypes, RefreshInHand
<1>4. issued' \in [Sessions -> Nat] /\ Ledger' /\ LastIssued' = LastIssued + 1 /\ NewestSession' = NewestSession
  BY <1>1, <1>2, <1>3, IssuesLastKeeps DEF IssuesLast
<1>5. PICK last \in Nat : last = LastIssued
  BY <1>2, LastIsThere
<1>6. /\ refresh'.at = "served" /\ refresh'.s = refresh.s
      /\ refresh'.tok \in Token /\ refresh'.tok.g = last + 1
  <2> PICK g \in Nat : g = last + 1
    OBVIOUS
  <2>1. refresh' = [refresh EXCEPT !.at = "served", !.tok = [s |-> refresh.s, g |-> g]]
    BY <1>1, <1>5
  <2> QED
    BY <1>1, <2>1, IsServed
<1>7. issued \in [Sessions -> Nat]
  BY DEF SessTypes
<1>8. \A s \in Sessions : issued[s] > 0 => issued'[s] > 0
  BY <1>1, <1>5, <1>7
<1>9. PICK latest : latest = NewestSession
  OBVIOUS
<1>10. \A t : InHand(t) /\ t \in Token =>
          /\ issued'[t.s] > 0 /\ t.g <= last + 1 /\ (entering' = "writing" => t.s # latest)
          /\ t # refresh'.tok
  <2> SUFFICES ASSUME NEW t \in Token, InHand(t)
               PROVE  /\ issued'[t.s] > 0 /\ t.g <= last + 1 /\ (entering' = "writing" => t.s # latest)
                      /\ t # refresh'.tok
    OBVIOUS
  <2>1. issued[t.s] > 0 /\ t.g <= last /\ (entering = "writing" => t.s # latest)
    BY <1>5, <1>9 DEF InHand, Known, Older
  <2>2. t.s \in Sessions /\ t.g \in Nat
    BY DEF Token
  <2> QED
    BY <1>1, <1>5, <1>6, <1>8, <2>1, <2>2
<1>11. TokensInHand'
  BY <1>1, <1>2, <1>4, <1>5, <1>9, <1>10 DEF TokensInHand, InHand, Known, Older, Apart
<1>12. RefreshInHand'
  BY <1>1, <1>3, <1>4, <1>5, <1>6, <1>8 DEF RefreshInHand
<1>13. TriesAnew'
  BY <1>1, <1>2 DEF TriesAnew
<1> QED
  BY <1>4, <1>11, <1>12, <1>13 DEF TokensInv

LEMMA RefreshStoredKeeps ==
  ASSUME SessTypes, TokensInv, RefreshStored
  PROVE  TokensInv'
<1>1. /\ refresh.at = "served" /\ stored' = refresh.tok /\ refresh'.at = "none"
      /\ issued' = issued /\ entering' = entering
  BY NoRefreshIs DEF RefreshStored, Finalized
<1>2. Ledger /\ TokensInHand /\ RefreshInHand /\ TriesAnew
  BY DEF TokensInv
<1>3. \A d \in All : /\ call'[d].hdr = call[d].hdr /\ call'[d].first = call[d].first
                     /\ call'[d].at # "again" => call'[d].at = call[d].at /\ call'[d].try = call[d].try
  BY Resumes DEF RefreshStored
<1>4. Ledger' /\ LastIssued' = LastIssued /\ NewestSession' = NewestSession
  BY <1>1, <1>2, LedgerKept
<1>5. /\ refresh.tok \in Token /\ refresh.tok.s = refresh.s /\ issued[refresh.s] > 0
      /\ entering = "writing" => refresh.s # NewestSession
      /\ refresh.tok.g <= LastIssued
  BY <1>1, <1>2 DEF SessTypes, RefreshInHand
<1>6. InHand(stored)'
  BY <1>1, <1>4, <1>5 DEF InHand, Known, Older, Apart
<1>7. \A c \in All : InHand(call[c].hdr)' /\ InHand(call[c].first)'
  BY <1>1, <1>2, <1>3, <1>4 DEF TokensInHand, InHand, Known, Older, Apart
<1>8. RefreshInHand'
  BY <1>1 DEF RefreshInHand
<1>9. TriesAnew'
  BY <1>1, <1>2, <1>3 DEF TriesAnew, TokensInHand, InHand, Apart
<1> QED
  BY <1>4, <1>6, <1>7, <1>8, <1>9 DEF TokensInv, TokensInHand

LEMMA SignInKeeps ==
  ASSUME SessTypes, TokensInv, NEW s \in Sessions, SignIn(s)
  PROVE  TokensInv'
<1>1. /\ issued[s] = 0 /\ \A r \in Sessions : r < s => issued[r] > 0
      /\ issued' = [issued EXCEPT ![s] = LastIssued + 1] /\ UNCHANGED <<stored, call, refresh>>
  BY DEF SignIn
<1>2. Ledger /\ TokensInHand /\ RefreshInHand /\ TriesAnew
  BY DEF TokensInv
<1>3. issued' \in [Sessions -> Nat] /\ Ledger' /\ LastIssued' = LastIssued + 1 /\ NewestSession' = s
  <2>1. IssuesLast(s) /\ ~(issued[s] > 0)
    BY <1>1 DEF IssuesLast
  <2>2. /\ issued' \in [Sessions -> Nat] /\ Ledger' /\ LastIssued' = LastIssued + 1
        /\ NewestSession' = IF issued[s] > 0 THEN NewestSession ELSE s
    BY <1>1, <1>2, <2>1, IssuesLastKeeps, Zenon
  <2> QED
    BY <2>1, <2>2, Zenon
<1>4. PICK last \in Nat : last = LastIssued
  BY <1>2, LastIsThere
<1>5. issued \in [Sessions -> Nat]
  BY DEF SessTypes
<1>6. \A r \in Sessions : issued[r] > 0 => issued'[r] > 0 /\ r # s
  BY <1>1, <1>4, <1>5
<1>7. \A t : InHand(t) /\ t \in Token =>
          /\ issued'[t.s] > 0 /\ t.g <= last + 1 /\ t.s # s
          /\ refresh.at = "served" => t # refresh.tok
  <2> SUFFICES ASSUME NEW t \in Token, InHand(t)
               PROVE  /\ issued'[t.s] > 0 /\ t.g <= last + 1 /\ t.s # s
                      /\ refresh.at = "served" => t # refresh.tok
    OBVIOUS
  <2>1. issued[t.s] > 0 /\ t.g <= last /\ (refresh.at = "served" => t # refresh.tok)
    BY <1>4 DEF InHand, Known, Apart
  <2>2. t.s \in Sessions /\ t.g \in Nat
    BY DEF Token
  <2> QED
    BY <1>4, <1>6, <2>1, <2>2
<1>8. TokensInHand'
  BY <1>1, <1>2, <1>3, <1>4, <1>7 DEF TokensInHand, InHand, Known, Older, Apart
<1>9. RefreshInHand'
  <2>1. refresh.at \in {"sent", "served"} => refresh.s \in Sessions /\ issued[refresh.s] > 0
    BY <1>2 DEF RefreshInHand, SessTypes
  <2>2. refresh.at = "served" => refresh.tok.g \in Nat /\ refresh.tok.g <= last
    BY <1>2, <1>4 DEF RefreshInHand, SessTypes, Token
  <2> QED
    BY <1>1, <1>3, <1>4, <1>6, <2>1, <2>2 DEF RefreshInHand
<1>10. TriesAnew'
  BY <1>1, <1>2 DEF TriesAnew
<1> QED
  BY <1>3, <1>8, <1>9, <1>10 DEF TokensInv

LEMMA SignInStoredKeeps ==
  ASSUME SessTypes, TokensInv, SignInStored
  PROVE  /\ TokensInv' /\ stored' \in Token /\ call'[Me].hdr = stored'
         /\ \A d \in All \ {Me} : call'[d] = call[d]
<1> DEFINE t == [s |-> NewestSession, g |-> issued[NewestSession]]
<1>1. /\ entering = "writing" /\ entering' = "calling" /\ stored' = t
      /\ UNCHANGED <<issued, refresh>>
  BY DEF SignInStored
<1>2. Ledger /\ TokensInHand /\ RefreshInHand /\ TriesAnew
  BY DEF TokensInv
<1>3. /\ NewestSession \in Sessions /\ issued[NewestSession] > 0
      /\ issued[NewestSession] \in Nat /\ issued[NewestSession] <= LastIssued
  BY <1>2, NewestIsThere, LastIsThere DEF SessTypes
<1>4. t \in Token /\ t \in MaybeToken /\ t.s = NewestSession /\ t.g <= LastIssued /\ issued[t.s] > 0
  BY <1>3 DEF Token, MaybeToken
<1>5. Send(Me, 1, t)
  BY <1>1 DEF SignInStored
<1>6. /\ call'[Me].at \in {"sent", "stale"} /\ call'[Me].try = 1 /\ call'[Me].hdr = t /\ call'[Me].first = t
      /\ \A d \in All \ {Me} : call'[d] = call[d]
  BY <1>4, <1>5, CallIsSent, TokensAreApart
<1>7. Ledger' /\ LastIssued' = LastIssued /\ NewestSession' = NewestSession
  BY <1>1, <1>2, LedgerKept
<1>8. /\ issued'[t.s] > 0 /\ t.g <= LastIssued' /\ entering' # "writing"
      /\ refresh'.at = "served" => t # refresh'.tok
  <2>1. refresh.at = "served" => refresh.tok.s = refresh.s /\ refresh.s # NewestSession
    BY <1>1, <1>2 DEF RefreshInHand, SessTypes
  <2> QED
    BY <1>1, <1>4, <1>7, <2>1
<1>9. \A c \in All \ {Me} : InHand(call[c].hdr)' /\ InHand(call[c].first)'
  BY <1>1, <1>2, <1>6, <1>7 DEF TokensInHand, InHand, Known, Older, Apart
<1>10. TokensInHand'
  <2>1. InHand(stored)' /\ InHand(call[Me].hdr)' /\ InHand(call[Me].first)'
    BY <1>1, <1>6, <1>8 DEF InHand, Known, Older, Apart
  <2> QED
    BY <1>9, <2>1 DEF TokensInHand
<1>11. RefreshInHand'
  BY <1>1, <1>2, <1>7 DEF RefreshInHand
<1>12. TriesAnew'
  <2> SUFFICES ASSUME NEW c \in All, call'[c].first \in Token
               PROVE  /\ call'[c].at = "again" => stored' # call'[c].first
                      /\ call'[c].at \in {"sent", "stale"} /\ call'[c].try = 2 => call'[c].hdr # call'[c].first
    BY DEF TriesAnew
  <2>1. CASE c = Me
    BY <1>6, <2>1
  <2>2. CASE c # Me
    <3>1. call'[c] = call[c]
      BY <1>6, <2>2
    <3>2. call[c].first.s # NewestSession
      BY <1>1, <1>2, <3>1 DEF TokensInHand, InHand, Older
    <3>3. call'[c].first # t
      BY <1>4, <3>1, <3>2
    <3>4. call'[c].at \in {"sent", "stale"} /\ call'[c].try = 2 => call'[c].hdr # call'[c].first
      BY <1>2, <3>1 DEF TriesAnew
    <3> QED
      BY <1>1, <3>3, <3>4
  <2> QED
    BY <2>1, <2>2
<1> QED
  BY <1>1, <1>4, <1>6, <1>7, <1>10, <1>11, <1>12 DEF TokensInv

LEMMA TokensStep ==
  ASSUME SessTypes, TokensInv, [SessNext]_sessVars
  PROVE  TokensInv'
<1> USE TokensAreApart, CallIsTwoTokens
<1> USE DEF TokensInv
<1>1. CASE UNCHANGED <<stored, issued, call, refresh, entering>>
  <2>1. Ledger' /\ TokensInHand' /\ RefreshInHand'
    BY <1>1, TokensKept
  <2> QED
    BY <1>1, <2>1, TriesKept
<1>2. CASE Expire \/ Wander \/ SignOut \/ UNCHANGED sessVars
  BY <1>1, <1>2 DEF Expire, Wander, SignOut, sessVars, tokenVars, memoryVars, flowVars
<1>3. CASE RefreshRefused \/ Revoked
  <2>1. Revoked => TokensInv'
    BY <1>1 DEF Revoked
  <2>2. ASSUME RefreshRefused PROVE TokensInv'
    <3>1. refresh'.at = "tearing" /\ UNCHANGED <<stored, issued, call, entering>>
      BY <2>2, IsRefused DEF RefreshRefused, tokenVars
    <3>2. Ledger' /\ TokensInHand' /\ RefreshInHand'
      BY <3>1, TokensKept
    <3> QED
      BY <3>1, <3>2, TriesKept
  <2> QED
    BY <1>3, <2>1, <2>2
<1>4. CASE BootRead
  <2>1. CASE stored = NoTokens
    BY <1>1, <1>4, <2>1 DEF BootRead, tokenVars
  <2>2. CASE stored # NoTokens
    <3>1. Send(Me, 1, stored) /\ UNCHANGED <<stored, issued, refresh, entering>>
      BY <1>4, <2>2 DEF BootRead, tokenVars
    <3>2. /\ call'[Me].try = 1 /\ call'[Me].at # "again" /\ call'[Me].hdr = stored /\ call'[Me].first = stored
          /\ \A d \in All \ {Me} : call'[d] = call[d]
      BY <3>1, SessTypesFacts, CallIsSent
    <3>3. Ledger' /\ TokensInHand' /\ RefreshInHand'
      BY <3>1, <3>2, TokensKept
    <3>4. TriesAnew'
      BY <3>1, <3>2, TriesKept
    <3> QED
      BY <3>3, <3>4
  <2> QED
    BY <2>1, <2>2
<1>5. CASE \E c \in Calls : Issue(c)
  <2> SUFFICES ASSUME NEW c \in Calls, Issue(c) PROVE TokensInv'
    BY <1>5
  <2>1. Send(c, 1, stored) /\ UNCHANGED <<stored, issued, refresh, entering>>
    BY DEF Issue, tokenVars
  <2>2. /\ call'[c].try = 1 /\ call'[c].at # "again" /\ call'[c].hdr = stored /\ call'[c].first = stored
        /\ \A d \in All \ {c} : call'[d] = call[d]
    BY <2>1, SessTypesFacts, CallIsSent
  <2>3. Ledger' /\ TokensInHand' /\ RefreshInHand'
    BY <2>1, <2>2, TokensKept
  <2>4. TriesAnew'
    BY <2>1, <2>2, TriesKept
  <2> QED
    BY <2>3, <2>4
<1>6. CASE \E c \in All : TryAgain(c)
  <2> SUFFICES ASSUME NEW c \in All, TryAgain(c) PROVE TokensInv'
    BY <1>6
  <2>1. call[c].at = "again" /\ Send(c, 2, stored) /\ UNCHANGED <<stored, issued, refresh, entering>>
    BY DEF TryAgain, tokenVars
  <2>2. /\ call'[c].at # "again" /\ call'[c].hdr = stored /\ call'[c].first = call[c].first
        /\ \A d \in All \ {c} : call'[d] = call[d]
    BY <2>1, SessTypesFacts, CallIsSent
  <2>3. Ledger' /\ TokensInHand' /\ RefreshInHand'
    BY <2>1, <2>2, TokensKept
  <2>4. call[c].first \in Token => stored # call[c].first
    BY <2>1 DEF TriesAnew
  <2>5. call'[c].first = NoTokens \/ call'[c].hdr # call'[c].first
    BY <2>2, <2>4 DEF MaybeToken
  <2>6. TriesAnew'
    BY <2>1, <2>2, <2>5, TriesKept
  <2> QED
    BY <2>3, <2>6
<1>7. CASE \E c \in All : Succeed(c) \/ Fail(c)
  <2> SUFFICES ASSUME NEW c \in All, Succeed(c) \/ Fail(c) PROVE TokensInv'
    BY <1>7
  <2>1. /\ call' = End(c) /\ UNCHANGED <<stored, issued, refresh>>
        /\ entering' = "writing" => entering = "writing"
    BY DEF Succeed, Fail, tokenVars
  <2>2. /\ call'[c].hdr = NoTokens /\ call'[c].first = NoTokens
        /\ \A d \in All \ {c} : call'[d] = call[d]
    BY <2>1, CallEnds, EndedRecord
  <2>3. Ledger' /\ TokensInHand' /\ RefreshInHand'
    BY <2>1, <2>2, TokensKept
  <2>4. TriesAnew'
    BY <2>1, <2>2, TriesKept
  <2> QED
    BY <2>3, <2>4
<1>8. CASE \E c \in All : Unauthorized(c)
  <2> SUFFICES ASSUME NEW c \in All, Unauthorized(c) PROVE TokensInv'
    BY <1>8
  <2>1. UNCHANGED <<stored, issued, entering>>
    BY DEF Unauthorized, tokenVars
  <2>2. /\ call'[c].at = "waiting" /\ call'[c].hdr = call[c].hdr /\ call'[c].first = call[c].first
        /\ \A d \in All \ {c} : call'[d] = call[d]
        /\ \/ refresh' = refresh
           \/ refresh'.at \notin {"sent", "served"}
           \/ refresh'.at = "sent" /\ stored \in Token /\ refresh'.s = stored.s
    BY Waits
  <2>3. Ledger' /\ TokensInHand' /\ RefreshInHand'
    BY <2>1, <2>2, TokensKept
  <2>4. TriesAnew'
    BY <2>1, <2>2, TriesKept
  <2> QED
    BY <2>3, <2>4
<1>9. CASE RefreshServed
  <2>1. CASE issued' # issued
    BY <1>9, <2>1, RefreshServedKeeps
  <2>2. CASE issued' = issued
    <3>1. UNCHANGED <<stored, call, entering>> /\ refresh.at = "sent"
      BY <1>9 DEF RefreshServed, memoryVars
    <3>2. refresh'.at = "refused"
      <4>1. refresh' = [refresh EXCEPT !.at = "refused"] \/ issued' # issued
        <5>1. LastIssued \in Nat /\ \A s \in Sessions : issued[s] <= LastIssued
          BY LastIsThere
        <5>2. refresh.s \in Sessions /\ issued \in [Sessions -> Nat]
          BY <3>1 DEF SessTypes
        <5>3. LastIssued + 1 # issued[refresh.s]
          <6>1. issued[refresh.s] \in Nat /\ issued[refresh.s] <= LastIssued
            BY <5>1, <5>2
          <6> QED
            BY <5>1, <6>1
        <5>4. \/ issued' = [issued EXCEPT ![refresh.s] = LastIssued + 1]
              \/ refresh' = [refresh EXCEPT !.at = "refused"]
          BY <1>9 DEF RefreshServed
        <5> QED
          BY <5>2, <5>3, <5>4
      <4> QED
        BY <2>2, <4>1, IsRefused
    <3>3. Ledger' /\ TokensInHand' /\ RefreshInHand'
      BY <2>2, <3>1, <3>2, TokensKept
    <3> QED
      BY <3>1, <3>3, TriesKept
  <2> QED
    BY <2>1, <2>2
<1>10. CASE RefreshStored
  BY <1>10, RefreshStoredKeeps
<1>11. CASE \E w \in Who : Clear(w)
  <2> SUFFICES ASSUME NEW w \in Who, Clear(w) PROVE TokensInv'
    BY <1>11
  <2>1. stored' = NoTokens /\ issued' = issued /\ (entering' = "writing" => entering = "writing")
    BY DEF Clear
  <2>2. /\ refresh' = refresh \/ refresh'.at = "none"
        /\ \A d \in All : call'[d] = call[d] \/ (call'[d].hdr = NoTokens /\ call'[d].first = NoTokens)
    <3>1. CASE w = "refresh"
      BY <3>1, Gives, EndedRecord, NoRefreshIs DEF Clear
    <3>2. CASE w # "refresh"
      BY <3>2 DEF Clear
    <3> QED
      BY <3>1, <3>2
  <2>3. Ledger' /\ TokensInHand' /\ RefreshInHand'
    BY <2>1, <2>2, TokensKept
  <2>4. TriesAnew'
    BY <2>1, <2>2, TriesKept
  <2> QED
    BY <2>3, <2>4
<1>12. CASE \E s \in Sessions : SignIn(s)
  BY <1>12, SignInKeeps
<1>13. CASE SignInStored
  BY <1>13, SignInStoredKeeps
<1> QED
  BY <1>2, <1>3, <1>4, <1>5, <1>6, <1>7, <1>8, <1>9, <1>10, <1>11, <1>12, <1>13
     DEF SessNext, SessionRoutes

\* Nothing the story tells of changes, but calls other than the profile's.
LEMMA StoryKept ==
  ASSUME SessTypes, Story, UNCHANGED <<stored, user, memo, layout, crossed, entering>>,
         Clearing' <=> Clearing,
         call'[Me].at \notin {"sent", "stale"} \/ call'[Me] = call[Me] \/ call'[Me].hdr = stored,
         call'[Me].at # "idle" \/ call'[Me] = call[Me],
         layout = "boot" => /\ \A c \in Calls : call'[c].at = "idle"
                            /\ call[Me].at # "idle" \/ call'[Me] = call[Me]
  PROVE  Story'
<1>1. BootIsAlone'
  BY DEF Story, BootIsAlone
<1>2. AuthIsSettled'
  BY DEF Story, AuthIsSettled
<1>3. SignedInIsStored /\ ProfileIsStored => ProfileIsStored'
  BY DEF SignedInIsStored, ProfileIsStored
<1>4. ASSUME ~crossed' PROVE OneStory'
  <2>1. OneStory
    BY <1>4 DEF Story
  <2>2. /\ UserIsStored => UserIsStored'
        /\ SignedInIsStored => SignedInIsStored'
        /\ AuthIsGuest => AuthIsGuest'
    BY DEF UserIsStored, SignedInIsStored, AuthIsGuest
  <2> QED
    BY <1>3, <2>1, <2>2 DEF OneStory
<1> QED
  BY <1>1, <1>2, <1>4 DEF Story

\* A teardown begins.
LEMMA StoryTorn ==
  ASSUME SessTypes, Story, UNCHANGED <<stored, memo, layout, crossed, entering, call>>,
         Clearing', user' = Nobody
  PROVE  Story'
<1>1. BootIsAlone'
  BY DEF Story, BootIsAlone
<1>2. AuthIsSettled'
  BY DEF Story, AuthIsSettled
<1> QED
  BY <1>1, <1>2 DEF Story, OneStory

\* A teardown ends: nobody is signed in, and nothing is stored.
LEMMA StoryCleared ==
  ASSUME SessTypes, Story, NEW w \in Who, Clear(w)
  PROVE  Story'
<1>1. /\ leaving[w].at = "clearing" /\ stored' = NoTokens /\ user' = user
      /\ ~crossed' => ~crossed /\ entering = "no" /\ user = Nobody
  BY DEF Clear
<1>2. memo' = FALSE
  BY DEF Clear, Unrestored
<1>3. layout' \in {"app", "auth"} /\ (user = Nobody => layout' = "auth")
  <2> PICK m : m = memo'
    OBVIOUS
  <2>1. ~m /\ layout' = Arrive(layout, "auth", user, m)
    BY <1>2 DEF Clear
  <2> QED
    BY <2>1, Arrives
<1>4. entering' \in {entering, "no"}
  BY DEF Clear
<1>5. BootIsAlone' /\ AuthIsSettled'
  BY <1>2, <1>3 DEF BootIsAlone, AuthIsSettled
<1>6. ASSUME ~crossed' PROVE OneStory'
  <2>1. user' = Nobody /\ layout' = "auth" /\ entering' = "no" /\ stored' \notin Token
    BY <1>1, <1>3, <1>4, <1>6, TokensAreApart
  <2>2. UserIsStored' /\ SignedInIsStored' /\ ProfileIsStored' /\ AuthIsGuest'
    BY <2>1 DEF UserIsStored, SignedInIsStored, ProfileIsStored, AuthIsGuest
  <2> QED
    BY <2>1, <2>2 DEF OneStory
<1> QED
  BY <1>5, <1>6 DEF Story

\* A profile is read, or another call answered.
LEMMA StorySucceeds ==
  ASSUME SessTypes, Story, NEW c \in All, Succeed(c)
  PROVE  Story'
<1> USE TokensAreApart
<1>1. /\ call[c].at = "sent" /\ call[c].hdr \in Token /\ call[c].hdr.s \in Sessions
      /\ UNCHANGED <<stored, memo, leaving>>
  BY DEF Succeed, SessTypes, tokenVars, Token
<1>2. user' = IF c \in ProfileCalls \cup {Me} THEN call[c].hdr.s ELSE user
  BY DEF Succeed
<1>3. ~crossed' => ~crossed /\ (user' # user => ~Late(user'))
  BY DEF Succeed
<1>4. \A s : ~Late(s) => stored # NoTokens /\ stored.s = s /\ ~Clearing
  BY DEF Late, Clearing
<1>5. stored \in Token \/ stored = NoTokens
  BY DEF SessTypes, MaybeToken
<1>6. c \in Calls => layout # "boot"
  BY <1>1 DEF Story, BootIsAlone
<1>7. call'[c].at \in {"idle", "done"} /\ \A d \in All \ {c} : call'[d] = call[d]
  BY CallEnds, EndedRecord DEF Succeed
<1>8. Clearing' <=> Clearing
  BY <1>1 DEF Clearing
<1>9. CASE c # Me
  <2>1. c \in Calls /\ layout' = layout /\ entering' = entering
    BY <1>9 DEF Succeed, All
  <2>2. BootIsAlone' /\ AuthIsSettled'
    BY <1>1, <1>6, <2>1 DEF Story, BootIsAlone, AuthIsSettled
  <2>3. ASSUME ~crossed' PROVE OneStory'
    <3>1. OneStory /\ (user' # user => stored # NoTokens /\ stored.s = user' /\ ~Clearing)
      BY <1>3, <1>4, <2>3 DEF Story
    <3>2. Clearing' => user' = Nobody
      BY <1>8, <3>1 DEF OneStory
    <3>3. ASSUME ~Clearing PROVE UserIsStored' /\ SignedInIsStored' /\ ProfileIsStored' /\ AuthIsGuest'
      <4>1. UserIsStored /\ SignedInIsStored /\ ProfileIsStored /\ AuthIsGuest
        BY <3>1, <3>3 DEF OneStory
      <4>2. UserIsStored'
        BY <1>1, <2>1, <3>1, <4>1 DEF UserIsStored
      <4>3. SignedInIsStored'
        BY <1>1, <1>2, <1>5, <2>1, <3>1, <4>1 DEF SignedInIsStored
      <4>4. ProfileIsStored'
        BY <1>1, <1>7, <1>9, <2>1, <4>1 DEF ProfileIsStored
      <4>5. AuthIsGuest'
        BY <1>1, <1>2, <1>5, <1>6, <2>1, <3>1, <4>1 DEF AuthIsGuest, UserIsStored, Story, AuthIsSettled
      <4> QED
        BY <4>2, <4>3, <4>4, <4>5
    <3> QED
      BY <1>8, <3>2, <3>3 DEF OneStory
  <2> QED
    BY <2>2, <2>3 DEF Story
<1>10. CASE c = Me
  <2>1. user' = call[Me].hdr.s /\ user' \in Sessions /\ user' # Nobody /\ entering' = "no"
    BY <1>1, <1>2, <1>10 DEF Succeed
  <2>2. \/ layout' = "app"
        \/ layout = "auth" /\ layout' = "auth" /\ user' \in MustChange
    <3> PICK u : u = user'
      OBVIOUS
    <3>1. layout' = IF c # Me \/ (u \in MustChange /\ layout = "auth") THEN layout
                    ELSE Arrive(layout, "app", u, memo)
      BY DEF Succeed
    <3>2. u # Nobody
      BY <2>1
    <3> QED
      BY <1>10, <3>1, <3>2, Arrives
  <2>3. BootIsAlone' /\ AuthIsSettled'
    BY <1>1, <2>2 DEF Story, BootIsAlone, AuthIsSettled
  <2>4. ASSUME ~crossed' PROVE OneStory'
    <3>1. OneStory /\ (user' # user => stored # NoTokens /\ stored.s = user' /\ ~Clearing)
      BY <1>3, <1>4, <2>4 DEF Story
    <3>2. ~Clearing
      BY <2>1, <3>1 DEF OneStory
    <3>3. UserIsStored /\ SignedInIsStored /\ ProfileIsStored
      BY <3>1, <3>2 DEF OneStory
    <3>4. stored \in Token /\ stored.s = user'
      <4>1. CASE user' # user
        BY <1>5, <3>1, <4>1
      <4>2. CASE user' = user
        <5>1. stored \in Token
          BY <2>1, <3>3, <4>2 DEF SignedInIsStored
        <5>2. layout # "boot"
          BY <2>1, <4>2 DEF Story, BootIsAlone
        <5> QED
          BY <1>1, <1>10, <2>1, <3>3, <4>2, <5>1, <5>2 DEF UserIsStored, ProfileIsStored
      <4> QED
        BY <4>1, <4>2
    <3>5. UserIsStored' /\ SignedInIsStored' /\ ProfileIsStored' /\ AuthIsGuest'
      BY <1>1, <2>1, <2>2, <3>4 DEF UserIsStored, SignedInIsStored, ProfileIsStored, AuthIsGuest
    <3> QED
      BY <1>8, <3>2, <3>5 DEF OneStory
  <2> QED
    BY <2>3, <2>4 DEF Story
<1> QED
  BY <1>9, <1>10

\* A call fails: of boot's profile the page comes of it anyway.
LEMMA StoryFails ==
  ASSUME SessTypes, Story, NEW c \in All, Fail(c)
  PROVE  Story'
<1>1. /\ call[c].at \in {"sent", "stale"} /\ UNCHANGED <<stored, user, memo, leaving>>
      /\ call' = End(c)
  BY DEF Fail, Refused, Travels
<1>2. call'[c].at \in {"idle", "done"} /\ \A d \in All \ {c} : call'[d] = call[d]
  BY <1>1, CallEnds, EndedRecord
<1>3. Clearing' <=> Clearing
  BY <1>1 DEF Clearing
<1>4. c \in Calls => layout # "boot"
  BY <1>1 DEF Story, BootIsAlone
<1>5. ~crossed' => ~crossed /\ ~(c = Me /\ entering = "calling")
  BY DEF Fail
<1>6. CASE c # Me
  <2>1. layout' = layout /\ entering' = entering /\ layout # "boot" /\ c \in Calls
    BY <1>4, <1>6 DEF Fail, All
  <2>2. BootIsAlone' /\ AuthIsSettled'
    BY <1>1, <2>1 DEF Story, BootIsAlone, AuthIsSettled
  <2>3. ASSUME ~crossed' PROVE OneStory'
    <3>1. OneStory
      BY <1>5, <2>3 DEF Story
    <3>2. /\ UserIsStored => UserIsStored'
          /\ SignedInIsStored => SignedInIsStored'
          /\ AuthIsGuest => AuthIsGuest'
      BY <1>1, <2>1 DEF UserIsStored, SignedInIsStored, AuthIsGuest
    <3>3. ProfileIsStored => ProfileIsStored'
      BY <1>1, <1>2, <1>6, <2>1, TokensAreApart DEF ProfileIsStored
    <3> QED
      BY <1>1, <1>3, <3>1, <3>2, <3>3 DEF OneStory
  <2> QED
    BY <2>2, <2>3 DEF Story
<1>7. CASE c = Me /\ layout = "boot"
  <2>1. user = Nobody /\ entering = "no" /\ memo /\ stored \in Token
    BY <1>1, <1>7 DEF Story, BootIsAlone
  <2>2. layout' = "app" /\ entering' = "no"
    <3>1. layout' = Arrive("boot", "app", user, memo) /\ entering' = "no"
      BY <1>7 DEF Fail
    <3> QED
      BY <2>1, <3>1, Arrives
  <2>3. UserIsStored' /\ SignedInIsStored' /\ ProfileIsStored' /\ AuthIsGuest'
    BY <1>1, <2>1, <2>2 DEF UserIsStored, SignedInIsStored, ProfileIsStored, AuthIsGuest
  <2> QED
    BY <1>1, <2>1, <2>2, <2>3 DEF Story, BootIsAlone, AuthIsSettled, OneStory
<1>8. CASE c = Me /\ layout # "boot"
  <2>1. layout' = layout /\ entering' = "no"
    BY <1>8 DEF Fail
  <2>2. BootIsAlone' /\ AuthIsSettled'
    BY <1>1, <1>8, <2>1 DEF Story, BootIsAlone, AuthIsSettled
  <2>3. ASSUME ~crossed' PROVE OneStory'
    <3>1. OneStory /\ entering # "calling"
      BY <1>5, <1>8, <2>3 DEF Story
    <3>2. /\ UserIsStored => UserIsStored'
          /\ SignedInIsStored => SignedInIsStored'
          /\ AuthIsGuest => AuthIsGuest'
          /\ ProfileIsStored'
      BY <1>1, <2>1, <3>1 DEF UserIsStored, SignedInIsStored, AuthIsGuest, ProfileIsStored
    <3> QED
      BY <1>1, <1>3, <3>1, <3>2 DEF OneStory
  <2> QED
    BY <2>2, <2>3 DEF Story
<1> QED
  BY <1>6, <1>7, <1>8

LEMMA StoryBoots ==
  ASSUME SessTypes, Story, BootRead
  PROVE  Story'
<1>1. /\ layout = "boot" /\ user = Nobody /\ entering = "no" /\ ~Clearing
      /\ \A c \in Calls : call[c].at = "idle"
      /\ UNCHANGED <<stored, user, leaving, entering, crossed>>
  BY DEF BootRead, Story, BootIsAlone, Clearing, tokenVars
<1>2. CASE stored = NoTokens
  <2>1. layout' = Arrive("boot", "app", user, FALSE) /\ ~memo' /\ stored \notin Token
    BY <1>1, <1>2, TokensAreApart DEF BootRead
  <2>2. layout' = "auth"
    BY <1>1, <2>1 DEF Arrive, HasSession
  <2>3. UserIsStored' /\ SignedInIsStored' /\ ProfileIsStored' /\ AuthIsGuest'
    BY <1>1, <2>1, <2>2 DEF UserIsStored, SignedInIsStored, ProfileIsStored, AuthIsGuest
  <2> QED
    BY <1>1, <2>1, <2>2, <2>3 DEF Story, BootIsAlone, AuthIsSettled, OneStory
<1>3. CASE stored # NoTokens
  <2>1. layout' = "boot" /\ memo' /\ Send(Me, 1, stored)
    BY <1>1, <1>3 DEF BootRead
  <2>2. stored \in Token
    BY <1>3 DEF SessTypes, MaybeToken
  <2>3. \A c \in Calls : call'[c] = call[c]
    BY <2>1, SessTypesFacts, CallIsSent, TokensAreApart, SessionAssumption
  <2>4. UserIsStored' /\ SignedInIsStored' /\ ProfileIsStored' /\ AuthIsGuest'
    BY <1>1, <2>1, <2>2 DEF UserIsStored, SignedInIsStored, ProfileIsStored, AuthIsGuest
  <2> QED
    BY <1>1, <2>1, <2>2, <2>3, <2>4 DEF Story, BootIsAlone, AuthIsSettled, OneStory
<1> QED
  BY <1>2, <1>3

\* A link between the layouts leads where the story says.
LEMMA StoryWanders ==
  ASSUME SessTypes, Story, Wander
  PROVE  Story'
<1>1. layout \in {"app", "auth"} /\ UNCHANGED <<stored, user, memo, call, leaving, entering, crossed>>
  BY DEF Wander, SessTypes, tokenVars, flowVars
<1>2. layout' = IF user # Nobody \/ memo THEN "app" ELSE "auth"
  <2> DEFINE to == IF layout = "app" THEN "auth" ELSE "app"
  <2>1. layout' = Arrive(layout, to, user, memo) /\ to \in {"app", "auth"} /\ to # layout
    BY <1>1 DEF Wander
  <2> HIDE DEF to
  <2> QED
    BY <2>1, Arrives
<1>3. Clearing' <=> Clearing
  BY <1>1 DEF Clearing
<1>4. BootIsAlone' /\ AuthIsSettled'
  BY <1>1, <1>2 DEF BootIsAlone, AuthIsSettled
<1>5. ASSUME ~crossed' PROVE OneStory'
  <2>1. OneStory
    BY <1>1, <1>5 DEF Story
  <2>2. ASSUME ~Clearing PROVE UserIsStored' /\ SignedInIsStored' /\ ProfileIsStored' /\ AuthIsGuest'
    <3>1. UserIsStored /\ SignedInIsStored /\ ProfileIsStored /\ AuthIsGuest
      BY <2>1, <2>2 DEF OneStory
    <3>2. UserIsStored' /\ ProfileIsStored'
      BY <1>1, <3>1 DEF UserIsStored, ProfileIsStored
    <3>3. SignedInIsStored'
      BY <1>1, <1>2, <3>1 DEF SignedInIsStored, Story, AuthIsSettled
    <3>4. AuthIsGuest'
      BY <1>1, <1>2 DEF AuthIsGuest
    <3> QED
      BY <3>2, <3>3, <3>4
  <2> QED
    BY <1>1, <1>3, <2>1, <2>2 DEF OneStory
<1> QED
  BY <1>4, <1>5 DEF Story

LEMMA StoryStored ==
  ASSUME SessTypes, Story, RefreshStored
  PROVE  Story'
<1>1. /\ stored' = refresh.tok /\ refresh.tok \in Token /\ refresh.tok.s = refresh.s
      /\ UNCHANGED <<user, memo, layout, leaving, entering>>
  BY DEF RefreshStored, SessTypes, memoryVars
<1>2. \A d \in All : \/ call'[d] = call[d]
                     \/ call[d].at = "waiting" /\ call'[d].at = "again"
  BY Resumes DEF RefreshStored, Waiting
<1>3. Clearing' <=> Clearing
  BY <1>1 DEF Clearing
<1>4. BootIsAlone' /\ AuthIsSettled'
  BY <1>1, <1>2, TokensAreApart DEF Story, BootIsAlone, AuthIsSettled
<1>5. ASSUME ~crossed' PROVE OneStory'
  <2>1. OneStory /\ ~Late(refresh.s)
    BY <1>5 DEF Story, RefreshStored
  <2>2. ~Clearing /\ stored \in Token /\ stored'.s = stored.s
    BY <1>1, <2>1 DEF Late, Clearing, SessTypes, MaybeToken
  <2>3. UserIsStored /\ SignedInIsStored /\ ProfileIsStored /\ AuthIsGuest
    BY <2>1, <2>2 DEF OneStory
  <2>4. UserIsStored' /\ SignedInIsStored' /\ AuthIsGuest'
    BY <1>1, <2>2, <2>3 DEF UserIsStored, SignedInIsStored, AuthIsGuest
  <2>5. ProfileIsStored'
    BY <1>1, <1>2, <2>2, <2>3, TokensAreApart DEF ProfileIsStored
  <2> QED
    BY <1>3, <2>2, <2>4, <2>5 DEF OneStory
<1> QED
  BY <1>4, <1>5 DEF Story

LEMMA StoryEnters ==
  ASSUME SessTypes, Story, NEW s \in Sessions, SignIn(s)
  PROVE  Story'
<1>1. /\ layout = "auth" /\ entering = "no" /\ entering' = "writing"
      /\ UNCHANGED <<stored, user, memo, layout, call, leaving, crossed>>
  BY DEF SignIn, memoryVars
<1>2. BootIsAlone' /\ AuthIsSettled'
  BY <1>1 DEF Story, BootIsAlone, AuthIsSettled
<1>3. /\ UserIsStored => UserIsStored'
      /\ SignedInIsStored => SignedInIsStored'
      /\ ProfileIsStored' /\ (AuthIsGuest => AuthIsGuest')
  BY <1>1 DEF UserIsStored, SignedInIsStored, ProfileIsStored, AuthIsGuest
<1>4. Clearing' <=> Clearing
  BY <1>1 DEF Clearing
<1> QED
  BY <1>1, <1>2, <1>3, <1>4 DEF Story, OneStory

LEMMA StoryEntered ==
  ASSUME SessTypes, TokensInv, Story, SignInStored
  PROVE  Story'
<1>1. /\ entering = "writing" /\ entering' = "calling" /\ UNCHANGED <<user, memo, layout, leaving, crossed>>
  BY DEF SignInStored, memoryVars
<1>2. stored' \in Token /\ call'[Me].hdr = stored'
  BY SignInStoredKeeps
<1>3. layout # "boot"
  BY <1>1 DEF Story, BootIsAlone
<1>4. BootIsAlone' /\ AuthIsSettled'
  BY <1>1, <1>3 DEF Story, BootIsAlone, AuthIsSettled
<1>5. UserIsStored' /\ (SignedInIsStored => SignedInIsStored') /\ ProfileIsStored' /\ AuthIsGuest'
  BY <1>1, <1>2 DEF UserIsStored, SignedInIsStored, ProfileIsStored, AuthIsGuest
<1>6. Clearing' <=> Clearing
  BY <1>1 DEF Clearing
<1> QED
  BY <1>1, <1>4, <1>5, <1>6 DEF Story, OneStory

LEMMA StoryStep ==
  ASSUME SessTypes, TokensInv, Story, [SessNext]_sessVars
  PROVE  Story'
<1> USE TokensAreApart
<1>1. CASE UNCHANGED <<stored, user, memo, layout, call, leaving, entering, crossed>>
  <2>1. Clearing' <=> Clearing
    BY <1>1 DEF Clearing
  <2>2. layout = "boot" => \A c \in Calls : call[c].at = "idle"
    BY DEF Story, BootIsAlone
  <2> QED
    BY <1>1, <2>1, <2>2, StoryKept
<1>2. CASE Expire \/ RefreshServed \/ UNCHANGED sessVars
  BY <1>1, <1>2 DEF Expire, RefreshServed, sessVars, tokenVars, memoryVars, flowVars
<1>3. CASE \E c \in Calls : Issue(c)
  <2> SUFFICES ASSUME NEW c \in Calls, Issue(c) PROVE Story'
    BY <1>3
  <2>1. Send(c, 1, stored) /\ layout = "app"
        /\ UNCHANGED <<stored, user, memo, layout, leaving, entering, crossed>>
    BY DEF Issue, tokenVars, memoryVars
  <2>2. call'[Me] = call[Me]
    BY <2>1, SessTypesFacts, CallIsSent, SessionAssumption
  <2>3. Clearing' <=> Clearing
    BY <2>1 DEF Clearing
  <2> QED
    BY <2>1, <2>2, <2>3, StoryKept
<1>4. CASE \E c \in All : TryAgain(c)
  <2> SUFFICES ASSUME NEW c \in All, TryAgain(c) PROVE Story'
    BY <1>4
  <2>1. Send(c, 2, stored) /\ call[c].at = "again"
        /\ UNCHANGED <<stored, user, memo, layout, leaving, entering, crossed>>
    BY DEF TryAgain, tokenVars, memoryVars
  <2>2. /\ call'[c].at \in {"sent", "stale"} /\ call'[c].hdr = stored
        /\ \A d \in All \ {c} : call'[d] = call[d]
    BY <2>1, SessTypesFacts, CallIsSent
  <2>3. Clearing' <=> Clearing
    BY <2>1 DEF Clearing
  <2>4. layout = "boot" => /\ \A d \in Calls : call'[d].at = "idle"
                           /\ call[Me].at # "idle" \/ call'[Me] = call[Me]
    BY <2>1, <2>2 DEF Story, BootIsAlone
  <2> QED
    BY <2>1, <2>2, <2>3, <2>4, StoryKept
<1>5. CASE \E c \in All : Succeed(c)
  BY <1>5, StorySucceeds
<1>6. CASE \E c \in All : Unauthorized(c)
  <2> SUFFICES ASSUME NEW c \in All, Unauthorized(c) PROVE Story'
    BY <1>6
  <2>1. call[c].at \in {"sent", "stale"}
        /\ UNCHANGED <<stored, user, memo, layout, leaving, entering, crossed>>
    BY DEF Unauthorized, Refused, Travels, tokenVars, memoryVars
  <2>2. call'[c].at = "waiting" /\ \A d \in All \ {c} : call'[d] = call[d]
    BY Waits
  <2>3. Clearing' <=> Clearing
    BY <2>1 DEF Clearing
  <2>4. layout = "boot" => /\ \A d \in Calls : call'[d].at = "idle"
                           /\ call[Me].at # "idle" \/ call'[Me] = call[Me]
    BY <2>1, <2>2 DEF Story, BootIsAlone
  <2> QED
    BY <2>1, <2>2, <2>3, <2>4, StoryKept
<1>7. CASE \E c \in All : Fail(c)
  BY <1>7, StoryFails
<1>8. CASE RefreshRefused
  <2>1. Leave("refresh") /\ UNCHANGED <<stored, memo, layout, crossed, entering, call>>
    BY <1>8 DEF RefreshRefused, tokenVars
  <2>2. Clearing' /\ user' = Nobody
    BY <2>1, Discards DEF Who
  <2> QED
    BY <2>1, <2>2, StoryTorn
<1>9. CASE Revoked
  <2>1. Leave("menu") /\ UNCHANGED <<stored, memo, layout, crossed, entering, call>>
    BY <1>9 DEF Revoked
  <2>2. Clearing' /\ user' = Nobody
    BY <2>1, Discards DEF Who
  <2> QED
    BY <2>1, <2>2, StoryTorn
<1>10. CASE SignOut
  <2>1. /\ leaving["menu"].at = "no" /\ layout = "app"
        /\ leaving' = [leaving EXCEPT !["menu"] = [at |-> "revoking", hdr |-> stored]]
        /\ UNCHANGED <<stored, user, memo, layout, call, entering, crossed>>
    BY <1>10 DEF SignOut, tokenVars, memoryVars
  <2>2. leaving'["menu"].at = "revoking" /\ \A v \in Who \ {"menu"} : leaving'[v] = leaving[v]
    BY <2>1, LeaveIsSet, SessTypesFacts DEF Who
  <2>3. Clearing' <=> Clearing
    BY <2>1, <2>2 DEF Clearing
  <2> QED
    BY <2>1, <2>3, StoryKept
<1>11. CASE \E w \in Who : Clear(w)
  BY <1>11, StoryCleared
<1>12. CASE \E s \in Sessions : SignIn(s)
  BY <1>12, StoryEnters
<1> QED
  BY <1>2, <1>3, <1>4, <1>5, <1>6, <1>7, <1>8, <1>9, <1>10, <1>11, <1>12,
     StoryBoots, StoryWanders, StoryStored, StoryEntered DEF SessNext, SessionRoutes

LEMMA SessStarts ==
  ASSUME SessInit
  PROVE  SessInv
<1> USE TokensAreApart, SessionAssumption
<1> DEFINE t == [s |-> 1, g |-> 1]
<1>1. t \in Token /\ t.s = 1 /\ t.g = 1
  BY DEF Token
<1> HIDE DEF t
<1>2. stored \in {NoTokens, t} /\ issued = [s \in Sessions |-> IF s = 1 THEN 1 ELSE 0]
  BY DEF SessInit, t
<1>3. /\ NoCall \in CallRecord /\ NoCall.at = "idle" /\ NoCall.hdr = NoTokens /\ NoCall.first = NoTokens
      /\ [at |-> "no", hdr |-> NoTokens] \in LeaveRecord
  BY DEF NoCall, CallRecord, CallStates, LeaveRecord, MaybeToken
<1>4. /\ \A c \in All : call[c] = NoCall
      /\ refresh = NoRefresh /\ entering = "no" /\ layout = "boot" /\ user = Nobody
      /\ ~memo /\ memo \in BOOLEAN /\ ~crossed /\ crossed \in BOOLEAN
      /\ call \in [All -> CallRecord] /\ leaving \in [Who -> LeaveRecord]
      /\ \A w \in Who : leaving[w].at = "no"
  BY <1>3 DEF SessInit
<1>5. SessTypes
  BY <1>1, <1>2, <1>3, <1>4, NoRefreshIs DEF SessTypes, MaybeToken, SessInit
<1>6. HasLast /\ SignedInInOrder /\ HasNewest
  <2>1. issued[1] = 1 /\ \A r \in Sessions \ {1} : issued[r] = 0
    BY <1>2
  <2>2. HasLast
    BY <2>1 DEF HasLast
  <2>3. SignedInInOrder
    BY <2>1 DEF SignedInInOrder
  <2>4. HasNewest
    BY <2>1 DEF HasNewest
  <2> QED
    BY <2>2, <2>3, <2>4
<1>7. InHand(NoTokens)
  BY DEF InHand, Known, Older, Apart
<1>8. InHand(t)
  <2>1. issued[1] = 1 /\ LastIssued \in Nat /\ issued[1] <= LastIssued
    BY <1>2, <1>5, <1>6, LastIsThere DEF Ledger
  <2> QED
    BY <1>1, <1>4, <2>1, NoRefreshIs DEF InHand, Known, Older, Apart
<1>9. TokensInv
  BY <1>2, <1>3, <1>4, <1>6, <1>7, <1>8, NoRefreshIs
     DEF TokensInv, Ledger, TokensInHand, RefreshInHand, TriesAnew
<1>10. BootIsAlone /\ AuthIsSettled
  BY <1>3, <1>4 DEF BootIsAlone, AuthIsSettled
<1>11. OneStory
  BY <1>4 DEF OneStory, UserIsStored, SignedInIsStored, ProfileIsStored, AuthIsGuest
<1> QED
  BY <1>5, <1>9, <1>10, <1>11 DEF SessInv, Story

LEMMA SessInvImplies ==
  ASSUME SessInv
  PROVE  SessionHonest
<1>1. SessTypeOK
  <2>1. \A c \in All : call[c].at \in CallStates
    BY DEF SessInv, SessTypes, CallRecord
  <2>2. refresh.at \in RefreshStates /\ \A w \in Who : leaving[w].at \in {"no", "revoking", "clearing"}
    BY DEF SessInv, SessTypes, RefreshRecord, LeaveRecord
  <2> QED
    BY <2>1, <2>2 DEF SessInv, SessTypes, SessTypeOK, MaybeToken, CallStates, RefreshStates
<1>2. SessionAgrees
  <2> SUFFICES ASSUME SessAtRest, ~crossed
               PROVE  /\ layout = "app" => stored # NoTokens /\ user \in {stored.s, Nobody}
                      /\ layout = "auth" => \/ stored = NoTokens /\ user = Nobody
                                            \/ user \in MustChange /\ stored # NoTokens
    BY DEF SessionAgrees
  <2>1. OneStory /\ ~Clearing /\ entering = "no" /\ layout # "boot" /\ AuthIsSettled
    BY DEF SessInv, Story, SessAtRest, Clearing
  <2>2. UserIsStored /\ SignedInIsStored /\ AuthIsGuest
    BY <2>1 DEF OneStory
  <2>3. stored \in Token \/ stored = NoTokens
    BY DEF SessInv, SessTypes, MaybeToken
  <2>4. layout = "app" => stored # NoTokens /\ user \in {stored.s, Nobody}
    BY <2>1, <2>2, TokensAreApart DEF UserIsStored, SignedInIsStored
  <2>5. ASSUME layout = "auth"
        PROVE  \/ stored = NoTokens /\ user = Nobody
               \/ user \in MustChange /\ stored # NoTokens
    <3>1. ~memo /\ user \in MustChange \cup {Nobody}
      BY <2>1, <2>2, <2>5 DEF AuthIsSettled, AuthIsGuest
    <3>2. CASE user = Nobody
      <4>1. stored \notin Token
        BY <2>1, <2>2, <3>1, <3>2, TokensAreApart DEF UserIsStored, Token
      <4> QED
        BY <2>3, <3>2, <4>1
    <3>3. CASE user # Nobody
      BY <2>2, <3>1, <3>3, TokensAreApart DEF SignedInIsStored
    <3> QED
      BY <3>2, <3>3
  <2> QED
    BY <2>4, <2>5
<1>3. NoStaleRetry
  <2>1. TriesAnew /\ \A c \in All : call[c].first \in MaybeToken
    BY CallIsTwoTokens DEF SessInv, TokensInv
  <2> QED
    BY <2>1 DEF NoStaleRetry, Refused, Travels, TriesAnew, MaybeToken
<1> QED
  BY <1>1, <1>2, <1>3 DEF SessionHonest

\* For any calls, sign-ins, expiries and order of answers, the session in memory, the tokens
\* stored and the layout agree whenever nothing is under way, unless a late answer crossed a
\* teardown, and no call refused twice was tried with one token twice: SessionHonest.
THEOREM SessionStaysHonest == SessSpec => []SessionHonest
<1>1. SessInit => SessInv
  BY SessStarts
<1>2. SessInv /\ [SessNext]_sessVars => SessInv'
  <2> SUFFICES ASSUME SessInv, [SessNext]_sessVars PROVE SessInv'
    OBVIOUS
  <2>1. SessTypes /\ TokensInv /\ Story
    BY DEF SessInv
  <2>2. SessTypes'
    BY <2>1, SessTypesStep DEF TokensInv
  <2>3. TokensInv' /\ Story'
    BY <2>1, TokensStep, StoryStep
  <2> QED
    BY <2>2, <2>3 DEF SessInv
<1>3. SessInv => SessionHonest
  BY SessInvImplies
<1> QED
  BY <1>1, <1>2, <1>3, PTL DEF SessSpec

-----------------------------------------------------------------------------
(***************************************************************************)
(* The auth pages. A submission of the page on screen is of a kind that    *)
(* page sends, and is the only one; while its own resend is out no other   *)
(* answer has brought a session to the page.                               *)
(***************************************************************************)

Asks == {"nothing", "over", "login", "start", "register", "register code", "forgot",
         "confirm", "verify", "resend", "me"}
Answers == {"ok", "failed", "409"}
Submission == [asks : Asks, email : Emails \cup {NoEmail}, session : Nat, code : Nat,
               answer : Answers \cup {Unheard}, mine : BOOLEAN]

\* The pages a submission is made on, at each of its steps.
PagesOf(asks) ==
    CASE asks = "login" -> {"login", "register"} [] asks = "start" -> {"login code", "register code"}
      [] asks = "register" -> {"register"} [] asks = "register code" -> {"register code"}
      [] asks = "forgot" -> {"reset"} [] asks = "confirm" -> {"new password"}
      [] asks \in {"verify", "resend"} -> {"verify"}
      [] asks = "me" -> {"login", "register", "verify"} [] OTHER -> {}

PagesTypes ==
    /\ AuthPagesTypeOK /\ asked \in [Submits -> Submission]
    /\ mailed \in Seq(Emails) /\ heard \subseteq 1 .. Len(mailed)

\* A submission of the page on screen was made on it; no other of its button is.
Sends(n) == asked[n].asks \notin {"nothing", "over"}
MadeHere ==
    /\ \A n \in Submits : /\ Sends(n) => asked[n].email \in Emails
                          /\ Sends(n) /\ asked[n].mine => page \in PagesOf(asked[n].asks)
    /\ \A m, n \in Submits :
         /\ Sends(m) /\ Sends(n) /\ asked[m].mine /\ asked[n].mine
         /\ asked[m].asks = "resend" <=> asked[n].asks = "resend"
         => m = n

\* The buttons: submitting and resending are each held by the one that sends.
ButtonsHeld ==
    /\ submitting <=> \E n \in Submits : Sends(n) /\ asked[n].mine /\ asked[n].asks # "resend"
    /\ resending <=> \E n \in Submits : Sends(n) /\ asked[n].mine /\ asked[n].asks = "resend"

\* A session an answer brings was mailed to the address that asked.
SessionsWereMailed ==
    \A n \in Submits :
        asked[n].asks \in {"start", "resend"} /\ asked[n].answer = "ok"
          => asked[n].session \in 1 .. Len(mailed) /\ mailed[asked[n].session] = asked[n].email

\* The page's own resend is for the challenge's address, and newer than all that came.
ResendIsNewest ==
    ~leftPage =>
        \A n \in Submits :
            asked[n].asks = "resend" /\ asked[n].mine =>
                /\ challenge # NoChallenge => asked[n].email = challenge.email
                /\ asked[n].answer = "ok" => \A s \in heard : s <= asked[n].session

PagesInv == PagesTypes /\ MadeHere /\ ButtonsHeld /\ SessionsWereMailed /\ CodeOpens /\ ResendIsNewest

LEMMA PagesOfEach ==
  /\ PagesOf("login") = {"login", "register"} /\ PagesOf("start") = {"login code", "register code"}
  /\ PagesOf("register") = {"register"} /\ PagesOf("register code") = {"register code"}
  /\ PagesOf("forgot") = {"reset"} /\ PagesOf("confirm") = {"new password"}
  /\ PagesOf("verify") = {"verify"} /\ PagesOf("resend") = {"verify"}
  /\ PagesOf("me") = {"login", "register", "verify"}
BY DEF PagesOf

LEMMA PagesTypesAre ==
  AuthPagesTypeOK <=>
    /\ page \in CallPages \cup {"home"} /\ registered \subseteq Emails
    /\ submitting \in BOOLEAN /\ resending \in BOOLEAN /\ leftPage \in BOOLEAN
    /\ requestedFor \in Emails \cup {NoEmail}
    /\ challenge = NoChallenge \/ challenge \in [email : Emails, session : 1 .. Len(mailed)]
BY DEF AuthPagesTypeOK

\* One submission goes on, or is made, on the page on screen: its button stays held,
\* is taken when it was free, or is let go of.
LEMMA OneGoesOn ==
  ASSUME MadeHere, ButtonsHeld, asked \in [Submits -> Submission],
         NEW n \in Submits, NEW rec \in Submission,
         asked' = [asked EXCEPT ![n] = rec], UNCHANGED page,
         rec.asks \notin {"nothing", "over"} => rec.email \in Emails,
         rec.asks \notin {"nothing", "over"} /\ rec.mine =>
            /\ page \in PagesOf(rec.asks)
            /\ \/ Sends(n) /\ asked[n].mine /\ (asked[n].asks = "resend" <=> rec.asks = "resend")
               \/ rec.asks = "resend" /\ ~resending
               \/ rec.asks # "resend" /\ ~submitting,
         submitting' <=> \/ rec.asks \notin {"nothing", "over", "resend"} /\ rec.mine
                         \/ submitting /\ ~(Sends(n) /\ asked[n].mine /\ asked[n].asks # "resend"),
         resending' <=> \/ rec.asks = "resend" /\ rec.mine
                        \/ resending /\ ~(Sends(n) /\ asked[n].mine /\ asked[n].asks = "resend")
  PROVE  MadeHere' /\ ButtonsHeld'
<1>1. \A k \in Submits : asked'[k] = IF k = n THEN rec ELSE asked[k]
  OBVIOUS
<1>2. MadeHere'
  <2>1. \A k \in Submits :
          /\ Sends(k)' => asked'[k].email \in Emails
          /\ Sends(k)' /\ asked'[k].mine => page' \in PagesOf(asked'[k].asks)
    BY <1>1 DEF MadeHere, Sends
  <2>2. ASSUME NEW l \in Submits, NEW k \in Submits, Sends(l)', Sends(k)', asked'[l].mine, asked'[k].mine,
               asked'[l].asks = "resend" <=> asked'[k].asks = "resend"
        PROVE  l = k
    <3>1. CASE l # n /\ k # n
      BY <1>1, <2>2, <3>1 DEF MadeHere, Sends
    <3>2. ASSUME NEW j \in Submits, j # n, Sends(j), asked[j].mine, rec.asks \notin {"nothing", "over"},
                 rec.mine, rec.asks = "resend" <=> asked[j].asks = "resend"
          PROVE  FALSE
      <4>1. CASE Sends(n) /\ asked[n].mine /\ (asked[n].asks = "resend" <=> rec.asks = "resend")
        BY <3>2, <4>1 DEF MadeHere
      <4>2. CASE rec.asks = "resend" /\ ~resending
        BY <3>2, <4>2 DEF ButtonsHeld
      <4>3. CASE rec.asks # "resend" /\ ~submitting
        BY <3>2, <4>3 DEF ButtonsHeld
      <4> QED
        BY <3>2, <4>1, <4>2, <4>3
    <3>3. CASE l # n /\ k = n
      BY <1>1, <2>2, <3>2, <3>3 DEF Sends
    <3>4. CASE l = n /\ k # n
      BY <1>1, <2>2, <3>2, <3>4 DEF Sends
    <3> QED
      BY <3>1, <3>3, <3>4
  <2> QED
    BY <2>1, <2>2 DEF MadeHere
<1>3. ButtonsHeld'
  <2>1. submitting' <=> \E k \in Submits : Sends(k)' /\ asked'[k].mine /\ asked'[k].asks # "resend"
    <3>1. CASE rec.asks \notin {"nothing", "over", "resend"} /\ rec.mine
      BY <1>1, <3>1 DEF Sends
    <3>2. CASE ~(rec.asks \notin {"nothing", "over", "resend"} /\ rec.mine)
      <4>1. submitting' <=> submitting /\ ~(Sends(n) /\ asked[n].mine /\ asked[n].asks # "resend")
        BY <3>2
      <4>2. (\E k \in Submits : Sends(k)' /\ asked'[k].mine /\ asked'[k].asks # "resend")
              <=> \E k \in Submits \ {n} : Sends(k) /\ asked[k].mine /\ asked[k].asks # "resend"
        BY <1>1, <3>2 DEF Sends
      <4>3. submitting /\ ~(Sends(n) /\ asked[n].mine /\ asked[n].asks # "resend")
              <=> \E k \in Submits \ {n} : Sends(k) /\ asked[k].mine /\ asked[k].asks # "resend"
        BY DEF ButtonsHeld, MadeHere
      <4> QED
        BY <4>1, <4>2, <4>3
    <3> QED
      BY <3>1, <3>2
  <2>2. resending' <=> \E k \in Submits : Sends(k)' /\ asked'[k].mine /\ asked'[k].asks = "resend"
    <3>1. CASE rec.asks = "resend" /\ rec.mine
      BY <1>1, <3>1 DEF Sends
    <3>2. CASE ~(rec.asks = "resend" /\ rec.mine)
      <4>1. resending' <=> resending /\ ~(Sends(n) /\ asked[n].mine /\ asked[n].asks = "resend")
        BY <3>2
      <4>2. (\E k \in Submits : Sends(k)' /\ asked'[k].mine /\ asked'[k].asks = "resend")
              <=> \E k \in Submits \ {n} : Sends(k) /\ asked[k].mine /\ asked[k].asks = "resend"
        BY <1>1, <3>2 DEF Sends
      <4>3. resending /\ ~(Sends(n) /\ asked[n].mine /\ asked[n].asks = "resend")
              <=> \E k \in Submits \ {n} : Sends(k) /\ asked[k].mine /\ asked[k].asks = "resend"
        BY DEF ButtonsHeld, MadeHere
      <4> QED
        BY <4>1, <4>2, <4>3
    <3> QED
      BY <3>1, <3>2
  <2> QED
    BY <2>1, <2>2 DEF ButtonsHeld
<1> QED
  BY <1>2, <1>3

\* The codes mailed only grow.
MailGrows ==
    /\ mailed' \in Seq(Emails) /\ Len(mailed) <= Len(mailed')
    /\ \A i \in 1 .. Len(mailed) : mailed'[i] = mailed[i]

LEMMA MailStaysOrGrows ==
  ASSUME mailed \in Seq(Emails), NEW e \in Emails, mailed' \in {mailed, Append(mailed, e)}
  PROVE  MailGrows
BY DEF MailGrows

\* One submission goes on, and an answer that brings a session brings one mailed to it.
LEMMA OneKeepsSessions ==
  ASSUME PagesTypes, SessionsWereMailed, NEW n \in Submits, NEW rec \in Submission,
         asked' = [asked EXCEPT ![n] = rec], MailGrows,
         rec.asks \in {"start", "resend"} /\ rec.answer = "ok"
           => rec.session \in 1 .. Len(mailed') /\ mailed'[rec.session] = rec.email
  PROVE  asked' \in [Submits -> Submission] /\ SessionsWereMailed'
<1>1. \A k \in Submits : asked'[k] = IF k = n THEN rec ELSE asked[k]
  BY DEF PagesTypes
<1>2. asked' \in [Submits -> Submission]
  BY DEF PagesTypes
<1>3. SessionsWereMailed'
  <2> SUFFICES ASSUME NEW k \in Submits, asked'[k].asks \in {"start", "resend"}, asked'[k].answer = "ok"
               PROVE  asked'[k].session \in 1 .. Len(mailed') /\ mailed'[asked'[k].session] = asked'[k].email
    BY DEF SessionsWereMailed
  <2>1. CASE k = n
    BY <1>1, <2>1
  <2>2. CASE k # n
    <3>1. asked'[k] = asked[k] /\ asked[k].session \in 1 .. Len(mailed) /\ mailed[asked[k].session] = asked[k].email
      BY <1>1, <2>2 DEF SessionsWereMailed
    <3>2. Len(mailed) \in Nat /\ Len(mailed') \in Nat
      BY DEF PagesTypes, MailGrows
    <3> QED
      BY <3>1, <3>2 DEF MailGrows
  <2> QED
    BY <2>1, <2>2
<1> QED
  BY <1>2, <1>3

\* What the code's page holds stays right while no answer brings it a session.
LEMMA StaysOpen ==
  ASSUME PagesTypes, CodeOpens, ResendIsNewest, NEW n \in Submits, NEW rec \in Submission,
         asked' = [asked EXCEPT ![n] = rec], MailGrows, UNCHANGED <<heard, leftPage>>,
         challenge' \in {challenge, NoChallenge},
         ~leftPage /\ rec.asks = "resend" /\ rec.mine =>
            /\ challenge # NoChallenge => rec.email = challenge.email
            /\ rec.answer = "ok" => \A s \in heard : s <= rec.session
  PROVE  /\ CodeOpens' /\ ResendIsNewest' /\ heard' \subseteq 1 .. Len(mailed')
         /\ challenge' = NoChallenge \/ challenge' \in [email : Emails, session : 1 .. Len(mailed')]
<1>1. Len(mailed) \in Nat /\ Len(mailed') \in Nat
  BY DEF PagesTypes, MailGrows
<1>2. heard \subseteq 1 .. Len(mailed) /\ heard' \subseteq 1 .. Len(mailed')
  BY <1>1 DEF PagesTypes, MailGrows
<1>3. challenge = NoChallenge \/ challenge \in [email : Emails, session : 1 .. Len(mailed)]
  BY PagesTypesAre DEF PagesTypes
<1>4. challenge' = NoChallenge \/ challenge' \in [email : Emails, session : 1 .. Len(mailed')]
  BY <1>1, <1>3 DEF MailGrows
<1>5. CodeOpens'
  <2> SUFFICES ASSUME challenge' # NoChallenge, ~leftPage
               PROVE  /\ mailed'[challenge.session] = challenge.email
                      /\ \A s \in heard : mailed'[s] = challenge.email => s <= challenge.session
    BY DEF CodeOpens
  <2>1. /\ challenge.session \in 1 .. Len(mailed) /\ mailed[challenge.session] = challenge.email
        /\ \A s \in heard : mailed[s] = challenge.email => s <= challenge.session
    BY <1>3 DEF CodeOpens
  <2> QED
    BY <1>2, <2>1 DEF MailGrows
<1>6. ResendIsNewest'
  <2>1. \A k \in Submits : asked'[k] = IF k = n THEN rec ELSE asked[k]
    BY DEF PagesTypes
  <2> QED
    BY <2>1 DEF ResendIsNewest
<1> QED
  BY <1>2, <1>4, <1>5, <1>6

\* The page is left, or made anew: what it sent goes on without it.
LEMMA LeavingKeeps ==
  ASSUME PagesInv, page' \in CallPages \cup {"home"}, submitting' = FALSE, resending' = FALSE,
         asked' \in [Submits -> Submission],
         \A k \in Submits : /\ ~asked'[k].mine
                            /\ \/ asked'[k].asks = "over"
                               \/ /\ asked'[k].asks = asked[k].asks /\ asked'[k].email = asked[k].email
                                  /\ asked'[k].session = asked[k].session /\ asked'[k].answer = asked[k].answer,
         UNCHANGED <<registered, mailed>>, requestedFor' \in Emails \cup {NoEmail},
         heard' \subseteq 1 .. Len(mailed), leftPage' \in BOOLEAN, CodeOpens',
         challenge' = NoChallenge \/ challenge' \in [email : Emails, session : 1 .. Len(mailed)]
  PROVE  PagesInv'
<1>1. AuthPagesTypeOK'
  <2>1. registered' \subseteq Emails
    BY PagesTypesAre DEF PagesInv, PagesTypes
  <2> QED
    BY <2>1 DEF AuthPagesTypeOK
<1>2. PagesTypes'
  BY <1>1 DEF PagesInv, PagesTypes
<1>3. MadeHere' /\ ButtonsHeld'
  BY DEF PagesInv, MadeHere, ButtonsHeld, Sends
<1>4. SessionsWereMailed' /\ ResendIsNewest'
  BY DEF PagesInv, SessionsWereMailed, ResendIsNewest
<1> QED
  BY <1>2, <1>3, <1>4 DEF PagesInv

\* To leave the page: the calls it made are another's from then on.
LEMMA NavigateLeaves ==
  ASSUME NEW p, NEW calls \in [Submits -> Submission], Navigate(p, calls)
  PROVE  \/ page \in {p, "home"} /\ UNCHANGED <<page, submitting, resending>> /\ asked' = calls
         \/ /\ page' = p /\ submitting' = FALSE /\ resending' = FALSE
            /\ asked' \in [Submits -> Submission]
            /\ \A k \in Submits :
                 /\ ~asked'[k].mine /\ asked'[k].asks = calls[k].asks /\ asked'[k].email = calls[k].email
                 /\ asked'[k].session = calls[k].session /\ asked'[k].answer = calls[k].answer
<1>1. CASE page \in {p, "home"}
  BY <1>1 DEF Navigate, shown
<1>2. CASE page \notin {p, "home"}
  <2>1. /\ page' = p /\ submitting' = FALSE /\ resending' = FALSE
        /\ asked' = [k \in Submits |-> [calls[k] EXCEPT !.mine = FALSE]]
    BY <1>2 DEF Navigate
  <2>2. \A k \in Submits : calls[k] \in Submission
    OBVIOUS
  <2>3. \A k \in Submits :
          /\ asked'[k] \in Submission
          /\ ~asked'[k].mine /\ asked'[k].asks = calls[k].asks /\ asked'[k].email = calls[k].email
          /\ asked'[k].session = calls[k].session /\ asked'[k].answer = calls[k].answer
    BY <2>1, <2>2 DEF Submission
  <2>4. asked' \in [Submits -> Submission]
    BY <2>1, <2>3
  <2> QED
    BY <2>1, <2>3, <2>4
<1> QED
  BY <1>1, <1>2

\* One submission goes on, on a page that stays.
LEMMA OneKeepsPages ==
  ASSUME PagesInv, NEW n \in Submits, NEW rec \in Submission,
         asked' = [asked EXCEPT ![n] = rec], UNCHANGED <<page, heard, leftPage>>, MailGrows,
         registered' \subseteq Emails, requestedFor' \in Emails \cup {NoEmail},
         challenge' \in {challenge, NoChallenge},
         submitting' \in BOOLEAN, resending' \in BOOLEAN,
         rec.asks \notin {"nothing", "over"} => rec.email \in Emails,
         rec.asks \notin {"nothing", "over"} /\ rec.mine =>
            /\ page \in PagesOf(rec.asks)
            /\ \/ Sends(n) /\ asked[n].mine /\ (asked[n].asks = "resend" <=> rec.asks = "resend")
               \/ rec.asks = "resend" /\ ~resending
               \/ rec.asks # "resend" /\ ~submitting,
         submitting' <=> \/ rec.asks \notin {"nothing", "over", "resend"} /\ rec.mine
                         \/ submitting /\ ~(Sends(n) /\ asked[n].mine /\ asked[n].asks # "resend"),
         resending' <=> \/ rec.asks = "resend" /\ rec.mine
                        \/ resending /\ ~(Sends(n) /\ asked[n].mine /\ asked[n].asks = "resend"),
         rec.asks \in {"start", "resend"} /\ rec.answer = "ok"
           => rec.session \in 1 .. Len(mailed') /\ mailed'[rec.session] = rec.email,
         ~leftPage /\ rec.asks = "resend" /\ rec.mine =>
            /\ challenge # NoChallenge => rec.email = challenge.email
            /\ rec.answer = "ok" => \A s \in heard : s <= rec.session
  PROVE  PagesInv'
<1>1. MadeHere' /\ ButtonsHeld'
  BY OneGoesOn DEF PagesInv, PagesTypes
<1>2. asked' \in [Submits -> Submission] /\ SessionsWereMailed'
  BY OneKeepsSessions DEF PagesInv
<1>3. /\ CodeOpens' /\ ResendIsNewest' /\ heard' \subseteq 1 .. Len(mailed')
      /\ challenge' = NoChallenge \/ challenge' \in [email : Emails, session : 1 .. Len(mailed')]
  BY StaysOpen DEF PagesInv
<1>4. AuthPagesTypeOK'
  <2>1. page' \in CallPages \cup {"home"} /\ leftPage' \in BOOLEAN
    BY PagesTypesAre DEF PagesInv, PagesTypes
  <2> QED
    BY <1>3, <2>1 DEF AuthPagesTypeOK
<1>5. PagesTypes'
  BY <1>2, <1>3, <1>4 DEF PagesTypes, MailGrows
<1> QED
  BY <1>1, <1>2, <1>3, <1>5 DEF PagesInv

LEMMA PagesFacts ==
  ASSUME PagesInv
  PROVE  /\ asked \in [Submits -> Submission] /\ mailed \in Seq(Emails) /\ Len(mailed) \in Nat
         /\ heard \subseteq 1 .. Len(mailed)
         /\ UNCHANGED mailed => MailGrows
         /\ page \in CallPages \cup {"home"} /\ registered \subseteq Emails
         /\ submitting \in BOOLEAN /\ resending \in BOOLEAN /\ leftPage \in BOOLEAN
         /\ requestedFor \in Emails \cup {NoEmail}
         /\ challenge = NoChallenge \/ challenge \in [email : Emails, session : 1 .. Len(mailed)]
         /\ MadeHere /\ ButtonsHeld /\ SessionsWereMailed /\ CodeOpens /\ ResendIsNewest
BY PagesTypesAre DEF PagesInv, PagesTypes, MailGrows

LEMMA IdleIsSubmission ==
  /\ Idle \in Submission /\ Idle.asks = "nothing" /\ Idle.mine = FALSE
BY DEF Idle, Submission, Asks

\* A form is submitted, on a page whose button is free.
LEMMA SubmitKeeps ==
  ASSUME PagesInv, NEW n \in Submits, NEW on, NEW asks \in Asks \ {"nothing", "over", "resend"},
         on \in PagesOf(asks), NEW e \in Emails, Submit(n, on, asks, e)
  PROVE  PagesInv'
<1> DEFINE rec == [Idle EXCEPT !.asks = asks, !.email = e, !.mine = TRUE]
<1>1. /\ page = on /\ ~submitting /\ submitting' = TRUE /\ asked[n] = Idle
      /\ asked' = [asked EXCEPT ![n] = rec]
      /\ UNCHANGED <<page, resending, challenge, requestedFor, registered, mailed, heard, leftPage>>
  BY DEF Submit, Request
<1>2. rec \in Submission /\ rec.asks = asks /\ rec.email = e /\ rec.mine = TRUE /\ rec.answer = Unheard
  BY IdleIsSubmission DEF Submission, Idle
<1> HIDE DEF rec
<1>3. ~Sends(n)
  BY <1>1, IdleIsSubmission DEF Sends
<1>4. rec.answer # "ok"
  BY <1>2, AuthPagesAssumption
<1> QED
  BY <1>1, <1>2, <1>3, <1>4, PagesFacts, OneKeepsPages

\* The code's page submits a code, or asks for another.
LEMMA CodePageKeeps ==
  ASSUME PagesInv, NEW n \in Submits,
         Resend(n) \/ \E code \in 0 .. Len(mailed) : SubmitCode(n, code)
  PROVE  PagesInv'
<1>1. CASE Resend(n)
  <2> DEFINE rec == [Idle EXCEPT !.asks = "resend", !.email = challenge.email, !.mine = TRUE]
  <2>1. /\ page = "verify" /\ ~resending /\ challenge # NoChallenge /\ resending' = TRUE
        /\ asked[n] = Idle /\ asked' = [asked EXCEPT ![n] = rec]
        /\ UNCHANGED <<page, submitting, challenge, requestedFor, registered, mailed, heard, leftPage>>
    BY <1>1 DEF Resend, Request
  <2>2. challenge.email \in Emails
    BY <2>1, PagesFacts
  <2>3. /\ rec \in Submission /\ rec.asks = "resend" /\ rec.email = challenge.email /\ rec.mine = TRUE
        /\ rec.answer = Unheard
    BY <2>2, IdleIsSubmission DEF Submission, Idle, Asks
  <2> HIDE DEF rec
  <2>4. ~Sends(n) /\ rec.answer # "ok"
    BY <2>1, <2>3, IdleIsSubmission, AuthPagesAssumption DEF Sends
  <2>5. page \in PagesOf("resend")
    BY <2>1, PagesOfEach
  <2> QED
    BY <2>1, <2>2, <2>3, <2>4, <2>5, PagesFacts, OneKeepsPages
<1>2. ASSUME NEW code \in 0 .. Len(mailed), SubmitCode(n, code) PROVE PagesInv'
  <2> DEFINE rec == [Idle EXCEPT !.asks = "verify", !.email = challenge.email,
                                 !.session = challenge.session, !.code = code, !.mine = TRUE]
  <2>1. /\ page = "verify" /\ ~submitting /\ challenge # NoChallenge /\ submitting' = TRUE
        /\ asked[n] = Idle /\ asked' = [asked EXCEPT ![n] = rec]
        /\ UNCHANGED <<page, resending, challenge, requestedFor, registered, mailed, heard, leftPage>>
    BY <1>2 DEF SubmitCode, Request
  <2>2. challenge.email \in Emails /\ challenge.session \in Nat /\ code \in Nat
    BY <2>1, PagesFacts
  <2>3. rec \in Submission /\ rec.asks = "verify" /\ rec.email = challenge.email /\ rec.mine = TRUE
    BY <2>2, IdleIsSubmission DEF Submission, Idle, Asks
  <2> HIDE DEF rec
  <2>4. ~Sends(n)
    BY <2>1, IdleIsSubmission DEF Sends
  <2>5. page \in PagesOf("verify")
    BY <2>1, PagesOfEach
  <2> QED
    BY <2>1, <2>2, <2>3, <2>4, <2>5, PagesFacts, OneKeepsPages
<1> QED
  BY <1>1, <1>2

\* What an answer of Users leaves of the request, and of the mail.
LEMMA ServeAnswers ==
  ASSUME PagesInv, NEW n \in Submits, NEW back \in BOOLEAN, Serve(n, back)
  PROVE  /\ Sends(n) /\ asked[n].answer = Unheard
         /\ UNCHANGED <<page, submitting, resending, challenge, requestedFor, heard, leftPage>>
         /\ registered' \subseteq Emails /\ mailed' \in {mailed, Append(mailed, asked[n].email)}
         /\ \E rec \in Submission :
              /\ asked' = [asked EXCEPT ![n] = rec]
              /\ rec.asks = asked[n].asks /\ rec.email = asked[n].email /\ rec.mine = asked[n].mine
              /\ rec.asks \in {"start", "resend"} /\ rec.answer = "ok" =>
                   mailed' = Append(mailed, asked[n].email) /\ rec.session = Len(mailed) + 1
<1> DEFINE request == asked[n]
           says(answer) == IF back THEN answer ELSE "failed"
<1>1. /\ Sends(n) /\ request.answer = Unheard /\ request \in Submission /\ request.email \in Emails
      /\ UNCHANGED <<page, submitting, resending, challenge, requestedFor, heard, leftPage>>
      /\ mailed \in Seq(Emails) /\ registered \subseteq Emails /\ Len(mailed) \in Nat
      /\ asked \in [Submits -> Submission]
  BY PagesFacts DEF Serve, UnderWay, Sends, MadeHere, shown
<1>2. ASSUME NEW answer \in Answers, asked' = [asked EXCEPT ![n].answer = answer],
             request.asks \in {"start", "resend"} => answer = "failed"
      PROVE  \E rec \in Submission :
              /\ asked' = [asked EXCEPT ![n] = rec]
              /\ rec.asks = asked[n].asks /\ rec.email = asked[n].email /\ rec.mine = asked[n].mine
              /\ rec.asks \in {"start", "resend"} /\ rec.answer = "ok" =>
                   mailed' = Append(mailed, asked[n].email) /\ rec.session = Len(mailed) + 1
  <2> DEFINE rec == [request EXCEPT !.answer = answer]
  <2>1. /\ rec \in Submission /\ rec.asks = request.asks /\ rec.email = request.email
        /\ rec.mine = request.mine /\ rec.answer = answer
    BY <1>1 DEF Submission
  <2>2. asked' = [asked EXCEPT ![n] = rec]
    BY <1>1, <1>2
  <2> HIDE DEF rec
  <2>3. rec.asks \in {"start", "resend"} => rec.answer # "ok"
    BY <1>2, <2>1
  <2> QED
    BY <2>1, <2>2, <2>3
<1>3. CASE request.asks \in {"register", "register code"}
  <2>1. PICK answer \in Answers : /\ asked' = [asked EXCEPT ![n].answer = answer]
                                  /\ registered' = registered \cup {request.email} /\ UNCHANGED mailed
    BY <1>3 DEF Serve, Says, Taken, Answers
  <2> QED
    BY <1>1, <1>2, <1>3, <2>1
<1>4. CASE request.asks \in {"start", "resend"} /\ request.email \in registered
  <2>1. /\ mailed' = Append(mailed, request.email) /\ UNCHANGED registered
        /\ asked' = [asked EXCEPT ![n].answer = IF back THEN "ok" ELSE "failed",
                                  ![n].session = IF back THEN Len(mailed) + 1 ELSE 0]
    BY <1>4 DEF Serve
  <2>2. PICK answer \in Answers, session \in Nat :
          /\ answer = (IF back THEN "ok" ELSE "failed")
          /\ session = (IF back THEN Len(mailed) + 1 ELSE 0)
    BY <1>1 DEF Answers
  <2>3. answer = "ok" => session = Len(mailed) + 1
    BY <2>2
  <2> DEFINE rec == [request EXCEPT !.answer = answer, !.session = session]
  <2>4. /\ rec \in Submission /\ rec.asks = request.asks /\ rec.email = request.email
        /\ rec.mine = request.mine /\ rec.answer = answer /\ rec.session = session
    BY <1>1 DEF Submission
  <2>5. asked' = [asked EXCEPT ![n] = rec]
    BY <1>1, <2>1, <2>2
  <2> HIDE DEF rec
  <2> QED
    BY <1>1, <2>1, <2>3, <2>4, <2>5
<1>5. CASE request.asks = "verify"
  <2>1. PICK answer \in Answers : /\ asked' = [asked EXCEPT ![n].answer = answer]
                                  /\ UNCHANGED <<registered, mailed>>
    BY <1>5 DEF Serve, Says, Answers
  <2> QED
    BY <1>1, <1>2, <1>5, <2>1
<1>6. CASE /\ request.asks \in {"start", "resend", "login", "me", "confirm"}
           /\ request.email \notin registered
  <2>1. /\ asked' = [asked EXCEPT ![n].answer = "failed"] /\ UNCHANGED <<registered, mailed>>
    BY <1>6 DEF Serve, Says
  <2> QED
    BY <1>1, <1>2, <2>1 DEF Answers
<1>7. CASE /\ request.asks \notin {"register", "register code", "verify"}
           /\ ~(request.asks \in {"start", "resend"} /\ request.email \in registered)
           /\ ~(/\ request.asks \in {"start", "resend", "login", "me", "confirm"}
                /\ request.email \notin registered)
  <2>1. PICK answer \in Answers : /\ asked' = [asked EXCEPT ![n].answer = answer]
                                  /\ UNCHANGED <<registered, mailed>>
    BY <1>7 DEF Serve, Says, Answers
  <2>2. request.asks \notin {"start", "resend"}
    BY <1>7
  <2> QED
    BY <1>1, <1>2, <2>1, <2>2
<1> QED
  BY <1>3, <1>4, <1>5, <1>6, <1>7

LEMMA ServeKeeps ==
  ASSUME PagesInv, NEW n \in Submits, Refuse(n) \/ \E back \in BOOLEAN : Serve(n, back)
  PROVE  PagesInv'
<1>1. ASSUME NEW back \in BOOLEAN, Serve(n, back) PROVE PagesInv'
  <2>1. PICK rec \in Submission :
              /\ asked' = [asked EXCEPT ![n] = rec]
              /\ rec.asks = asked[n].asks /\ rec.email = asked[n].email /\ rec.mine = asked[n].mine
              /\ rec.asks \in {"start", "resend"} /\ rec.answer = "ok" =>
                   mailed' = Append(mailed, asked[n].email) /\ rec.session = Len(mailed) + 1
    BY <1>1, ServeAnswers
  <2>2. /\ Sends(n) /\ registered' \subseteq Emails /\ mailed' \in {mailed, Append(mailed, asked[n].email)}
        /\ UNCHANGED <<page, submitting, resending, challenge, requestedFor, heard, leftPage>>
    BY <1>1, ServeAnswers
  <2>3. /\ asked[n].email \in Emails /\ (asked[n].mine => page \in PagesOf(asked[n].asks))
        /\ rec.asks \notin {"nothing", "over"}
    BY <2>1, <2>2, PagesFacts DEF MadeHere, Sends
  <2>4. MailGrows
    BY <2>2, <2>3, PagesFacts, MailStaysOrGrows
  <2>5. rec.asks \in {"start", "resend"} /\ rec.answer = "ok"
          => /\ rec.session \in 1 .. Len(mailed') /\ mailed'[rec.session] = rec.email
             /\ \A s \in heard : s <= rec.session
    BY <2>1, <2>3, PagesFacts
  <2>6. rec.asks = "resend" /\ rec.mine /\ ~leftPage /\ challenge # NoChallenge
          => rec.email = challenge.email
    BY <2>1, PagesFacts DEF ResendIsNewest
  <2>7. /\ submitting' <=> \/ rec.asks \notin {"nothing", "over", "resend"} /\ rec.mine
                           \/ submitting /\ ~(Sends(n) /\ asked[n].mine /\ asked[n].asks # "resend")
        /\ resending' <=> \/ rec.asks = "resend" /\ rec.mine
                          \/ resending /\ ~(Sends(n) /\ asked[n].mine /\ asked[n].asks = "resend")
    BY <2>1, <2>2, <2>3, PagesFacts DEF ButtonsHeld
  <2> QED
    BY <2>1, <2>2, <2>3, <2>4, <2>5, <2>6, <2>7, PagesFacts, OneKeepsPages
<1>2. CASE Refuse(n)
  <2> DEFINE rec == [asked[n] EXCEPT !.answer = "failed"]
  <2>1. /\ Sends(n) /\ asked[n].asks \in {"login", "confirm"} /\ asked[n] \in Submission
        /\ asked' = [asked EXCEPT ![n] = rec]
        /\ UNCHANGED <<page, submitting, resending, challenge, requestedFor, registered, mailed, heard, leftPage>>
    BY <1>2, PagesFacts DEF Refuse, Says, UnderWay, Sends, shown
  <2>2. /\ rec \in Submission /\ rec.asks = asked[n].asks /\ rec.email = asked[n].email
        /\ rec.mine = asked[n].mine
    BY <2>1 DEF Submission, Answers
  <2> HIDE DEF rec
  <2>3. asked[n].email \in Emails /\ (asked[n].mine => page \in PagesOf(asked[n].asks))
    BY <2>1, PagesFacts DEF MadeHere
  <2>4. /\ submitting' <=> \/ rec.asks \notin {"nothing", "over", "resend"} /\ rec.mine
                           \/ submitting /\ ~(Sends(n) /\ asked[n].mine /\ asked[n].asks # "resend")
        /\ resending' <=> \/ rec.asks = "resend" /\ rec.mine
                          \/ resending /\ ~(Sends(n) /\ asked[n].mine /\ asked[n].asks = "resend")
    BY <2>1, <2>2, PagesFacts DEF ButtonsHeld
  <2> QED
    BY <2>1, <2>2, <2>3, <2>4, PagesFacts, OneKeepsPages
<1> QED
  BY <1>1, <1>2

LEMMA OverIsSubmission ==
  ASSUME asked \in [Submits -> Submission], NEW n \in Submits
  PROVE  \E rec \in Submission : Over(n) = [asked EXCEPT ![n] = rec] /\ rec.asks = "over" /\ ~rec.mine
<1> DEFINE rec == [Idle EXCEPT !.asks = "over"]
<1>1. rec \in Submission /\ rec.asks = "over" /\ ~rec.mine
  BY IdleIsSubmission DEF Submission, Idle, Asks
<1>2. Over(n) = [asked EXCEPT ![n] = rec]
  BY DEF Over
<1> HIDE DEF rec
<1> QED
  BY <1>1, <1>2

\* The submissions an answer goes on from.
LEMMA SenderFacts ==
  ASSUME PagesInv, NEW n \in Submits, Sends(n)
  PROVE  /\ asked[n] \in Submission /\ asked[n].email \in Emails /\ asked[n].mine \in BOOLEAN
         /\ asked[n].mine => page \in PagesOf(asked[n].asks)
         /\ asked[n].mine /\ asked[n].asks # "resend" => submitting
         /\ asked[n].mine /\ asked[n].asks = "resend" => resending
BY PagesFacts DEF MadeHere, ButtonsHeld, Submission

\* A submission goes on to its next request, or ends, on a page that stays.
LEMMA HeardGoesOn ==
  ASSUME PagesInv, NEW n \in Submits,
         Registered(n) \/ Proven(n) \/ ResetMailed(n) \/ Fails(n), UNCHANGED <<registered, mailed>>
  PROVE  PagesInv'
<1>1. Sends(n) /\ UNCHANGED <<page, heard, leftPage>>
  BY DEF Registered, GoOn, Proven, ResetMailed, Fails, Sends, UnderWay, shown
<1>2. ASSUME NEW rec \in Submission, asked' = [asked EXCEPT ![n] = rec],
             UNCHANGED <<submitting, resending>>, requestedFor' = requestedFor,
             challenge' \in {challenge, NoChallenge},
             rec.asks \in {"login", "start", "me"}, rec.answer # "ok", rec.email = asked[n].email,
             rec.mine = asked[n].mine, asked[n].asks # "resend",
             rec.mine => page \in PagesOf(rec.asks)
      PROVE  PagesInv'
  <2>1. /\ submitting <=> \/ rec.asks \notin {"nothing", "over", "resend"} /\ rec.mine
                          \/ submitting /\ ~(Sends(n) /\ asked[n].mine /\ asked[n].asks # "resend")
        /\ resending <=> \/ rec.asks = "resend" /\ rec.mine
                         \/ resending /\ ~(Sends(n) /\ asked[n].mine /\ asked[n].asks = "resend")
    BY <1>1, <1>2, SenderFacts
  <2>2. rec.email \in Emails
    BY <1>1, <1>2, SenderFacts
  <2> QED
    BY <1>1, <1>2, <2>1, <2>2, PagesFacts, OneKeepsPages
<1>3. CASE Registered(n)
  <2>1. PICK asks \in {"login", "start"} :
          /\ asks = "login" => asked[n].asks = "register"
          /\ asks = "start" => asked[n].asks = "register code"
          /\ GoOn(n, asks)
    BY <1>3 DEF Registered
  <2> DEFINE rec == [asked[n] EXCEPT !.asks = asks, !.answer = Unheard]
  <2>2. /\ rec \in Submission /\ rec.asks = asks /\ rec.email = asked[n].email
        /\ rec.mine = asked[n].mine /\ rec.answer = Unheard
    BY <1>1, SenderFacts DEF Submission, Asks
  <2>3. /\ asked' = [asked EXCEPT ![n] = rec]
        /\ UNCHANGED <<submitting, resending, challenge, requestedFor>>
    BY <1>1, <2>1, PagesFacts DEF GoOn, shown
  <2> HIDE DEF rec
  <2>4. rec.mine => page \in PagesOf(rec.asks)
    BY <1>1, <2>1, <2>2, SenderFacts, PagesOfEach
  <2>5. asked[n].asks # "resend" /\ rec.answer # "ok"
    BY <2>1, <2>2, AuthPagesAssumption
  <2> QED
    BY <1>2, <2>1, <2>2, <2>3, <2>4, <2>5
<1>4. CASE Proven(n)
  <2> DEFINE rec == [Idle EXCEPT !.asks = "me", !.email = asked[n].email, !.mine = asked[n].mine]
  <2>1. /\ asked[n].asks \in {"login", "verify"} /\ challenge' \in {challenge, NoChallenge}
        /\ asked' = [asked EXCEPT ![n] = rec] /\ UNCHANGED <<submitting, resending, requestedFor>>
    BY <1>4 DEF Proven, shown
  <2>2. /\ rec \in Submission /\ rec.asks = "me" /\ rec.email = asked[n].email
        /\ rec.mine = asked[n].mine /\ rec.answer = Unheard
    BY <1>1, SenderFacts, IdleIsSubmission DEF Submission, Asks, Idle
  <2> HIDE DEF rec
  <2>3. rec.mine => page \in PagesOf(rec.asks)
    BY <1>1, <2>1, <2>2, SenderFacts, PagesOfEach
  <2>4. rec.answer # "ok" /\ asked[n].asks # "resend"
    BY <2>1, <2>2, AuthPagesAssumption
  <2> QED
    BY <1>2, <2>1, <2>2, <2>3, <2>4
<1>5. CASE ResetMailed(n) \/ Fails(n)
  <2>1. /\ asked' = Over(n) /\ UNCHANGED challenge /\ requestedFor' \in Emails \cup {NoEmail}
    BY <1>1, <1>5, SenderFacts, PagesFacts DEF ResetMailed, Fails, Ends
  <2>2. PICK rec \in Submission : asked' = [asked EXCEPT ![n] = rec] /\ rec.asks = "over" /\ ~rec.mine
    BY <2>1, PagesFacts, OverIsSubmission
  <2>3. /\ submitting' = (submitting /\ ~(asked[n].mine /\ asked[n].asks # "resend"))
        /\ resending' = (resending /\ ~(asked[n].mine /\ asked[n].asks = "resend"))
    <3>1. CASE Fails(n)
      BY <3>1 DEF Fails
    <3>2. CASE ResetMailed(n)
      <4>1. /\ asked[n].asks = "forgot" /\ submitting' = (submitting /\ ~asked[n].mine)
            /\ UNCHANGED resending
        BY <3>2 DEF ResetMailed
      <4>2. asked[n].asks # "resend"
        BY <4>1
      <4> QED
        BY <4>1, <4>2, PagesFacts, Zenon
    <3> QED
      BY <1>5, <3>1, <3>2
  <2>4. submitting' \in BOOLEAN /\ resending' \in BOOLEAN
    BY <1>1, <2>3, PagesFacts, SenderFacts
  <2>5. /\ submitting' <=> \/ rec.asks \notin {"nothing", "over", "resend"} /\ rec.mine
                           \/ submitting /\ ~(Sends(n) /\ asked[n].mine /\ asked[n].asks # "resend")
        /\ resending' <=> \/ rec.asks = "resend" /\ rec.mine
                          \/ resending /\ ~(Sends(n) /\ asked[n].mine /\ asked[n].asks = "resend")
    BY <1>1, <2>2, <2>3
  <2> QED
    BY <1>1, <2>1, <2>2, <2>4, <2>5, PagesFacts, OneKeepsPages
<1> QED
  BY <1>3, <1>4, <1>5

\* A page is left with its challenge, its reset and what came as they are.
LEMMA PageIsLeft ==
  ASSUME PagesInv, NEW p \in CallPages \cup {"home"}, NEW calls \in [Submits -> Submission],
         \A k \in Submits : calls[k].asks = "over" \/ calls[k] = asked[k],
         page \notin {p, "home"}, Navigate(p, calls),
         UNCHANGED <<registered, mailed, challenge, heard, leftPage>>,
         requestedFor' \in Emails \cup {NoEmail}
  PROVE  PagesInv'
<1>1. /\ page' = p /\ submitting' = FALSE /\ resending' = FALSE
      /\ asked' \in [Submits -> Submission]
      /\ \A k \in Submits :
           /\ ~asked'[k].mine /\ asked'[k].asks = calls[k].asks /\ asked'[k].email = calls[k].email
           /\ asked'[k].session = calls[k].session /\ asked'[k].answer = calls[k].answer
  BY NavigateLeaves
<1>2. CodeOpens'
  BY PagesFacts DEF CodeOpens
<1>3. \A k \in Submits : /\ ~asked'[k].mine
                         /\ \/ asked'[k].asks = "over"
                            \/ /\ asked'[k].asks = asked[k].asks /\ asked'[k].email = asked[k].email
                               /\ asked'[k].session = asked[k].session /\ asked'[k].answer = asked[k].answer
  BY <1>1
<1> QED
  BY <1>1, <1>2, <1>3, PagesFacts, LeavingKeeps

\* A submission of a page that was left ends; the page on screen stays.
LEMMA EndsElsewhere ==
  ASSUME PagesInv, NEW n \in Submits, Sends(n), ~asked[n].mine, asked' = Over(n),
         UNCHANGED <<page, submitting, resending, registered, mailed, challenge, heard, leftPage>>,
         requestedFor' \in Emails \cup {NoEmail}
  PROVE  PagesInv'
<1>1. PICK rec \in Submission : asked' = [asked EXCEPT ![n] = rec] /\ rec.asks = "over" /\ ~rec.mine
  BY PagesFacts, OverIsSubmission
<1> QED
  BY <1>1, PagesFacts, OneKeepsPages

\* Every submission but the one that ends is as it was.
LEMMA OverChangesOne ==
  ASSUME asked \in [Submits -> Submission], NEW n \in Submits
  PROVE  /\ Over(n) \in [Submits -> Submission]
         /\ \A k \in Submits : Over(n)[k].asks = "over" \/ Over(n)[k] = asked[k]
<1>1. PICK rec \in Submission : Over(n) = [asked EXCEPT ![n] = rec] /\ rec.asks = "over" /\ ~rec.mine
  BY OverIsSubmission
<1> QED
  BY <1>1

\* By a link, by a sign-in, by a reset: the page is left for another.
LEMMA NavigatingKeeps ==
  ASSUME PagesInv,
         \/ \E p \in CallPages : GoTo(p)
         \/ \E n \in Submits : (SignedIn(n) \/ PasswordSet(n)) /\ UNCHANGED <<registered, mailed>>
  PROVE  PagesInv'
<1>1. ASSUME NEW p \in CallPages, GoTo(p) PROVE PagesInv'
  BY <1>1, PagesFacts, PageIsLeft DEF GoTo
<1>2. ASSUME NEW n \in Submits, SignedIn(n) \/ PasswordSet(n), UNCHANGED <<registered, mailed>>
      PROVE  PagesInv'
  <2>1. PICK p \in CallPages \cup {"home"} :
          /\ Navigate(p, Over(n))
          /\ asked[n].asks = "me" => p \in {"new password", "home"}
          /\ asked[n].asks = "confirm" => p = "login"
    <3>1. CASE SignedIn(n)
      BY <3>1 DEF SignedIn, CallPages
    <3>2. CASE PasswordSet(n)
      BY <3>2 DEF PasswordSet, CallPages
    <3> QED
      BY <1>2, <3>1, <3>2
  <2>2. /\ asked[n].asks \in {"me", "confirm"} /\ UNCHANGED <<challenge, heard, leftPage>>
        /\ requestedFor' \in Emails \cup {NoEmail}
    BY <1>2, PagesFacts DEF SignedIn, PasswordSet
  <2>3. Sends(n) /\ (asked[n].mine => page \notin {p, "home"})
    <3>1. Sends(n)
      BY <2>2 DEF Sends
    <3> QED
      BY <2>1, <2>2, <3>1, SenderFacts, PagesOfEach
  <2>4. CASE page \in {p, "home"}
    <3>1. UNCHANGED <<page, submitting, resending>> /\ asked' = Over(n)
      BY <2>1, <2>4 DEF Navigate, shown
    <3>2. ~asked[n].mine
      BY <2>3, <2>4
    <3> QED
      BY <1>2, <2>2, <2>3, <3>1, <3>2, EndsElsewhere
  <2>5. CASE page \notin {p, "home"}
    <3>1. PICK calls : calls = Over(n)
      OBVIOUS
    <3>2. /\ calls \in [Submits -> Submission] /\ Navigate(p, calls)
          /\ \A k \in Submits : calls[k].asks = "over" \/ calls[k] = asked[k]
      BY <2>1, <3>1, PagesFacts, OverChangesOne DEF Navigate
    <3> QED
      BY <1>2, <2>2, <2>5, <3>2, PageIsLeft
  <2> QED
    BY <2>4, <2>5
<1> QED
  BY <1>1, <1>2

\* A code was mailed for a sign-in: its page opens, with its session.
LEMMA StartedKeeps ==
  ASSUME PagesInv, NEW n \in Submits, Started(n), UNCHANGED <<registered, mailed>>
  PROVE  PagesInv'
<1> DEFINE session == asked[n].session
<1>1. /\ asked[n].asks = "start" /\ asked[n].answer = "ok" /\ Sends(n) /\ UNCHANGED requestedFor
      /\ challenge' = [email |-> asked[n].email, session |-> session]
      /\ heard' = heard \cup {session} /\ Navigate("verify", Over(n))
      /\ leftPage' = (~asked[n].mine \/ \E s \in heard : s > session)
  BY DEF Started, Sends
<1>2. /\ session \in 1 .. Len(mailed) /\ mailed[session] = asked[n].email /\ asked[n].email \in Emails
      /\ asked[n].mine => page \notin {"verify", "home"}
      /\ asked[n].mine \in BOOLEAN
  BY <1>1, PagesFacts, SenderFacts, PagesOfEach DEF SessionsWereMailed
<1>3. /\ heard' \subseteq 1 .. Len(mailed) /\ leftPage' \in BOOLEAN
      /\ ~leftPage' => asked[n].mine /\ \A s \in heard : ~(s > session)
  <2>1. leftPage' \in BOOLEAN /\ (~leftPage' => asked[n].mine /\ \A s \in heard : ~(s > session))
    <3> HIDE DEF session
    <3> QED
      BY <1>1, <1>2, Zenon
  <2> QED
    BY <1>1, <1>2, <2>1, PagesFacts
<1>4. challenge' \in [email : Emails, session : 1 .. Len(mailed)]
  BY <1>1, <1>2
<1>5. CodeOpens'
  <2> SUFFICES ASSUME ~leftPage' PROVE \A s \in heard' : s <= session
    BY <1>1, <1>2 DEF CodeOpens
  <2>1. \A s \in heard : s \in Nat
    BY PagesFacts
  <2> QED
    BY <1>1, <1>2, <1>3, <2>1
<1>6. CASE page \in {"verify", "home"}
  <2>1. UNCHANGED <<page, submitting, resending>> /\ asked' = Over(n)
    BY <1>1, <1>6 DEF Navigate, shown
  <2>2. PICK rec \in Submission : asked' = [asked EXCEPT ![n] = rec] /\ rec.asks = "over" /\ ~rec.mine
    BY <2>1, PagesFacts, OverIsSubmission
  <2>3. ~asked[n].mine /\ leftPage'
    BY <1>2, <1>3, <1>6
  <2>4. MadeHere' /\ ButtonsHeld'
    BY <1>1, <2>1, <2>2, <2>3, PagesFacts, OneGoesOn
  <2>5. asked' \in [Submits -> Submission] /\ SessionsWereMailed'
    BY <2>2, PagesFacts, OneKeepsSessions DEF PagesInv
  <2>6. PagesTypes'
    <3>1. AuthPagesTypeOK'
      BY <1>1, <1>3, <1>4, <2>1, PagesFacts DEF AuthPagesTypeOK
    <3> QED
      BY <1>3, <2>5, <3>1, PagesFacts DEF PagesTypes
  <2>7. ResendIsNewest'
    BY <2>3 DEF ResendIsNewest
  <2> QED
    BY <1>5, <2>4, <2>5, <2>6, <2>7 DEF PagesInv
<1>7. CASE page \notin {"verify", "home"}
  <2>1. PICK calls : calls = Over(n)
    OBVIOUS
  <2>2. /\ calls \in [Submits -> Submission] /\ Navigate("verify", calls)
        /\ \A k \in Submits : calls[k].asks = "over" \/ calls[k] = asked[k]
    BY <1>1, <2>1, PagesFacts, OverChangesOne DEF Navigate
  <2>3. /\ page' = "verify" /\ submitting' = FALSE /\ resending' = FALSE
        /\ asked' \in [Submits -> Submission]
        /\ \A k \in Submits :
             /\ ~asked'[k].mine /\ asked'[k].asks = calls[k].asks /\ asked'[k].email = calls[k].email
             /\ asked'[k].session = calls[k].session /\ asked'[k].answer = calls[k].answer
    BY <1>7, <2>2, NavigateLeaves
  <2>4. \A k \in Submits : /\ ~asked'[k].mine
                           /\ \/ asked'[k].asks = "over"
                              \/ /\ asked'[k].asks = asked[k].asks /\ asked'[k].email = asked[k].email
                                 /\ asked'[k].session = asked[k].session /\ asked'[k].answer = asked[k].answer
    BY <2>2, <2>3
  <2>5. page' \in CallPages \cup {"home"}
    BY <2>3 DEF CallPages
  <2>6. requestedFor' \in Emails \cup {NoEmail}
    BY <1>1, PagesFacts
  <2> QED
    BY <1>3, <1>4, <1>5, <2>3, <2>4, <2>5, <2>6, LeavingKeeps
<1> QED
  BY <1>6, <1>7

\* A resend brings the session of the newer code, to the page or past it.
LEMMA ResentKeeps ==
  ASSUME PagesInv, NEW n \in Submits, Resent(n), UNCHANGED <<registered, mailed>>
  PROVE  PagesInv'
<1> DEFINE session == asked[n].session
<1>1. /\ asked[n].asks = "resend" /\ asked[n].answer = "ok" /\ Sends(n)
      /\ UNCHANGED <<page, submitting, requestedFor>>
      /\ challenge' = IF challenge = NoChallenge THEN NoChallenge ELSE [challenge EXCEPT !.session = session]
      /\ heard' = heard \cup {session} /\ asked' = Over(n)
      /\ leftPage' = (leftPage \/ ~asked[n].mine)
      /\ resending' = (resending /\ ~asked[n].mine)
  BY DEF Resent, Renew, Sends, Ends
<1>2. /\ session \in 1 .. Len(mailed) /\ mailed[session] = asked[n].email /\ asked[n].mine \in BOOLEAN
      /\ asked[n].email \in Emails /\ leftPage \in BOOLEAN /\ resending \in BOOLEAN
  BY <1>1, PagesFacts, SenderFacts DEF SessionsWereMailed
<1>3. /\ leftPage' \in BOOLEAN /\ (~leftPage' => ~leftPage /\ asked[n].mine)
      /\ resending' \in BOOLEAN /\ (resending' <=> resending /\ ~asked[n].mine)
  BY <1>1, <1>2
<1>4. /\ challenge' = NoChallenge \/ challenge' \in [email : Emails, session : 1 .. Len(mailed)]
      /\ challenge # NoChallenge => challenge'.email = challenge.email /\ challenge'.session = session
      /\ challenge = NoChallenge => challenge' = NoChallenge
  BY <1>1, <1>2, PagesFacts
<1>5. PICK rec \in Submission : asked' = [asked EXCEPT ![n] = rec] /\ rec.asks = "over" /\ ~rec.mine
  BY <1>1, PagesFacts, OverIsSubmission
<1>6. MadeHere' /\ ButtonsHeld'
  <2>1. /\ submitting' <=> \/ rec.asks \notin {"nothing", "over", "resend"} /\ rec.mine
                           \/ submitting /\ ~(Sends(n) /\ asked[n].mine /\ asked[n].asks # "resend")
        /\ resending' <=> \/ rec.asks = "resend" /\ rec.mine
                          \/ resending /\ ~(Sends(n) /\ asked[n].mine /\ asked[n].asks = "resend")
    BY <1>1, <1>3, <1>5
  <2> QED
    BY <1>1, <1>5, <2>1, PagesFacts, OneGoesOn
<1>7. asked' \in [Submits -> Submission] /\ SessionsWereMailed'
  BY <1>5, PagesFacts, OneKeepsSessions DEF PagesInv
<1>8. PagesTypes'
  <2>1. heard' \subseteq 1 .. Len(mailed)
    BY <1>1, <1>2, PagesFacts
  <2>2. AuthPagesTypeOK'
    BY <1>1, <1>3, <1>4, PagesFacts DEF AuthPagesTypeOK
  <2> QED
    BY <1>7, <2>1, <2>2, PagesFacts DEF PagesTypes
<1>9. ASSUME ~leftPage'
      PROVE  /\ ~leftPage /\ asked[n].mine /\ \A s \in heard : s <= session
             /\ challenge # NoChallenge => asked[n].email = challenge.email
  BY <1>1, <1>3, <1>9, PagesFacts DEF ResendIsNewest
<1>10. CodeOpens'
  <2> SUFFICES ASSUME ~leftPage', challenge' # NoChallenge
               PROVE  /\ mailed[challenge'.session] = challenge'.email
                      /\ \A s \in heard' : s <= challenge'.session
    BY DEF CodeOpens
  <2>1. session \in Nat
    BY <1>2
  <2> QED
    BY <1>1, <1>2, <1>4, <1>9, <2>1
<1>11. ResendIsNewest'
  <2> SUFFICES ASSUME ~leftPage', NEW k \in Submits, asked'[k].asks = "resend", asked'[k].mine
               PROVE  FALSE
    BY DEF ResendIsNewest
  <2>1. k # n /\ asked'[k] = asked[k]
    BY <1>5, PagesFacts
  <2>2. Sends(k) /\ asked[k].mine /\ asked[k].asks = "resend"
    BY <2>1 DEF Sends
  <2>3. Sends(n) /\ asked[n].mine /\ asked[n].asks = "resend"
    BY <1>1, <1>9
  <2> QED
    BY <2>1, <2>2, <2>3, PagesFacts DEF MadeHere
<1> QED
  BY <1>6, <1>7, <1>8, <1>10, <1>11 DEF PagesInv

LEMMA InitPages == AuthPagesInit => PagesInv
<1> SUFFICES ASSUME AuthPagesInit PROVE PagesInv
  OBVIOUS
<1> USE DEF AuthPagesInit
<1>1. \A n \in Submits : asked[n] = Idle
  OBVIOUS
<1>2. asked \in [Submits -> Submission]
  BY IdleIsSubmission
<1>3. \A n \in Submits : asked[n].asks = "nothing"
  BY <1>1, IdleIsSubmission
<1>4. PagesTypes
  <2>1. AuthPagesTypeOK
    BY AuthPagesAssumption DEF AuthPagesTypeOK, CallPages
  <2> QED
    BY <1>2, <2>1 DEF PagesTypes
<1> QED
  BY <1>3, <1>4 DEF PagesInv, MadeHere, ButtonsHeld, SessionsWereMailed, CodeOpens, ResendIsNewest, Sends

\* For any addresses, submissions, links and lost answers, a button of the auth pages
\* is held exactly while its one request is out, and the code's page holds the newest
\* session that came of its address, unless an answer came to a page that was left
\* (login, register, verify and reset pages; OtpChallengeStore).
THEOREM AuthPagesStayHonest == AuthPagesSpec => []AuthPagesHonest
<1>1. PagesInv /\ [AuthPagesNext]_authPagesVars => PagesInv'
  <2> SUFFICES ASSUME PagesInv, [AuthPagesNext]_authPagesVars PROVE PagesInv'
    OBVIOUS
  <2>1. CASE UNCHANGED authPagesVars
    <3> USE <2>1 DEF authPagesVars, shown
    <3>1. PagesTypes'
      BY PagesFacts DEF PagesTypes, AuthPagesTypeOK
    <3>2. MadeHere' /\ ButtonsHeld'
      BY PagesFacts DEF MadeHere, ButtonsHeld, Sends
    <3>3. SessionsWereMailed' /\ CodeOpens' /\ ResendIsNewest'
      BY PagesFacts DEF SessionsWereMailed, CodeOpens, ResendIsNewest
    <3> QED
      BY <3>1, <3>2, <3>3 DEF PagesInv
  <2>2. ASSUME NEW n \in Submits, NEW e \in Emails,
               \/ LoginPassword(n, e) \/ LoginPasswordless(n, e) \/ RegisterPassword(n, e)
               \/ RegisterPasswordless(n, e) \/ ResetPasswordRequest(n, e) \/ SetNewPassword(n, e)
        PROVE  PagesInv'
    <3>1. PICK on \in CallPages, asks \in Asks \ {"nothing", "over", "resend"} :
            Submit(n, on, asks, e) /\ on \in PagesOf(asks)
      BY <2>2, PagesOfEach DEF LoginPassword, LoginPasswordless, RegisterPassword,
         RegisterPasswordless, ResetPasswordRequest, SetNewPassword, CallPages, Asks
    <3> QED
      BY <3>1, SubmitKeeps
  <2>3. ASSUME NEW n \in Submits, Hear(n) PROVE PagesInv'
    BY <2>3, HeardGoesOn, NavigatingKeeps, StartedKeeps, ResentKeeps DEF Hear
  <2> QED
    BY <2>1, <2>2, <2>3, CodePageKeeps, ServeKeeps, NavigatingKeeps DEF AuthPagesNext
<1>2. PagesInv => AuthPagesHonest
  <2> SUFFICES ASSUME PagesInv PROVE AuthPagesHonest
    OBVIOUS
  <2>1. AuthPagesTypeOK /\ CodeOpens
    BY DEF PagesInv, PagesTypes
  <2>2. submitting <=> Mine({"register", "register code", "start", "verify", "login", "me", "forgot", "confirm"}) # {}
    <3>1. \A n \in Submits : asked[n].asks \in Asks
      BY PagesFacts DEF Submission
    <3> QED
      BY <3>1, PagesFacts DEF ButtonsHeld, Mine, UnderWay, Sends, Asks
  <2>3. resending <=> Mine({"resend"}) # {}
    BY PagesFacts DEF ButtonsHeld, Mine, UnderWay, Sends
  <2> QED
    BY <2>1, <2>2, <2>3 DEF AuthPagesHonest, OneAtATime
<1> QED
  BY <1>1, <1>2, InitPages, PTL DEF AuthPagesSpec

-----------------------------------------------------------------------------
(***************************************************************************)
(* The live socket. Without two open() calls that cross, a tab is in one   *)
(* phase at a time: it awaits a token, waits to retry, or holds a socket   *)
(* which alone is live; or the store had no tokens.                        *)
(***************************************************************************)

HoldsSocket ==
    socket # 0 =>
        /\ wanted /\ opening = 0 /\ ~retry
        /\ \/ ws[socket] = "open" /\ status = "open" /\ silence = socket
           \/ ws[socket] = "dialing" /\ status = "connecting" /\ silence = 0
OthersAreClosed == \A i \in Sockets : ws[i] \in {"dialing", "open"} => socket = i
AwaitsToken == opening <= 1 /\ (opening > 0 /\ wanted => status = "connecting")
WaitsToRetry == retry => wanted /\ opening = 0 /\ status = "closed"
OnePhase ==
    /\ HoldsSocket /\ OthersAreClosed /\ AwaitsToken /\ WaitsToRetry
    /\ socket = 0 => silence = 0
    /\ wanted => mounted
    /\ wanted /\ ~bare => opening > 0 \/ retry \/ socket # 0

SocketInv == SocketTypeOK /\ (~doubled => OnePhase)

LEMMA SocketTypes ==
  SocketTypeOK <=>
    /\ status \in {"idle", "connecting", "open", "closed"} /\ socket \in 0 .. LastSocket
    /\ ws \in [Sockets -> {"unused", "dialing", "open", "closing", "closed"}]
    /\ opening \in Nat /\ delay \in 0 .. MaxDelay /\ silence \in 0 .. LastSocket
    /\ retry \in BOOLEAN /\ wanted \in BOOLEAN /\ mounted \in BOOLEAN
    /\ signedIn \in BOOLEAN /\ bare \in BOOLEAN /\ doubled \in BOOLEAN
BY DEF SocketTypeOK

LEMMA ZeroIsInRange == 0 \in 0 .. LastSocket /\ 0 \in 0 .. MaxDelay
  BY SocketAssumption

\* A step that leaves every variable of the types as it is, or in its type.
LEMMA SocketTypesKept ==
  ASSUME status' \in {"idle", "connecting", "open", "closed"}, socket' \in 0 .. LastSocket,
         ws' \in [Sockets -> {"unused", "dialing", "open", "closing", "closed"}],
         opening' \in Nat, delay' \in 0 .. MaxDelay, silence' \in 0 .. LastSocket,
         retry' \in BOOLEAN, wanted' \in BOOLEAN, mounted' \in BOOLEAN,
         signedIn' \in BOOLEAN, bare' \in BOOLEAN, doubled' \in BOOLEAN
  PROVE  SocketTypeOK'
BY DEF SocketTypeOK

\* An open() begins alone, or is one of two.
LEMMA OpenBegins ==
  ASSUME SocketTypeOK, Open
  PROVE  /\ status' = "connecting" /\ opening' = opening + 1 /\ opening' \in Nat
         /\ doubled' \in BOOLEAN
         /\ ~doubled' => ~doubled /\ opening = 0
<1>1. opening \in Nat /\ doubled \in BOOLEAN
  BY SocketTypes
<1>2. (opening > 0) \in BOOLEAN
  BY <1>1
<1>3. doubled' = (doubled \/ opening > 0)
  BY DEF Open
<1>4. doubled' \in BOOLEAN /\ (~doubled' => ~doubled /\ ~(opening > 0))
  BY <1>1, <1>2, <1>3, Zenon
<1> QED
  BY <1>1, <1>4 DEF Open

\* What is held is let go of, and nothing is wanted.
LEMMA DisconnectKeeps ==
  ASSUME SocketInv, Disconnect, mounted' \in BOOLEAN, signedIn' \in BOOLEAN
  PROVE  SocketInv'
<1> USE SocketTypes, SocketAssumption DEF SocketInv
<1>1. /\ wanted' = FALSE /\ retry' = FALSE /\ silence' = 0 /\ delay' = 0 /\ socket' = 0
      /\ ws' = [i \in Sockets |-> IF i = socket THEN "closing" ELSE ws[i]]
      /\ status' = "closed" /\ UNCHANGED <<opening, bare, doubled>>
  BY DEF Disconnect
<1>2. SocketTypeOK'
  <2>1. ws' \in [Sockets -> {"unused", "dialing", "open", "closing", "closed"}]
    BY <1>1
  <2> QED
    BY <1>1, <2>1, SocketTypesKept, ZeroIsInRange, Zenon
<1>3. ASSUME ~doubled' PROVE OnePhase'
  <2>1. OnePhase
    BY <1>1, <1>3
  <2>2. \A i \in Sockets : ws'[i] \notin {"dialing", "open"}
    BY <1>1, <2>1 DEF OnePhase, OthersAreClosed
  <2> QED
    BY <1>1, <2>1, <2>2 DEF OnePhase, HoldsSocket, OthersAreClosed, AwaitsToken, WaitsToRetry
<1> QED
  BY <1>2, <1>3

\* A socket that is lost, by any of its events, leaves a retry behind.
LEMMA LostKeeps ==
  ASSUME SocketInv, NEW i \in Sockets, NEW end \in {"closing", "closed"},
         ws' \in {ws, [ws EXCEPT ![i] = end]},
         ws'[i] \notin {"dialing", "open"}, Lost(i),
         UNCHANGED <<opening, wanted, mounted, signedIn, bare, doubled>>
  PROVE  SocketInv'
<1> USE SocketTypes, SocketAssumption DEF SocketInv
<1>1. /\ ws' \in [Sockets -> {"unused", "dialing", "open", "closing", "closed"}]
      /\ \A j \in Sockets : j # i => ws'[j] = ws[j]
  OBVIOUS
<1>2. CASE socket = i
  <2>1. /\ silence' = 0 /\ socket' = 0 /\ status' = "closed"
        /\ \/ wanted /\ ~retry /\ retry' = TRUE /\ delay' \in 0 .. MaxDelay
           \/ ~(wanted /\ ~retry) /\ UNCHANGED <<retry, delay>>
    BY <1>2 DEF Lost, Current
  <2>2. SocketTypeOK'
    BY <1>1, <2>1, SocketTypesKept, ZeroIsInRange, Zenon
  <2>3. ASSUME ~doubled' PROVE OnePhase'
    <3>1. OnePhase /\ socket # 0 /\ wanted /\ opening = 0 /\ ~retry
      BY <1>2, <2>3 DEF OnePhase, HoldsSocket, Sockets
    <3> QED
      BY <1>1, <1>2, <2>1, <3>1 DEF OnePhase, HoldsSocket, OthersAreClosed, AwaitsToken, WaitsToRetry
  <2> QED
    BY <2>2, <2>3
<1>3. CASE socket # i
  <2>1. UNCHANGED <<silence, socket, status, retry, delay>>
    BY <1>3 DEF Lost, Current
  <2>2. SocketTypeOK'
    BY <1>1, <2>1, SocketTypesKept
  <2>3. ASSUME ~doubled' PROVE OnePhase'
    <3>1. OnePhase /\ (socket # 0 => ws'[socket] = ws[socket])
      BY <1>1, <1>3, <2>3 DEF Sockets
    <3> QED
      BY <1>1, <1>3, <2>1, <3>1 DEF OnePhase, HoldsSocket, OthersAreClosed, AwaitsToken, WaitsToRetry
  <2> QED
    BY <2>2, <2>3
<1> QED
  BY <1>2, <1>3

\* The token is read: a socket is dialled, if it is still wanted and there is a token.
LEMMA TokenReadKeeps == SocketInv /\ TokenRead => SocketInv'
<1> SUFFICES ASSUME SocketInv, TokenRead PROVE SocketInv'
  OBVIOUS
<1> USE SocketTypes, SocketAssumption DEF SocketInv
<1>1. /\ opening > 0 /\ opening' = opening - 1 /\ opening' \in Nat
      /\ UNCHANGED <<retry, delay, silence, wanted, mounted, signedIn, doubled>>
  BY DEF TokenRead
<1>2. ~doubled' => OnePhase /\ socket = 0 /\ opening' = 0 /\ ~retry
  BY <1>1 DEF OnePhase, HoldsSocket, AwaitsToken, WaitsToRetry
<1>3. CASE ~wanted /\ UNCHANGED <<status, socket, ws, bare>>
  <2>1. SocketTypeOK'
    BY <1>1, <1>3, SocketTypesKept
  <2> QED
    BY <1>1, <1>2, <1>3, <2>1 DEF OnePhase, HoldsSocket, OthersAreClosed, AwaitsToken, WaitsToRetry
<1>4. CASE wanted /\ status' = "closed" /\ bare' = TRUE /\ UNCHANGED <<socket, ws>>
  <2>1. SocketTypeOK'
    BY <1>1, <1>4, SocketTypesKept
  <2> QED
    BY <1>1, <1>2, <1>4, <2>1 DEF OnePhase, HoldsSocket, OthersAreClosed, AwaitsToken, WaitsToRetry
<1>5. ASSUME NEW i \in Sockets, wanted, ws' = [ws EXCEPT ![i] = "dialing"], socket' = i,
             bare' = FALSE, UNCHANGED status
      PROVE  SocketInv'
  <2>1. /\ \A j \in Sockets : ws'[j] = IF j = i THEN "dialing" ELSE ws[j]
        /\ ws' \in [Sockets -> {"unused", "dialing", "open", "closing", "closed"}]
        /\ i \in 0 .. LastSocket /\ i # 0
    BY <1>5 DEF Sockets
  <2>2. SocketTypeOK'
    BY <1>1, <1>5, <2>1, SocketTypesKept
  <2>3. ASSUME ~doubled' PROVE OnePhase'
    <3>1. \A j \in Sockets : ws[j] \notin {"dialing", "open"}
      BY <1>2, <2>3 DEF OnePhase, OthersAreClosed, Sockets
    <3>2. status = "connecting" /\ silence = 0 /\ mounted
      BY <1>1, <1>2, <1>5, <2>3 DEF OnePhase, AwaitsToken
    <3> QED
      BY <1>1, <1>2, <1>5, <2>1, <2>3, <3>1, <3>2
         DEF OnePhase, HoldsSocket, OthersAreClosed, AwaitsToken, WaitsToRetry
  <2> QED
    BY <2>2, <2>3
<1> QED
  BY <1>3, <1>4, <1>5 DEF TokenRead, StillWanted

\* A handshake completes, or a frame arrives.
LEMMA HeardKeepsSocket ==
  ASSUME SocketInv, NEW i \in Sockets, Opened(i) \/ Message(i)
  PROVE  SocketInv'
<1> USE SocketTypes, SocketAssumption DEF SocketInv
<1>1. /\ ws[i] \in {"dialing", "open"} /\ (ws' = [ws EXCEPT ![i] = "open"] \/ (ws[i] = "open" /\ UNCHANGED ws))
      /\ silence' = i /\ delay' \in 0 .. MaxDelay
      /\ UNCHANGED <<socket, opening, retry, wanted, mounted, signedIn, bare, doubled>>
      /\ status' = "open" \/ (UNCHANGED status /\ ws[i] = "open")
  BY DEF Opened, Message
<1>2. /\ \A j \in Sockets : j # i => ws'[j] = ws[j]
      /\ ws' \in [Sockets -> {"unused", "dialing", "open", "closing", "closed"}] /\ ws'[i] = "open"
      /\ ws[i] \in {"dialing", "open"} /\ i \in 0 .. LastSocket /\ i # 0
  <2>1. ws \in [Sockets -> {"unused", "dialing", "open", "closing", "closed"}]
    OBVIOUS
  <2>2. /\ \A j \in Sockets : j # i => ws'[j] = ws[j]
        /\ ws' \in [Sockets -> {"unused", "dialing", "open", "closing", "closed"}] /\ ws'[i] = "open"
    <3>1. CASE ws' = [ws EXCEPT ![i] = "open"]
      BY <2>1, <3>1
    <3>2. CASE ws[i] = "open" /\ UNCHANGED ws
      BY <2>1, <3>2
    <3> QED
      BY <1>1, <3>1, <3>2
  <2>3. i \in 0 .. LastSocket /\ i # 0
    BY DEF Sockets
  <2> QED
    BY <1>1, <2>2, <2>3
<1>3. SocketTypeOK'
  BY <1>1, <1>2, SocketTypesKept
<1>4. ASSUME ~doubled' PROVE OnePhase'
  <2>1. OnePhase /\ socket = i
    BY <1>1, <1>2, <1>4 DEF OnePhase, OthersAreClosed
  <2>2. status' = "open"
    BY <1>1, <1>2, <2>1 DEF OnePhase, HoldsSocket
  <2> QED
    BY <1>1, <1>2, <2>1, <2>2 DEF OnePhase, HoldsSocket, OthersAreClosed, AwaitsToken, WaitsToRetry
<1> QED
  BY <1>3, <1>4

\* A tab has one live socket, while and only while it is wanted, and never waits in
\* silence, for any number of sockets, losses and sign-outs, unless two open() calls
\* awaited their tokens at once or the store held none (NotificationsSocket).
THEOREM TabStaysAlive == SocketSpec => []TabStaysLive
<1> USE SocketAssumption
<1>1. SocketInit => SocketInv
  <2> SUFFICES ASSUME SocketInit PROVE SocketInv
    OBVIOUS
  <2>1. SocketTypeOK
    BY SocketTypes, ZeroIsInRange DEF SocketInit
  <2> QED
    BY <2>1 DEF SocketInit, SocketInv, OnePhase, HoldsSocket, OthersAreClosed, AwaitsToken, WaitsToRetry
<1>2. SocketInv /\ [SocketNext]_sockVars => SocketInv'
  <2> SUFFICES ASSUME SocketInv, [SocketNext]_sockVars PROVE SocketInv'
    OBVIOUS
  <2> USE SocketTypes DEF SocketInv
  <2>1. CASE UNCHANGED sockVars
    <3> USE <2>1 DEF sockVars
    <3>1. SocketTypeOK'
      BY SocketTypesKept
    <3> QED
      BY <3>1 DEF OnePhase, HoldsSocket, OthersAreClosed, AwaitsToken, WaitsToRetry
  <2>2. CASE Mount
    <3>1. /\ UNCHANGED <<socket, ws, retry, delay, silence, signedIn, bare>> /\ ~mounted /\ mounted' = TRUE
          /\ \/ UNCHANGED <<status, opening, wanted, doubled>>
             \/ wanted' = TRUE /\ Open
      BY <2>2 DEF Mount, ConnectTab
    <3>2. CASE UNCHANGED <<status, opening, wanted, doubled>>
      <4>1. SocketTypeOK'
        BY <3>1, <3>2, SocketTypesKept
      <4> QED
        BY <3>1, <3>2, <4>1 DEF OnePhase, HoldsSocket, OthersAreClosed, AwaitsToken, WaitsToRetry
    <3>3. CASE wanted' = TRUE /\ Open
      <4>1. SocketTypeOK'
        BY <3>1, <3>3, OpenBegins, SocketTypesKept
      <4>2. ASSUME ~doubled' PROVE OnePhase'
        <5>1. OnePhase /\ opening = 0 /\ opening' = 1 /\ status' = "connecting"
          BY <3>3, <4>2, OpenBegins
        <5>2. ~wanted /\ socket = 0 /\ ~retry
          BY <3>1, <5>1 DEF OnePhase, HoldsSocket, WaitsToRetry
        <5> QED
          BY <3>1, <3>3, <5>1, <5>2 DEF OnePhase, HoldsSocket, OthersAreClosed, AwaitsToken, WaitsToRetry
      <4> QED
        BY <4>1, <4>2
    <3> QED
      BY <3>1, <3>2, <3>3
  <2>3. CASE Unmount \/ SignOutBegins \/ SignOutEnds
    BY <2>3, DisconnectKeeps DEF Unmount, SignOutBegins, SignOutEnds
  <2>4. CASE SignInAgain
    <3>1. /\ signedIn' = TRUE
          /\ UNCHANGED <<status, socket, ws, opening, retry, delay, silence, wanted, mounted, bare, doubled>>
      BY <2>4 DEF SignInAgain
    <3>2. SocketTypeOK'
      BY <3>1, SocketTypesKept
    <3> QED
      BY <3>1, <3>2 DEF OnePhase, HoldsSocket, OthersAreClosed, AwaitsToken, WaitsToRetry
  <2>5. CASE TokenRead
    BY <2>5, TokenReadKeeps
  <2>6. CASE RetryFires \/ RetryNow
    <3>1. /\ Open /\ retry' = FALSE /\ delay' \in {0, delay} /\ (retry \/ (wanted /\ socket = 0))
          /\ UNCHANGED <<socket, ws, silence, wanted, mounted, signedIn, bare>>
      BY <2>6 DEF RetryFires, RetryNow
    <3>2. SocketTypeOK'
      <4>1. delay' \in 0 .. MaxDelay /\ status' \in {"idle", "connecting", "open", "closed"}
        BY <3>1, OpenBegins, ZeroIsInRange
      <4> QED
        BY <3>1, <4>1, OpenBegins, SocketTypesKept
    <3>3. ASSUME ~doubled' PROVE OnePhase'
      <4>1. OnePhase /\ opening = 0 /\ opening' = 1 /\ status' = "connecting"
        BY <3>1, <3>3, OpenBegins
      <4>2. wanted /\ socket = 0
        BY <3>1, <4>1 DEF OnePhase, HoldsSocket, WaitsToRetry
      <4> QED
        BY <3>1, <4>1, <4>2 DEF OnePhase, HoldsSocket, OthersAreClosed, AwaitsToken, WaitsToRetry
    <3> QED
      BY <3>2, <3>3
  <2>7. CASE Silence \/ Offline
    <3>1. PICK i \in Sockets : CloseNow(i)
      BY <2>7 DEF Silence, Offline, Sockets
    <3>2. /\ Lost(i) /\ UNCHANGED <<opening, wanted, mounted, signedIn, bare, doubled>>
          /\ ws' = [ws EXCEPT ![i] = IF @ \in {"dialing", "open"} THEN "closing" ELSE @]
      BY <3>1 DEF CloseNow
    <3>3. ws' \in {ws, [ws EXCEPT ![i] = "closing"]} /\ ws'[i] \notin {"dialing", "open"}
      BY <3>2
    <3> QED
      BY <3>2, <3>3, LostKeeps
  <2>8. ASSUME NEW i \in Sockets, Broken(i) \/ CloseEvent(i) PROVE SocketInv'
    BY <2>8, LostKeeps DEF Broken, CloseEvent, LostOnAny
  <2>9. ASSUME NEW i \in Sockets, Opened(i) \/ Message(i) PROVE SocketInv'
    BY <2>9, HeardKeepsSocket
  <2> QED
    BY <2>1, <2>2, <2>3, <2>4, <2>5, <2>6, <2>7, <2>8, <2>9 DEF SocketNext
<1>3. SocketInv => TabStaysLive
  <2> SUFFICES ASSUME SocketInv PROVE TabStaysLive
    OBVIOUS
  <2> USE SocketTypes DEF SocketInv, OnePhase
  <2>1. SocketFollowsSession
    BY DEF HoldsSocket, OthersAreClosed, WaitsToRetry, SocketFollowsSession, Live, Sockets
  <2>2. NeverStranded
    BY DEF HoldsSocket, NeverStranded, Live, Sockets
  <2>3. BadgeHonest
    BY DEF HoldsSocket, AwaitsToken, WaitsToRetry, BadgeHonest, LiveState
  <2> QED
    BY <2>1, <2>2, <2>3 DEF TabStaysLive
<1> QED
  BY <1>1, <1>2, <1>3, PTL DEF SocketSpec

-----------------------------------------------------------------------------
(***************************************************************************)
(* The notifications. The server's state only grows, so an answer of the   *)
(* size the server has now is of the server as it is now; and a row being  *)
(* marked is in one call's hands.                                          *)
(***************************************************************************)

\* What the server tells with a frame, a list or the end of a mark-as-read.
Pages == UNION {[D -> {"unread", "read"}] : D \in SUBSET Rows}
Frame == [row : Rows, count : Nat, size : Nat]
Listing == [at : {"none", "sent", "served"}, filter : Filters, page : Pages, count : Nat, size : Nat]
Mark == [at : {"none", "sent", "served", "failed", "done"}, ids : SUBSET Rows,
         enter : BOOLEAN, count : Nat, size : Nat]

DeliveryTypes ==
    /\ msg \in [Events -> {"queued", "taken", "done"}] /\ of \in [Rows -> Events \cup {NoEvent}]
    /\ step \in [Rows -> {"stored", "pushed", "over"}]
    /\ returns \in [Events -> Nat] /\ nth \in [Rows -> Nat]

InboxTypes ==
    /\ InboxTypeOK /\ DeliveryTypes /\ items \in Pages /\ newest \in Nat /\ late \in BOOLEAN
    /\ frames \subseteq Frame /\ listing \in Listing /\ marks \in [Marks -> Mark]

\* A row that anything speaks of was made.
RowsAreMade ==
    /\ \A f \in frames : f.row \in Made
    /\ DOMAIN listing.page \subseteq Made

\* What was counted when the server had all it has now is still the count.
Tells(count, size) == size <= Size /\ (size = Size => count = Cardinality(Unread))
AnswersTell ==
    /\ \A f \in frames : Tells(f.count, f.size)
    /\ listing.at = "served" => Tells(listing.count, listing.size)
    /\ \A m \in Marks : marks[m].at \in {"served", "failed"} => Tells(marks[m].count, marks[m].size)
    /\ newest <= Size /\ (newest = Size /\ ~late => badge = Cardinality(Unread))

\* The ids of a call are in its hands alone until it ends, and read once it was served.
MarksAreApart ==
    /\ \A m \in Marks :
         /\ marks[m].ids \subseteq marking
         /\ marks[m].at \in {"none", "done"} => marks[m].ids = {}
         /\ marks[m].at \in {"served", "failed"} => marks[m].ids \subseteq read
    /\ \A m, n \in Marks : m # n => marks[m].ids \cap marks[n].ids = {}
    /\ HighlightedIsRead

\* An event past its insert has its row; each delivery of it at most one, and one
\* still waiting to be received none.
EventsHaveRows ==
    /\ \A e \in Events : msg[e] # "queued" /\ Notifies(e) => \E r \in Made : of[r] = e
    /\ \A r \in Made : /\ nth[r] <= returns[of[r]]
                       /\ msg[of[r]] = "queued" => nth[r] < returns[of[r]]
    /\ \A q, r \in Made : q # r /\ of[q] = of[r] => nth[q] # nth[r]

InboxInv == InboxTypes /\ RowsAreMade /\ AnswersTell /\ MarksAreApart /\ EventsHaveRows

LEMMA RowsAreFinite ==
  ASSUME NEW S \in SUBSET Rows
  PROVE  IsFiniteSet(S) /\ Cardinality(S) \in Nat
<1>1. IsFiniteSet(Rows)
  BY FS_Interval, InboxAssumption DEF Rows
<1>2. IsFiniteSet(S)
  BY <1>1, FS_Subset
<1> QED
  BY <1>2, FS_CardinalityType

\* The size tells a server that has more rows, or more of them read, from one that has not.
LEMMA SizeTells ==
  ASSUME NEW A, NEW B \in SUBSET Rows, NEW C, NEW D \in SUBSET Rows,
         A \subseteq B, C \subseteq D
  PROVE  /\ Cardinality(A) + Cardinality(C) <= Cardinality(B) + Cardinality(D)
         /\ Cardinality(A) + Cardinality(C) = Cardinality(B) + Cardinality(D) => A = B /\ C = D
<1>1. /\ Cardinality(A) <= Cardinality(B)
      /\ Cardinality(B) = Cardinality(A) => A = B
  BY FS_Subset, RowsAreFinite
<1>2. /\ Cardinality(C) <= Cardinality(D)
      /\ Cardinality(D) = Cardinality(C) => C = D
  BY FS_Subset, RowsAreFinite
<1>3. /\ Cardinality(A) \in Nat /\ Cardinality(B) \in Nat
      /\ Cardinality(C) \in Nat /\ Cardinality(D) \in Nat
  BY RowsAreFinite
<1> QED
  BY <1>1, <1>2, <1>3

\* The server's counts are counts.
LEMMA CountsAreCounts ==
  ASSUME InboxTypeOK
  PROVE  /\ Made \subseteq Rows /\ read \subseteq Rows /\ Unread \subseteq Rows
         /\ Size \in Nat /\ Cardinality(Unread) \in Nat
<1>1. Made \subseteq Rows /\ read \subseteq Rows /\ Unread \subseteq Rows
  BY DEF InboxTypeOK, Made, Unread
<1>2. Cardinality(Made) \in Nat /\ Cardinality(read) \in Nat /\ Cardinality(Unread) \in Nat
  BY <1>1, RowsAreFinite
<1> QED
  BY <1>1, <1>2 DEF Size

LEMMA ServerStands ==
  ASSUME UNCHANGED <<of, read>>
  PROVE  Made' = Made /\ Unread' = Unread /\ Size' = Size
BY DEF Made, Unread, Size

\* The server only grows, and its size with it.
LEMMA ServerGrows ==
  ASSUME InboxTypes, Made \subseteq Made', read \subseteq read', read' \subseteq Rows
  PROVE  /\ Size \in Nat /\ Size' \in Nat /\ Size <= Size'
         /\ Size = Size' => Unread' = Unread
<1>1. Made' \subseteq Rows
  BY DEF Made
<1>2. /\ Size <= Size'
      /\ Size = Size' => Made' = Made /\ read' = read
  BY <1>1, SizeTells DEF Size
<1>3. Size \in Nat /\ Size' \in Nat
  <2>1. Cardinality(Made') \in Nat /\ Cardinality(read') \in Nat
    BY <1>1, RowsAreFinite
  <2> QED
    BY <2>1, CountsAreCounts DEF InboxTypes, Size
<1> QED
  BY <1>2, <1>3 DEF Unread

\* What the store takes from an answer is as old as the answer.
LEMMA AppliedTells ==
  ASSUME InboxTypes, AnswersTell, NEW count \in Nat, NEW size \in Nat, Tells(count, size),
         badge' = count, Applied(size)
  PROVE  /\ newest' \in Nat /\ late' \in BOOLEAN /\ newest' <= Size
         /\ newest' = Size /\ ~late' => badge' = Cardinality(Unread)
<1>1. Size \in Nat
  BY CountsAreCounts DEF InboxTypes
<1>2. newest \in Nat /\ newest <= Size /\ size <= Size /\ (size = Size => count = Cardinality(Unread))
  BY DEF InboxTypes, AnswersTell, Tells
<1>3. late' = (size < newest) /\ newest' = (IF size > newest THEN size ELSE newest)
  BY DEF Applied
<1>4. (size < newest) \in BOOLEAN
  BY <1>2
<1>5. late' \in BOOLEAN /\ (~late' => ~(size < newest))
  BY <1>3, <1>4, Zenon
<1>6. newest' \in Nat /\ newest' <= Size /\ (~(size < newest) => newest' = size)
  BY <1>1, <1>2, <1>3
<1> QED
  BY <1>2, <1>5, <1>6

\* A call is sent for rows that no other has in hand.
LEMMA SentKeepsMarks ==
  ASSUME InboxTypes, MarksAreApart, NEW m \in Marks, NEW rec \in Mark,
         marks[m].at = "none", rec.at = "sent", rec.ids \subseteq Made,
         rec.ids \cap marking = {},
         marks' = [marks EXCEPT ![m] = rec], marking' = marking \cup rec.ids,
         UNCHANGED <<of, read, highlighted>>
  PROVE  /\ marks' \in [Marks -> Mark] /\ marking' \subseteq Made
         /\ \A k \in Marks : marks'[k].at \in {"served", "failed"} => marks'[k] = marks[k]
         /\ MarksAreApart'
<1>1. \A k \in Marks : marks'[k] = IF k = m THEN rec ELSE marks[k]
  BY DEF InboxTypes
<1>2. marks' \in [Marks -> Mark] /\ marking' \subseteq Made
  BY DEF InboxTypes, InboxTypeOK
<1>3. \A k \in Marks : marks[k].ids \subseteq marking /\ marks[k].ids \subseteq marking'
  BY DEF MarksAreApart
<1>4. \A k, n \in Marks : k # n => marks'[k].ids \cap marks'[n].ids = {}
  BY <1>1, <1>3 DEF MarksAreApart
<1>5. \A k \in Marks : /\ marks'[k].ids \subseteq marking'
                       /\ marks'[k].at \in {"none", "done"} => marks'[k].ids = {}
                       /\ marks'[k].at \in {"served", "failed"} => marks'[k].ids \subseteq read
  BY <1>1, <1>3 DEF MarksAreApart
<1>6. HighlightedIsRead'
  BY DEF MarksAreApart, HighlightedIsRead
<1>7. MarksAreApart'
  BY <1>4, <1>5, <1>6 DEF MarksAreApart
<1> QED
  BY <1>1, <1>2, <1>7

LEMMA EnterKeepsMarks ==
  ASSUME InboxTypes, MarksAreApart, NEW m \in Marks,
         NEW held, DOMAIN held \subseteq Made, Enter(held, m), UNCHANGED <<of, read, highlighted>>
  PROVE  /\ marks' \in [Marks -> Mark] /\ marking' \subseteq Made
         /\ \A k \in Marks : marks'[k].at \in {"served", "failed"} => marks'[k] = marks[k]
         /\ MarksAreApart'
<1> DEFINE fresh == {r \in DOMAIN held : held[r] = "unread"} \ (highlighted \cup marking)
           rec == [NoMark EXCEPT !.at = "sent", !.ids = fresh, !.enter = TRUE]
<1>1. CASE UNCHANGED <<marks, marking>>
  BY <1>1 DEF InboxTypes, InboxTypeOK, MarksAreApart, HighlightedIsRead
<1>2. CASE Unsent(m) /\ marks' = [marks EXCEPT ![m] = rec] /\ marking' = marking \cup fresh
  <2>1. fresh \subseteq Made /\ fresh \cap marking = {} /\ Made \subseteq Rows
    BY DEF Made
  <2> HIDE DEF fresh
  <2>2. rec \in Mark /\ rec.at = "sent" /\ rec.ids = fresh
    BY <2>1 DEF Mark, NoMark
  <2> HIDE DEF rec
  <2>3. marks[m].at = "none"
    BY <1>2 DEF Unsent
  <2> QED
    BY <1>2, <2>1, <2>2, <2>3, SentKeepsMarks
<1> QED
  BY <1>1, <1>2 DEF Enter

\* A call that ends lets go of its rows; those of one served are read.
LEMMA EndKeepsMarks ==
  ASSUME InboxTypes, MarksAreApart, NEW m \in Marks, NEW ok \in BOOLEAN, MarkEnds(m, ok),
         ok => marks[m].at = "served"
  PROVE  /\ marks' \in [Marks -> Mark] /\ marking' \cup highlighted' \subseteq Made
         /\ \A k \in Marks : marks'[k].at \in {"served", "failed"} => marks'[k] = marks[k]
         /\ MarksAreApart'
<1> DEFINE rec == [NoMark EXCEPT !.at = "done"]
<1>1. rec \in Mark /\ rec.at = "done" /\ rec.ids = {}
  BY DEF Mark, NoMark
<1>2. /\ marks' = [marks EXCEPT ![m] = rec] /\ marking' = marking \ marks[m].ids
      /\ highlighted' \subseteq highlighted \cup (IF ok THEN marks[m].ids ELSE {})
      /\ UNCHANGED <<of, read>>
  BY DEF MarkEnds, Landed, serverVars, deliveries
<1> HIDE DEF rec
<1>3. \A k \in Marks : marks'[k] = IF k = m THEN rec ELSE marks[k]
  BY <1>2 DEF InboxTypes
<1>4. marks' \in [Marks -> Mark]
  BY <1>1, <1>2 DEF InboxTypes
<1>5. \A k \in Marks : /\ marks'[k].ids \subseteq marking'
                       /\ marks'[k].at \in {"none", "done"} => marks'[k].ids = {}
                       /\ marks'[k].at \in {"served", "failed"} => marks'[k].ids \subseteq read
  BY <1>1, <1>2, <1>3 DEF MarksAreApart
<1>6. \A k, n \in Marks : k # n => marks'[k].ids \cap marks'[n].ids = {}
  BY <1>1, <1>3 DEF MarksAreApart
<1>7. highlighted' \subseteq read /\ read \subseteq Made
  BY <1>2 DEF MarksAreApart, HighlightedIsRead, InboxTypes, InboxTypeOK
<1>8. MarksAreApart'
  BY <1>2, <1>5, <1>6, <1>7 DEF MarksAreApart, HighlightedIsRead
<1>9. marking' \subseteq Made
  BY <1>2 DEF InboxTypes, InboxTypeOK
<1> QED
  BY <1>1, <1>3, <1>4, <1>7, <1>8, <1>9

ConsumerStep ==
    \/ Stop \/ \E e \in Events : Consume(e) \/ Store(e) \/ ComesBack(e)
    \/ \E r \in Rows : Push(r) \/ DeleteMessage(r) \/ DeleteFails(r)

LEMMA RowsAreTyped ==
  ASSUME DeliveryTypes, NEW r \in Made
  PROVE  of[r] \in Events /\ nth[r] \in Nat /\ returns[of[r]] \in Nat
BY DEF DeliveryTypes, Made

\* An event that is delivered again has had fewer deliveries so far than from now on.
LEMMA ReturnKeepsRows ==
  ASSUME DeliveryTypes, EventsHaveRows, NEW S \in SUBSET Events, UNCHANGED <<of, nth>>,
         msg' = [e \in Events |-> IF e \in S THEN "queued" ELSE msg[e]],
         returns' = [e \in Events |-> IF e \in S THEN returns[e] + 1 ELSE returns[e]]
  PROVE  /\ msg' \in [Events -> {"queued", "taken", "done"}] /\ returns' \in [Events -> Nat]
         /\ EventsHaveRows'
<1>1. /\ msg' \in [Events -> {"queued", "taken", "done"}] /\ returns' \in [Events -> Nat]
      /\ Made' = Made
  BY DEF DeliveryTypes, Made
<1>2. \A e \in Events : msg'[e] # "queued" /\ Notifies(e) => \E r \in Made : of[r] = e
  BY DEF EventsHaveRows
<1>3. ASSUME NEW r \in Made
      PROVE  nth[r] <= returns'[of[r]] /\ (msg'[of[r]] = "queued" => nth[r] < returns'[of[r]])
  <2>1. of[r] \in Events /\ nth[r] \in Nat /\ returns[of[r]] \in Nat /\ nth[r] <= returns[of[r]]
    BY RowsAreTyped DEF EventsHaveRows
  <2>2. CASE of[r] \in S
    <3>1. returns'[of[r]] = returns[of[r]] + 1
      BY <2>1, <2>2
    <3> QED
      BY <2>1, <3>1
  <2>3. CASE of[r] \notin S
    <3>1. returns'[of[r]] = returns[of[r]] /\ msg'[of[r]] = msg[of[r]]
      BY <2>1, <2>3
    <3> QED
      BY <2>1, <3>1 DEF EventsHaveRows
  <2> QED
    BY <2>2, <2>3
<1> QED
  BY <1>1, <1>2, <1>3 DEF EventsHaveRows, Notifies

\* A step of the queue's consumer.
LEMMA ConsumerKeepsInbox ==
  ASSUME InboxInv, ConsumerStep
  PROVE  InboxInv'
<1> USE InboxAssumption
<1>1. /\ InboxTypes /\ InboxTypeOK /\ RowsAreMade /\ AnswersTell /\ MarksAreApart /\ EventsHaveRows
      /\ DeliveryTypes
      /\ Made \subseteq Rows /\ read \subseteq Rows /\ Size \in Nat /\ Cardinality(Unread) \in Nat
  BY CountsAreCounts DEF InboxInv, InboxTypes
<1>2. UNCHANGED <<read, newest, late>> /\ UNCHANGED storeState
  BY DEF ConsumerStep, Consume, Store, Push, DeleteMessage, DeleteFails, ComesBack, Again, Stop, inboxHist
<1> USE <1>2 DEF storeState
\* What the step has to show of the server.
<1>3. ASSUME DeliveryTypes', Made \subseteq Made',
             frames' \subseteq Frame, \A f \in frames' \ frames : f.row \in Made' /\ Tells(f.count, f.size)',
             EventsHaveRows'
      PROVE  InboxInv'
  <2>1. InboxTypes'
    BY <1>1, <1>3 DEF InboxTypes, InboxTypeOK, DeliveryTypes
  <2>2. RowsAreMade'
    BY <1>1, <1>3 DEF RowsAreMade
  <2>3. AnswersTell'
    <3>1. /\ Size' \in Nat /\ Size <= Size'
          /\ Size = Size' => Unread' = Unread
      BY <1>1, <1>3, ServerGrows
    <3>2. \A f \in frames : f.size \in Nat
      BY <1>1 DEF InboxTypes, Frame
    <3>3. \A f \in frames' : Tells(f.count, f.size)'
      BY <1>1, <1>3, <3>1, <3>2 DEF AnswersTell, Tells
    <3>4. listing.at = "served" => Tells(listing.count, listing.size)'
      BY <1>1, <3>1 DEF InboxTypes, Listing, AnswersTell, Tells
    <3>5. \A m \in Marks : marks[m].at \in {"served", "failed"} => Tells(marks[m].count, marks[m].size)'
      BY <1>1, <3>1 DEF InboxTypes, Mark, AnswersTell, Tells
    <3>6. newest <= Size' /\ (newest = Size' /\ ~late => badge = Cardinality(Unread'))
      BY <1>1, <3>1 DEF InboxTypes, AnswersTell
    <3> QED
      BY <3>3, <3>4, <3>5, <3>6 DEF AnswersTell
  <2>4. MarksAreApart'
    BY <1>1 DEF MarksAreApart, HighlightedIsRead
  <2> QED
    BY <1>3, <2>1, <2>2, <2>3, <2>4 DEF InboxInv
\* A step that makes no row and sends no frame.
<1>4. ASSUME UNCHANGED <<of, nth, frames>>, step' \in [Rows -> {"stored", "pushed", "over"}],
             msg' \in [Events -> {"queued", "taken", "done"}], returns' \in [Events -> Nat],
             EventsHaveRows'
      PROVE  InboxInv'
  <2>1. Made' = Made /\ DeliveryTypes'
    BY <1>1, <1>4 DEF Made, DeliveryTypes
  <2> QED
    BY <1>1, <1>3, <1>4, <2>1 DEF InboxTypes
<1>5. ASSUME NEW e \in Events, Consume(e) PROVE InboxInv'
  <2>1. UNCHANGED <<of, step, returns, nth, frames>> /\ msg' = [msg EXCEPT ![e] = "done"] /\ ~Notifies(e)
    BY <1>5 DEF Consume
  <2>2. Made' = Made /\ \A r \in Made : of[r] \in Events
    BY <1>1, <2>1 DEF Made, DeliveryTypes
  <2>3. EventsHaveRows'
    BY <1>1, <2>1, <2>2 DEF EventsHaveRows, DeliveryTypes, Notifies
  <2> QED
    BY <1>1, <1>4, <2>1, <2>3 DEF DeliveryTypes
<1>6. ASSUME NEW e \in Events, Store(e) PROVE InboxInv'
  <2>1. PICK r \in Rows \ Made : /\ of' = [of EXCEPT ![r] = e] /\ step' = [step EXCEPT ![r] = "stored"]
                                /\ nth' = [nth EXCEPT ![r] = returns[e]]
    BY <1>6 DEF Store
  <2>2. UNCHANGED <<frames, returns>> /\ msg' = [msg EXCEPT ![e] = "taken"] /\ msg[e] = "queued"
    BY <1>6 DEF Store
  <2>3. /\ Made' = Made \cup {r} /\ of'[r] = e /\ nth'[r] = returns[e] /\ returns[e] \in Nat
        /\ \A q \in Made : /\ q # r /\ of'[q] = of[q] /\ nth'[q] = nth[q]
                           /\ of[q] \in Events /\ nth[q] \in Nat
        /\ DeliveryTypes'
    <3>1. of'[r] = e /\ nth'[r] = returns[e] /\ returns[e] \in Nat /\ e # NoEvent
      BY <1>1, <2>1 DEF DeliveryTypes
    <3>2. \A q \in Rows : q # r => of'[q] = of[q] /\ nth'[q] = nth[q]
      BY <1>1, <2>1 DEF DeliveryTypes
    <3>3. Made' = Made \cup {r}
      BY <3>1, <3>2, <2>1 DEF Made
    <3>4. \A q \in Made : of[q] \in Events /\ nth[q] \in Nat
      BY <1>1, RowsAreTyped
    <3>5. DeliveryTypes'
      BY <1>1, <2>1, <2>2 DEF DeliveryTypes
    <3> QED
      BY <1>1, <3>1, <3>2, <3>3, <3>4, <3>5
  <2>4. EventsHaveRows'
    <3>1. \A d \in Events : msg'[d] # "queued" /\ Notifies(d) => \E q \in Made' : of'[q] = d
      BY <1>1, <2>2, <2>3 DEF EventsHaveRows, DeliveryTypes
    <3>2. ASSUME NEW q \in Made'
          PROVE  nth'[q] <= returns[of'[q]] /\ (msg'[of'[q]] = "queued" => nth'[q] < returns[of'[q]])
      <4>1. CASE q = r
        BY <1>1, <2>2, <2>3, <4>1 DEF DeliveryTypes
      <4>2. CASE q \in Made
        <5>1. /\ of[q] \in Events /\ nth[q] \in Nat /\ returns[of[q]] \in Nat
              /\ nth[q] <= returns[of[q]] /\ (msg[of[q]] = "queued" => nth[q] < returns[of[q]])
          BY <1>1, <4>2, RowsAreTyped DEF EventsHaveRows
        <5>2. msg'[of[q]] = "queued" => msg[of[q]] = "queued"
          BY <1>1, <2>2, <5>1 DEF DeliveryTypes
        <5> QED
          BY <2>3, <4>2, <5>1, <5>2
      <4> QED
        BY <2>3, <4>1, <4>2
    <3>3. \A q \in Made : of[q] = e => nth[q] # returns[e]
      BY <1>1, <2>2, <2>3 DEF EventsHaveRows
    <3>4. \A p, q \in Made' : p # q /\ of'[p] = of'[q] => nth'[p] # nth'[q]
      BY <1>1, <2>3, <3>3 DEF EventsHaveRows
    <3> QED
      BY <2>2, <3>1, <3>2, <3>4 DEF EventsHaveRows, Notifies
  <2> QED
    BY <1>1, <1>3, <2>2, <2>3, <2>4 DEF InboxTypes
<1>7. ASSUME NEW r \in Rows, Push(r) PROVE InboxInv'
  <2>1. UNCHANGED <<of, returns, nth>> /\ step' = [step EXCEPT ![r] = "pushed"] /\ r \in Made
    BY <1>7 DEF Push
  <2>2. Made' = Made /\ Unread' = Unread /\ Size' = Size
    BY <1>2, <2>1, ServerStands
  <2>3. UNCHANGED msg
    BY <1>1, <1>7 DEF Push, Caught, DeliveryTypes
  <2>4. EventsHaveRows' /\ DeliveryTypes'
    <3>1. EventsHaveRows'
      BY <1>1, <2>1, <2>2, <2>3 DEF EventsHaveRows, Notifies
    <3>2. DeliveryTypes'
      BY <1>1, <2>1, <2>3 DEF DeliveryTypes
    <3> QED
      BY <3>1, <3>2
  <2>5. CASE UNCHANGED frames
    BY <1>1, <1>3, <2>2, <2>4, <2>5 DEF InboxTypes
  <2>6. CASE ~UNCHANGED frames
    <3>1. frames' = frames \cup {[row |-> r, count |-> Cardinality(Unread), size |-> Size]}
      BY <1>7, <2>6 DEF Push
    <3>2. PICK count \in Nat, size \in Nat : count = Cardinality(Unread) /\ size = Size
      BY <1>1
    <3>3. Tells(count, size)'
      BY <2>2, <3>2 DEF Tells
    <3>4. frames' = frames \cup {[row |-> r, count |-> count, size |-> size]}
      BY <3>1, <3>2
    <3>5. frames' \subseteq Frame
      BY <1>1, <3>4 DEF InboxTypes, Frame
    <3>6. \A f \in frames' \ frames : f.row = r /\ f.count = count /\ f.size = size
      BY <3>4
    <3>7. \A f \in frames' \ frames : f.row \in Made' /\ Tells(f.count, f.size)'
      BY <2>1, <2>2, <3>3, <3>6
    <3> QED
      BY <1>1, <1>3, <2>2, <2>4, <3>5, <3>7
  <2> QED
    BY <2>5, <2>6
<1>8. ASSUME NEW r \in Rows, DeleteMessage(r) PROVE InboxInv'
  <2>1. UNCHANGED <<of, returns, nth, frames>> /\ step' = [step EXCEPT ![r] = "over"] /\ r \in Made
    BY <1>8 DEF DeleteMessage
  <2>2. of[r] \in Events /\ Made' = Made
    BY <1>1, <2>1 DEF Made, DeliveryTypes
  <2>3. UNCHANGED msg \/ msg' = [msg EXCEPT ![of[r]] = "done"]
    BY <1>8 DEF DeleteMessage
  <2>4. /\ msg' \in [Events -> {"queued", "taken", "done"}]
        /\ \A d \in Events : msg'[d] = msg[d] \/ (d = of[r] /\ msg'[d] = "done")
    BY <1>1, <2>2, <2>3 DEF DeliveryTypes
  <2>5. EventsHaveRows'
    <3>1. \A q \in Made : of[q] \in Events
      BY <1>1 DEF Made, DeliveryTypes
    <3> QED
      BY <1>1, <2>1, <2>2, <2>4, <3>1 DEF EventsHaveRows, Notifies
  <2> QED
    BY <1>1, <1>4, <2>1, <2>4, <2>5 DEF DeliveryTypes
\* The steps that deliver an event again.
<1>9. ASSUME NEW e \in Events, Again(e), step' \in [Rows -> {"stored", "pushed", "over"}]
      PROVE  InboxInv'
  <2>1. /\ UNCHANGED <<of, nth, frames>>
        /\ msg' = [d \in Events |-> IF d \in {e} THEN "queued" ELSE msg[d]]
        /\ returns' = [d \in Events |-> IF d \in {e} THEN returns[d] + 1 ELSE returns[d]]
    BY <1>1, <1>9 DEF Again, DeliveryTypes
  <2>2. {e} \in SUBSET Events
    OBVIOUS
  <2> QED
    BY <1>1, <1>4, <1>9, <2>1, <2>2, ReturnKeepsRows
<1>10. ASSUME NEW e \in Events, ComesBack(e) PROVE InboxInv'
  BY <1>1, <1>9, <1>10 DEF ComesBack, DeliveryTypes
<1>11. ASSUME NEW r \in Rows, DeleteFails(r) PROVE InboxInv'
  <2>1. Again(of[r]) /\ step' = [step EXCEPT ![r] = "over"] /\ of[r] \in Events
    BY <1>1, <1>11 DEF DeleteFails, Made, DeliveryTypes
  <2>2. step' \in [Rows -> {"stored", "pushed", "over"}]
    BY <1>1, <2>1 DEF DeliveryTypes
  <2> QED
    BY <1>9, <2>1, <2>2
<1>12. ASSUME Stop PROVE InboxInv'
  <2>1. /\ UNCHANGED <<of, nth, frames>> /\ step' = [r \in Rows |-> "over"]
        /\ msg' = [e \in Events |-> IF e \in Cut THEN "queued" ELSE msg[e]]
        /\ returns' = [e \in Events |-> IF e \in Cut THEN returns[e] + 1 ELSE returns[e]]
    BY <1>12 DEF Stop
  <2>2. Cut \in SUBSET Events
    BY <1>1 DEF Cut, Underway, Made, DeliveryTypes
  <2>3. step' \in [Rows -> {"stored", "pushed", "over"}]
    BY <2>1
  <2> QED
    BY <1>1, <1>4, <2>1, <2>2, <2>3, ReturnKeepsRows
<1> QED
  BY <1>5, <1>6, <1>7, <1>8, <1>10, <1>11, <1>12 DEF ConsumerStep

\* What a step of the store alone has to show.
LEMMA StoreStepKeeps ==
  ASSUME InboxInv, UNCHANGED <<deliveries, read>>, frames' \subseteq frames,
         items' \in Pages, DOMAIN items' \subseteq Made,
         listing' \in Listing, DOMAIN listing'.page \subseteq Made,
         listing'.at = "served" => Tells(listing.count, listing.size)',
         badge' \in Nat, filter' \in Filters, screen' \in {"other", "all"},
         newest' \in Nat, late' \in BOOLEAN, newest' <= Size,
         newest' = Size /\ ~late' => badge' = Cardinality(Unread),
         marks' \in [Marks -> Mark], marking' \cup highlighted' \subseteq Made,
         \A m \in Marks : marks'[m].at \in {"served", "failed"} => marks'[m] = marks[m],
         MarksAreApart'
  PROVE  InboxInv'
<1> USE DEF deliveries
<1>1. Made' = Made /\ Unread' = Unread /\ Size' = Size
  BY ServerStands
<1>2. InboxTypes'
  <2>1. \A r \in DOMAIN items' : items'[r] \in {"unread", "read"}
    BY DEF Pages
  <2>2. DeliveryTypes /\ DeliveryTypes' /\ read \subseteq Made
    BY DEF InboxInv, InboxTypes, InboxTypeOK, DeliveryTypes
  <2>3. listing'.at \in {"none", "sent", "served"}
    BY DEF Listing
  <2>4. \A m \in Marks : marks'[m].at \in {"none", "sent", "served", "failed", "done"}
    BY DEF Mark
  <2>5. InboxTypeOK'
    BY <1>1, <2>1, <2>2, <2>3, <2>4 DEF InboxTypeOK, DeliveryTypes
  <2> QED
    BY <2>2, <2>5 DEF InboxInv, InboxTypes
<1>3. RowsAreMade'
  BY <1>1 DEF InboxInv, RowsAreMade
<1>4. AnswersTell'
  BY <1>1 DEF InboxInv, AnswersTell, Tells
<1>5. EventsHaveRows'
  BY <1>1 DEF InboxInv, EventsHaveRows, Notifies
<1> QED
  BY <1>2, <1>3, <1>4, <1>5 DEF InboxInv

\* What the store stands on before a step of it.
LEMMA StoreFacts ==
  ASSUME InboxInv
  PROVE  /\ InboxTypes /\ RowsAreMade /\ AnswersTell /\ MarksAreApart
         /\ items \in Pages /\ DOMAIN items \subseteq Made /\ badge \in Nat /\ filter \in Filters
         /\ listing \in Listing /\ DOMAIN listing.page \subseteq Made
         /\ listing.at = "served" => Tells(listing.count, listing.size)
         /\ screen \in {"other", "all"} /\ newest \in Nat /\ late \in BOOLEAN /\ newest <= Size
         /\ newest = Size /\ ~late => badge = Cardinality(Unread)
         /\ marks \in [Marks -> Mark] /\ marking \cup highlighted \subseteq Made
         /\ read \subseteq Made /\ Made \subseteq Rows
         /\ Size \in Nat /\ Cardinality(Unread) \in Nat
BY CountsAreCounts DEF InboxInv, InboxTypes, InboxTypeOK, RowsAreMade, AnswersTell

\* A list is asked for, or one is under way already.
LEMMA FetchKeepsList ==
  ASSUME listing \in Listing, DOMAIN listing.page \subseteq Made, filter \in Filters,
         NEW f \in Filters, Fetch(f)
  PROVE  /\ listing' \in Listing /\ DOMAIN listing'.page \subseteq Made /\ filter' \in Filters
         /\ UNCHANGED listing \/ listing'.at = "sent"
<1>1. CASE UNCHANGED <<listing, filter>>
  BY <1>1
<1>2. CASE listing' = [NoList EXCEPT !.at = "sent", !.filter = f] /\ filter' = f
  <2>1. NoList.page \in Pages /\ DOMAIN NoList.page = {}
    BY DEF NoList, Pages
  <2>2. listing' = [at |-> "sent", filter |-> f, page |-> NoList.page, count |-> 0, size |-> 0]
    BY <1>2 DEF NoList
  <2> QED
    BY <1>2, <2>1, <2>2 DEF Listing
<1> QED
  BY <1>1, <1>2 DEF Fetch

LEMMA NoListIsEmpty ==
  NoList \in Listing /\ DOMAIN NoList.page = {} /\ NoList.at = "none"
<1>1. NoList.page \in Pages /\ DOMAIN NoList.page = {}
  BY DEF NoList, Pages
<1> QED
  BY <1>1 DEF NoList, Listing, Filters

\* A step that asks for a list, or shows or leaves a page.
LEMMA ListKeepsInbox ==
  ASSUME InboxInv,
         OpenPanel \/ ListServed \/ LeaveAll \/ \E f \in Filters : SetFilter(f)
  PROVE  InboxInv'
<1> USE DEF serverVars, deliveries, inboxHist
<1>1. /\ UNCHANGED <<deliveries, read, frames, newest, late, items, badge, marks, marking>>
      /\ Made' = Made /\ Unread' = Unread /\ Size' = Size
  BY ServerStands DEF OpenPanel, ListServed, LeaveAll, SetFilter
<1>2. CASE OpenPanel \/ \E f \in Filters : SetFilter(f)
  <2>1. UNCHANGED <<screen, highlighted>> /\ \E f \in Filters : Fetch(f)
    BY <1>2 DEF OpenPanel, SetFilter, Filters
  <2>2. /\ listing' \in Listing /\ DOMAIN listing'.page \subseteq Made /\ filter' \in Filters
        /\ UNCHANGED listing \/ listing'.at = "sent"
    BY <2>1, StoreFacts, FetchKeepsList
  <2>3. listing'.at = "served" => Tells(listing.count, listing.size)'
    BY <1>1, <2>2, StoreFacts DEF Tells
  <2>4. MarksAreApart'
    BY <1>1, <2>1, StoreFacts DEF MarksAreApart, HighlightedIsRead
  <2> QED
    BY <1>1, <2>1, <2>2, <2>3, <2>4, StoreFacts, StoreStepKeeps
<1>3. CASE ListServed
  <2> DEFINE leaf == [r \in Matches(listing.filter) |-> As(r)]
  <2>1. /\ UNCHANGED <<screen, highlighted, filter>>
        /\ listing' = [listing EXCEPT !.at = "served", !.page = leaf,
                                      !.count = Cardinality(Unread), !.size = Size]
    BY <1>3 DEF ListServed
  <2>2. Matches(listing.filter) \subseteq Made
    BY StoreFacts DEF Matches, Unread
  <2>3. leaf \in Pages /\ DOMAIN leaf \subseteq Made
    <3>1. leaf \in [Matches(listing.filter) -> {"unread", "read"}]
      BY DEF As
    <3> QED
      BY <2>2, <3>1, StoreFacts DEF Pages
  <2> HIDE DEF leaf
  <2>4. /\ listing' \in Listing /\ listing'.page = leaf
        /\ listing'.count = Cardinality(Unread) /\ listing'.size = Size
    BY <2>1, <2>3, StoreFacts DEF Listing
  <2>5. Tells(listing.count, listing.size)'
    BY <1>1, <2>4, StoreFacts DEF Tells
  <2>6. MarksAreApart'
    BY <1>1, <2>1, StoreFacts DEF MarksAreApart, HighlightedIsRead
  <2>7. DOMAIN listing'.page \subseteq Made
    BY <2>3, <2>4
  <2> QED
    BY <1>1, <2>1, <2>4, <2>5, <2>6, <2>7, StoreFacts, StoreStepKeeps
<1>4. CASE LeaveAll
  <2>1. UNCHANGED <<filter, listing>> /\ highlighted' = {} /\ screen' = "other"
    BY <1>4 DEF LeaveAll
  <2>2. MarksAreApart'
    BY <1>1, <2>1, StoreFacts DEF MarksAreApart, HighlightedIsRead
  <2>3. listing'.at = "served" => Tells(listing.count, listing.size)'
    BY <1>1, <2>1, StoreFacts DEF Tells
  <2> QED
    BY <1>1, <2>1, <2>2, <2>3, StoreFacts, StoreStepKeeps
<1> QED
  BY <1>2, <1>3, <1>4

\* The list arrives or fails, and the All screen goes on with what is held.
LEMMA HeardKeepsInbox ==
  ASSUME InboxInv, NEW m \in Marks, ListHeard(m) \/ GoAll(m)
  PROVE  InboxInv'
<1> USE DEF serverVars, deliveries, inboxHist
<1>1. /\ UNCHANGED <<deliveries, read, frames, highlighted>>
      /\ Made' = Made /\ Unread' = Unread /\ Size' = Size
  BY ServerStands DEF ListHeard, GoAll
<1>2. ASSUME NEW held, DOMAIN held \subseteq Made, UNCHANGED <<marks, marking>> \/ Enter(held, m)
      PROVE  /\ marks' \in [Marks -> Mark] /\ marking' \cup highlighted' \subseteq Made
             /\ \A k \in Marks : marks'[k].at \in {"served", "failed"} => marks'[k] = marks[k]
             /\ MarksAreApart'
  <2>1. CASE UNCHANGED <<marks, marking>>
    BY <1>1, <2>1, StoreFacts DEF MarksAreApart, HighlightedIsRead
  <2>2. CASE Enter(held, m)
    BY <1>1, <1>2, <2>2, StoreFacts, EnterKeepsMarks
  <2> QED
    BY <1>2, <2>1, <2>2
<1>3. CASE ListHeard(m)
  <2>1. /\ listing' = NoList /\ UNCHANGED <<filter, screen>>
        /\ UNCHANGED <<marks, marking>> \/ Enter(items', m)
    BY <1>3 DEF ListHeard
  <2>2. /\ items' \in Pages /\ DOMAIN items' \subseteq Made /\ badge' \in Nat
        /\ newest' \in Nat /\ late' \in BOOLEAN /\ newest' <= Size
        /\ newest' = Size /\ ~late' => badge' = Cardinality(Unread)
    <3>1. CASE UNCHANGED <<items, badge, newest, late>>
      BY <3>1, StoreFacts
    <3>2. CASE /\ listing.at = "served" /\ items' = listing.page /\ badge' = listing.count
               /\ Applied(listing.size)
      <4>1. /\ items' \in Pages /\ DOMAIN items' \subseteq Made
            /\ listing.count \in Nat /\ listing.size \in Nat
        BY <3>2, StoreFacts DEF Listing
      <4> QED
        BY <3>2, <4>1, StoreFacts, AppliedTells
    <3> QED
      BY <1>3, <3>1, <3>2 DEF ListHeard
  <2>3. PICK held : held = items'
    OBVIOUS
  <2>4. UNCHANGED <<marks, marking>> \/ Enter(held, m)
    BY <2>1, <2>3 DEF Enter
  <2>5. /\ marks' \in [Marks -> Mark] /\ marking' \cup highlighted' \subseteq Made
        /\ \A k \in Marks : marks'[k].at \in {"served", "failed"} => marks'[k] = marks[k]
        /\ MarksAreApart'
    BY <1>2, <2>2, <2>3, <2>4
  <2>6. listing' \in Listing /\ DOMAIN listing'.page \subseteq Made /\ listing'.at # "served"
    BY <2>1, NoListIsEmpty
  <2> QED
    BY <1>1, <2>1, <2>2, <2>5, <2>6, StoreFacts, StoreStepKeeps
<1>4. CASE GoAll(m)
  <2>1. UNCHANGED <<items, badge, newest, late>> /\ screen' = "all"
    BY <1>4 DEF GoAll
  <2>2. UNCHANGED <<marks, marking>> \/ Enter(items, m)
    BY <1>4 DEF GoAll
  <2>3. /\ marks' \in [Marks -> Mark] /\ marking' \cup highlighted' \subseteq Made
        /\ \A k \in Marks : marks'[k].at \in {"served", "failed"} => marks'[k] = marks[k]
        /\ MarksAreApart'
    BY <1>2, <2>2, StoreFacts
  <2>4. /\ listing' \in Listing /\ DOMAIN listing'.page \subseteq Made /\ filter' \in Filters
        /\ UNCHANGED listing \/ listing'.at = "sent"
    <3>1. UNCHANGED <<listing, filter>> \/ Fetch(filter)
      BY <1>4 DEF GoAll
    <3>2. PICK f \in Filters : f = filter
      BY StoreFacts
    <3>3. UNCHANGED <<listing, filter>> \/ Fetch(f)
      BY <3>1, <3>2
    <3> QED
      BY <3>3, FetchKeepsList, StoreFacts
  <2>5. listing'.at = "served" => Tells(listing.count, listing.size)'
    BY <1>1, <2>4, StoreFacts DEF Tells
  <2> QED
    BY <1>1, <2>1, <2>3, <2>4, <2>5, StoreFacts, StoreStepKeeps
<1> QED
  BY <1>3, <1>4

\* A step of a mark-as-read call.
LEMMA MarkKeepsInbox ==
  ASSUME InboxInv, NEW m \in Marks,
         MarkAllRead(m) \/ MarkServed(m) \/ MarkLanded(m) \/ MarkFailed(m)
  PROVE  InboxInv'
<1> USE DEF serverVars, deliveries, inboxHist
<1>1. UNCHANGED <<deliveries, frames, listing, filter, screen>> /\ Made' = Made
  BY DEF MarkAllRead, MarkServed, MarkLanded, MarkFailed, MarkEnds, Made
<1>2. UNCHANGED read => /\ Unread' = Unread /\ Size' = Size
                        /\ listing'.at = "served" => Tells(listing.count, listing.size)'
  BY <1>1, StoreFacts, ServerStands DEF Tells
<1>3. CASE MarkAllRead(m)
  <2> DEFINE rec == [NoMark EXCEPT !.at = "sent", !.ids = FreshUnread]
  <2>1. /\ UNCHANGED <<read, items, badge, highlighted, newest, late>> /\ marks[m].at = "none"
        /\ marks' = [marks EXCEPT ![m] = rec] /\ marking' = marking \cup FreshUnread
    BY <1>3 DEF MarkAllRead, Unsent
  <2>2. FreshUnread \subseteq Made /\ FreshUnread \cap marking = {}
    BY StoreFacts DEF FreshUnread
  <2>3. rec \in Mark /\ rec.at = "sent" /\ rec.ids = FreshUnread
    <3> HIDE DEF FreshUnread
    <3> QED
      BY <2>2, StoreFacts DEF Mark, NoMark
  <2>4. /\ marks' \in [Marks -> Mark] /\ marking' \subseteq Made
        /\ \A k \in Marks : marks'[k].at \in {"served", "failed"} => marks'[k] = marks[k]
        /\ MarksAreApart'
    <3> HIDE DEF rec
    <3>1. PICK r \in Mark : r = rec
      BY <2>3
    <3> QED
      BY <1>1, <2>1, <2>2, <2>3, <3>1, StoreFacts, SentKeepsMarks
  <2> QED
    BY <1>1, <1>2, <2>1, <2>4, StoreFacts, StoreStepKeeps
<1>4. CASE MarkLanded(m) \/ MarkFailed(m)
  <2>1. PICK ok \in BOOLEAN : MarkEnds(m, ok) /\ (ok => marks[m].at = "served")
    BY <1>4 DEF MarkLanded, MarkFailed
  <2>2. /\ marks' \in [Marks -> Mark] /\ marking' \cup highlighted' \subseteq Made
        /\ \A k \in Marks : marks'[k].at \in {"served", "failed"} => marks'[k] = marks[k]
        /\ MarksAreApart' /\ UNCHANGED read
    BY <2>1, StoreFacts, EndKeepsMarks DEF MarkEnds
  <2>3. /\ items' \in Pages /\ DOMAIN items' \subseteq Made /\ badge' \in Nat
        /\ newest' \in Nat /\ late' \in BOOLEAN /\ newest' <= Size
        /\ newest' = Size /\ ~late' => badge' = Cardinality(Unread)
    <3>1. CASE MarkFailed(m)
      BY <3>1, StoreFacts DEF MarkFailed
    <3>2. CASE MarkLanded(m)
      <4>1. /\ marks[m] \in Mark /\ Tells(marks[m].count, marks[m].size)
            /\ badge' = marks[m].count /\ Applied(marks[m].size)
        BY <3>2, StoreFacts DEF MarkLanded, AnswersTell
      <4>2. PICK count \in Nat, size \in Nat : count = marks[m].count /\ size = marks[m].size
        BY <4>1 DEF Mark
      <4>3. /\ badge' \in Nat /\ newest' \in Nat /\ late' \in BOOLEAN /\ newest' <= Size
            /\ newest' = Size /\ ~late' => badge' = Cardinality(Unread)
        BY <4>1, <4>2, StoreFacts, AppliedTells
      <4>4. items' = [r \in DOMAIN items |-> IF r \in marks[m].ids THEN "read" ELSE items[r]]
        BY <3>2 DEF MarkLanded
      <4>5. /\ DOMAIN items \in SUBSET Rows
            /\ \A r \in DOMAIN items : items[r] \in {"unread", "read"}
        BY StoreFacts DEF Pages
      <4>6. items' \in [DOMAIN items -> {"unread", "read"}] /\ DOMAIN items' = DOMAIN items
        BY <4>4, <4>5
      <4>7. items' \in Pages /\ DOMAIN items' \subseteq Made
        BY <4>5, <4>6, StoreFacts DEF Pages
      <4> QED
        BY <4>3, <4>7
    <3> QED
      BY <1>4, <3>1, <3>2
  <2> QED
    BY <1>1, <1>2, <2>2, <2>3, StoreFacts, StoreStepKeeps
<1>5. CASE MarkServed(m)
  <2> DEFINE count == Cardinality(Made \ read')
             size == Cardinality(Made) + Cardinality(read')
             rec == [marks[m] EXCEPT !.at = IF NotFound(m) THEN "failed" ELSE "served",
                                     !.count = count, !.size = size]
  <2>1. /\ UNCHANGED <<items, badge, highlighted, marking, newest, late>>
        /\ marks[m].at = "sent" /\ read' = read \cup marks[m].ids
        /\ marks' = [marks EXCEPT ![m] = rec]
    BY <1>5 DEF MarkServed
  <2>2. marks[m].ids \subseteq Made /\ marks[m].ids \subseteq marking /\ marks[m] \in Mark
    BY StoreFacts DEF MarksAreApart
  <2>3. read' \subseteq Made /\ read \subseteq read' /\ read' \subseteq Rows
    BY <2>1, <2>2, StoreFacts
  <2>4. /\ Size \in Nat /\ Size' \in Nat /\ Size <= Size'
        /\ Size = Size' => Unread' = Unread
    BY <1>1, <2>3, StoreFacts, ServerGrows
  <2>5. size = Size' /\ count = Cardinality(Unread') /\ count \in Nat
    <3>1. Made \ read' \in SUBSET Rows
      BY StoreFacts
    <3>2. count \in Nat
      BY <3>1, RowsAreFinite
    <3> QED
      BY <1>1, <3>2 DEF Size, Unread
  <2> HIDE DEF count, size
  <2>6. /\ rec \in Mark /\ rec.at \in {"served", "failed"} /\ rec.ids = marks[m].ids
        /\ rec.count = count /\ rec.size = size
    <3> HIDE DEF NotFound
    <3> QED
      BY <2>2, <2>4, <2>5 DEF Mark
  <2> HIDE DEF rec
  <2>7. /\ \A k \in Marks : marks'[k] = IF k = m THEN rec ELSE marks[k]
        /\ marks' \in [Marks -> Mark]
    BY <2>1, <2>6, StoreFacts
  <2>8. InboxTypes'
    <3>1. /\ DeliveryTypes /\ listing.at \in {"none", "sent", "served"}
          /\ \A r \in DOMAIN items : items[r] \in {"unread", "read"} /\ InboxTypes
      BY DEF InboxInv, InboxTypes, InboxTypeOK
    <3>2. \A k \in Marks : marks'[k].at \in {"none", "sent", "served", "failed", "done"}
      BY <2>7 DEF Mark
    <3>3. InboxTypeOK'
      BY <1>1, <2>1, <2>3, <3>1, <3>2, StoreFacts DEF InboxTypeOK, DeliveryTypes
    <3>4. DeliveryTypes'
      BY <1>1, <3>1 DEF DeliveryTypes
    <3> QED
      BY <1>1, <2>1, <2>7, <3>3, <3>4, StoreFacts DEF InboxTypes
  <2>9. RowsAreMade'
    BY <1>1, StoreFacts DEF RowsAreMade
  <2>10. AnswersTell'
    <3>1. \A f \in frames : f.size \in Nat
      BY StoreFacts DEF InboxTypes, Frame
    <3>2. \A f \in frames' : Tells(f.count, f.size)'
      BY <1>1, <2>4, <3>1, StoreFacts DEF AnswersTell, Tells
    <3>3. listing'.at = "served" => Tells(listing.count, listing.size)'
      BY <1>1, <2>4, StoreFacts DEF Listing, Tells
    <3>4. \A k \in Marks : marks'[k].at \in {"served", "failed"}
                             => Tells(marks[k].count, marks[k].size)'
      <4> SUFFICES ASSUME NEW k \in Marks, marks'[k].at \in {"served", "failed"}
                   PROVE  Tells(marks[k].count, marks[k].size)'
        OBVIOUS
      <4>1. CASE k = m
        BY <2>4, <2>5, <2>6, <2>7, <4>1 DEF Tells
      <4>2. CASE k # m
        <5>1. marks'[k] = marks[k] /\ marks[k].size \in Nat
          BY <2>7, <4>2, StoreFacts DEF Mark
        <5>2. /\ marks[k].size <= Size
              /\ marks[k].size = Size => marks[k].count = Cardinality(Unread)
          BY <5>1, StoreFacts DEF AnswersTell, Tells
        <5> QED
          BY <2>4, <5>1, <5>2 DEF Tells
      <4> QED
        BY <4>1, <4>2
    <3>5. newest' <= Size' /\ (newest' = Size' /\ ~late' => badge' = Cardinality(Unread'))
      BY <2>1, <2>4, StoreFacts
    <3> QED
      BY <3>2, <3>3, <3>4, <3>5 DEF AnswersTell
  <2>11. MarksAreApart'
    BY <2>1, <2>2, <2>3, <2>6, <2>7, StoreFacts DEF MarksAreApart, HighlightedIsRead
  <2>12. EventsHaveRows'
    BY <1>1 DEF InboxInv, EventsHaveRows, Notifies
  <2> QED
    BY <2>8, <2>9, <2>10, <2>11, <2>12 DEF InboxInv
<1> QED
  BY <1>3, <1>4, <1>5

\* A frame brings its row, if the store has not got it, and the count it was sent with.
LEMMA FrameKeepsInbox ==
  ASSUME InboxInv, NEW f \in frames, Receive(f)
  PROVE  InboxInv'
<1> USE DEF deliveries
<1>1. /\ UNCHANGED <<deliveries, read, filter, listing, marks, marking, highlighted, screen>>
      /\ frames' \subseteq frames /\ badge' = f.count /\ Applied(f.size)
      /\ items' = [r \in DOMAIN items \cup {f.row} |-> IF r \in DOMAIN items THEN items[r] ELSE "unread"]
  BY DEF Receive, CountOf
<1>2. /\ f \in Frame /\ f.row \in Made /\ Tells(f.count, f.size)
      /\ f.row \in Rows /\ f.count \in Nat /\ f.size \in Nat
  BY StoreFacts DEF InboxTypes, RowsAreMade, AnswersTell, Frame
<1>3. /\ newest' \in Nat /\ late' \in BOOLEAN /\ newest' <= Size
      /\ newest' = Size /\ ~late' => badge' = Cardinality(Unread)
  BY <1>1, <1>2, StoreFacts, AppliedTells
<1>4. items' \in Pages /\ DOMAIN items' \subseteq Made
  <2>1. DOMAIN items \in SUBSET Rows /\ \A r \in DOMAIN items : items[r] \in {"unread", "read"}
    BY StoreFacts DEF Pages
  <2>2. items' \in [DOMAIN items \cup {f.row} -> {"unread", "read"}]
    BY <1>1, <2>1
  <2>3. DOMAIN items' = DOMAIN items \cup {f.row} /\ DOMAIN items \cup {f.row} \in SUBSET Rows
    BY <1>1, <1>2, <2>1
  <2> QED
    BY <1>2, <2>2, <2>3, StoreFacts DEF Pages
<1>5. MarksAreApart'
  BY <1>1, StoreFacts DEF MarksAreApart, HighlightedIsRead
<1>6. listing'.at = "served" => Tells(listing.count, listing.size)'
  <2>1. Unread' = Unread /\ Size' = Size
    BY <1>1, ServerStands
  <2> QED
    BY <1>1, <2>1, StoreFacts DEF Tells
<1> QED
  BY <1>1, <1>2, <1>3, <1>4, <1>5, <1>6, StoreFacts, StoreStepKeeps

\* Nothing was made, and nothing is shown.
LEMMA InitInbox == InboxInit => InboxInv
<1> SUFFICES ASSUME InboxInit PROVE InboxInv
  OBVIOUS
<1> USE DEF InboxInit
<1>1. Made = {} /\ read = {} /\ Unread = {}
  BY DEF Made, Unread
<1>2. Size = 0 /\ Cardinality(Unread) = 0
  BY <1>1, FS_EmptySet DEF Size
<1>3. NoMark \in Mark /\ NoMark.at = "none" /\ NoMark.ids = {}
  BY DEF NoMark, Mark
<1>4. InboxTypes
  <2>1. marks \in [Marks -> Mark] /\ \A m \in Marks : marks[m].at = "none"
    BY <1>3
  <2>2. listing \in Listing /\ items \in Pages /\ DOMAIN items = {} /\ listing.at = "none"
    BY NoListIsEmpty DEF Listing
  <2>3. InboxTypeOK
    BY <1>1, <2>1, <2>2, InboxAssumption DEF InboxTypeOK, Filters
  <2> QED
    BY <2>1, <2>2, <2>3, InboxAssumption DEF InboxTypes, DeliveryTypes
<1>5. RowsAreMade /\ AnswersTell
  BY <1>2, <1>3, NoListIsEmpty DEF RowsAreMade, AnswersTell
<1>6. MarksAreApart /\ EventsHaveRows
  BY <1>1, <1>3 DEF MarksAreApart, HighlightedIsRead, EventsHaveRows
<1> QED
  BY <1>4, <1>5, <1>6 DEF InboxInv

\* The notifications stay honest, for any events, calls, losses and order of arrival:
\* the badge is the server's count when the newest answer applied is of the server as
\* it is, what is highlighted is read, no row is marked twice at once, and no event
\* consumed is without its notification or has more of them than deliveries (receive,
\* markRead, the consumer).
THEOREM InboxStaysHonest == InboxSpec => []InboxHonest
<1>1. InboxInv /\ [InboxNext]_inboxVars => InboxInv'
  <2> SUFFICES ASSUME InboxInv, [InboxNext]_inboxVars PROVE InboxInv'
    OBVIOUS
  <2>1. CASE UNCHANGED inboxVars
    <3> USE <2>1 DEF inboxVars, serverVars, deliveries, storeState, inboxHist
    <3>1. Unread' = Unread /\ Size' = Size
      BY ServerStands
    <3>2. MarksAreApart'
      BY StoreFacts DEF MarksAreApart, HighlightedIsRead
    <3>3. listing'.at = "served" => Tells(listing.count, listing.size)'
      BY <3>1, StoreFacts DEF Tells
    <3> QED
      BY <3>2, <3>3, StoreFacts, StoreStepKeeps
  <2> QED
    BY <2>1, ConsumerKeepsInbox, ListKeepsInbox, HeardKeepsInbox, MarkKeepsInbox, FrameKeepsInbox
       DEF InboxNext, ConsumerStep
<1>2. InboxInv => InboxHonest
  <2> SUFFICES ASSUME InboxInv PROVE InboxHonest
    OBVIOUS
  <2>1. InboxTypeOK /\ BadgeTrue
    BY StoreFacts DEF InboxTypes, BadgeTrue
  <2>2. HighlightedIsRead /\ MarkedOnce
    BY StoreFacts DEF MarksAreApart, MarkedOnce
  <2>3. NotifiedOnce
    <3>1. \A e \in Events : msg[e] = "done" /\ Notifies(e) => \E r \in Made : of[r] = e
      BY DEF InboxInv, EventsHaveRows
    <3>2. \A q, r \in Made : q # r /\ of[q] = of[r] => nth[q] # nth[r]
      BY DEF InboxInv, EventsHaveRows
    <3>3. \A r \in Made : nth[r] <= returns[of[r]]
      BY DEF InboxInv, EventsHaveRows
    <3> QED
      BY <3>1, <3>2, <3>3 DEF NotifiedOnce
  <2> QED
    BY <2>1, <2>2, <2>3 DEF InboxHonest
<1> QED
  BY <1>1, <1>2, InitInbox, PTL DEF InboxSpec

-----------------------------------------------------------------------------
(***************************************************************************)
(* The toasts. Time run and time left add up to the window, whether the    *)
(* clock runs (it ends with the timeout) or stands (it is banked).         *)
(***************************************************************************)

ToastTypes ==
    /\ current \in Toasts \cup {NoToast} /\ pending \in Seq(Toasts)
    /\ timer \in Nat /\ startedAt \in Nat /\ remaining \in Nat /\ seen \in Nat
    /\ clock \in Nat \ {0}

\* Nothing waits, and no clock runs, for no toast.
EmptyScreen == current = NoToast => pending = <<>> /\ timer = 0

TimeAddsUp ==
    /\ seen <= Window
    /\ timer # 0 => /\ timer = startedAt + remaining
                    /\ startedAt <= clock /\ clock <= timer
                    /\ seen + (timer - clock) = Window
    /\ timer = 0 /\ current # NoToast => seen + remaining = Window

ToastInv == ToastTypes /\ EmptyScreen /\ TimeAddsUp /\ NewestKept

\* The next toast, or none, after the one on screen.
LEMMA NextToastKeeps == ToastInv /\ NextToast => ToastInv'
<1> SUFFICES ASSUME ToastInv, NextToast PROVE ToastInv'
  OBVIOUS
<1> USE ToastAssumption
<1>1. ToastTypes /\ TimeAddsUp /\ NewestKept /\ UNCHANGED <<clock, offered>>
  BY DEF ToastInv, NextToast
<1>2. CASE pending = <<>>
  <2>1. /\ current' = NoToast /\ timer' = 0 /\ remaining' = Window
        /\ UNCHANGED <<pending, startedAt, seen>>
    BY <1>2 DEF NextToast
  <2> QED
    BY <1>1, <1>2, <2>1 DEF ToastInv, ToastTypes, EmptyScreen, TimeAddsUp, NewestKept
<1>3. CASE pending # <<>>
  <2>1. /\ current' = Head(pending) /\ pending' = Tail(pending) /\ seen' = 0
        /\ startedAt' = clock /\ timer' = clock + Window /\ remaining' = Window
    BY <1>3 DEF NextToast, Show, Arm
  <2>2. Head(pending) \in Toasts /\ Tail(pending) \in Seq(Toasts)
    BY <1>1, <1>3 DEF ToastTypes
  <2>3. ToastTypes' /\ EmptyScreen' /\ TimeAddsUp'
    BY <1>1, <2>1, <2>2 DEF ToastTypes, EmptyScreen, TimeAddsUp
  <2>4. NewestKept'
    <3> SUFFICES ASSUME Tail(pending) # <<>>
                 PROVE  Tail(pending)[Len(Tail(pending))] = offered
      BY <1>1, <2>1 DEF NewestKept
    <3>1. /\ pending \in Seq(Toasts) /\ Len(Tail(pending)) = Len(pending) - 1
          /\ Len(Tail(pending)) > 0
      BY <1>1, <1>3, <2>2 DEF ToastTypes
    <3> QED
      BY <1>1, <1>3, <3>1 DEF NewestKept
  <2> QED
    BY <2>3, <2>4 DEF ToastInv
<1> QED
  BY <1>2, <1>3

\* The newest is last among those that wait, whoever made room for it.
LEMMA BoundedKeepsLast ==
  ASSUME NEW n \in Toasts, pending \in Seq(Toasts)
  PROVE  LET queue == Bounded(Append(pending, n))
         IN  /\ queue \in Seq(Toasts)
             /\ queue # <<>> => queue[Len(queue)] = n
<1> DEFINE queue == Append(pending, n)
<1>1. /\ queue \in Seq(Toasts) /\ Len(queue) = Len(pending) + 1
      /\ queue[Len(queue)] = n /\ queue # <<>>
  OBVIOUS
<1> HIDE DEF queue
<1>2. Tail(queue) \in Seq(Toasts) /\ Len(Tail(queue)) = Len(queue) - 1
  BY <1>1
<1>3. Tail(queue) # <<>> => Tail(queue)[Len(Tail(queue))] = queue[Len(queue)]
  BY <1>1, <1>2
<1>4. Bounded(queue) \in {queue, Tail(queue)}
  BY DEF Bounded
<1>5. /\ Bounded(queue) \in Seq(Toasts)
      /\ Bounded(queue) # <<>> => Bounded(queue)[Len(Bounded(queue))] = n
  <2>1. CASE Bounded(queue) = queue
    BY <1>1, <2>1
  <2>2. CASE Bounded(queue) = Tail(queue)
    BY <1>1, <1>2, <1>3, <2>2
  <2> QED
    BY <1>4, <2>1, <2>2
<1> QED
  BY <1>5 DEF queue

\* A toast serves its whole window, however often the pointer stopped the clock, and
\* a backlog keeps the last notification pushed (pause, resume, enqueue).
THEOREM ToastsServeAll == ToastSpec => []ToastsServe
<1> USE ToastAssumption
<1>1. ToastInit => ToastInv
  BY DEF ToastInit, ToastInv, ToastTypes, EmptyScreen, TimeAddsUp, NewestKept
<1>2. ToastInv /\ [ToastNext]_toastVars => ToastInv'
  <2> SUFFICES ASSUME ToastInv, [ToastNext]_toastVars PROVE ToastInv'
    OBVIOUS
  <2> USE DEF ToastInv
  <2>1. ASSUME NEW n \in Toasts, Enqueue(n) PROVE ToastInv'
    <3>1. offered' = n /\ UNCHANGED clock
      BY <2>1 DEF Enqueue
    <3>2. CASE current = NoToast /\ Show(n) /\ UNCHANGED pending
      BY <3>1, <3>2 DEF Show, Arm, ToastTypes, EmptyScreen, TimeAddsUp, NewestKept
    <3>3. CASE /\ current # NoToast /\ pending' = Bounded(Append(pending, n))
               /\ UNCHANGED <<current, timer, startedAt, remaining, seen>>
      <4>1. pending' \in Seq(Toasts) /\ (pending' # <<>> => pending'[Len(pending')] = n)
        BY <3>3, BoundedKeepsLast DEF ToastTypes
      <4> QED
        BY <3>1, <3>3, <4>1 DEF ToastTypes, EmptyScreen, TimeAddsUp, NewestKept
    <3> QED
      BY <2>1, <3>2, <3>3 DEF Enqueue
  <2>2. CASE TimedOut \/ Dismiss
    BY <2>2, NextToastKeeps DEF TimedOut, Dismiss
  <2>3. CASE Pause
    BY <2>3 DEF Pause, Banked, ToastTypes, EmptyScreen, TimeAddsUp, NewestKept
  <2>4. CASE Continue
    BY <2>4 DEF Continue, Arm, ToastTypes, EmptyScreen, TimeAddsUp, NewestKept
  <2>5. CASE Tick
    <3>1. NewestKept' /\ EmptyScreen'
      BY <2>5 DEF Tick, EmptyScreen, NewestKept
    <3>2. ToastTypes' /\ TimeAddsUp'
      BY <2>5 DEF Tick, ToastTypes, TimeAddsUp
    <3> QED
      BY <3>1, <3>2
  <2>6. CASE UNCHANGED toastVars
    BY <2>6 DEF toastVars, ToastTypes, EmptyScreen, TimeAddsUp, NewestKept
  <2> QED
    BY <2>1, <2>2, <2>3, <2>4, <2>5, <2>6 DEF ToastNext
<1>3. ToastInv => ToastsServe
  BY DEF ToastInv, ToastTypes, TimeAddsUp, ToastsServe, ToastLasts
<1> QED
  BY <1>1, <1>2, <1>3, PTL DEF ToastSpec

-----------------------------------------------------------------------------
(***************************************************************************)
(* The registry. A row, and what a query finds, is of a connection that    *)
(* got past the authorizer; one that a push will prune has left, or was    *)
(* posted to before its $connect had answered.                             *)
(***************************************************************************)

RegistryTypes ==
    /\ RegistryTypeOK
    /\ DOMAIN context = Links /\ struck \subseteq Links
    /\ context = [c \in Links |-> context[c]]
    /\ found \in [Fans -> SUBSET Links] /\ todo \in [Fans -> SUBSET Links]
    /\ pruning \in [Fans -> SUBSET Links]
    /\ got \in [Fans -> SUBSET Links] /\ failed \in [Fans -> SUBSET Links]

\* A socket is known to the table and the pushes from its $connect on.
KnownConnected ==
    \A c \in Links : \/ link[c] \notin {"new", "allowed"}
                     \/ /\ c \notin DOMAIN rows \cup DOMAIN index
                        /\ \A f \in Fans : c \notin found[f]

\* A socket that may open has its row, under its own sub.
SavedIsListed ==
    \A c \in Links :
        /\ link[c] = "allowed" => context[c] = Bearer[c]
        /\ link[c] \in {"saved", "open"} /\ c \notin struck
             => c \in DOMAIN rows /\ rows[c] = Bearer[c]

\* What a push prunes will not hear again, and what it has posted to heard it.
PrunedIsGone ==
    \A f \in Fans, c \in Links :
        /\ c \in pruning[f] => link[c] \in {"closing", "closed"} \/ c \in struck
        /\ c \in found[f] \ todo[f] /\ link[c] \in {"saved", "open"} /\ c \notin struck
             => c \in got[f] \cup failed[f]

PushesEnd == \A f \in Fans : fan[f] # "posting" => todo[f] = {} /\ pruning[f] = {}

RegistryInv == RegistryTypes /\ KnownConnected /\ SavedIsListed /\ PrunedIsGone /\ PushesEnd

\* Initially there is no socket, no row and no push.
LEMMA InitRegistry == RegistryInit => RegistryInv
<1> SUFFICES ASSUME RegistryInit PROVE RegistryInv
  OBVIOUS
<1>1. DOMAIN NoRows = {}
  BY DEF NoRows
<1>2. RegistryTypes
  BY <1>1 DEF RegistryInit, RegistryTypes, RegistryTypeOK
<1> QED
  BY <1>1, <1>2 DEF RegistryInit, RegistryInv, KnownConnected, SavedIsListed,
                    PrunedIsGone, PushesEnd

\* Deleting a row leaves the others.
LEMMA WithoutKeeps ==
  ASSUME NEW table, NEW c
  PROVE  /\ DOMAIN Without(table, c) = DOMAIN table \ {c}
         /\ \A d \in DOMAIN table : d # c => Without(table, c)[d] = table[d]
BY DEF Without

\* A handshake or a goodbye keeps the registry.
LEMMA SocketKeepsRegistry ==
  ASSUME RegistryInv, NEW c \in Links,
         \/ Authorize(c) \/ Connect(c) \/ Answered(c) \/ Hangup(c)
         \/ Disconnected(c) \/ ExpireRow(c)
  PROVE  RegistryInv'
<1> USE DEF fanVars
<1>1. /\ RegistryTypes /\ UNCHANGED <<found, todo, pruning, got, failed, fan, struck, index>>
      /\ link \in [Links -> {"new", "allowed", "saved", "open", "closing", "closed"}]
      /\ DOMAIN rows \subseteq Links /\ DOMAIN index \subseteq Links
  BY DEF RegistryInv, RegistryTypes, RegistryTypeOK, Authorize, Connect, Answered,
         Hangup, Disconnected, ExpireRow
\* What the step has to show of the socket that took it.
<1>2. ASSUME \A d \in Links : d # c => link'[d] = link[d],
             link' \in [Links -> {"new", "allowed", "saved", "open", "closing", "closed"}],
             \A d \in Links : d # c => /\ d \in DOMAIN rows' <=> d \in DOMAIN rows
                                       /\ d \in DOMAIN rows => rows'[d] = rows[d],
             DOMAIN rows' \subseteq Links,
             DOMAIN context' = Links, context' = [d \in Links |-> context'[d]],
             \A d \in Links : d # c => context'[d] = context[d],
             link'[c] = "allowed" => context'[c] = Bearer[c],
             link'[c] \in {"new", "allowed"} => link[c] \in {"new", "allowed"} /\ c \notin DOMAIN rows',
             link'[c] \in {"saved", "open"} /\ c \notin struck
               => \/ /\ link[c] \in {"saved", "open"}
                     /\ c \in DOMAIN rows' /\ rows'[c] = Bearer[c]
                  \/ /\ link[c] = "allowed"
                     /\ c \in DOMAIN rows' /\ rows'[c] = Bearer[c],
             link[c] \in {"closing", "closed"} => link'[c] \in {"closing", "closed"}
      PROVE  RegistryInv'
  <2>1. RegistryTypes'
    BY <1>1, <1>2 DEF RegistryTypes, RegistryTypeOK
  <2>2. KnownConnected'
    BY <1>1, <1>2 DEF RegistryInv, KnownConnected
  <2>3. SavedIsListed'
    BY <1>1, <1>2 DEF RegistryInv, SavedIsListed
  <2>4. PrunedIsGone'
    <3> SUFFICES ASSUME NEW f \in Fans, NEW d \in Links
                 PROVE  /\ d \in pruning[f] => link'[d] \in {"closing", "closed"} \/ d \in struck
                        /\ d \in found[f] \ todo[f] /\ link'[d] \in {"saved", "open"} /\ d \notin struck
                             => d \in got[f] \cup failed[f]
      BY <1>1 DEF PrunedIsGone
    <3>1. CASE d # c
      BY <1>2, <3>1 DEF RegistryInv, PrunedIsGone
    <3>2. CASE d = c
      <4>1. link[c] \in {"new", "allowed"} => c \notin found[f]
        BY DEF RegistryInv, KnownConnected
      <4>2. pruning[f] \subseteq found[f]
        BY <1>1 DEF RegistryTypes, RegistryTypeOK
      <4>3. link[c] = "allowed" => c \notin found[f] /\ c \notin pruning[f]
        BY <4>1, <4>2
      <4> QED
        BY <1>2, <3>2, <4>3 DEF RegistryInv, PrunedIsGone
    <3> QED
      BY <3>1, <3>2
  <2>5. PushesEnd'
    BY <1>1 DEF RegistryInv, PushesEnd
  <2> QED
    BY <2>1, <2>2, <2>3, <2>4, <2>5 DEF RegistryInv
<1>3. /\ DOMAIN context = Links /\ context = [d \in Links |-> context[d]]
      /\ link[c] = "allowed" => context[c] = Bearer[c]
      /\ link[c] \in {"new", "allowed"} => c \notin DOMAIN rows
      /\ link[c] \in {"saved", "open"} /\ c \notin struck
           => c \in DOMAIN rows /\ rows[c] = Bearer[c]
  BY <1>1 DEF RegistryTypes, RegistryInv, SavedIsListed, KnownConnected
<1>4. CASE Authorize(c)
  BY <1>1, <1>2, <1>3, <1>4 DEF Authorize
<1>5. CASE Connect(c)
  <2>1. CASE UNCHANGED rows
    BY <1>1, <1>2, <1>3, <1>5, <2>1 DEF Connect, SaveConnection
  <2>2. CASE SaveConnection(c)
    <3>1. /\ DOMAIN rows' = DOMAIN rows \cup {c} /\ rows'[c] = context[c]
          /\ \A d \in DOMAIN rows : d # c => rows'[d] = rows[d]
      BY <2>2 DEF SaveConnection
    <3> QED
      BY <1>1, <1>2, <1>3, <1>5, <3>1 DEF Connect
  <2> QED
    BY <1>5, <2>1, <2>2 DEF Connect
<1>6. CASE Answered(c) \/ Hangup(c)
  BY <1>1, <1>2, <1>3, <1>6 DEF Answered, Hangup
<1>7. CASE Disconnected(c) \/ ExpireRow(c)
  <2>1. CASE UNCHANGED rows
    BY <1>1, <1>2, <1>3, <1>7, <2>1 DEF Disconnected, ExpireRow
  <2>2. CASE rows' = Without(rows, c)
    <3>1. /\ DOMAIN rows' = DOMAIN rows \ {c}
          /\ \A d \in DOMAIN rows : d # c => rows'[d] = rows[d]
      BY <2>2, WithoutKeeps
    <3> QED
      BY <1>1, <1>2, <1>3, <1>7, <3>1 DEF Disconnected, ExpireRow
  <2> QED
    BY <1>7, <2>1, <2>2 DEF Disconnected, ExpireRow
<1> QED
  BY <1>4, <1>5, <1>6, <1>7

\* A step of a push keeps the registry.
LEMMA PushKeepsRegistry ==
  ASSUME RegistryInv, NEW f \in Fans,
         \/ Query(f) \/ Published(f)
         \/ \E c \in Links : Post(f, c) \/ Prune(f, c)
  PROVE  RegistryInv'
<1>1. /\ RegistryTypes /\ UNCHANGED <<link, context, index>>
      /\ link \in [Links -> {"new", "allowed", "saved", "open", "closing", "closed"}]
      /\ fan \in [Fans -> {"idle", "posting", "done"}]
      /\ found \in [Fans -> SUBSET Links] /\ todo \in [Fans -> SUBSET Links]
      /\ pruning \in [Fans -> SUBSET Links]
      /\ got \in [Fans -> SUBSET Links] /\ failed \in [Fans -> SUBSET Links]
      /\ DOMAIN rows \subseteq Links /\ DOMAIN index \subseteq Links
      /\ \A g \in Fans : todo[g] \subseteq found[g] /\ pruning[g] \subseteq found[g]
  BY DEF RegistryInv, RegistryTypes, RegistryTypeOK, Query, Published, Post, Prune
<1>2. CASE Query(f)
  <2>1. /\ UNCHANGED <<rows, pruning, got, failed, struck>>
        /\ fan[f] = "idle" /\ fan' \in [Fans -> {"idle", "posting", "done"}]
        /\ \A g \in Fans : g # f => fan'[g] = fan[g]
    BY <1>1, <1>2 DEF Query
  <2>2. pruning[f] = {} /\ todo[f] = {}
    BY <2>1 DEF RegistryInv, PushesEnd
  <2>3. CASE UNCHANGED <<found, todo>>
    <3>1. RegistryTypes'
      BY <1>1, <2>1, <2>3 DEF RegistryTypes, RegistryTypeOK
    <3>2. KnownConnected' /\ SavedIsListed' /\ PrunedIsGone'
      BY <1>1, <2>1, <2>3 DEF RegistryInv, KnownConnected, SavedIsListed, PrunedIsGone
    <3>3. PushesEnd'
      BY <1>1, <2>1, <2>2, <2>3 DEF RegistryInv, PushesEnd
    <3> QED
      BY <3>1, <3>2, <3>3 DEF RegistryInv
  <2>4. CASE ~UNCHANGED <<found, todo>>
    <3> DEFINE hits == RowsOf(index, For[f])
    <3>1. /\ found' = [found EXCEPT ![f] = hits] /\ todo' = [todo EXCEPT ![f] = hits]
          /\ fan' = [fan EXCEPT ![f] = IF hits = {} THEN "done" ELSE "posting"]
      BY <1>2, <2>4 DEF Query
    <3>2. hits \subseteq DOMAIN index /\ hits \subseteq Links
      BY <1>1 DEF RowsOf
    <3> HIDE DEF hits
    <3>3. /\ \A g \in Fans : found'[g] = IF g = f THEN hits ELSE found[g]
          /\ \A g \in Fans : todo'[g] = IF g = f THEN hits ELSE todo[g]
          /\ fan'[f] # "posting" => hits = {}
          /\ found' \in [Fans -> SUBSET Links] /\ todo' \in [Fans -> SUBSET Links]
      BY <1>1, <3>1, <3>2
    <3>4. RegistryTypes'
      BY <1>1, <2>1, <2>2, <3>3 DEF RegistryTypes, RegistryTypeOK
    <3>5. KnownConnected'
      BY <1>1, <2>1, <3>2, <3>3 DEF RegistryInv, KnownConnected
    <3>6. SavedIsListed'
      BY <1>1, <2>1 DEF RegistryInv, SavedIsListed
    <3>7. PrunedIsGone'
      <4>1. \A g \in Fans : found'[g] \ todo'[g] \subseteq found[g] \ todo[g]
        BY <3>3
      <4> QED
        BY <1>1, <2>1, <4>1 DEF RegistryInv, PrunedIsGone
    <3>8. PushesEnd'
      BY <1>1, <2>1, <2>2, <3>3 DEF RegistryInv, PushesEnd
    <3> QED
      BY <3>4, <3>5, <3>6, <3>7, <3>8 DEF RegistryInv
  <2> QED
    BY <2>3, <2>4
<1>3. CASE Published(f)
  <2>1. /\ UNCHANGED <<rows, found, todo, pruning, got, failed, struck>>
        /\ todo[f] = {} /\ pruning[f] = {} /\ fan' = [fan EXCEPT ![f] = "done"]
    BY <1>3 DEF Published
  <2>2. RegistryTypes' /\ KnownConnected' /\ SavedIsListed' /\ PrunedIsGone'
    BY <1>1, <2>1 DEF RegistryInv, RegistryTypes, RegistryTypeOK, KnownConnected,
                      SavedIsListed, PrunedIsGone
  <2>3. PushesEnd'
    BY <1>1, <2>1 DEF RegistryInv, PushesEnd
  <2> QED
    BY <2>2, <2>3 DEF RegistryInv
<1>4. ASSUME NEW c \in Links, Post(f, c) PROVE RegistryInv'
  <2>1. PICK answer \in {"sent", "gone", "error"} :
          /\ answer = "sent" => link[c] = "open"
          /\ answer = "gone" => link[c] # "open"
          /\ got' = [got EXCEPT ![f] = IF answer = "sent" THEN @ \cup {c} ELSE @]
          /\ failed' = [failed EXCEPT ![f] = IF answer = "error" THEN @ \cup {c} ELSE @]
          /\ pruning' = [pruning EXCEPT ![f] = IF answer = "gone" THEN @ \cup {c} ELSE @]
          /\ todo' = [todo EXCEPT ![f] = @ \ {c}]
    BY <1>4 DEF Post, IsGone
  <2>2. /\ UNCHANGED <<rows, fan, found>> /\ c \in todo[f] /\ c \in found[f]
        /\ struck' = IF link[c] = "saved" THEN struck \cup {c} ELSE struck
    BY <1>1, <1>4 DEF Post
  <2>3. link[c] \notin {"new", "allowed"} /\ fan[f] = "posting"
    BY <1>1, <2>2 DEF RegistryInv, KnownConnected, PushesEnd
  <2>4. /\ \A g \in Fans : got'[g] = IF g = f /\ answer = "sent" THEN got[g] \cup {c} ELSE got[g]
        /\ \A g \in Fans : failed'[g] = IF g = f /\ answer = "error" THEN failed[g] \cup {c} ELSE failed[g]
        /\ \A g \in Fans : pruning'[g] = IF g = f /\ answer = "gone" THEN pruning[g] \cup {c} ELSE pruning[g]
        /\ \A g \in Fans : todo'[g] = IF g = f THEN todo[g] \ {c} ELSE todo[g]
    BY <1>1, <2>1
  <2>5. /\ got' \in [Fans -> SUBSET Links] /\ failed' \in [Fans -> SUBSET Links]
        /\ pruning' \in [Fans -> SUBSET Links] /\ todo' \in [Fans -> SUBSET Links]
    BY <1>1, <2>1
  <2>6. RegistryTypes'
    BY <1>1, <2>2, <2>4, <2>5 DEF RegistryTypes, RegistryTypeOK
  <2>7. KnownConnected' /\ SavedIsListed'
    BY <1>1, <2>2 DEF RegistryInv, KnownConnected, SavedIsListed
  <2>8. PrunedIsGone'
    <3> SUFFICES ASSUME NEW g \in Fans, NEW d \in Links
                 PROVE  /\ d \in pruning'[g] => link[d] \in {"closing", "closed"} \/ d \in struck'
                        /\ d \in found[g] \ todo'[g] /\ link[d] \in {"saved", "open"} /\ d \notin struck'
                             => d \in got'[g] \cup failed'[g]
      BY <1>1, <2>2 DEF PrunedIsGone
    <3>1. /\ d \in pruning[g] => link[d] \in {"closing", "closed"} \/ d \in struck
          /\ d \in found[g] \ todo[g] /\ link[d] \in {"saved", "open"} /\ d \notin struck
               => d \in got[g] \cup failed[g]
      BY DEF RegistryInv, PrunedIsGone
    <3>2. struck \subseteq struck' /\ (link[c] = "saved" => c \in struck')
      BY <2>2
    <3>3. CASE d = c /\ g = f
      <4>1. link[c] \in {"saved", "open", "closing", "closed"}
        BY <1>1, <2>3
      <4> QED
        BY <2>1, <2>4, <3>1, <3>2, <3>3, <4>1
    <3>4. CASE d # c \/ g # f
      BY <2>4, <3>1, <3>2, <3>4
    <3> QED
      BY <3>3, <3>4
  <2>9. PushesEnd'
    BY <1>1, <2>2, <2>3, <2>4 DEF RegistryInv, PushesEnd
  <2> QED
    BY <2>6, <2>7, <2>8, <2>9 DEF RegistryInv
<1>5. ASSUME NEW c \in Links, Prune(f, c) PROVE RegistryInv'
  <2>1. /\ UNCHANGED <<fan, found, todo, got, failed, struck>> /\ c \in pruning[f]
        /\ pruning' = [pruning EXCEPT ![f] = @ \ {c}]
        /\ UNCHANGED rows \/ rows' = Without(rows, c)
    BY <1>5 DEF Prune
  <2>2. /\ \A g \in Fans : pruning'[g] = IF g = f THEN pruning[g] \ {c} ELSE pruning[g]
        /\ pruning' \in [Fans -> SUBSET Links]
    BY <1>1, <2>1
  <2>3. /\ DOMAIN rows' \subseteq DOMAIN rows
        /\ \A d \in DOMAIN rows : d # c => d \in DOMAIN rows' /\ rows'[d] = rows[d]
    <3>1. CASE UNCHANGED rows
      BY <3>1
    <3>2. CASE rows' = Without(rows, c)
      <4>1. /\ DOMAIN rows' = DOMAIN rows \ {c}
            /\ \A d \in DOMAIN rows : d # c => rows'[d] = rows[d]
        BY <3>2, WithoutKeeps
      <4> QED
        BY <4>1
    <3> QED
      BY <2>1, <3>1, <3>2
  <2>4. link[c] \in {"closing", "closed"} \/ c \in struck
    BY <2>1 DEF RegistryInv, PrunedIsGone
  <2>5. RegistryTypes'
    BY <1>1, <2>1, <2>2, <2>3 DEF RegistryTypes, RegistryTypeOK
  <2>6. KnownConnected'
    BY <1>1, <2>1, <2>3 DEF RegistryInv, KnownConnected
  <2>7. SavedIsListed'
    BY <1>1, <2>1, <2>3, <2>4 DEF RegistryInv, SavedIsListed
  <2>8. PrunedIsGone' /\ PushesEnd'
    BY <1>1, <2>1, <2>2 DEF RegistryInv, PrunedIsGone, PushesEnd
  <2> QED
    BY <2>5, <2>6, <2>7, <2>8 DEF RegistryInv
<1> QED
  BY <1>2, <1>3, <1>4, <1>5

\* No open tab goes unheard, for any number of sockets and pushes: it keeps its row
\* under its own sub, and a push that found it reached it ($connect, publishToUser),
\* unless a push came between its row and the answer to its $connect.
THEOREM TabsAreHeard == RegistrySpec => []TabsHear
<1>1. RegistryInv /\ [RegistryNext]_registryVars => RegistryInv'
  <2> SUFFICES ASSUME RegistryInv, [RegistryNext]_registryVars PROVE RegistryInv'
    OBVIOUS
  <2>1. CASE IndexFollows \/ UNCHANGED registryVars
    <3>1. /\ UNCHANGED <<link, context, rows, fan, found, todo, pruning, got, failed, struck>>
          /\ index' \in {index, rows}
      BY <2>1 DEF IndexFollows, registryVars, fanVars
    <3>2. RegistryTypes'
      BY <3>1 DEF RegistryInv, RegistryTypes, RegistryTypeOK
    <3>3. KnownConnected' /\ SavedIsListed' /\ PrunedIsGone' /\ PushesEnd'
      BY <3>1 DEF RegistryInv, KnownConnected, SavedIsListed, PrunedIsGone, PushesEnd
    <3> QED
      BY <3>2, <3>3 DEF RegistryInv
  <2> QED
    BY <2>1, SocketKeepsRegistry, PushKeepsRegistry DEF RegistryNext
<1>2. RegistryInv => TabsHear
  BY DEF RegistryInv, RegistryTypes, SavedIsListed, PrunedIsGone, PushesEnd, TabsHear,
         OpenIsListed, PushesArrive, RegistryTypeOK
<1> QED
  BY <1>1, <1>2, InitRegistry, PTL DEF RegistrySpec
=============================================================================
