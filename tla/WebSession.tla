----------------------------- MODULE WebSession -----------------------------
(***************************************************************************)
(* The web application's session: the stored tokens, the interceptors that *)
(* attach them and refresh them once per burst of 401s, boot, sign-in and  *)
(* the two ways out, against the gateway's authorizer and Users.           *)
(*                                                                         *)
(* Every sign-in is an account of its own, so a session stands for the     *)
(* account and its refresh token too.  An access token is good until it    *)
(* expires, whatever was revoked since; expiry takes every one issued.     *)
(* Left out: the encryption of the record, storage that fails, and routes  *)
(* below the two layouts, "app" behind authGuard, "auth" behind guestGuard.*)
(***************************************************************************)
EXTENDS Naturals, Sequences, FiniteSets

CONSTANTS Calls,         \* calls of the pages
          ProfileCalls,  \* those whose answer is the profile: GET, PATCH /users/me
          Me,            \* GET /users/me of boot and of sign-in
          Sessions,      \* 1 .. n: the sign-ins there can be
          MustChange,    \* those of accounts that must change their password
          NoTokens, Nobody,
          MaxExpiries, MaxCallFaults  \* bounds

ASSUME SessionAssumption ==
    /\ ProfileCalls \subseteq Calls /\ Me \notin Calls /\ MustChange \subseteq Sessions
    /\ Sessions \subseteq Nat \ {0} /\ 1 \in Sessions
    /\ Nobody \notin Sessions /\ NoTokens \notin [s : Sessions, g : Nat]

VARIABLES
    stored,      \* TokenStore: [s, g], the session and its access token
    user,        \* SessionStore.user
    memo,        \* SessionRehydration.inFlight's answer; FALSE until boot reads
    layout,      \* "boot", "app", "auth"
    call,        \* the calls that carry a token
    refresh,     \* RefreshCoordinator.inFlight
    leaving,     \* discard(), by who awaits it: the menu or the refresh
    entering,    \* SignIn.complete()
    issued,      \* Users: the last access token of each session; 0 is none
    dead,        \* the authorizer: access tokens up to this one have expired
    revoked,     \* Cognito: sessions whose refresh token is revoked
    sessFaults,  \* counter of the bound
    crossed      \* history: an answer came late, or sign-in failed half-way

tokenVars  == <<stored, issued, dead, revoked, sessFaults>>
memoryVars == <<user, memo, layout>>
flowVars   == <<call, refresh, leaving, entering>>
sessVars   == <<tokenVars, memoryVars, flowVars, crossed>>

All == Calls \cup {Me}
Token == [s : Sessions, g : Nat]
NoCall == [at |-> "idle", try |-> 0, hdr |-> NoTokens, first |-> NoTokens]
NoRefresh == [at |-> "none", s |-> 0, tok |-> NoTokens]
Who == {"menu", "refresh"}

SessTypeOK ==
    /\ stored \in Token \cup {NoTokens} /\ user \in Sessions \cup {Nobody}
    /\ {memo, crossed} \subseteq BOOLEAN /\ layout \in {"boot", "app", "auth"}
    /\ \A c \in All : call[c].at \in {"idle", "sent", "stale", "waiting", "again", "done"}
    /\ refresh.at \in {"none", "sent", "served", "refused", "tearing"}
    /\ \A w \in Who : leaving[w].at \in {"no", "revoking", "clearing"}
    /\ entering \in {"no", "writing", "calling"}

\* A tab opens or reloads: on no tokens, or on an earlier visit's, which may have
\* expired or been revoked.
SessInit ==
    /\ issued = [s \in Sessions |-> IF s = 1 THEN 1 ELSE 0] /\ dead \in 0 .. 1 /\ revoked \in {{}, {1}}
    /\ stored \in {NoTokens, [s |-> 1, g |-> 1]}
    /\ user = Nobody /\ memo = FALSE /\ layout = "boot"
    /\ call = [c \in All |-> NoCall] /\ refresh = NoRefresh
    /\ leaving = [w \in Who |-> [at |-> "no", hdr |-> NoTokens]] /\ entering = "no"
    /\ sessFaults = 0 /\ crossed = FALSE

SpendFault == sessFaults < MaxCallFaults /\ sessFaults' = sessFaults + 1
Accepted(tok) == tok # NoTokens /\ tok.g > dead
\* What a call brings for session s comes after its teardown began.
Late(s) == \/ stored = NoTokens \/ stored.s # s
           \/ \E w \in Who : leaving[w].at = "clearing"
\* The authorizer's clock: every access token issued so far is too old.
LastIssued == CHOOSE g \in {issued[s] : s \in Sessions} : \A s \in Sessions : issued[s] <= g
Expire ==
    /\ dead < MaxExpiries /\ dead' = LastIssued /\ dead' > dead
    /\ UNCHANGED <<stored, issued, revoked, sessFaults, memoryVars, flowVars, crossed>>

\* authInterceptor attaches the access token the store holds, or none.
Header(store) == store

\* A token dead when sent brings a 401; one that was good brings an answer, or a 401
\* when it dies on the way.
Send(c, try, store) ==
    LET hdr == Header(store) IN
    call' = [call EXCEPT ![c] = [at |-> IF Accepted(hdr) THEN "sent" ELSE "stale", try |-> try,
                                 hdr |-> hdr, first |-> IF try = 1 THEN hdr ELSE @.first]]
Travels(c) == call[c].at \in {"sent", "stale"}
Refused(c, try) == Travels(c) /\ call[c].try = try /\ ~Accepted(call[c].hdr)

-----------------------------------------------------------------------------
(***************************************************************************)
(* Guards and boot.                                                        *)
(***************************************************************************)

\* hasSession: someone signed in on this page, else what boot, or a teardown, found.
HasSession(u, m) == u # Nobody \/ m

\* Entering the other layout consults its guard; moving within one does not.
Arrive(from, to, u, m) ==
    IF from = to THEN to ELSE IF HasSession(u, m) THEN "app" ELSE "auth"

\* Both initializers: the read of the store, then the profile when it held tokens.
BootRead ==
    /\ layout = "boot" /\ call[Me].at = "idle" /\ \A w \in Who : leaving[w].at = "no"
    /\ memo' = (stored # NoTokens)
    /\ IF stored = NoTokens THEN layout' = Arrive("boot", "app", user, FALSE) /\ UNCHANGED call
       ELSE Send(Me, 1, stored) /\ UNCHANGED layout
    /\ UNCHANGED <<tokenVars, user, refresh, leaving, entering, crossed>>

\* The browser's Back button, or a link, between the layouts.
Wander ==
    /\ layout # "boot" /\ layout' = Arrive(layout, IF layout = "app" THEN "auth" ELSE "app", user, memo)
    /\ UNCHANGED <<tokenVars, user, memo, flowVars, crossed>>

-----------------------------------------------------------------------------
(***************************************************************************)
(* A call through the interceptors.                                        *)
(***************************************************************************)

Issue(c) ==
    /\ layout = "app" /\ call[c].at = "idle" /\ Send(c, 1, stored)
    /\ UNCHANGED <<tokenVars, memoryVars, refresh, leaving, entering, crossed>>

\* The retry re-enters authInterceptor.
TryAgain(c) ==
    /\ call[c].at = "again" /\ Send(c, 2, stored)
    /\ UNCHANGED <<tokenVars, memoryVars, refresh, leaving, entering, crossed>>

Ended(c) == [NoCall EXCEPT !.at = IF c = Me THEN "idle" ELSE "done"]
End(c) == [call EXCEPT ![c] = Ended(c)]

\* A profile that arrives is the signed-in user's; after sign-in's the app opens,
\* and boot opens it whatever its own read did.
Succeed(c) ==
    /\ call[c].at = "sent" /\ call' = End(c)
    /\ user' = IF c \in ProfileCalls \cup {Me} THEN call[c].hdr.s ELSE user
    /\ layout' = IF c # Me \/ (user' \in MustChange /\ layout = "auth") THEN layout
                 ELSE Arrive(layout, "app", user', memo)
    /\ entering' = IF c = Me THEN "no" ELSE entering
    /\ crossed' = (crossed \/ (user' # user /\ Late(user')))
    /\ UNCHANGED <<tokenVars, memo, refresh, leaving>>

\* The first 401 asks for a refresh with what the store holds now, or joins the
\* one in flight.
Unauthorized(c) ==
    /\ Refused(c, 1)
    /\ call' = [call EXCEPT ![c].at = "waiting"]
    /\ refresh' = IF refresh.at # "none" THEN refresh
                  ELSE IF stored = NoTokens THEN [NoRefresh EXCEPT !.at = "refused"]
                  ELSE [NoRefresh EXCEPT !.at = "sent", !.s = stored.s]
    /\ UNCHANGED <<tokenVars, memoryVars, leaving, entering, crossed>>

\* A second 401, or any other failure, ends the call.
Fail(c) ==
    /\ \/ Refused(c, 2) /\ UNCHANGED sessFaults
       \/ Travels(c) /\ SpendFault
    /\ call' = End(c)
    /\ layout' = IF c = Me /\ layout = "boot" THEN Arrive("boot", "app", user, memo) ELSE layout
    /\ entering' = IF c = Me THEN "no" ELSE entering
    /\ crossed' = (crossed \/ (c = Me /\ entering = "calling"))
    /\ UNCHANGED <<stored, issued, dead, revoked, user, memo, refresh, leaving>>

-----------------------------------------------------------------------------
(***************************************************************************)
(* The refresh, and the teardown a failed one ends in.                     *)
(***************************************************************************)

\* discard(): the socket and the user go at once, the tokens when storage answers.
Discard(who) == [leaving EXCEPT ![who] = [at |-> "clearing", hdr |-> NoTokens]]
Leave(who) == leaving' = Discard(who) /\ user' = Nobody

\* REFRESH_TOKEN_AUTH at Cognito refuses a session that was signed out of.
Refreshes(s) == s \notin revoked

\* Users refreshes by Cognito: a new access token, the refresh token as it was.
RefreshServed ==
    /\ refresh.at = "sent"
    /\ \/ /\ Refreshes(refresh.s)
          /\ issued' = [issued EXCEPT ![refresh.s] = LastIssued + 1]
          /\ refresh' = [refresh EXCEPT !.at = "served", !.tok = [s |-> refresh.s, g |-> LastIssued + 1]]
          /\ UNCHANGED sessFaults
       \/ /\ IF Refreshes(refresh.s) THEN SpendFault ELSE UNCHANGED sessFaults
          /\ refresh' = [refresh EXCEPT !.at = "refused"] /\ UNCHANGED issued
    /\ UNCHANGED <<stored, dead, revoked, memoryVars, call, leaving, entering, crossed>>

Waiting == {c \in All : call[c].at = "waiting"}
Resume == [c \in All |-> IF c \in Waiting THEN [call[c] EXCEPT !.at = "again"] ELSE call[c]]

\* finalize: the next expiry refreshes again.
Finalized == NoRefresh

\* The write lands, and every caller that waited tries once more.
RefreshStored ==
    /\ refresh.at = "served" /\ stored' = refresh.tok
    /\ refresh' = Finalized /\ call' = Resume
    /\ crossed' = (crossed \/ Late(refresh.s))
    /\ UNCHANGED <<issued, dead, revoked, sessFaults, memoryVars, leaving, entering>>

RefreshRefused ==
    /\ refresh.at = "refused" /\ refresh' = [refresh EXCEPT !.at = "tearing"] /\ Leave("refresh")
    /\ UNCHANGED <<tokenVars, memo, layout, call, entering, crossed>>

-----------------------------------------------------------------------------
(***************************************************************************)
(* Sign-out and sign-in.                                                   *)
(***************************************************************************)

\* complete(): revoke with the token stored, then discard whatever came of it.
SignOut ==
    /\ layout = "app" /\ leaving["menu"].at = "no"
    /\ leaving' = [leaving EXCEPT !["menu"] = [at |-> "revoking", hdr |-> stored]]
    /\ UNCHANGED <<tokenVars, memoryVars, call, refresh, entering, crossed>>

\* GlobalSignOut, named by the access token alone; one that is over is no error.
GlobalSignOut(tok) == IF Accepted(tok) THEN revoked \cup {tok.s} ELSE revoked

\* A 401 of this call is not refreshed; no failure of it stops the teardown.
Revoked ==
    /\ leaving["menu"].at = "revoking" /\ Leave("menu")
    /\ \/ /\ revoked' = GlobalSignOut(leaving["menu"].hdr)
          /\ UNCHANGED sessFaults
       \/ SpendFault /\ UNCHANGED revoked
    /\ UNCHANGED <<stored, issued, dead, memo, layout, call, refresh, entering, crossed>>

\* Mutant: discard without markRestored.
KeptMemo == memo
\* markRestored(false)
Unrestored == FALSE

\* Storage answers that the tokens are gone, and the same task of the browser settles
\* rehydration as signed out and goes to /login; then the refresh's callers fail.
Clear(w) ==
    /\ leaving[w].at = "clearing" /\ leaving' = [leaving EXCEPT ![w].at = "no"]
    /\ stored' = NoTokens /\ memo' = Unrestored
    /\ layout' = Arrive(layout, "auth", user, memo')
    /\ IF w = "refresh"
       THEN /\ refresh' = NoRefresh
            /\ call' = [c \in All |-> IF c \in Waiting THEN Ended(c) ELSE call[c]]
            /\ entering' = IF Me \in Waiting THEN "no" ELSE entering
       ELSE UNCHANGED <<refresh, call, entering>>
    /\ crossed' = (crossed \/ entering # "no" \/ user # Nobody)
    /\ UNCHANGED <<issued, dead, revoked, sessFaults, user>>

\* A login page has tokens from Users: they are stored before the profile is read.
SignIn(s) ==
    /\ layout = "auth" /\ entering = "no" /\ issued[s] = 0 /\ call[Me].at = "idle"
    /\ \A r \in Sessions : r < s => issued[r] > 0
    /\ issued' = [issued EXCEPT ![s] = LastIssued + 1] /\ entering' = "writing"
    /\ UNCHANGED <<crossed, stored, dead, revoked, sessFaults, memoryVars, call, refresh, leaving>>

NewestSession == CHOOSE s \in Sessions : issued[s] > 0 /\ \A r \in Sessions : r > s => issued[r] = 0

SignInStored ==
    /\ entering = "writing" /\ entering' = "calling"
    /\ stored' = [s |-> NewestSession, g |-> issued[NewestSession]]
    /\ Send(Me, 1, stored')
    /\ UNCHANGED <<issued, dead, revoked, sessFaults, memoryVars, refresh, leaving, crossed>>

\* Users' routes of a session: POST /refresh, public, and POST /logout, with the token.
SessionRoutes == RefreshServed \/ Revoked

SessNext ==
    \/ Expire \/ BootRead \/ Wander
    \/ \E c \in Calls : Issue(c)
    \/ \E c \in All : TryAgain(c) \/ Succeed(c) \/ Unauthorized(c) \/ Fail(c)
    \/ SessionRoutes \/ RefreshStored \/ RefreshRefused
    \/ SignOut
    \/ \E w \in Who : Clear(w)
    \/ \E s \in Sessions : SignIn(s)
    \/ SignInStored

SessSpec == SessInit /\ [][SessNext]_sessVars

-----------------------------------------------------------------------------
SessAtRest == /\ \A c \in All : call[c].at \in {"idle", "done"}
              /\ refresh.at = "none" /\ entering = "no" /\ layout # "boot"
              /\ \A w \in Who : leaving[w].at = "no"

\* "The in-memory session, the persisted tokens and the URL all have to agree"
\* (sign-out.ts): with nothing under way, the app shows only to a visitor whose
\* tokens are stored and whose user is theirs, and a visitor of the auth pages has
\* neither; but for a teardown that a call crossed, and a sign-in whose profile
\* could not be read.
SessionAgrees ==
    SessAtRest /\ ~crossed =>
        /\ layout = "app" => stored # NoTokens /\ user \in {stored.s, Nobody}
        /\ layout = "auth" => \/ stored = NoTokens /\ user = Nobody
                              \/ user \in MustChange /\ stored # NoTokens

\* A call refused twice was not tried again with the token first refused, whatever burst
\* of 401s it was part of.
NoStaleRetry ==
    \A c \in All : Refused(c, 2) /\ call[c].first # NoTokens =>
        call[c].hdr # call[c].first

\* Who is signed in, and with which token, is never told two ways.
SessionHonest == SessTypeOK /\ SessionAgrees /\ NoStaleRetry
=============================================================================
