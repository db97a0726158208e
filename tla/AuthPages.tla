------------------------------ MODULE AuthPages ------------------------------
(***************************************************************************)
(* The pages a visitor signs in with, in one tab, and what Users answers   *)
(* them: login with a password or a code, both registrations, the code's   *)
(* page with its resend, and the two pages of a reset.  A submit goes on   *)
(* when its page has been left: what it stores, and where it navigates,    *)
(* happens all the same.                                                   *)
(*                                                                         *)
(* A Cognito session is the number of the code mailed with it.  What is    *)
(* typed stands in its form until it is sent, if it passes the form's      *)
(* validators; one that does not is a message on the page and no request.  *)
(* Left out: those messages.                                               *)
(***************************************************************************)
EXTENDS Naturals, Sequences, FiniteSets

CONSTANTS Emails,
          Accounts,  \* those registered at first
          Forced,    \* those whose profile says mustChangePassword
          Submits,   \* 1 .. n: the submissions there can be
          NoEmail, NoChallenge,
          Unheard    \* the answer that has not come

ASSUME AuthPagesAssumption == Accounts \subseteq Emails /\ Unheard \notin {"ok", "failed", "409"}

CallPages == {"login", "login code", "register", "register code", "verify", "reset", "new password"}

VARIABLES
    page,         \* one of CallPages, or "home"
    submitting, resending,
    challenge,    \* OtpChallengeStore: [email, session]
    requestedFor, \* PasswordResetStore
    asked,        \* per submission: [asks, email, session, code, answer, mine]
    registered,   \* Users: the accounts
    mailed,       \* Cognito: the address of each code, in order
    heard,        \* history: the sessions an answer brought here
    leftPage      \* history: a code asked for on a page that had been left came,
                  \* or came after a later one

shown == <<page, submitting, resending>>
authPagesVars == <<shown, challenge, requestedFor, asked, registered, mailed, heard, leftPage>>

Idle == [asks |-> "nothing", email |-> NoEmail, session |-> 0, code |-> 0,
         answer |-> Unheard, mine |-> FALSE]

AuthPagesTypeOK ==
    /\ page \in CallPages \cup {"home"} /\ registered \subseteq Emails
    /\ {submitting, resending, leftPage} \subseteq BOOLEAN
    /\ requestedFor \in Emails \cup {NoEmail}
    /\ challenge = NoChallenge \/ challenge \in [email : Emails, session : 1 .. Len(mailed)]

AuthPagesInit ==
    /\ page = "login" /\ submitting = FALSE /\ resending = FALSE
    /\ challenge = NoChallenge /\ requestedFor = NoEmail /\ asked = [n \in Submits |-> Idle]
    /\ registered = Accounts /\ mailed = <<>> /\ heard = {} /\ leftPage = FALSE

UnderWay == {n \in Submits : asked[n].asks \notin {"nothing", "over"}}
Mine(asks) == {n \in UnderWay : asked[n].mine /\ asked[n].asks \in asks}

-----------------------------------------------------------------------------
(* The router: a page is made anew, and the submissions of the last go on. *)

\* guestGuard stands before the pages, for who comes from outside them; and to go
\* where one is makes no page.
Navigate(p, calls) ==
    IF page \in {p, "home"} THEN UNCHANGED shown /\ asked' = calls
    ELSE /\ page' = p /\ submitting' = FALSE /\ resending' = FALSE
         /\ asked' = [n \in Submits |-> [calls[n] EXCEPT !.mine = FALSE]]

\* By a link; the code's page has none to it, but the browser's own Back and Forward
\* lead there once it was shown.
GoTo(p) ==
    /\ page # "home" /\ p # page /\ Navigate(p, asked)
    /\ p = "verify" => heard # {}
    /\ p = "new password" => requestedFor # NoEmail
    /\ UNCHANGED <<challenge, requestedFor, registered, mailed, heard, leftPage>>

-----------------------------------------------------------------------------
Request(n, request) ==
    /\ asked[n] = Idle /\ \A m \in Submits : m < n => asked[m] # Idle
    /\ asked' = [asked EXCEPT ![n] = request]

\* The submit of a form: the address in it, and what its page asks of Users first.
Submit(n, on, asks, e) ==
    /\ page = on /\ ~submitting /\ submitting' = TRUE
    /\ Request(n, [Idle EXCEPT !.asks = asks, !.email = e, !.mine = TRUE])
    /\ UNCHANGED <<page, resending, challenge, requestedFor, registered, mailed, heard, leftPage>>

LoginPassword(n, e)        == Submit(n, "login", "login", e)
LoginPasswordless(n, e)    == Submit(n, "login code", "start", e)
RegisterPassword(n, e)     == Submit(n, "register", "register", e)
RegisterPasswordless(n, e) == Submit(n, "register code", "register code", e)
ResetPasswordRequest(n, e) == Submit(n, "reset", "forgot", e)
\* The page offers the address the reset was mailed to.
SetNewPassword(n, e) ==
    /\ requestedFor # NoEmail => e = requestedFor
    /\ Submit(n, "new password", "confirm", e)

\* VerifyCodePage.submit, of a code of six digits: one that came, or another.
SubmitCode(n, code) ==
    /\ page = "verify" /\ ~submitting /\ challenge # NoChallenge /\ submitting' = TRUE
    /\ Request(n, [Idle EXCEPT !.asks = "verify", !.email = challenge.email,
                               !.session = challenge.session, !.code = code, !.mine = TRUE])
    /\ UNCHANGED <<page, resending, challenge, requestedFor, registered, mailed, heard, leftPage>>

Resend(n) ==
    /\ page = "verify" /\ ~resending /\ challenge # NoChallenge /\ resending' = TRUE
    /\ Request(n, [Idle EXCEPT !.asks = "resend", !.email = challenge.email, !.mine = TRUE])
    /\ UNCHANGED <<page, submitting, challenge, requestedFor, registered, mailed, heard, leftPage>>

-----------------------------------------------------------------------------
(* Users and Cognito, to the extent of their answers. *)

Says(n, answer) == asked' = [asked EXCEPT ![n].answer = answer]

\* A refusal is a message to every page but the passwordless registration's.
Taken(request) == IF request.asks = "register code" THEN "409" ELSE "failed"

\* What a request does, whether its answer then comes back or is lost.
Serve(n, back) ==
    LET request == asked[n]
        say(answer) == Says(n, IF back THEN answer ELSE "failed") IN
    /\ n \in UnderWay /\ request.answer = Unheard
    /\ CASE request.asks \in {"register", "register code"} ->
              /\ say(IF request.email \in registered THEN Taken(request) ELSE "ok")
              /\ registered' = registered \cup {request.email} /\ UNCHANGED mailed
         [] request.asks \in {"start", "resend"} /\ request.email \in registered ->
              /\ mailed' = Append(mailed, request.email) /\ UNCHANGED registered
              /\ asked' = [asked EXCEPT ![n].answer = IF back THEN "ok" ELSE "failed",
                                      ![n].session = IF back THEN Len(mailed) + 1 ELSE 0]
         [] request.asks = "verify" ->
              /\ say(IF /\ request.code = request.session
                        /\ mailed[request.session] = request.email THEN "ok" ELSE "failed")
              /\ UNCHANGED <<registered, mailed>>
         [] request.asks \in {"start", "resend", "login", "me", "confirm"} /\ request.email \notin registered ->
              say("failed") /\ UNCHANGED <<registered, mailed>>
         [] OTHER -> say("ok") /\ UNCHANGED <<registered, mailed>>
    /\ UNCHANGED <<shown, challenge, requestedFor, heard, leftPage>>

\* The wrong password, the wrong reset code.
Refuse(n) ==
    /\ n \in UnderWay /\ asked[n].answer = Unheard /\ asked[n].asks \in {"login", "confirm"}
    /\ Says(n, "failed") /\ UNCHANGED <<shown, challenge, requestedFor, registered, mailed, heard, leftPage>>

-----------------------------------------------------------------------------
(* What a page does with an answer, on screen or not. *)

GoOn(n, asks) ==
    /\ asked' = [asked EXCEPT ![n].asks = asks, ![n].answer = Unheard]
    /\ UNCHANGED <<shown, challenge, requestedFor, heard, leftPage>>

Over(n) == [asked EXCEPT ![n] = [Idle EXCEPT !.asks = "over"]]
Ends(n) == asked' = Over(n)

\* Mutant: the resend keeps the session the page came with.
RenewNothing(session) == challenge
\* OtpChallengeStore.renew, which keeps the email.
Renew(session) == IF challenge = NoChallenge THEN NoChallenge ELSE [challenge EXCEPT !.session = session]

\* A 409 of the passwordless registration is no dead end: its address gets a code.
Registered(n) ==
    \/ asked[n].asks = "register" /\ asked[n].answer = "ok" /\ GoOn(n, "login")
    \/ asked[n].asks = "register code" /\ asked[n].answer \in {"ok", "409"} /\ GoOn(n, "start")

Started(n) ==
    /\ asked[n].asks = "start" /\ asked[n].answer = "ok"
    /\ challenge' = [email |-> asked[n].email, session |-> asked[n].session]
    /\ heard' = heard \cup {asked[n].session}
    /\ leftPage' = (~asked[n].mine \/ \E s \in heard : s > asked[n].session)
    /\ Navigate("verify", Over(n)) /\ UNCHANGED requestedFor

Resent(n) ==
    /\ asked[n].asks = "resend" /\ asked[n].answer = "ok"
    /\ challenge' = Renew(asked[n].session)
    /\ heard' = heard \cup {asked[n].session} /\ leftPage' = (leftPage \/ ~asked[n].mine) /\ Ends(n)
    /\ resending' = (resending /\ ~asked[n].mine) /\ UNCHANGED <<page, submitting, requestedFor>>

\* SignIn.complete: the tokens, then the profile, then the page.
Proven(n) ==
    /\ asked[n].asks \in {"login", "verify"} /\ asked[n].answer = "ok"
    /\ challenge' = IF asked[n].asks = "verify" THEN NoChallenge ELSE challenge
    /\ asked' = [asked EXCEPT ![n] = [Idle EXCEPT !.asks = "me", !.email = asked[n].email, !.mine = asked[n].mine]]
    /\ UNCHANGED <<shown, requestedFor, heard, leftPage>>

SignedIn(n) ==
    /\ asked[n].asks = "me" /\ asked[n].answer = "ok"
    /\ Navigate(IF asked[n].email \in Forced THEN "new password" ELSE "home", Over(n))
    /\ UNCHANGED <<challenge, requestedFor, heard, leftPage>>

\* The confirmation waits on the page for the visitor to go on.
ResetMailed(n) ==
    /\ asked[n].asks = "forgot" /\ asked[n].answer = "ok" /\ requestedFor' = asked[n].email /\ Ends(n)
    /\ submitting' = (submitting /\ ~asked[n].mine)
    /\ UNCHANGED <<page, resending, challenge, heard, leftPage>>

PasswordSet(n) ==
    /\ asked[n].asks = "confirm" /\ asked[n].answer = "ok" /\ requestedFor' = NoEmail
    /\ Navigate("login", Over(n)) /\ UNCHANGED <<challenge, heard, leftPage>>

Fails(n) ==
    /\ n \in UnderWay /\ asked[n].answer = "failed" /\ Ends(n)
    /\ submitting' = (submitting /\ ~(asked[n].mine /\ asked[n].asks # "resend"))
    /\ resending' = (resending /\ ~(asked[n].mine /\ asked[n].asks = "resend"))
    /\ UNCHANGED <<page, challenge, requestedFor, heard, leftPage>>

Hear(n) ==
    /\ \/ Registered(n) \/ Started(n) \/ Resent(n) \/ Proven(n) \/ SignedIn(n)
       \/ ResetMailed(n) \/ PasswordSet(n) \/ Fails(n)
    /\ UNCHANGED <<registered, mailed>>

AuthPagesNext ==
    \/ \E p \in CallPages : GoTo(p)
    \/ \E n \in Submits :
         \/ \E e \in Emails :
              \/ LoginPassword(n, e) \/ LoginPasswordless(n, e) \/ RegisterPassword(n, e)
              \/ RegisterPasswordless(n, e) \/ ResetPasswordRequest(n, e) \/ SetNewPassword(n, e)
         \/ \E code \in 0 .. Len(mailed) : SubmitCode(n, code)
         \/ Resend(n) \/ Refuse(n) \/ Hear(n)
         \/ \E back \in BOOLEAN : Serve(n, back)

AuthPagesSpec == AuthPagesInit /\ [][AuthPagesNext]_authPagesVars

-----------------------------------------------------------------------------
\* The code that came last is the one the page can verify ("Cognito ties the code to
\* the challenge session it minted"): the challenge holds the address its session was
\* mailed to, and no answer brought a later session of that address.  But a page left
\* with its request under way stores what it hears over the challenge of another.
CodeOpens ==
    challenge # NoChallenge /\ ~leftPage =>
        /\ mailed[challenge.session] = challenge.email
        /\ \A s \in heard : mailed[s] = challenge.email => s <= challenge.session

\* A button is held exactly while its request is under way, and one is.
OneAtATime ==
    /\ submitting <=> Mine({"register", "register code", "start", "verify", "login", "me", "forgot", "confirm"}) # {}
    /\ resending <=> Mine({"resend"}) # {}

\* The pages hold their buttons while they ask, and the code's page the session of
\* the code last mailed.
AuthPagesHonest == AuthPagesTypeOK /\ CodeOpens /\ OneAtATime
=============================================================================
