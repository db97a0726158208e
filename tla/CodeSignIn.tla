------------------------------ MODULE CodeSignIn ------------------------------
(***************************************************************************)
(* Signing in with a code that is mailed: Cognito's custom challenge, the  *)
(* Lambda behind its three triggers, the routes of Users that start and    *)
(* answer it, and the pages of the web application.                        *)
(*                                                                         *)
(* All of it is about one address.  A call c of POST /otp/start opens the  *)
(* challenge c; the n-th code minted for it is <<c, n>>.                   *)
(***************************************************************************)
EXTENDS Naturals, FiniteSets

CONSTANTS Starts,      \* calls of POST /otp/start
          NoChallenge,
          MaxUpsets    \* bound: calls that fail, whether or not they happened

ASSUME StartsAssumption == Starts \subseteq Nat /\ NoChallenge \notin Starts

VARIABLES
    start,      \* per start: its step, who makes it, whether its page is open
    challenge, \* Cognito: per challenge, its state and the wrong answers so far
    minted,    \* Cognito: how many codes it has had; the last is expected
    mail,      \* the codes mailed
    newest,    \* the last of them
    renews,    \* Cognito takes the session of a wrong answer for the next one
    held,      \* web: the challenge whose session OtpChallengeStore has
    answer,    \* web: the answer under way, and whether its page is open
    overlapped, \* history: starts that were under way together
    upsets     \* counter of the bound

poolSide  == <<challenge, minted, mail, newest, renews>>
signInVars == <<poolSide, start, held, answer, overlapped, upsets>>

MAX_ATTEMPTS == 3
NoAnswer == [to |-> NoChallenge, code |-> <<0, 0>>, here |-> FALSE, result |-> "none"]
Upset == upsets < MaxUpsets /\ upsets' = upsets + 1
Expected(c) == <<c, minted[c]>>

CodeTypeOK ==
    /\ \A c \in Starts : /\ start[c].at \in {"new", "sent", "served", "answered", "failed"}
                         /\ challenge[c].at \in {"none", "open", "over"}
                         /\ challenge[c].wrong \in 0 .. MAX_ATTEMPTS
    /\ mail \subseteq Starts \X Nat /\ held \in Starts \cup {NoChallenge}
    /\ answer.result \in {"none", "asked", "tokens", "refused"} /\ overlapped \subseteq Starts

CodeInit ==
    /\ start = [c \in Starts |-> [at |-> "new", by |-> "login", here |-> FALSE]]
    /\ challenge = [c \in Starts |-> [at |-> "none", wrong |-> 0]]
    /\ minted = [c \in Starts |-> 0] /\ mail = {} /\ newest = <<0, 0>> /\ renews \in BOOLEAN
    /\ held = NoChallenge /\ answer = NoAnswer /\ overlapped = {} /\ upsets = 0

-----------------------------------------------------------------------------
(***************************************************************************)
(* Starting: the login and register pages, and a resend.                   *)
(***************************************************************************)

UnderWay == {c \in Starts : start[c].at \in {"sent", "served"}}
Loading(by) == \E c \in UnderWay : start[c].by = by /\ start[c].here

\* submitting and resending belong to the page: one that is opened again has its own.
Ask(c, by) ==
    /\ start[c].at = "new" /\ ~Loading(by)
    /\ start' = [start EXCEPT ![c] = [at |-> "sent", by |-> by, here |-> TRUE]]
    /\ overlapped' = IF UnderWay = {} THEN overlapped ELSE overlapped \cup UnderWay \cup {c}
    /\ UNCHANGED <<poolSide, held, answer, upsets>>

SubmitEmail(c) == Ask(c, "login")
Resend(c) == held # NoChallenge /\ Ask(c, "resend")

FirstCode(c) == <<c, 1>>
Mailed(code) == mail' = mail \cup {code} /\ newest' = code

\* The first round mints a code and mails it; a failure to send it fails the start.
CreateChallenge(c) ==
    /\ start[c].at = "sent"
    /\ \/ /\ minted' = [minted EXCEPT ![c] = 1] /\ challenge' = [challenge EXCEPT ![c].at = "open"]
          /\ Mailed(FirstCode(c))
          /\ start' = [start EXCEPT ![c].at = "served"] /\ UNCHANGED upsets
       \/ /\ Upset /\ start' = [start EXCEPT ![c].at = "failed"]
          /\ Mailed(FirstCode(c)) \/ UNCHANGED <<mail, newest>>
          /\ UNCHANGED <<minted, challenge>>
    /\ UNCHANGED <<renews, held, answer, overlapped>>

\* Mutant: a resend keeps the session the page had.
KeptSession(c) == IF start[c].by = "login" THEN c ELSE held
\* A login stores the challenge; a resend renews the one that is there.
Replaced(c) == IF start[c].by = "login" \/ held # NoChallenge THEN c ELSE NoChallenge

StartAnswered(c) ==
    /\ start[c].at = "served"
    /\ \/ held' = Replaced(c) /\ start' = [start EXCEPT ![c].at = "answered"] /\ UNCHANGED upsets
       \/ Upset /\ start' = [start EXCEPT ![c].at = "failed"] /\ UNCHANGED held
    /\ UNCHANGED <<poolSide, answer, overlapped>>

StartOtpChallenge(c) == CreateChallenge(c) \/ StartAnswered(c)

\* The user leaves for another page; what is under way goes on.
LeavePage ==
    /\ Loading("login") \/ Loading("resend") \/ answer.here
    /\ start' = [c \in Starts |-> [start[c] EXCEPT !.here = FALSE]]
    /\ answer' = [answer EXCEPT !.here = FALSE]
    /\ UNCHANGED <<poolSide, held, overlapped, upsets>>

\* Cognito forgets a challenge after some minutes.
Forget(c) ==
    /\ challenge[c].at = "open" /\ challenge' = [challenge EXCEPT ![c].at = "over"]
    /\ UNCHANGED <<minted, mail, newest, renews, start, held, answer, overlapped, upsets>>

-----------------------------------------------------------------------------
(***************************************************************************)
(* Answering.  One answer under way at a time is a bound: a page that is   *)
(* opened again could send another.                                        *)
(***************************************************************************)

SubmitCode ==
    /\ held # NoChallenge /\ answer = NoAnswer
    /\ \E code \in mail \cup {<<0, 0>>} :
          answer' = [to |-> held, code |-> code, here |-> TRUE, result |-> "asked"]
    /\ UNCHANGED <<poolSide, start, held, overlapped, upsets>>

\* A round after a wrong answer has the code of the first, from challengeMetadata.
Reused(c) == UNCHANGED <<minted, mail, newest>>

Judged(result) == answer' = [answer EXCEPT !.result = result]

RightAnswer == challenge[answer.to].at = "open" /\ answer.code = Expected(answer.to)
WrongAnswer == challenge[answer.to].at = "open" /\ answer.code # Expected(answer.to)
TryLeft     == challenge[answer.to].wrong + 1 < MAX_ATTEMPTS

\* Verify, then Define: issue the tokens, fail, or go another round, whose session
\* Users drops with the answer's 401.
Respond ==
    /\ answer.result = "asked"
    /\ LET c == answer.to
       IN  \/ /\ RightAnswer /\ Judged("tokens") /\ UNCHANGED <<minted, mail, newest, upsets>>
              /\ challenge' = [challenge EXCEPT ![c].at = "over"]
           \/ /\ WrongAnswer /\ Judged("refused") /\ UNCHANGED upsets
              /\ challenge' = [challenge EXCEPT ![c] =
                    [at |-> IF TryLeft /\ renews THEN "open" ELSE "over", wrong |-> @.wrong + 1]]
              /\ IF TryLeft THEN Reused(c) ELSE UNCHANGED <<minted, mail, newest>>
           \/ challenge[c].at = "over" /\ Judged("refused") /\ UNCHANGED <<challenge, minted, mail, newest, upsets>>
           \/ /\ Upset /\ Judged("refused") /\ UNCHANGED <<minted, mail, newest>>
              /\ challenge' \in {challenge, [challenge EXCEPT ![c].at = "over"]}
    /\ UNCHANGED <<renews, start, held, overlapped>>

\* The challenge is cleared before the sign-in goes on; a refusal leaves it.
CodeAnswered ==
    /\ answer.result \in {"tokens", "refused"} /\ answer' = NoAnswer
    /\ held' = IF answer.result = "tokens" THEN NoChallenge ELSE held
    /\ UNCHANGED <<poolSide, start, overlapped, upsets>>

\* POST /otp/start and POST /otp/verify, both public.
OtpRoutes == (\E c \in Starts : StartOtpChallenge(c)) \/ Respond

CodeNext ==
    \/ \E c \in Starts : SubmitEmail(c) \/ Resend(c) \/ Forget(c)
    \/ OtpRoutes
    \/ LeavePage \/ SubmitCode \/ CodeAnswered

CodeSpec == CodeInit /\ [][CodeNext]_signInVars

-----------------------------------------------------------------------------
\* A code that was mailed opens its challenge for as long as that is open (handleCreate-
\* AuthChallenge: a retry "must NOT mint a new code"), and the page holds the session of
\* the newest one (verify-code: "A resend replaces the session"), unless its start failed
\* on the way back or was under way together with another.
NewestCodeOpens ==
    /\ CodeTypeOK
    /\ \A c \in Starts : challenge[c].at = "open" => \A code \in mail : code[1] = c => code = Expected(c)
    /\ \A c \in Starts \ overlapped :
          newest[1] = c /\ start[c].at = "answered" => held \in {c, NoChallenge}
=============================================================================
