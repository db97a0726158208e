----------------------------- MODULE LiveSocket -----------------------------
(***************************************************************************)
(* The web application's only WebSocket, NotificationsSocket: the layout   *)
(* that opens it and the sign-out that closes it, the token read before a  *)
(* handshake, retries, the browser's network events, and the watchdog that *)
(* ends a silent connection.                                               *)
(*                                                                         *)
(* Time is left out: any timer that runs may fire.  So is the token's age: *)
(* a handshake the authorizer refuses is one that fails, and what the      *)
(* frames carry is Inbox's.                                                *)
(***************************************************************************)
EXTENDS Naturals

CONSTANTS LastSocket,  \* bound: WebSocket objects made, numbered from 1
          MaxOpening,  \* bound: open() calls awaiting their token at once
          MaxDelay,    \* backoff steps to the cap
          MaxBreaks    \* bound: network events, refused handshakes, closes, new sign-ins

ASSUME SocketAssumption == LastSocket \in Nat /\ MaxDelay \in Nat

VARIABLES
    status,     \* SocketStatus
    socket,     \* this.socket; 0 is null
    ws,         \* the sockets made: "unused", "dialing", "open", "closing", "closed"
    opening,    \* open() calls that await the token store
    retry, delay, silence,  \* armed; backoff step; socket whose deadline runs
    wanted,
    mounted,    \* AppLayout is on the page
    signedIn,   \* the store holds tokens
    breaks,     \* counter of the bound
    bare,       \* history: the last open() found no tokens
    doubled     \* history: an open() began while another awaited its token

sockVars == <<status, socket, ws, opening, retry, delay, silence, wanted, mounted, signedIn, breaks,
              bare, doubled>>

Sockets == 1 .. LastSocket
Live == {i \in Sockets : ws[i] \in {"dialing", "open"}}

SocketTypeOK ==
    /\ status \in {"idle", "connecting", "open", "closed"} /\ socket \in 0 .. LastSocket
    /\ ws \in [Sockets -> {"unused", "dialing", "open", "closing", "closed"}]
    /\ opening \in Nat /\ delay \in 0 .. MaxDelay /\ silence \in 0 .. LastSocket
    /\ {retry, wanted, mounted, signedIn, bare, doubled} \subseteq BOOLEAN

SocketInit ==
    /\ status = "idle" /\ socket = 0 /\ ws = [i \in Sockets |-> "unused"] /\ opening = 0
    /\ retry = FALSE /\ delay = 0 /\ silence = 0 /\ wanted = FALSE
    /\ mounted = FALSE /\ signedIn = TRUE /\ breaks = 0 /\ bare = FALSE /\ doubled = FALSE

\* liveState, the badge's; how many attempts there were picks its wording only.
LiveState ==
    IF status = "open" THEN "live"
    ELSE IF status = "closed" /\ ~retry THEN "offline" ELSE "trying"

Break == breaks < MaxBreaks /\ breaks' = breaks + 1

\* open(), up to its await.
Open ==
    /\ opening < MaxOpening
    /\ status' = "connecting" /\ opening' = opening + 1 /\ doubled' = (doubled \/ opening > 0)

\* connect() does nothing over a socket it has or dials.
ConnectTab ==
    IF socket # 0 \/ status = "connecting" THEN UNCHANGED <<status, opening, wanted, doubled>>
    ELSE wanted' = TRUE /\ Open

\* The layout's constructor.
Mount ==
    /\ ~mounted /\ signedIn /\ mounted' = TRUE /\ ConnectTab
    /\ UNCHANGED <<socket, ws, retry, delay, silence, signedIn, breaks, bare>>

\* disconnect()
Disconnect ==
    /\ wanted' = FALSE /\ retry' = FALSE /\ silence' = 0 /\ delay' = 0
    /\ socket' = 0 /\ ws' = [i \in Sockets |-> IF i = socket THEN "closing" ELSE ws[i]]
    /\ status' = "closed"
    /\ UNCHANGED <<opening, breaks, bare, doubled>>

\* The layout leaves the page for the auth pages.
Unmount ==
    /\ mounted /\ mounted' = FALSE /\ Disconnect /\ UNCHANGED signedIn

\* discard() closes the socket before the tokens, and then the layout, go.
SignOutBegins == mounted /\ signedIn /\ Disconnect /\ UNCHANGED <<mounted, signedIn>>
SignOutEnds == mounted /\ ~wanted /\ mounted' = FALSE /\ signedIn' = FALSE /\ Disconnect
SignInAgain == /\ ~signedIn /\ ~mounted /\ Break /\ signedIn' = TRUE
               /\ UNCHANGED <<status, socket, ws, opening, retry, delay, silence, wanted, mounted, bare, doubled>>

StillWanted == wanted

\* open(), after its await: the sign-out that raced the read, no tokens (none stored, or
\* the store cannot be read), or a socket.
TokenRead ==
    /\ opening > 0 /\ opening' = opening - 1
    /\ \/ ~StillWanted /\ UNCHANGED <<status, socket, ws, breaks, bare>>
       \/ StillWanted /\ Break /\ status' = "closed" /\ bare' = TRUE /\ UNCHANGED <<socket, ws>>
       \/ /\ StillWanted /\ signedIn /\ bare' = FALSE
          /\ \E i \in Sockets :
               /\ ws[i] = "unused" /\ \A j \in Sockets : j < i => ws[j] # "unused"
               /\ ws' = [ws EXCEPT ![i] = "dialing"] /\ socket' = i
          /\ UNCHANGED <<status, breaks>>
    /\ UNCHANGED <<retry, delay, silence, wanted, mounted, signedIn, doubled>>

-----------------------------------------------------------------------------
(***************************************************************************)
(* Events of a socket: those of one replaced are still heard.              *)
(***************************************************************************)

\* onopen
Opened(i) ==
    /\ ws[i] = "dialing" /\ ws' = [ws EXCEPT ![i] = "open"]
    /\ delay' = 0 /\ status' = "open" /\ silence' = i
    /\ UNCHANGED <<socket, opening, retry, wanted, mounted, signedIn, breaks, bare, doubled>>

\* onmessage, of any frame, restarts the deadline.
Message(i) ==
    /\ ws[i] = "open" /\ silence' = i
    /\ UNCHANGED <<status, socket, ws, opening, retry, delay, wanted, mounted, signedIn, breaks, bare, doubled>>

Current(i) == socket = i

\* lost() and scheduleRetry()
Lost(i) ==
    IF Current(i)
    THEN /\ silence' = 0 /\ socket' = 0 /\ status' = "closed"
         /\ IF wanted /\ ~retry THEN retry' = TRUE /\ delay' = (IF delay < MaxDelay THEN delay + 1 ELSE delay)
            ELSE UNCHANGED <<retry, delay>>
    ELSE UNCHANGED <<silence, socket, status, retry, delay>>

\* Mutant: only a close arms the retry.
LostOnClose(i, event) == IF event = "error" THEN UNCHANGED <<silence, socket, status, retry, delay>> ELSE Lost(i)
LostOnAny(i, event) == Lost(i)

\* A handshake refused, or blocked by CSP, ends in an error; an open socket closes.
Broken(i) ==
    /\ ws[i] \in {"dialing", "open"} /\ Break /\ ws' = [ws EXCEPT ![i] = "closed"]
    /\ LostOnAny(i, IF ws[i] = "dialing" THEN "error" ELSE "close")
    /\ UNCHANGED <<opening, wanted, mounted, signedIn, bare, doubled>>

\* The close event of a socket this side closed comes later.
CloseEvent(i) ==
    /\ ws[i] = "closing" /\ ws' = [ws EXCEPT ![i] = "closed"] /\ Lost(i)
    /\ UNCHANGED <<opening, wanted, mounted, signedIn, breaks, bare, doubled>>

\* 70 seconds without a frame, or the browser's offline event: closed from here.
CloseNow(i) ==
    /\ ws' = [ws EXCEPT ![i] = IF @ \in {"dialing", "open"} THEN "closing" ELSE @] /\ Lost(i)
    /\ UNCHANGED <<opening, wanted, mounted, signedIn, bare, doubled>>
Silence == silence # 0 /\ Break /\ CloseNow(silence)
Offline == socket # 0 /\ Break /\ CloseNow(socket)

\* The timer of a retry; and retryNow(), the badge's or the online event's.
RetryFires ==
    /\ retry /\ retry' = FALSE /\ Open
    /\ UNCHANGED <<socket, ws, delay, silence, wanted, mounted, signedIn, breaks, bare>>
RetryNow ==
    /\ wanted /\ socket = 0 /\ Break
    /\ retry' = FALSE /\ delay' = 0 /\ Open
    /\ UNCHANGED <<socket, ws, silence, wanted, mounted, signedIn, bare>>

SocketNext ==
    \/ Mount \/ Unmount \/ SignOutBegins \/ SignOutEnds \/ SignInAgain
    \/ TokenRead \/ RetryFires \/ RetryNow \/ Silence \/ Offline
    \/ \E i \in Sockets : Opened(i) \/ Message(i) \/ Broken(i) \/ CloseEvent(i)

SocketSpec == SocketInit /\ [][SocketNext]_sockVars

-----------------------------------------------------------------------------
\* "The app's only WebSocket": no connection is live but the one held, and none at
\* all once it is not wanted, so a sign-out stays signed out; but for two open()
\* calls that both awaited a token.
SocketFollowsSession ==
    ~doubled => /\ Live \subseteq {socket}
                /\ wanted \/ (Live = {} /\ ~retry)

\* A tab that wants its updates is never left dead in silence: it holds a live
\* socket with its deadline running, or another attempt is coming; but when the
\* store gave no tokens.
NeverStranded ==
    wanted /\ ~bare /\ ~doubled =>
        \/ opening > 0 \/ retry
        \/ socket \in Live /\ (ws[socket] = "open" => silence = socket)

\* The badge of such a tab says live while its socket is open and at no other time, and
\* does not say offline, which asks the user to act, while a retry is under way.
BadgeHonest ==
    wanted /\ ~bare /\ ~doubled =>
        /\ LiveState = "live" <=> socket # 0 /\ ws[socket] = "open"
        /\ LiveState # "offline"

\* One socket, while and only while it is wanted, and a badge that says so.
TabStaysLive == SocketTypeOK /\ SocketFollowsSession /\ NeverStranded /\ BadgeHonest
=============================================================================
