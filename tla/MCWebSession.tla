----------------------------- MODULE MCWebSession -----------------------------
\* What runs behind every page of the web application, the pages it is entered by,
\* and the registry that pushes to it.  They meet only where one calls another's
\* entry points, which each model offers at any time: one run explores each of them
\* on its own.
EXTENDS WebSession, LiveSocket, Inbox, Toasts, Connections, AuthPages

VARIABLE focus

\* The third handshake's token does not verify.
MCBearer == [c \in Links |-> IF c = 3 THEN NoSub ELSE "s1"]
MCFor == [f \in Fans |-> "s1"]

Init ==
    /\ SessInit /\ SocketInit /\ InboxInit /\ ToastInit /\ RegistryInit /\ AuthPagesInit
    /\ focus \in {"session", "socket", "inbox", "silent", "toasts", "registry", "pages"}
    /\ focus # "session" => stored = NoTokens /\ dead = 0 /\ revoked = {}

Next ==
    \/ focus = "session" /\ SessNext
       /\ UNCHANGED <<focus, sockVars, inboxVars, toastVars, registryVars, authPagesVars>>
    \/ focus = "socket" /\ SocketNext
       /\ UNCHANGED <<focus, sessVars, inboxVars, toastVars, registryVars, authPagesVars>>
    \* A silent event touches nothing but its message: it is consumed on its own.
    \/ focus = "inbox" /\ InboxNext /\ \A e \in Silent : msg'[e] = msg[e]
       /\ UNCHANGED <<focus, sessVars, sockVars, toastVars, registryVars, authPagesVars>>
    \/ focus = "silent" /\ \E e \in Events : Consume(e)
       /\ UNCHANGED <<focus, sessVars, sockVars, toastVars, registryVars, authPagesVars>>
    \/ focus = "toasts" /\ ToastNext
       /\ UNCHANGED <<focus, sessVars, sockVars, inboxVars, registryVars, authPagesVars>>
    \/ focus = "registry" /\ RegistryNext
       /\ UNCHANGED <<focus, sessVars, sockVars, inboxVars, toastVars, authPagesVars>>
    \/ focus = "pages" /\ AuthPagesNext
       /\ UNCHANGED <<focus, sessVars, sockVars, inboxVars, toastVars, registryVars>>

Spec == Init /\ [][Next]_<<focus, sessVars, sockVars, inboxVars, toastVars, registryVars, authPagesVars>>
=============================================================================
