----------------------------- MODULE Connections -----------------------------
(***************************************************************************)
(* The realtime registry: the authorizer, $connect and $disconnect, which  *)
(* keep one row per open socket in DynamoDB, and the fan-out both          *)
(* publishers run, which reads the rows of a user by an index, posts to    *)
(* each socket and prunes those API Gateway says are gone.                 *)
(*                                                                         *)
(* API Gateway and DynamoDB are external: a socket is open only after      *)
(* $connect has answered 200, and a post to one not open answers 410; the  *)
(* index follows the table late; $disconnect is called at best once.       *)
(* $default writes nothing and is left out.                                *)
(***************************************************************************)
EXTENDS Naturals, FiniteSets

CONSTANTS Links,        \* connection ids
          Bearer,       \* Bearer[c]: the sub of the token on c's handshake, or NoSub if it does not verify
          NoSub,
          Fans,         \* calls of publishToUser
          For,          \* For[f]: the sub f is for
          MaxHitches    \* bound: failures of DynamoDB, of a post, of the disconnect event

VARIABLES
    link,      \* link[c]: "new", "allowed", "saved", "open", "closing", "closed"
    context,   \* context[c]: the sub the authorizer handed over
    rows,      \* the table: connection -> owner's sub
    index,     \* by-cognito-sub, behind the table
    fan,       \* fan[f]: "idle", "posting", "done"
    found,     \* found[f]: what the query returned
    todo,      \* todo[f]: those not posted to yet
    pruning,   \* pruning[f]: those that answered 410, their delete not sent yet
    hitches,   \* counter of the bound
    got,       \* history: got[f]: sockets the frame reached
    failed,    \* history: failed[f]: sockets whose post failed otherwise
    struck    \* history: sockets posted to between their row and their opening

registryVars == <<link, context, rows, index, fan, found, todo, pruning, hitches, got, failed, struck>>

NoRows == [c \in {} |-> NoSub]
RowsOf(table, sub) == {c \in DOMAIN table : table[c] = sub}
\* deleteConnection
Without(table, c) == [d \in DOMAIN table \ {c} |-> table[d]]

RegistryTypeOK ==
    /\ link \in [Links -> {"new", "allowed", "saved", "open", "closing", "closed"}]
    /\ DOMAIN rows \subseteq Links /\ DOMAIN index \subseteq Links
    /\ fan \in [Fans -> {"idle", "posting", "done"}]
    /\ \A f \in Fans : todo[f] \subseteq found[f] /\ pruning[f] \subseteq found[f]

RegistryInit ==
    /\ link = [c \in Links |-> "new"] /\ context = [c \in Links |-> NoSub]
    /\ rows = NoRows /\ index = NoRows
    /\ fan = [f \in Fans |-> "idle"] /\ hitches = 0 /\ struck = {}
    /\ found = [f \in Fans |-> {}] /\ todo = found /\ pruning = found /\ got = found /\ failed = found

Hitch == hitches < MaxHitches /\ hitches' = hitches + 1
fanVars == <<fan, found, todo, pruning, got, failed>>

-----------------------------------------------------------------------------
(* Handshakes and goodbyes. *)

\* Allow with the sub of a token that verifies, or Deny; as when the keys cannot be read.
Verified(c) == Bearer[c] # NoSub
Authorize(c) ==
    /\ link[c] = "new"
    /\ \/ /\ Verified(c) /\ link' = [link EXCEPT ![c] = "allowed"]
          /\ context' = [context EXCEPT ![c] = Bearer[c]] /\ UNCHANGED hitches
       \/ /\ link' = [link EXCEPT ![c] = "closed"] /\ UNCHANGED context
          /\ IF Verified(c) THEN Hitch ELSE UNCHANGED hitches
    /\ UNCHANGED <<rows, index, struck, fanVars>>

\* saveConnection, under the sub the authorizer verified.
SaveConnection(c) == rows' = [d \in DOMAIN rows \cup {c} |-> IF d = c THEN context[c] ELSE rows[d]]

\* $connect up to its answer; a put that fails, or whose answer is lost, refuses the
\* socket.  Its refusal of a missing context is one the authorizer's Allow rules out.
Connect(c) ==
    /\ link[c] = "allowed"
    /\ \/ link' = [link EXCEPT ![c] = "saved"] /\ SaveConnection(c) /\ UNCHANGED hitches
       \/ link' = [link EXCEPT ![c] = "closed"] /\ (SaveConnection(c) \/ UNCHANGED rows) /\ Hitch
    /\ UNCHANGED <<context, index, struck, fanVars>>

\* $connect answers after its traces are flushed; the browser may have left by then.
Answered(c) ==
    /\ link[c] = "saved"
    /\ \/ link' = [link EXCEPT ![c] = "open"] /\ UNCHANGED hitches
       \/ link' = [link EXCEPT ![c] = "closed"] /\ Hitch
    /\ UNCHANGED <<context, rows, index, struck, fanVars>>

\* The socket ends; the event that says so may never be sent.
Hangup(c) ==
    /\ link[c] = "open"
    /\ \/ link' = [link EXCEPT ![c] = "closing"] /\ UNCHANGED hitches
       \/ link' = [link EXCEPT ![c] = "closed"] /\ Hitch
    /\ UNCHANGED <<context, rows, index, struck, fanVars>>

\* disconnect.ts: a delete that fails is swallowed.
Disconnected(c) ==
    /\ link[c] = "closing" /\ link' = [link EXCEPT ![c] = "closed"]
    /\ \/ rows' = Without(rows, c) /\ UNCHANGED hitches
       \/ UNCHANGED rows /\ Hitch
    /\ UNCHANGED <<context, index, struck, fanVars>>

\* The row's ttl: two hours, no less than a socket's life.
ExpireRow(c) ==
    /\ c \in DOMAIN rows /\ link[c] = "closed" /\ rows' = Without(rows, c)
    /\ UNCHANGED <<link, context, index, hitches, struck, fanVars>>

IndexFollows ==
    /\ index # rows /\ index' = rows
    /\ UNCHANGED <<link, context, rows, hitches, struck, fanVars>>

-----------------------------------------------------------------------------
(* publishToUser: it never throws. *)

\* queryByCognitoSub; a query that fails ends the fan-out.
Query(f) ==
    /\ fan[f] = "idle"
    /\ \/ LET hits == RowsOf(index, For[f])
          IN /\ found' = [found EXCEPT ![f] = hits] /\ todo' = [todo EXCEPT ![f] = hits]
             /\ fan' = [fan EXCEPT ![f] = IF hits = {} THEN "done" ELSE "posting"]
             /\ UNCHANGED hitches
       \/ fan' = [fan EXCEPT ![f] = "done"] /\ Hitch /\ UNCHANGED <<found, todo>>
    /\ UNCHANGED <<link, context, rows, index, pruning, got, failed, struck>>

\* Mutant: any failed post counts as gone.
AnyError(answer) == answer # "sent"
IsGone(answer) == answer = "gone"

\* PostToConnection, of each at once.
Post(f, c) ==
    /\ c \in todo[f]
    /\ \E answer \in {"sent", "gone", "error"} :
         /\ answer = "sent" => link[c] = "open"
         /\ answer = "gone" => link[c] # "open"
         /\ IF answer = "error" THEN Hitch ELSE UNCHANGED hitches
         /\ got' = [got EXCEPT ![f] = IF answer = "sent" THEN @ \cup {c} ELSE @]
         /\ failed' = [failed EXCEPT ![f] = IF answer = "error" THEN @ \cup {c} ELSE @]
         /\ pruning' = [pruning EXCEPT ![f] = IF IsGone(answer) THEN @ \cup {c} ELSE @]
         /\ todo' = [todo EXCEPT ![f] = @ \ {c}]
    /\ struck' = IF link[c] = "saved" THEN struck \cup {c} ELSE struck
    /\ UNCHANGED <<link, context, rows, index, fan, found>>

\* deleteConnection of a dead socket; its failure is swallowed.
Prune(f, c) ==
    /\ c \in pruning[f] /\ pruning' = [pruning EXCEPT ![f] = @ \ {c}]
    /\ \/ rows' = Without(rows, c) /\ UNCHANGED hitches
       \/ UNCHANGED rows /\ Hitch
    /\ UNCHANGED <<link, context, index, fan, found, todo, got, failed, struck>>

Published(f) ==
    /\ fan[f] = "posting" /\ todo[f] = {} /\ pruning[f] = {}
    /\ fan' = [fan EXCEPT ![f] = "done"]
    /\ UNCHANGED <<link, context, rows, index, found, todo, pruning, hitches, got, failed, struck>>

RegistryNext ==
    \/ \E c \in Links : \/ Authorize(c) \/ Connect(c) \/ Answered(c) \/ Hangup(c)
                          \/ Disconnected(c) \/ ExpireRow(c)
    \/ IndexFollows
    \/ \E f \in Fans : \/ Query(f) \/ Published(f)
                       \/ \E c \in Links : Post(f, c) \/ Prune(f, c)

RegistrySpec == RegistryInit /\ [][RegistryNext]_registryVars

-----------------------------------------------------------------------------
\* An open socket keeps its row, under the sub of its own token, for as long as it
\* is open: nothing prunes it but a push that posts to it before $connect answered,
\* when API Gateway calls it gone.  Otherwise its tab would hear nothing until it
\* dials again, and show no sign of it.
OpenIsListed ==
    \A c \in Links : link[c] = "open" /\ c \notin struck => c \in DOMAIN rows /\ rows[c] = Bearer[c]

\* A finished fan-out has reached every socket its query found and that is open,
\* whatever became of the others; but those whose own post failed.
PushesArrive ==
    \A f \in Fans : \A c \in found[f] :
        fan[f] = "done" /\ link[c] = "open" /\ c \notin struck => c \in got[f] \cup failed[f]

\* The registry and the pushes together leave no open tab unheard.
TabsHear == RegistryTypeOK /\ OpenIsListed /\ PushesArrive
=============================================================================
