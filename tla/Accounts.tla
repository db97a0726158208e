------------------------------ MODULE Accounts ------------------------------
(***************************************************************************)
(* Users: registering, the identity webhook and deleting an account, with  *)
(* the Cognito pool, the orders and trackings the deletion cascades to,    *)
(* and the web application's register pages.                               *)
(*                                                                         *)
(* All of it is about one email address, the key Cognito and the live rows *)
(* share.  A register call r reserves the id of its row and makes the      *)
(* Cognito account of sub r, so r names the call, the row and the account. *)
(***************************************************************************)
EXTENDS Naturals, Sequences, FiniteSets

CONSTANTS Regs,          \* calls of POST /register
          Passwordless,  \* those of POST /register/passwordless
          Deletions,     \* calls of DELETE /me
          NoOne,
          MaxMishaps     \* bound: calls that fail or whose answer is lost

ASSUME AccountsAssumption == Passwordless \subseteq Regs /\ NoOne \notin Regs

VARIABLES
    pool,      \* Cognito: whose account the address is
    ready,     \* it has its permanent password
    userRow,   \* users: the row of each id
    reg,       \* the register calls
    entered,   \* the register page's own sign-in
    announced, \* ids whose USER_CREATED was published
    hook,      \* Cognito's trigger for each account
    snapshot,  \* users_cognito_data: by sub, the row it is of
    deletion,  \* the delete calls: [leg, of]
    orders, trackings,  \* ids that have some
    inProcess, \* NODE_ENV is not production: registering captures by itself
    mishaps,   \* counter of the bound
    met        \* history: what a deletion crossed, of whom: an account, or data

poolVars    == <<pool, ready>>
usersTables == <<userRow, snapshot>>
callVars    == <<reg, entered, announced, hook, deletion>>
otherVars   == <<orders, trackings, inProcess>>
accountVars == <<poolVars, usersTables, callVars, otherVars, mishaps, met>>

IsLive(r) == userRow[r] = "live"
Mishap == mishaps < MaxMishaps /\ mishaps' = mishaps + 1

AccountsTypeOK ==
    /\ pool \in Regs \cup {NoOne} /\ {ready, inProcess} \subseteq BOOLEAN
    /\ \A r \in Regs : /\ userRow[r] \in {"none", "live", "deleted"}
                       /\ reg[r] \in {"new", "password", "insert", "capture", "publish", "created", "taken", "failed"}
                       /\ entered[r] \in {"no", "in", "refused"} /\ hook[r] \in {"none", "sent", "answered"}
    /\ snapshot \in [Regs -> Regs \cup {NoOne}] /\ announced \cup orders \cup trackings \subseteq Regs
    /\ met \subseteq Regs \X {"account", "data"}

AccountsInit ==
    /\ pool = NoOne /\ ready = FALSE /\ userRow = [r \in Regs |-> "none"]
    /\ reg = [r \in Regs |-> "new"] /\ entered = [r \in Regs |-> "no"]
    /\ announced = {} /\ hook = [r \in Regs |-> "none"] /\ snapshot = [r \in Regs |-> NoOne]
    /\ deletion = [d \in Deletions |-> [leg |-> 0, of |-> NoOne]]
    /\ orders = {} /\ trackings = {} /\ inProcess \in BOOLEAN /\ mishaps = 0 /\ met = {}

-----------------------------------------------------------------------------
(***************************************************************************)
(* Registering.                                                            *)
(***************************************************************************)

Goes(r, at) == reg' = [reg EXCEPT ![r] = at]

\* AdminCreateUser refuses an address the pool has.
Free == pool = NoOne

SignUp(r) ==
    /\ reg[r] = "new"
    /\ \/ /\ Free /\ pool' = r /\ ready' = FALSE /\ Goes(r, "password")
          /\ hook' = [hook EXCEPT ![r] = IF inProcess THEN "none" ELSE "sent"]
          /\ UNCHANGED mishaps
       \/ ~Free /\ Goes(r, "taken") /\ UNCHANGED <<poolVars, hook, mishaps>>
       \/ Mishap /\ Goes(r, "failed") /\ UNCHANGED <<poolVars, hook>>
    /\ UNCHANGED <<usersTables, entered, announced, deletion, otherVars, met>>

\* AdminSetUserPassword, by name: whatever account the address has now.
SetFirstPassword(r) ==
    /\ reg[r] = "password"
    /\ \/ pool # NoOne /\ ready' = TRUE /\ Goes(r, "insert") /\ UNCHANGED mishaps
       \/ pool = NoOne /\ Goes(r, "failed") /\ UNCHANGED <<ready, mishaps>>
       \/ Mishap /\ Goes(r, "failed") /\ ready' \in {ready, pool # NoOne}
    /\ UNCHANGED <<pool, usersTables, entered, announced, hook, deletion, otherVars, met>>

\* One live row an address: the partial unique index.
InsertUser(r) ==
    /\ reg[r] = "insert"
    /\ \/ /\ \A q \in Regs : ~IsLive(q)
          /\ userRow' = [userRow EXCEPT ![r] = "live"]
          /\ Goes(r, IF inProcess THEN "capture" ELSE "publish") /\ UNCHANGED mishaps
       \/ (\E q \in Regs : IsLive(q)) /\ Goes(r, "failed") /\ UNCHANGED <<userRow, mishaps>>
       \/ Mishap /\ Goes(r, "failed") /\ UNCHANGED userRow
    /\ UNCHANGED <<poolVars, snapshot, entered, announced, hook, deletion, otherVars, met>>

\* Publishing never fails the registration.
Announce(r) ==
    /\ reg[r] = "publish" /\ Goes(r, "created")
    /\ \/ announced' = announced \cup {r} /\ UNCHANGED mishaps
       \/ Mishap /\ UNCHANGED announced
    /\ UNCHANGED <<poolVars, usersTables, entered, hook, deletion, otherVars, met>>

\* POST /login: a passwordless row is refused before Cognito is asked.
PasswordOpens(r) == pool = r /\ ready /\ ~\E q \in Passwordless : IsLive(q)

Entering(r, how) ==
    /\ entered[r] = "no" /\ entered' = [entered EXCEPT ![r] = how]
    /\ UNCHANGED <<poolVars, usersTables, reg, announced, hook, deletion, otherVars, met>>

\* The register page goes on to sign in with the password it registered.
EnterWithPassword(r) ==
    /\ r \notin Passwordless /\ reg[r] = "created"
    /\ \/ PasswordOpens(r) /\ Entering(r, "in") /\ UNCHANGED mishaps
       \/ ~PasswordOpens(r) /\ Entering(r, "refused") /\ UNCHANGED mishaps
       \/ Mishap /\ Entering(r, "refused")

\* A taken address is no dead end here: the challenge starts all the same.
EnterWithCode(r) ==
    /\ r \in Passwordless /\ reg[r] \in {"created", "taken"}
    /\ \/ pool # NoOne /\ Entering(r, "in") /\ UNCHANGED mishaps
       \/ pool = NoOne /\ Entering(r, "refused") /\ UNCHANGED mishaps
       \/ Mishap /\ Entering(r, "refused")

-----------------------------------------------------------------------------
(***************************************************************************)
(* CaptureCognitoIdentity: the account's snapshot, found by its address.   *)
(***************************************************************************)

\* The event's message id makes a second delivery a duplicate.
Recorded(s) == snapshot[s] # NoOne

\* One snapshot a row.
Captured(s) ==
    IF Recorded(s) THEN UNCHANGED snapshot
    ELSE \E u \in Regs : /\ IsLive(u) /\ \A q \in Regs : snapshot[q] # u
                         /\ snapshot' = [snapshot EXCEPT ![s] = u]

Capturable(s) == \/ Recorded(s) /\ \E u \in Regs : IsLive(u)
                 \/ \E u \in Regs : IsLive(u) /\ \A q \in Regs : snapshot[q] # u

\* In process: best effort.
CaptureOnRegister(r) ==
    /\ reg[r] = "capture" /\ Goes(r, "publish")
    /\ \/ Capturable(r) /\ Captured(r) /\ UNCHANGED mishaps
       \/ ~Capturable(r) /\ UNCHANGED <<snapshot, mishaps>>
       \/ Mishap /\ UNCHANGED snapshot
    /\ UNCHANGED <<poolVars, userRow, entered, announced, hook, deletion, otherVars, met>>

\* The commands of the two routes: the same steps, with a password of the user's
\* or one that nobody knows.
Registering(r) == \/ SignUp(r) \/ SetFirstPassword(r) \/ InsertUser(r)
                  \/ CaptureOnRegister(r) \/ Announce(r)

Register(r)             == r \notin Passwordless /\ Registering(r)
RegisterPasswordless(r) == r \in Passwordless /\ Registering(r)

\* From the trigger: no matching row, or another failure, answers 500 and Cognito
\* calls again, or gives up.
IdentityWebhook(s) ==
    /\ hook[s] = "sent"
    /\ \/ /\ Capturable(s) /\ Captured(s) /\ UNCHANGED mishaps
          /\ hook' \in {hook, [hook EXCEPT ![s] = "answered"]}
       \/ ~Capturable(s) /\ Mishap /\ hook' = [hook EXCEPT ![s] = "answered"] /\ UNCHANGED snapshot
    /\ UNCHANGED <<poolVars, userRow, reg, entered, announced, deletion, otherVars, met>>

-----------------------------------------------------------------------------
(***************************************************************************)
(* Deleting: cascade first, account last.                                  *)
(***************************************************************************)

\* Mutant: the row goes before what hangs off it.
RowFirst     == <<"row", "orders", "trackings", "identity">>
CascadeFirst == <<"orders", "trackings", "row", "identity">>

OnLeg(d, leg) == deletion[d].leg \in 1 .. 4 /\ CascadeFirst[deletion[d].leg] = leg
Onward(d) == deletion' = [deletion EXCEPT ![d].leg = @ + 1]
GivesUp(d) == deletion' = [deletion EXCEPT ![d].leg = 6]
\* A deletion of r that has not given up is past the leg.
Past(r, leg) == \E d \in Deletions :
    /\ deletion[d].of = r /\ deletion[d].leg <= 5
    /\ \E n \in 1 .. deletion[d].leg - 1 : CascadeFirst[n] = leg

\* The caller's sub finds their row, or the call answers 404.  The replica that is
\* asked may know of a row late, and of its deletion too.
DeleteMe(d, s) ==
    /\ deletion[d].leg = 0 /\ reg[s] = "created"
    /\ \E leg \in {1, 6} : deletion' = [deletion EXCEPT ![d] = [leg |-> leg, of |-> s]]
    /\ UNCHANGED <<poolVars, usersTables, reg, entered, announced, hook, otherVars, mishaps, met>>

\* A leg that does not confirm ends the deletion, whether or not it happened.
Cascade(d, leg, gone, rest) ==
    /\ OnLeg(d, leg)
    /\ \/ gone' = gone \ {deletion[d].of} /\ Onward(d) /\ UNCHANGED mishaps
       \/ gone' \in {gone, gone \ {deletion[d].of}} /\ Mishap /\ GivesUp(d)
    /\ UNCHANGED <<poolVars, usersTables, reg, entered, announced, hook, rest, inProcess, met>>

DeleteOrders(d)    == Cascade(d, "orders", orders, trackings)
DeleteTrackings(d) == Cascade(d, "trackings", trackings, orders)

DeleteRow(d) ==
    /\ OnLeg(d, "row")
    /\ \/ userRow' = [userRow EXCEPT ![deletion[d].of] = "deleted"] /\ Onward(d) /\ UNCHANGED mishaps
       \/ Mishap /\ GivesUp(d) /\ UNCHANGED userRow
    /\ UNCHANGED <<poolVars, snapshot, reg, entered, announced, hook, otherVars, met>>

\* AdminDeleteUser, by name; a failure leaves the address blocked and is logged.
DeleteIdentity(d) ==
    /\ OnLeg(d, "identity") /\ Onward(d)
    /\ \/ /\ pool' = NoOne /\ ready' = FALSE /\ UNCHANGED mishaps
          /\ met' = IF pool \in {NoOne, deletion[d].of} THEN met
                    ELSE met \cup {<<pool, "account">>}
       \/ Mishap /\ UNCHANGED <<poolVars, met>>
    /\ UNCHANGED <<usersTables, reg, entered, announced, hook, otherVars>>

DeleteAccount(d) == \/ DeleteOrders(d) \/ DeleteTrackings(d) \/ DeleteRow(d) \/ DeleteIdentity(d)

\* Orders takes an order of a user Users still knows; Tracking hears of it later.
Order(r) ==
    /\ IsLive(r) /\ r \notin orders /\ orders' = orders \cup {r}
    /\ met' = IF Past(r, "orders") THEN met \cup {<<r, "data">>} ELSE met
    /\ UNCHANGED <<poolVars, usersTables, callVars, trackings, inProcess, mishaps>>

Track(r) ==
    /\ r \in orders \ trackings /\ trackings' = trackings \cup {r}
    /\ met' = IF Past(r, "trackings") THEN met \cup {<<r, "data">>} ELSE met
    /\ UNCHANGED <<poolVars, usersTables, callVars, orders, inProcess, mishaps>>

AccountsNext ==
    \/ \E r \in Regs : \/ Register(r) \/ RegisterPasswordless(r)
                       \/ EnterWithPassword(r) \/ EnterWithCode(r)
                       \/ IdentityWebhook(r) \/ Order(r) \/ Track(r)
    \/ \E d \in Deletions : DeleteAccount(d) \/ \E s \in Regs : DeleteMe(d, s)

AccountsSpec == AccountsInit /\ [][AccountsNext]_accountVars

-----------------------------------------------------------------------------
\* Whoever was told 201 has an account to sign in to for as long as their row is live:
\* the address's Cognito account is theirs and has its password.  The exception is a
\* slower second deletion, which removes the address's account whosever it is by then.
CreatedCanSignIn ==
    \A r \in Regs : reg[r] = "created" /\ IsLive(r) /\ <<r, "account">> \notin met
                       => pool = r /\ ready

\* "Cascade FIRST, account LAST": a row is gone only when the user's orders and trackings
\* are, but for an order that was under way while they were being deleted.
DataGoesFirst ==
    \A r \in Regs : userRow[r] = "deleted" /\ <<r, "data">> \notin met
                       => r \notin orders \cup trackings

\* What an answer of register or of delete promised is so (register.command.ts,
\* delete-account.command.ts).
AccountsHonest == AccountsTypeOK /\ CreatedCanSignIn /\ DataGoesFirst
=============================================================================
