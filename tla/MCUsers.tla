------------------------------- MODULE MCUsers -------------------------------
\* The Users service.  Its parts meet only in rows each of them owns, so one run
\* explores each on its own: a behaviour stays with the part it begins in focus of.
EXTENDS PaymentMethods, Accounts, PasswordReset, CodeSignIn, ProfileCache, SoftDelete, TLC
CONSTANTS a, b, p1, p2, h1, h2, d1, d2, w1, w2, u1, ru, rd, re

MCModelOf == ru :> "User" @@ rd :> "UsersCognitoData" @@ re :> "UsersCognitoEvent"
MCParentOf == ru :> ru @@ rd :> ru @@ re :> rd

VARIABLE focus

Sym == Permutations(Cards) \cup Permutations(Calls) \cup Permutations(Handlers)

UsersInit ==
    /\ Init /\ AccountsInit /\ ResetInit /\ CodeInit /\ CacheInit /\ RowsInit
    /\ focus \in {"cards", "accounts", "reset", "codes", "profile", "rows"}
    /\ focus # "accounts" => inProcess
    /\ focus # "reset" => must
    /\ focus # "codes" => renews

UsersNext ==
    /\ UNCHANGED focus
    /\ \/ focus = "cards"    /\ Next         /\ UNCHANGED <<accountVars, resetVars, signInVars, cacheVars, rowVars>>
       \/ focus = "accounts" /\ AccountsNext /\ UNCHANGED <<vars, resetVars, signInVars, cacheVars, rowVars>>
       \/ focus = "reset"    /\ ResetNext    /\ UNCHANGED <<vars, accountVars, signInVars, cacheVars, rowVars>>
       \/ focus = "codes"    /\ CodeNext     /\ UNCHANGED <<vars, accountVars, resetVars, cacheVars, rowVars>>
       \/ focus = "profile"  /\ CacheNext    /\ UNCHANGED <<vars, accountVars, resetVars, signInVars, rowVars>>
       \/ focus = "rows"     /\ RowsNext     /\ UNCHANGED <<vars, accountVars, resetVars, signInVars, cacheVars>>

UsersSpec == UsersInit /\ [][UsersNext]_<<vars, accountVars, resetVars, signInVars, cacheVars, rowVars, focus>>
=============================================================================
