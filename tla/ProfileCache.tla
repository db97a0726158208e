----------------------------- MODULE ProfileCache -----------------------------
(***************************************************************************)
(* Users: GET /me answered from Redis, the writes that invalidate it, and  *)
(* the replica every read goes to.                                         *)
(*                                                                         *)
(* All of it is about one profile and the key its owner reads it under.    *)
(* The n-th write makes version n; a version stands for the body of it.    *)
(***************************************************************************)
EXTENDS Naturals

CONSTANTS Reads,      \* calls of GET /me
          Edits,      \* calls that write it: PATCH /me, a change or reset of the password
          NoBody,
          MaxSlips    \* bound: calls of Redis that fail or take over 50 ms

ASSUME CacheAssumption == NoBody \notin Nat

VARIABLES
    primary, replica,  \* the version each database has
    cache,     \* Redis: the body, and what is known of how it was read
    read,      \* per read: its step and what it resolved
    edit,      \* per write: its step
    slips      \* counter of the bound

cacheVars == <<primary, replica, cache, read, edit, slips>>

\* An entry's body; whether it was read behind the primary; whether a DEL ran since.
Entry == [body : Nat \cup {NoBody}, behind : BOOLEAN, late : BOOLEAN]
Empty == [body |-> NoBody, behind |-> FALSE, late |-> FALSE]
Slip == slips < MaxSlips /\ slips' = slips + 1

CacheTypeOK ==
    /\ primary \in Nat /\ replica \in 0 .. primary
    /\ cache \in Entry
    /\ read \in [Reads -> [at : {"new", "resolved", "filling", "done"}, found : Entry]]
    /\ edit \in [Edits -> {"new", "first", "second", "late", "done"}]

CacheInit ==
    /\ primary = 0 /\ replica = 0 /\ cache = Empty /\ slips = 0
    /\ read = [r \in Reads |-> [at |-> "new", found |-> Empty]]
    /\ edit = [e \in Edits |-> "new"]

\* The replica applies writes in their order, some time after.
Replicate ==
    /\ replica < primary /\ replica' = replica + 1
    /\ UNCHANGED <<primary, cache, read, edit, slips>>

Age == cache # Empty /\ cache' = Empty /\ UNCHANGED <<primary, replica, read, edit, slips>>

-----------------------------------------------------------------------------
(***************************************************************************)
(* MeCacheInterceptor.                                                     *)
(***************************************************************************)

\* The key needs the row, so the row is read before the key is looked up, and the
\* handler answers from that row: the promise of resolve() is kept for the request.
Resolve(r) ==
    /\ read[r].at = "new"
    /\ read' = [read EXCEPT ![r] = [at |-> "resolved",
                  found |-> [body |-> replica, behind |-> replica < primary, late |-> FALSE]]]
    /\ UNCHANGED <<primary, replica, cache, edit, slips>>

Hit == cache # Empty
Stored(body) == cache' = body

\* A hit ends the request; a failure answers from the row and stores nothing.
LookInCache(r) ==
    /\ read[r].at = "resolved"
    /\ \/ /\ read' = [read EXCEPT ![r].at = IF Hit THEN "done" ELSE "filling"]
          /\ UNCHANGED slips
       \/ Slip /\ read' = [read EXCEPT ![r].at = "done"]
    /\ UNCHANGED <<primary, replica, cache, edit>>

\* Nobody waits for the SET: the answer has gone, and it may never happen.
Fill(r) ==
    /\ read[r].at = "filling" /\ read' = [read EXCEPT ![r].at = "done"]
    /\ \/ Stored(read[r].found) /\ UNCHANGED slips
       \/ Slip /\ UNCHANGED cache
    /\ UNCHANGED <<primary, replica, edit>>

GetMe(r) == Resolve(r) \/ LookInCache(r) \/ Fill(r)

-----------------------------------------------------------------------------
(***************************************************************************)
(* A write, then its invalidation.                                         *)
(***************************************************************************)

\* Mutant: the entry is dropped before the write persists.
DeleteThenWrite == [first |-> "delete", second |-> "write"]
WriteThenDelete == [first |-> "write", second |-> "delete"]

Onwards == [first |-> "second", second |-> "done"]
DoingEdit(e, what) == edit[e] \in DOMAIN Onwards /\ WriteThenDelete[edit[e]] = what

Submit(e) ==
    /\ edit[e] = "new" /\ edit' = [edit EXCEPT ![e] = "first"]
    /\ UNCHANGED <<primary, replica, cache, read, slips>>

PersistEdit(e) ==
    /\ DoingEdit(e, "write") /\ primary' = primary + 1
    /\ edit' = [edit EXCEPT ![e] = Onwards[@]]
    /\ UNCHANGED <<replica, cache, read, slips>>

\* A body in hand when the entry is deleted is from before the deletion.
Dropped ==
    /\ cache' = Empty
    /\ read' = [r \in Reads |-> IF read[r].at \in {"resolved", "filling"}
                                THEN [read[r] EXCEPT !.found.late = TRUE] ELSE read[r]]

\* A failure is swallowed; a DEL that took too long may still run.
DropEntry(e) ==
    /\ DoingEdit(e, "delete")
    /\ \/ Dropped /\ edit' = [edit EXCEPT ![e] = Onwards[@]] /\ UNCHANGED slips
       \/ Slip /\ edit' = [edit EXCEPT ![e] = "late"] /\ UNCHANGED <<cache, read>>
    /\ UNCHANGED <<primary, replica>>

DropLate(e) ==
    /\ edit[e] = "late" /\ edit' = [edit EXCEPT ![e] = "done"] /\ Dropped
    /\ UNCHANGED <<primary, replica, slips>>

UpdateMe(e) == Submit(e) \/ PersistEdit(e) \/ DropEntry(e) \/ DropLate(e)

CacheNext == \/ Replicate \/ Age
             \/ \E r \in Reads : GetMe(r)
             \/ \E e \in Edits : UpdateMe(e)

CacheSpec == CacheInit /\ [][CacheNext]_cacheVars

-----------------------------------------------------------------------------
\* "Invalidate AFTER the write persists, never before" (updateMe): once no write is under
\* way, a stale body is in the cache only because it was read from a replica that was
\* behind, or stored after the deletion that should have removed it, or because that
\* deletion has not happened.
StaleHasCause ==
    cache # Empty /\ cache.body # primary /\ (\A e \in Edits : edit[e] \in {"new", "done"})
        => cache.behind \/ cache.late
=============================================================================
