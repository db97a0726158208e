----------------------------- MODULE SoftDelete -----------------------------
\* What every query of Users' database client goes through: ids and audit stamps on
\* writes, no row ever erased, and deleted rows left out of what is read, at every
\* level of a relational read.  A query's include and select tree is the set of
\* relation paths it names, with the nodes whose where filters deletedAt itself.
EXTENDS Naturals, Sequences, SequencesExt, FiniteSets
CONSTANTS Rows,        \* one row of a model each
          ModelOf,     \* its model
          ParentOf,    \* the row its foreign key names, or itself when it has none
          Actors,      \* what getActor() may answer
          NoActor      \* ... when no request is being served

ASSUME RowsAssumption ==
    /\ ParentOf \in [Rows -> Rows]
    /\ NoActor \notin Actors
    /\ \A r \in Rows : ModelOf[r] \in {"User", "UsersCognitoData", "UsersCognitoEvent",
                                       "StripePaymentMethod", "Notification"}

VARIABLES
    stored,     \* each row: not there, or its marks and stamps
    found,     \* what the last read gave: rows, and whether deleted ones were asked for
    graves     \* rows a delete has ever reached (history)

rowVars == <<stored, found, graves>>

Relations ==
    [User                |-> [cognitoData |-> "UsersCognitoData", stripePaymentMethods |-> "StripePaymentMethod"],
     UsersCognitoData    |-> [user |-> "User", events |-> "UsersCognitoEvent"],
     UsersCognitoEvent   |-> [data |-> "UsersCognitoData"],
     StripePaymentMethod |-> [user |-> "User"],
     Notification        |-> <<>>]

GetActor == Actors \cup {NoActor}
Absent == [there |-> FALSE]
There(r) == stored[r].there
IsDeleted(row) == row.deleted

RowsInit ==
    /\ stored = [r \in Rows |-> Absent]
    /\ found = {}
    /\ graves = {}

-----------------------------------------------------------------------------
(* The writes. *)

StampCreate(by) == [there |-> TRUE, deleted |-> FALSE, createdBy |-> by, updatedBy |-> by, deletedBy |-> NoActor]
StampUpdate(row, by) == [row EXCEPT !.updatedBy = by]
StampDelete(row, by) == [row EXCEPT !.deleted = TRUE, !.deletedBy = by]

\* The rows a where reaches once excludeSoftDeleted has added its own condition,
\* which it leaves alone in a where that says something of deletedAt.
ExcludeSoftDeleted(S, own) == {r \in S : There(r) /\ (own \/ ~ IsDeleted(stored[r]))}

Write(stamped) ==
    /\ stored' = [r \in Rows |-> IF r \in DOMAIN stamped THEN stamped[r] ELSE stored[r]]
    /\ found' = {}
WriteRow(r, row) == Write([only \in {r} |-> row])

CreateRow(r, by) ==
    /\ ~ There(r)
    /\ ParentOf[r] # r => There(ParentOf[r])
    /\ WriteRow(r, StampCreate(by))
    /\ UNCHANGED graves

\* A row that is gone, or that the added condition hides, is RecordNotFoundError:
\* nothing is written, and that step changes nothing here.
UpdateRow(r, by, own) ==
    /\ r \in ExcludeSoftDeleted({r}, own)
    /\ WriteRow(r, StampUpdate(stored[r], by))
    /\ UNCHANGED graves

UpdateMany(S, by, own) ==
    /\ Write([r \in ExcludeSoftDeleted(S, own) |-> StampUpdate(stored[r], by)])
    /\ UNCHANGED graves

\* The one write with no condition added: it updates a deleted row as it stands.
UpsertRow(r, by) ==
    \/ CreateRow(r, by)
    \/ /\ There(r)
       /\ WriteRow(r, StampUpdate(stored[r], by))
       /\ UNCHANGED graves

\* Redirected to the base client's update and updateMany, where the handlers above
\* do not run: a deleted row is stamped again.
DeleteRows(S, by) ==
    LET reached == {r \in S : There(r)}
    IN  /\ reached # {}
        /\ Write([r \in reached |-> StampDelete(stored[r], by)])
        /\ graves' = graves \cup reached

-----------------------------------------------------------------------------
(* The reads. *)

RelationOf(model, field) == IF field \in DOMAIN Relations[model] THEN Relations[model][field] ELSE "none"
Models == {ModelOf[r] : r \in Rows}
Fields == UNION {DOMAIN Relations[m] : m \in Models}
ModelAt(model, path) ==
    FoldLeft(LAMBDA m, f : IF m = "none" THEN m ELSE RelationOf(m, f), model, path)
Paths(model) ==
    {p \in {<<>>} \cup {<<f>> : f \in Fields} \cup (Fields \X Fields) : ModelAt(model, p) # "none"}

\* A read of a model: the relation paths it asks for, closed under prefixes, and
\* those of them whose where mentions deletedAt.
Queries ==
    UNION {{q \in [model : {m}, paths : SUBSET Paths(m), own : SUBSET Paths(m)] :
               /\ <<>> \in q.paths
               /\ \A p \in q.paths : p # <<>> => Front(p) \in q.paths
               /\ q.own \subseteq q.paths
               /\ Cardinality(q.own) <= 1} : m \in Models}

\* Mutant: only the top level of a read gets the condition.
InjectShallow(q) == {<<>>} \ q.own

\* The nodes excludeSoftDeletedDeep adds its condition to: every one that has none.
InjectRelationFilter(q) == q.paths \ q.own

Related(r, model) == {s \in Rows : There(s) /\ ModelOf[s] = model /\ (ParentOf[s] = r \/ ParentOf[r] = s)}
Passing(S, filtered) == {r \in S : There(r) /\ (filtered => ~ IsDeleted(stored[r]))}

\* The rows at each node, two relations deep at most (a bound, of Queries): those of
\* the model, then those related to a row that the node above let through.
Below(q, filtered, S, path) ==
    Passing(UNION {Related(r, ModelAt(q.model, path)) : r \in S}, path \in filtered)
RowsAt(q, filtered, path) ==
    LET top == Passing({r \in Rows : ModelOf[r] = q.model}, <<>> \in filtered)
    IN  CASE Len(path) = 0 -> top
          [] Len(path) = 1 -> Below(q, filtered, top, path)
          [] OTHER         -> Below(q, filtered, Below(q, filtered, top, Front(path)), path)

FindMany(q) ==
    LET filtered == InjectRelationFilter(q)
    IN  /\ found' = UNION {{[row |-> r, deleted |-> IsDeleted(stored[r]), asked |-> p \in q.own] :
                               r \in RowsAt(q, filtered, p)} : p \in q.paths}
        /\ UNCHANGED <<stored, graves>>

RowsNext ==
    \/ \E by \in GetActor :
          \/ \E r \in Rows :
                \/ CreateRow(r, by)
                \/ UpsertRow(r, by)
                \/ \E own \in BOOLEAN : UpdateRow(r, by, own)
          \/ \E S \in SUBSET Rows :
                \/ DeleteRows(S, by)
                \/ \E own \in BOOLEAN : UpdateMany(S, by, own)
    \/ \E q \in Queries : FindMany(q)

RowsSpec == RowsInit /\ [][RowsNext]_rowVars

-----------------------------------------------------------------------------
(* Properties. *)

\* A row a read gives, at any level, is live unless that very node asked for
\* deleted ones (prisma-extensions.ts, find*, excludeSoftDeletedDeep).
ReadsHideDeleted == \A f \in found : f.deleted => f.asked

\* No write erases a row a delete has reached, nor revives it: an upsert that finds
\* it updates it where it lies (prisma-extensions.ts, upsert, delete, deleteMany).
DeletedStay == \A r \in graves : There(r) /\ IsDeleted(stored[r])

\* A deletion is a mark, it lasts, and reads honour it at every level
\* (prisma-extensions.ts).
SoftDeleteHolds == ReadsHideDeleted /\ DeletedStay
=============================================================================
