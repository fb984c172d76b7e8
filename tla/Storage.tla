------------------------------ MODULE Storage ------------------------------
(***************************************************************************)
(* The two storage backends behind the StorageBackend trait, seen as       *)
(* operators on one table.  A table is a total function from keys to rows; *)
(* NoRow marks an absent key.  Every method of both backends is a single   *)
(* transaction, so callers use these operators inside one atomic step.     *)
(*                                                                         *)
(* redb     : one `insert` serves create and update; it overwrites and it  *)
(*            creates, and no table knows about any other table.           *)
(* postgres : INSERT fails on a duplicate key and on a missing parent org  *)
(*            (foreign key), UPDATE of a missing row changes nothing and   *)
(*            still answers Ok, children are deleted by ON DELETE CASCADE. *)
(***************************************************************************)
CONSTANTS Backends,  \* the backends a deployment may be configured with
          NoRow      \* marks an absent row

ASSUME BackendAssumption == Backends \subseteq {"redb", "postgres"}

VARIABLE backend     \* the one storage::open chose at start-up; never changes

Present(table, key) == table[key] # NoRow

Put(table, key, row) == [table EXCEPT ![key] = row]

\* A method that writes an existing row: redb's update is its create.
RedbUpdate(table, key, row) == Put(table, key, row)

\* Mutant: the UPDATE is an upsert.
PgUpsert(table, key, row) == Put(table, key, row)

PgUpdate(table, key, row) ==
    IF Present(table, key) THEN Put(table, key, row) ELSE table

Update(table, key, row) ==
    IF backend = "redb" THEN RedbUpdate(table, key, row)
                        ELSE PgUpdate(table, key, row)

\* Whether a method that inserts a child row of an org answers Ok.
\* Mutant: the foreign key to orgs is missing.
PgInsertOkNoParent(table, key, orgPresent) == ~Present(table, key)

\* Mutant: the primary key is missing.
PgInsertOkNoKey(table, key, orgPresent) == orgPresent

PgInsertOk(table, key, orgPresent) == orgPresent /\ ~Present(table, key)

InsertOk(table, key, orgPresent) ==
    backend = "redb" \/ PgInsertOk(table, key, orgPresent)

\* The table after that method: redb's insert always happens.
Insert(table, key, row, orgPresent) ==
    IF InsertOk(table, key, orgPresent) THEN Put(table, key, row) ELSE table

Remove(table, key) == Put(table, key, NoRow)

Empty(keys) == [k \in keys |-> NoRow]

\* A child table once delete_org has run.  redb scans the table for the org's
\* prefix whether or not the org row was there; postgres cascades from it.
CascadeDelete(table, orgPresent) ==
    IF backend = "redb" \/ orgPresent THEN Empty(DOMAIN table) ELSE table
=============================================================================
