----------------------------- MODULE Migration ------------------------------
(***************************************************************************)
(* Opening the shared database (the constructor of Storage, and the same   *)
(* sequence in listAllAccounts(), storage/Storage.cpp): a synced_contact   *)
(* table of the old shape is renamed aside, the schema creates the new one *)
(* with its two unique indexes, the rows are copied, the old table is      *)
(* dropped, and missing columns are added to the account table.  Every     *)
(* statement commits by itself, the daemon and gendb may open at the same  *)
(* time, and a process may be killed between any two statements.           *)
(*                                                                         *)
(* A table is the sequence of its rows, a row's id its place.  A contact   *)
(* has a number, an ACI, or both; in the new table each is unique where it *)
(* is there, in the old one the number was the key.                        *)
(***************************************************************************)
EXTENDS Integers, Sequences, SequencesExt

CONSTANTS
    Numbers, Acis,
    Unset,         \* an empty string; no table
    Openers,       \* processes that open the database
    OldRows,       \* the rows of the old table
    MaxKills,      \* bound: processes killed, or let down by SQLite, while
                   \* they open
    MaxRows        \* bound: rows of a table

Contacts == [num : Numbers \cup {Unset}, aci : Acis \cup {Unset}]
                \ {[num |-> Unset, aci |-> Unset]}

ASSUME MigrationAssumption ==
    /\ MaxKills \in Nat /\ MaxRows \in Nat
    /\ OldRows \in Seq(Contacts)
    /\ \A i \in DOMAIN OldRows : OldRows[i].num /= Unset
    /\ \A i, j \in DOMAIN OldRows : i /= j => OldRows[i].num /= OldRows[j].num

VARIABLES
    shape,         \* synced_contact: "none", "old" or "new"
    table,         \* its rows
    aside,         \* the rows of the table renamed aside, or Unset
    index,         \* where the unique indexes are: "none", "table" or "aside"
    column,        \* the account table has its new columns
    opc,           \* where each process is in opening the database
    kills,
    torn           \* history: left half way, see OpensAgain

migVars == <<shape, table, aside, index, column, opc, kills, torn>>

MigrationInit ==
    /\ shape = "old"
    /\ table = OldRows
    /\ aside = Unset
    /\ index = "none"
    /\ column = FALSE
    /\ opc = [o \in Openers |-> "closed"]
    /\ kills = 0
    /\ torn = FALSE

\* A unique index forbids both rows in one table.
Clash(r, s) == \/ r.num = s.num /\ r.num /= Unset
               \/ r.aci = s.aci /\ r.aci /= Unset

Unique(rows) == \A i, j \in DOMAIN rows : i /= j => ~Clash(rows[i], rows[j])

\* With these rows the ones aside cannot be copied, or the index cannot be
\* made: opening fails, unless the process that copied is still to drop.
Wedged(rows) == ~Unique(IF aside = Unset THEN rows ELSE rows \o aside)

Opens(o, place) == opc' = [opc EXCEPT ![o] = place]

\* A statement fails: the constructor closes the connection and throws.
OpenFails(o) == Opens(o, "closed")

-----------------------------------------------------------------------------
\* sqlite3_open(), the key, WAL; renameOldSyncedContactTableIfNeeded() looks
\* at the table ...
OpenBegin(o) ==
    /\ opc[o] = "closed"
    /\ Opens(o, IF shape = "old" THEN "rename" ELSE "schema")
    /\ UNCHANGED <<shape, table, aside, index, column, kills, torn>>

\* ... and renames what synced_contact is by then, if the name is free.
\* Indexes keep their names and go with their table.
Rename(o) ==
    /\ opc[o] = "rename"
    /\ IF shape /= "none" /\ aside = Unset
       THEN /\ aside' = table
            /\ shape' = "none"
            /\ table' = <<>>
            /\ index' = IF index = "table" THEN "aside" ELSE index
            /\ torn' = (torn \/ shape = "new")
            /\ Opens(o, "schema")
       ELSE OpenFails(o) /\ UNCHANGED <<shape, table, aside, index, torn>>
    /\ UNCHANGED <<column, kills>>

\* kSchemaSql: CREATE TABLE IF NOT EXISTS ...
Schema(o) ==
    /\ opc[o] = "schema"
    /\ shape' = IF shape = "none" THEN "new" ELSE shape
    /\ Opens(o, "index")
    /\ UNCHANGED <<table, aside, index, column, kills, torn>>

\* ... and CREATE UNIQUE INDEX IF NOT EXISTS: an index of that name is enough,
\* whichever table it is on; rows that are not unique make it fail.
CreateIndex(o) ==
    /\ opc[o] = "index"
    /\ IF shape = "new" /\ (index = "none" => Unique(table))
       THEN /\ index' = IF index = "none" THEN "table" ELSE index
            /\ Opens(o, "find")
       ELSE OpenFails(o) /\ UNCHANGED index
    /\ UNCHANGED <<shape, table, aside, column, kills, torn>>

\* copyOldSyncedContactDataIfPresent(): is there a table aside?
FindAside(o) ==
    /\ opc[o] = "find"
    /\ Opens(o, IF aside = Unset THEN "columns" ELSE "copy")
    /\ UNCHANGED <<shape, table, aside, index, column, kills, torn>>

\* Plausible bug: the old table is dropped before its rows are copied.
CopyDropsFirst(o) ==
    /\ opc[o] = "copy"
    /\ aside' = Unset
    /\ Opens(o, "drop")
    /\ UNCHANGED <<shape, table, index, column, kills, torn>>

\* INSERT ... SELECT, one statement: it fails as a whole when a row clashes.
Copy(o) ==
    /\ opc[o] = "copy"
    /\ aside /= Unset => Len(table \o aside) <= MaxRows
    /\ IF /\ aside /= Unset /\ shape = "new"
          /\ index = "table" => Unique(table \o aside)
       THEN table' = table \o aside /\ Opens(o, "drop")
       ELSE OpenFails(o) /\ UNCHANGED table
    /\ UNCHANGED <<shape, aside, index, column, kills, torn>>

\* DROP TABLE of the table aside, and of indexes that are on it.
Drop(o) ==
    /\ opc[o] = "drop"
    /\ IF aside /= Unset
       THEN /\ aside' = Unset
            /\ index' = IF index = "aside" THEN "none" ELSE index
            /\ Opens(o, "columns")
       ELSE OpenFails(o) /\ UNCHANGED <<aside, index>>
    /\ UNCHANGED <<shape, table, column, kills, torn>>

\* Plausible bug: ALTER TABLE whether the column is there or not.
FindColumnNever(o) ==
    /\ opc[o] = "columns"
    /\ Opens(o, "addColumn")
    /\ UNCHANGED <<shape, table, aside, index, column, kills, torn>>

\* addColumnIfMissing(), for the fifteen columns as one: look ...
FindColumn(o) ==
    /\ opc[o] = "columns"
    /\ Opens(o, IF column THEN "open" ELSE "addColumn")
    /\ UNCHANGED <<shape, table, aside, index, column, kills, torn>>

\* ... and ALTER TABLE, which fails if another process was faster.
AddColumn(o) ==
    /\ opc[o] = "addColumn"
    /\ column' = TRUE
    /\ IF column THEN OpenFails(o) ELSE Opens(o, "open")
    /\ UNCHANGED <<shape, table, aside, index, kills, torn>>

\* Opening ends half way.
Abandon(o) ==
    /\ opc[o] \notin {"closed", "open"}
    /\ kills < MaxKills
    /\ kills' = kills + 1
    /\ torn' = (torn \/ Wedged(table))
    /\ OpenFails(o)
    /\ UNCHANGED <<shape, table, aside, index, column>>

\* Any statement, the DROP after the copy too, can fail for a reason of its
\* own - the database is locked, the disk is full - and the open with it.
StatementFails(o) == Abandon(o)

OpenStep(o) ==
    \/ OpenBegin(o) \/ Rename(o) \/ Schema(o) \/ CreateIndex(o) \/ FindAside(o)
    \/ Copy(o) \/ Drop(o) \/ FindColumn(o) \/ AddColumn(o) \/ StatementFails(o)

-----------------------------------------------------------------------------
\* The process is done, or is killed while the database is open.
Close(o) ==
    /\ opc[o] = "open"
    /\ Opens(o, "closed")
    /\ UNCHANGED <<shape, table, aside, index, column, kills, torn>>

\* The process is killed while it opens the database.
Kill(o) == Abandon(o)

-----------------------------------------------------------------------------
MigrationTypeOK ==
    /\ shape \in {"none", "old", "new"}
    /\ table \in Seq(Contacts)
    /\ aside = Unset \/ aside \in Seq(Contacts)
    /\ index \in {"none", "table", "aside"}
    /\ column \in BOOLEAN
    /\ opc \in [Openers -> {"closed", "rename", "schema", "index", "find",
                            "copy", "drop", "columns", "addColumn", "open"}]
    /\ kills \in 0..MaxKills
    /\ torn \in BOOLEAN

\* The contacts that are in the table or aside.
AllRows == ToSet(table) \cup (IF aside = Unset THEN {} ELSE ToSet(aside))

\* "copying every row across" (Storage.cpp:123-126): whichever processes
\* migrate at once, and whatever is written meanwhile, a contact found before
\* a step of opening the database, by its number or its ACI, is found after it
\* - unless the migration was left half way, see OpensAgain.
NoRowLost ==
    [][(\E o \in Openers : OpenStep(o)) /\ ~torn' =>
         \A r \in AllRows : \E s \in AllRows' : Clash(r, s)]_migVars

\* "safe to call unconditionally from the constructor on every startup"
\* (Storage.cpp:145-147): processes that migrate at once make each other's
\* open fail, but not for ever - unless one was killed or failed between the
\* copy and the drop, renamed a table that was migrated already, or a contact
\* aside was written to the new table before it was copied.
OpensAgain ==
    \A o \in Openers : []<>(opc[o] = "open" \/ torn)
=============================================================================
