--------------------------- MODULE StoreMigration ---------------------------
(***************************************************************************)
(* SqliteStore::open (src/swap/store.rs) on a database that an earlier     *)
(* version may have left: the statements of migrate in their order, each   *)
(* committed by itself, run by processes that may die between two of them  *)
(* or overlap, and what the rows found there read as afterwards.           *)
(***************************************************************************)
EXTENDS Integers, FiniteSets, Sequences

CONSTANTS
    Opener,         \* processes that open the database
    OldSwaps,       \* column sets of the swaps tables that may be found
    OldQuotes,      \* column sets of the quotes tables that may be found
    MaxCrashes,     \* bound on the number of crashes
    None

\* The columns of the current schema; "base" stands for those every version has.
Columns ==
    [swaps |-> {"base", "quote_id", "direction", "total_price_msat",
                "buyer_liquid_address", "ln_payment_id", "ln_preimage_hex", "claim_txid"},
     quotes |-> {"base", "direction", "swap_id"}]
Table == {"swaps", "quotes"}

ASSUME SchemaAssumption ==
    /\ \A S \in OldSwaps : {"base"} \subseteq S /\ S \subseteq Columns.swaps
    /\ \A Q \in OldQuotes : {"base"} \subseteq Q /\ Q \subseteq Columns.quotes
ASSUME CrashAssumption == MaxCrashes \in Nat
\* What a row may hold in a column: what an earlier version wrote, for any
\* column it had, or the default of one that was added.
Written == "written"
Value == {Written, "ln_to_liquid", "", "0", "NULL"}
ASSUME NoneAssumption ==
    \A S \in SUBSET (Columns.swaps \cup Columns.quotes) : None \notin [S -> Value]

VARIABLES
    columns,    \* columns[t]: the columns of table t, {} when it does not exist
    row,        \* row[t]: the row an earlier version wrote in t, or None
    opener,     \* opener[p]: where process p is in open, and the columns it read
    crashes

vars == <<columns, row, opener, crashes>>

Closed == [pc |-> 0, read |-> {}]

Init ==
    /\ columns \in [swaps: OldSwaps \cup {{}}, quotes: OldQuotes \cup {{}}]
    /\ row = [t \in Table |-> IF columns[t] = {} THEN None
                              ELSE [c \in columns[t] |-> Written]]
    /\ opener = [p \in Opener |-> Closed]
    /\ crashes = 0

-----------------------------------------------------------------------------
(* The statements.                                                         *)

Statement(kind, table, column) == [kind |-> kind, table |-> table, column |-> column]

\* migrate and ensure_columns; the index on swaps is on a base column.
Migrate ==
    << Statement("create_table", "quotes", None),
       Statement("create_index", "quotes", "swap_id"),
       Statement("create_table", "swaps", None),
       Statement("create_index", "swaps", "base"),
       Statement("table_columns", "swaps", None),
       Statement("ensure_column", "swaps", "quote_id"),
       Statement("ensure_column", "swaps", "direction"),
       Statement("ensure_column", "swaps", "total_price_msat"),
       Statement("ensure_column", "swaps", "buyer_liquid_address"),
       Statement("ensure_column", "swaps", "ln_payment_id"),
       Statement("ensure_column", "swaps", "ln_preimage_hex"),
       Statement("ensure_column", "swaps", "claim_txid"),
       Statement("table_columns", "quotes", None),
       Statement("ensure_column", "quotes", "direction"),
       Statement("ensure_column", "quotes", "swap_id") >>

Done == Len(Migrate) + 1
Opened(p) == opener[p].pc = Done

\* Variant: every column that is added defaults to the empty text.
DefaultEmpty(column) == ""

\* The DEFAULT of a column that is added; NULL without one.
Default(column) ==
    IF column = "direction" THEN "ln_to_liquid"
    ELSE IF column = "total_price_msat" THEN "0"
    ELSE IF column \in {"quote_id", "buyer_liquid_address"} THEN "" ELSE "NULL"

\* Variant: the rows that are there do not get the default.
AddColumnToTable(table, column) ==
    /\ columns' = [columns EXCEPT ![table] = @ \cup {column}]
    /\ UNCHANGED row

\* ALTER TABLE ADD COLUMN: every row gets the default.
AddColumn(table, column) ==
    /\ columns' = [columns EXCEPT ![table] = @ \cup {column}]
    /\ row' = [row EXCEPT ![table] =
                 IF row[table] = None THEN None
                 ELSE [c \in columns[table] \cup {column} |->
                         IF c = column THEN Default(c) ELSE row[table][c]]]

\* Variant: a table that is there is made again.
CreateTableAgain(table) ==
    /\ columns' = [columns EXCEPT ![table] = Columns[table]]
    /\ row' = [row EXCEPT ![table] = None]

\* CREATE TABLE IF NOT EXISTS
CreateTable(table) ==
    IF columns[table] # {} THEN UNCHANGED <<columns, row>>
    ELSE columns' = [columns EXCEPT ![table] = Columns[table]] /\ UNCHANGED row

Advance(p) == opener' = [opener EXCEPT ![p].pc = @ + 1]
OpenFails(p) == opener' = [opener EXCEPT ![p] = Closed] /\ UNCHANGED <<columns, row>>

\* Variant: ensure_column does not look at what was read.
MissingAlways(p, column) == TRUE

\* Variant: once its table was read, no column counts as missing.
MissingNever(p, column) == opener[p].read = {}

Missing(p, column) == column \notin opener[p].read

\* One statement of process p: SQLite runs it whole.
Execute(p) ==
    LET s == Migrate[opener[p].pc] IN
    /\ opener[p].pc \in DOMAIN Migrate
    /\ UNCHANGED crashes
    /\ \/ s.kind = "create_table" /\ CreateTable(s.table) /\ Advance(p)
       \/ /\ s.kind = "create_index"
          /\ IF s.column \in columns[s.table]
             THEN Advance(p) /\ UNCHANGED <<columns, row>>
             ELSE OpenFails(p)
       \/ /\ s.kind = "table_columns"
          /\ opener' = [opener EXCEPT ![p] = [pc |-> @.pc + 1, read |-> columns[s.table]]]
          /\ UNCHANGED <<columns, row>>
       \/ /\ s.kind = "ensure_column"
          /\ \/ ~Missing(p, s.column) /\ Advance(p) /\ UNCHANGED <<columns, row>>
             \/ /\ Missing(p, s.column)
                /\ IF s.column \in columns[s.table] THEN OpenFails(p)
                   ELSE AddColumn(s.table, s.column) /\ Advance(p)

\* The server is started.
Open(p) ==
    /\ opener[p] = Closed
    /\ opener' = [opener EXCEPT ![p].pc = 1]
    /\ UNCHANGED <<columns, row, crashes>>

\* The process dies; what it committed stays.
Crash(p) ==
    /\ crashes < MaxCrashes /\ opener[p] # Closed
    /\ crashes' = crashes + 1
    /\ opener' = [opener EXCEPT ![p] = Closed]
    /\ UNCHANGED <<columns, row>>

Next == \E p \in Opener : Open(p) \/ Execute(p) \/ Crash(p)

Spec == Init /\ [][Next]_vars

\* A server that did not start is started again, and runs.
Fairness == \A p \in Opener : WF_vars(Open(p)) /\ WF_vars(Execute(p))
FairSpec == Spec /\ Fairness

TypeOK ==
    /\ \A t \in Table : columns[t] \subseteq Columns[t]
    /\ \A t \in Table : row[t] # None => DOMAIN row[t] = columns[t]
    /\ \A p \in Opener : opener[p].pc \in 0..Done
    /\ crashes \in 0..MaxCrashes

-----------------------------------------------------------------------------
(* Properties.                                                             *)

\* A process that has opened the store finds every column its statements name,
\* whatever schema was there, wherever an earlier try was cut off, and whoever
\* else is opening.
OpenedIsComplete ==
    \A p \in Opener : Opened(p) => \A t \in Table : columns[t] = Columns[t]

\* Rows an earlier version wrote are read for what they were: what they had is
\* kept, and a swap without a direction is a LN_TO_LIQUID one, which was the
\* only kind (the refund worker takes the seller's key for it).
Reads(t, column) == row[t] # None /\ column \in DOMAIN row[t]
OldRowsKeepMeaning ==
    \A t \in Table :
        /\ Reads(t, "base") => row[t]["base"] = Written
        /\ Reads(t, "direction") => row[t]["direction"] \in {Written, "ln_to_liquid"}
        /\ (\E p \in Opener : Opened(p)) => (row[t] # None => Reads(t, "direction"))

\* A step never takes a column or a value away.
NothingLost ==
    [][\A t \in Table :
        /\ columns[t] \subseteq columns'[t]
        /\ row[t] # None =>
              row'[t] # None /\ \A c \in DOMAIN row[t] : row'[t][c] = row[t][c]]_vars

\* Every process gets the store open in the end, and crashes do not leave a
\* schema that no restart can finish; unless the quotes table is of the version
\* without swap_id, whose index is asked for before the column.
Migratable == columns.quotes = {} \/ "swap_id" \in columns.quotes
OpensInTheEnd == \A p \in Opener : Migratable ~> Opened(p)
=============================================================================
