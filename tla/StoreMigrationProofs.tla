------------------------ MODULE StoreMigrationProofs ------------------------
(***************************************************************************)
(* What opening the store does to a database of an earlier version, for    *)
(* every set of columns such a version may have left, every number of      *)
(* processes that open it and every number of crashes.                     *)
(***************************************************************************)
EXTENDS StoreMigration, TLAPS

\* The statements of migrate, one by one.
LEMMA MigrateIs ==
    /\ DOMAIN Migrate = 1..15 /\ Done = 16
    /\ Migrate[1] = Statement("create_table", "quotes", None)
    /\ Migrate[2] = Statement("create_index", "quotes", "swap_id")
    /\ Migrate[3] = Statement("create_table", "swaps", None)
    /\ Migrate[4] = Statement("create_index", "swaps", "base")
    /\ Migrate[5] = Statement("table_columns", "swaps", None)
    /\ Migrate[6] = Statement("ensure_column", "swaps", "quote_id")
    /\ Migrate[7] = Statement("ensure_column", "swaps", "direction")
    /\ Migrate[8] = Statement("ensure_column", "swaps", "total_price_msat")
    /\ Migrate[9] = Statement("ensure_column", "swaps", "buyer_liquid_address")
    /\ Migrate[10] = Statement("ensure_column", "swaps", "ln_payment_id")
    /\ Migrate[11] = Statement("ensure_column", "swaps", "ln_preimage_hex")
    /\ Migrate[12] = Statement("ensure_column", "swaps", "claim_txid")
    /\ Migrate[13] = Statement("table_columns", "quotes", None)
    /\ Migrate[14] = Statement("ensure_column", "quotes", "direction")
    /\ Migrate[15] = Statement("ensure_column", "quotes", "swap_id")
BY DEF Migrate, Done

AllColumns == Columns.swaps \cup Columns.quotes

\* The tables: each has a base column from its creation on, and only the
\* schema's columns.
TablesOK ==
    /\ columns \in [Table -> SUBSET AllColumns]
    /\ \A t \in Table : columns[t] \subseteq Columns[t]
    /\ \A t \in Table : columns[t] = {} \/ "base" \in columns[t]

\* An old row has a value for every column, and those it was written with.
RowsOK ==
    /\ row \in [Table -> {None} \cup UNION {[S -> Value] : S \in SUBSET AllColumns}]
    /\ \A t \in Table : row[t] # None =>
          /\ columns[t] # {}
          /\ row[t] \in [columns[t] -> Value]
          /\ row[t]["base"] = Written
          /\ "direction" \in columns[t] =>
                row[t]["direction"] \in {Written, "ln_to_liquid"}

\* What process p has brought about by the statement it is at: the tables it
\* created, the columns it ensured; and it read no column that is not there.
ProgressOK(p) ==
    LET k == opener[p].pc IN
    /\ k > 1 => columns["quotes"] # {}
    /\ k > 3 => columns["swaps"] # {}
    /\ k \in 6..12 => opener[p].read \subseteq columns["swaps"]
    /\ k \in 14..15 => opener[p].read \subseteq columns["quotes"]
    /\ k > 6 => "quote_id" \in columns["swaps"]
    /\ k > 7 => "direction" \in columns["swaps"]
    /\ k > 8 => "total_price_msat" \in columns["swaps"]
    /\ k > 9 => "buyer_liquid_address" \in columns["swaps"]
    /\ k > 10 => "ln_payment_id" \in columns["swaps"]
    /\ k > 11 => "ln_preimage_hex" \in columns["swaps"]
    /\ k > 12 => "claim_txid" \in columns["swaps"]
    /\ k > 14 => "direction" \in columns["quotes"]
    /\ k > 15 => "swap_id" \in columns["quotes"]

OpenerOK == opener \in [Opener -> [pc: 0..16, read: SUBSET AllColumns]]

IInv ==
    /\ TablesOK
    /\ RowsOK
    /\ OpenerOK
    /\ crashes \in 0..MaxCrashes
    /\ \A p \in Opener : ProgressOK(p)

\* The step keeps every column, row and value.
Kept ==
    \A t \in Table :
        /\ columns[t] \subseteq columns'[t]
        /\ row[t] # None =>
              row'[t] # None /\ \A c \in DOMAIN row[t] : row'[t][c] = row[t][c]

DataStep == TablesOK' /\ RowsOK' /\ Kept

-----------------------------------------------------------------------------
(* The statements that change the database.                                *)

LEMMA NoData == ASSUME TablesOK, RowsOK, UNCHANGED <<columns, row>> PROVE DataStep
BY DEF TablesOK, RowsOK, DataStep, Kept

\* CREATE TABLE IF NOT EXISTS
LEMMA CreateTableStep ==
    ASSUME TablesOK, RowsOK, NEW t \in Table, CreateTable(t)
    PROVE  DataStep /\ columns'[t] # {}
<1>1. CASE columns[t] # {}
  BY <1>1, NoData DEF CreateTable, TablesOK
<1>2. CASE columns[t] = {}
  <2>1. columns' = [columns EXCEPT ![t] = Columns[t]] /\ row' = row
    BY <1>2 DEF CreateTable
  <2>2. "base" \in Columns[t] /\ Columns[t] \subseteq AllColumns
    BY DEF Columns, Table, AllColumns
  <2>3. TablesOK'
    BY <2>1, <2>2 DEF TablesOK
  <2>4. row[t] = None
    BY <1>2 DEF RowsOK
  <2>5. RowsOK'
    BY <2>1, <2>4 DEF RowsOK, TablesOK
  <2>6. Kept
    BY <1>2, <2>1 DEF Kept, TablesOK
  <2> QED
    BY <2>1, <2>2, <2>3, <2>5, <2>6 DEF DataStep, TablesOK
<1> QED
  BY <1>1, <1>2

\* ALTER TABLE ADD COLUMN on a table that lacks the column.
LEMMA AddColumnStep ==
    ASSUME TablesOK, RowsOK, NEW t \in Table, NEW c \in Columns[t],
           c \notin columns[t], columns[t] # {}, AddColumn(t, c)
    PROVE  DataStep /\ c \in columns'[t]
<1>1. columns' = [columns EXCEPT ![t] = columns[t] \cup {c}]
  BY DEF AddColumn
<1>2. c \in AllColumns /\ c # "base" /\ Columns[t] \subseteq AllColumns
  BY DEF TablesOK, AllColumns, Columns, Table
<1>3. TablesOK'
  BY <1>1, <1>2 DEF TablesOK
<1>4. Default(c) \in Value /\ (c = "direction" => Default(c) = "ln_to_liquid")
  <2>1. c \in {"quote_id", "direction", "total_price_msat", "buyer_liquid_address",
               "ln_payment_id", "ln_preimage_hex", "claim_txid", "swap_id"}
    BY <1>2 DEF AllColumns, Columns
  <2> QED
    BY <2>1 DEF Default, Value
<1> DEFINE f == [d \in columns[t] \cup {c} |-> IF d = c THEN Default(d) ELSE row[t][d]]
<1>5. CASE row[t] # None
  <2>1. row' = [row EXCEPT ![t] = f]
    BY <1>5 DEF AddColumn
  <2>2. /\ row[t] \in [columns[t] -> Value] /\ row[t]["base"] = Written
        /\ "direction" \in columns[t] => row[t]["direction"] \in {Written, "ln_to_liquid"}
    BY <1>5 DEF RowsOK
  <2>3. f \in [columns[t] \cup {c} -> Value]
    BY <1>4, <2>2
  <2>4. columns[t] \cup {c} \in SUBSET AllColumns
    BY <1>2 DEF TablesOK
  <2>5. f # None
    BY <2>3, <2>4, NoneAssumption DEF AllColumns
  <2>6. \A d \in columns[t] : f[d] = row[t][d]
    OBVIOUS
  <2>7. f[c] = Default(c)
    OBVIOUS
  <2> HIDE DEF f
  <2>8. f["base"] = Written
    BY <2>2, <2>6 DEF TablesOK
  <2>9. "direction" \in columns[t] \cup {c} => f["direction"] \in {Written, "ln_to_liquid"}
    BY <1>4, <2>2, <2>6, <2>7
  <2>10. \A u \in Table \ {t} : row'[u] = row[u] /\ columns'[u] = columns[u]
    BY <1>1, <2>1 DEF RowsOK, TablesOK
  <2>11. row'[t] = f /\ columns'[t] = columns[t] \cup {c}
    BY <1>1, <2>1 DEF RowsOK, TablesOK
  <2>12. RowsOK'
    <3>1. row' \in [Table -> {None} \cup UNION {[S -> Value] : S \in SUBSET AllColumns}]
      BY <2>1, <2>3, <2>4 DEF RowsOK
    <3> QED
      BY <3>1, <2>3, <2>8, <2>9, <2>10, <2>11 DEF RowsOK
  <2>13. Kept
    BY <2>2, <2>5, <2>6, <2>10, <2>11 DEF Kept
  <2> QED
    BY <1>3, <2>11, <2>12, <2>13 DEF DataStep
<1>6. CASE row[t] = None
  <2>1. row' = row
    BY <1>6 DEF AddColumn, RowsOK
  <2>2. RowsOK'
    BY <1>1, <1>6, <2>1 DEF RowsOK, TablesOK
  <2>3. Kept
    BY <1>1, <2>1 DEF Kept, TablesOK
  <2> QED
    BY <1>1, <1>3, <2>2, <2>3 DEF DataStep, TablesOK
<1> QED
  BY <1>5, <1>6

-----------------------------------------------------------------------------
(* The invariant.                                                          *)

LEMMA InitIInv == Init => IInv
<1> SUFFICES ASSUME Init PROVE IInv
  OBVIOUS
<1>1. Columns.swaps \subseteq AllColumns /\ Columns.quotes \subseteq AllColumns
  BY DEF AllColumns
<1>2. TablesOK
  BY <1>1, SchemaAssumption DEF Init, TablesOK, Table, Columns
<1>3. RowsOK
  <2>1. \A t \in Table : columns[t] \in SUBSET AllColumns
    BY <1>2 DEF TablesOK
  <2>2. \A t \in Table : columns[t] # {} =>
           [c \in columns[t] |-> Written] \in [columns[t] -> Value]
    BY DEF Value
  <2>3. row = [t \in Table |-> IF columns[t] = {} THEN None
                               ELSE [c \in columns[t] |-> Written]]
    BY DEF Init
  <2>4. \A t \in Table : columns[t] = {} \/ "base" \in columns[t]
    BY <1>2 DEF TablesOK
  <2> QED
    BY <2>1, <2>2, <2>3, <2>4 DEF RowsOK
<1>4. OpenerOK /\ \A p \in Opener : ProgressOK(p)
  BY DEF Init, OpenerOK, ProgressOK, Closed
<1> QED
  BY <1>2, <1>3, <1>4, CrashAssumption DEF IInv, Init

\* Process p goes to r; what it says of the database has to be shown, the
\* others only gain.
LEMMA Moves ==
    ASSUME IInv, NEW p \in Opener, NEW r \in [pc: 0..16, read: SUBSET AllColumns],
           opener' = [opener EXCEPT ![p] = r], DataStep, ProgressOK(p)',
           crashes' \in 0..MaxCrashes
    PROVE  IInv'
<1>1. OpenerOK'
  BY DEF IInv, OpenerOK
<1>2. ASSUME NEW q \in Opener, q # p PROVE ProgressOK(q)'
  <2>1. opener'[q] = opener[q] /\ ProgressOK(q)
    BY <1>2 DEF IInv, OpenerOK
  <2>2. /\ columns["swaps"] \subseteq columns'["swaps"]
        /\ columns["quotes"] \subseteq columns'["quotes"]
    BY DEF DataStep, Kept, Table
  <2> QED
    BY <2>1, <2>2 DEF ProgressOK
<1> QED
  BY <1>1, <1>2 DEF IInv, DataStep

LEMMA ExecuteIInv == ASSUME IInv, NEW p \in Opener, Execute(p) PROVE IInv' /\ DataStep
<1>0. PICK k, read, s : k = opener[p].pc /\ read = opener[p].read /\ s = Migrate[k]
  OBVIOUS
<1>1. /\ TablesOK /\ RowsOK /\ ProgressOK(p) /\ crashes' \in 0..MaxCrashes
      /\ opener \in [Opener -> [pc: 0..16, read: SUBSET AllColumns]]
      /\ k \in 1..15
  BY <1>0, MigrateIs DEF IInv, Execute, OpenerOK
<1>2. ASSUME OpenFails(p) PROVE IInv' /\ DataStep
  <2>1. Closed \in [pc: 0..16, read: SUBSET AllColumns] /\ Closed.pc = 0
    BY DEF Closed
  <2>2. opener' = [opener EXCEPT ![p] = Closed] /\ UNCHANGED <<columns, row>>
    BY <1>2 DEF OpenFails
  <2>3. ProgressOK(p)'
    BY <1>1, <2>1, <2>2 DEF ProgressOK
  <2> QED
    BY <1>1, <2>1, <2>2, <2>3, NoData, Moves
<1>3. ASSUME DataStep, opener'[p].pc = k + 1, ProgressOK(p)',
             NEW new \in SUBSET AllColumns,
             opener' = [opener EXCEPT ![p] = [pc |-> k + 1, read |-> new]]
      PROVE  IInv'
  <2>1. [pc |-> k + 1, read |-> new] \in [pc: 0..16, read: SUBSET AllColumns]
    BY <1>1, <1>3
  <2> QED
    BY <1>1, <1>3, <2>1, Moves
<1>4. ASSUME Advance(p)
      PROVE  /\ opener' = [opener EXCEPT ![p] = [pc |-> k + 1, read |-> read]]
             /\ opener'[p].pc = k + 1 /\ opener'[p].read = read
             /\ read \in SUBSET AllColumns
  <2>1. opener[p] = [pc |-> k, read |-> read] /\ read \in SUBSET AllColumns
    BY <1>0, <1>1
  <2>2. opener' = [opener EXCEPT ![p] = [opener[p] EXCEPT !.pc = opener[p].pc + 1]]
    BY <1>4 DEF Advance
  <2>3. [opener[p] EXCEPT !.pc = opener[p].pc + 1] = [pc |-> k + 1, read |-> read]
    BY <2>1
  <2>4. opener' = [opener EXCEPT ![p] = [pc |-> k + 1, read |-> read]]
    BY <2>2, <2>3
  <2>5. opener'[p] = [pc |-> k + 1, read |-> read]
    BY <1>1, <2>4
  <2> QED
    BY <2>1, <2>4, <2>5
<1>5. /\ "swaps" \in Table /\ "quotes" \in Table
      /\ columns["swaps"] \in SUBSET AllColumns /\ columns["quotes"] \in SUBSET AllColumns
  BY <1>1 DEF Table, TablesOK
<1>6. ASSUME DataStep
      PROVE  columns["swaps"] \subseteq columns'["swaps"]
             /\ columns["quotes"] \subseteq columns'["quotes"]
  BY <1>5, <1>6 DEF DataStep, Kept
<1>7. CASE k \in {1, 3}
  <2>1. s.kind = "create_table" /\ s.table = IF k = 1 THEN "quotes" ELSE "swaps"
    BY <1>0, <1>7, MigrateIs DEF Statement
  <2>2. CreateTable(s.table) /\ Advance(p)
    BY <1>0, <2>1 DEF Execute
  <2>3. DataStep /\ columns'[s.table] # {}
    BY <1>1, <1>5, <2>1, <2>2, CreateTableStep
  <2>4. ProgressOK(p)'
    BY <1>0, <1>1, <1>4, <1>6, <1>7, <2>1, <2>2, <2>3 DEF ProgressOK
  <2> QED
    BY <1>3, <1>4, <2>2, <2>3, <2>4
<1>8. CASE k \in {2, 4}
  <2>1. s.kind = "create_index"
    BY <1>0, <1>8, MigrateIs DEF Statement
  <2>2. (Advance(p) /\ UNCHANGED <<columns, row>>) \/ OpenFails(p)
    BY <1>0, <2>1 DEF Execute
  <2>3. CASE Advance(p) /\ UNCHANGED <<columns, row>>
    <3>1. DataStep
      BY <1>1, <2>3, NoData
    <3>2. ProgressOK(p)'
      BY <1>0, <1>1, <1>4, <1>8, <2>3 DEF ProgressOK
    <3> QED
      BY <1>3, <1>4, <2>3, <3>1, <3>2
  <2> QED
    BY <1>2, <2>2, <2>3
<1>9. CASE k \in {5, 13}
  <2>1. s.kind = "table_columns" /\ s.table = IF k = 5 THEN "swaps" ELSE "quotes"
    BY <1>0, <1>9, MigrateIs DEF Statement
  <2>2. /\ opener' = [opener EXCEPT ![p] = [pc |-> k + 1, read |-> columns[s.table]]]
        /\ UNCHANGED <<columns, row>>
    BY <1>0, <1>1, <2>1 DEF Execute
  <2>3. DataStep
    BY <1>1, <2>2, NoData
  <2>4. columns[s.table] \in SUBSET AllColumns
    BY <1>5, <2>1
  <2>5. opener'[p].pc = k + 1 /\ opener'[p].read = columns[s.table]
    BY <1>1, <2>2
  <2>6. ProgressOK(p)'
    BY <1>0, <1>1, <1>9, <2>1, <2>2, <2>5 DEF ProgressOK
  <2> QED
    BY <1>3, <2>2, <2>3, <2>4, <2>5, <2>6
<1>10. CASE k \in (6..12) \cup (14..15)
  <2>0. PICK t, c : t = s.table /\ c = s.column
    OBVIOUS
  <2>1. s.kind = "ensure_column" /\ t = IF k \in 6..12 THEN "swaps" ELSE "quotes"
    BY <1>0, <2>0, <1>1, <1>10, MigrateIs DEF Statement
  <2>2. /\ k = 6 => c = "quote_id"
        /\ k = 7 => c = "direction"
        /\ k = 8 => c = "total_price_msat"
        /\ k = 9 => c = "buyer_liquid_address"
        /\ k = 10 => c = "ln_payment_id"
        /\ k = 11 => c = "ln_preimage_hex"
        /\ k = 12 => c = "claim_txid"
        /\ k = 14 => c = "direction"
        /\ k = 15 => c = "swap_id"
    BY <1>0, <2>0, MigrateIs DEF Statement
  <2>3. c \in Columns[t] /\ columns[t] # {} /\ read \subseteq columns[t]
    <3>1. k \in {6, 7, 8, 9, 10, 11, 12, 14, 15}
      BY <1>10
    <3>2. c \in Columns[t]
      BY <2>1, <2>2, <3>1 DEF Columns
    <3>3. columns[t] # {} /\ read \subseteq columns[t]
      BY <1>0, <1>1, <1>10, <2>1 DEF ProgressOK
    <3> QED
      BY <3>2, <3>3
  <2>4. \/ ~Missing(p, c) /\ Advance(p) /\ UNCHANGED <<columns, row>>
        \/ OpenFails(p)
        \/ c \notin columns[t] /\ AddColumn(t, c) /\ Advance(p)
    BY <1>0, <2>0, <2>1 DEF Execute
  <2>5. CASE ~OpenFails(p)
    <3>1. Advance(p)
      BY <2>4, <2>5
    <3>2. DataStep /\ c \in columns'[t]
      <4>1. CASE ~Missing(p, c) /\ UNCHANGED <<columns, row>>
        BY <1>0, <1>1, <2>3, <4>1, NoData DEF Missing
      <4>2. CASE c \notin columns[t] /\ AddColumn(t, c)
        BY <1>1, <1>5, <2>1, <2>3, <4>2, AddColumnStep
      <4> QED
        BY <2>4, <2>5, <4>1, <4>2
    <3>3. ProgressOK(p)'
      BY <1>0, <1>1, <1>4, <1>6, <1>10, <2>1, <2>2, <3>1, <3>2 DEF ProgressOK
    <3> QED
      BY <1>3, <1>4, <3>1, <3>2, <3>3
  <2> QED
    BY <1>2, <2>5
<1> QED
  BY <1>1, <1>7, <1>8, <1>9, <1>10

LEMMA NextIInv == IInv /\ [Next]_vars => IInv' /\ DataStep
<1> SUFFICES ASSUME IInv, [Next]_vars PROVE IInv' /\ DataStep
  OBVIOUS
<1>1. /\ TablesOK /\ RowsOK /\ crashes \in 0..MaxCrashes
      /\ opener \in [Opener -> [pc: 0..16, read: SUBSET AllColumns]]
  BY DEF IInv, OpenerOK
<1>2. ASSUME NEW p \in Opener, Open(p) PROVE IInv' /\ DataStep
  <2>1. PICK r : r = [opener[p] EXCEPT !.pc = 1]
    OBVIOUS
  <2>2. r \in [pc: 0..16, read: SUBSET AllColumns] /\ r.pc = 1
    BY <1>1, <2>1
  <2>3. opener' = [opener EXCEPT ![p] = r] /\ UNCHANGED <<columns, row, crashes>>
    BY <1>2, <2>1 DEF Open
  <2>4. ProgressOK(p)'
    BY <1>1, <2>2, <2>3 DEF ProgressOK
  <2> QED
    BY <1>1, <2>2, <2>3, <2>4, NoData, Moves
<1>3. ASSUME NEW p \in Opener, Crash(p) PROVE IInv' /\ DataStep
  <2>1. Closed \in [pc: 0..16, read: SUBSET AllColumns] /\ Closed.pc = 0
    BY DEF Closed
  <2>2. /\ opener' = [opener EXCEPT ![p] = Closed] /\ UNCHANGED <<columns, row>>
        /\ crashes' \in 0..MaxCrashes
    BY <1>1, <1>3, CrashAssumption DEF Crash
  <2>3. ProgressOK(p)'
    BY <1>1, <2>1, <2>2 DEF ProgressOK
  <2> QED
    BY <1>1, <2>1, <2>2, <2>3, NoData, Moves
<1>4. CASE UNCHANGED vars
  <2>1. DataStep
    BY <1>1, <1>4, NoData DEF vars
  <2> QED
    BY <1>4, <2>1 DEF vars, IInv, DataStep, OpenerOK, ProgressOK
<1> QED
  BY <1>2, <1>3, <1>4, ExecuteIInv DEF Next

\* Which statements of migrate a process has behind it says which columns are
\* there, over every crash and beside every other process.
THEOREM MigrationInvariant == Spec => []IInv
<1>1. IInv /\ [Next]_vars => IInv'
  BY NextIInv
<1> QED
  BY InitIInv, <1>1, PTL DEF Spec

-----------------------------------------------------------------------------
(* The theorems.                                                           *)

\* store.rs keeps the types of its schema: no statement of migrate adds a
\* column the schema does not have, and rows have a value for every column.
THEOREM MigrationTypeCorrect == Spec => []TypeOK
<1>1. IInv => TypeOK
  <2> SUFFICES ASSUME IInv PROVE TypeOK
    OBVIOUS
  <2>1. \A t \in Table : row[t] # None => DOMAIN row[t] = columns[t]
    BY DEF IInv, RowsOK
  <2>2. \A p \in Opener : opener[p].pc \in 0..Done
    BY MigrateIs DEF IInv, OpenerOK
  <2> QED
    BY <2>1, <2>2 DEF IInv, TablesOK, TypeOK
<1> QED
  BY <1>1, MigrationInvariant, PTL

\* SqliteStore::open returns only with the whole schema in place, from every
\* older schema, over crashes and beside other processes that open it.
THEOREM OpenCompletes == Spec => []OpenedIsComplete
<1>1. IInv => OpenedIsComplete
  <2> SUFFICES ASSUME IInv, NEW p \in Opener, Opened(p), NEW t \in Table
               PROVE  Columns[t] \subseteq columns[t]
    BY DEF IInv, TablesOK, OpenedIsComplete
  <2>1. opener[p].pc = 16
    BY MigrateIs DEF Opened
  <2>2. ProgressOK(p) /\ (columns[t] # {} => "base" \in columns[t])
    BY DEF IInv, TablesOK
  <2>3. CASE t = "swaps"
    BY <2>1, <2>2, <2>3 DEF ProgressOK, Columns
  <2>4. CASE t = "quotes"
    BY <2>1, <2>2, <2>4 DEF ProgressOK, Columns
  <2> QED
    BY <2>3, <2>4 DEF Table
<1> QED
  BY <1>1, MigrationInvariant, PTL

\* Rows of an earlier version keep what they had and become LN_TO_LIQUID ones.
THEOREM OldRowsKept == Spec => []OldRowsKeepMeaning
<1>1. IInv /\ OpenedIsComplete => OldRowsKeepMeaning
  <2> SUFFICES ASSUME IInv, OpenedIsComplete, NEW t \in Table
               PROVE  /\ Reads(t, "base") => row[t]["base"] = Written
                      /\ Reads(t, "direction") =>
                            row[t]["direction"] \in {Written, "ln_to_liquid"}
                      /\ (\E p \in Opener : Opened(p)) =>
                            (row[t] # None => Reads(t, "direction"))
    BY DEF OldRowsKeepMeaning
  <2>1. row[t] # None =>
          /\ DOMAIN row[t] = columns[t] /\ row[t]["base"] = Written
          /\ "direction" \in columns[t] =>
                row[t]["direction"] \in {Written, "ln_to_liquid"}
    BY DEF IInv, RowsOK
  <2>2. "direction" \in Columns[t]
    BY DEF Columns, Table
  <2>3. (\E p \in Opener : Opened(p)) => "direction" \in columns[t]
    BY <2>2 DEF OpenedIsComplete
  <2> QED
    BY <2>1, <2>3 DEF Reads
<1> QED
  BY <1>1, MigrationInvariant, OpenCompletes, PTL

\* No statement of migrate takes away a column, a row or a value.
THEOREM MigrationLosesNothing == Spec => NothingLost
<1>1. IInv /\ [Next]_vars =>
        [\A t \in Table :
            /\ columns[t] \subseteq columns'[t]
            /\ row[t] # None =>
                  row'[t] # None /\ \A c \in DOMAIN row[t] : row'[t][c] = row[t][c]]_vars
  BY NextIInv DEF DataStep, Kept
<1> QED
  BY <1>1, MigrationInvariant, PTL DEF Spec, NothingLost
=============================================================================
