----------------------------- MODULE DatabaseFile -----------------------------
(***************************************************************************)
(* The two formats of a database file, as DRBDBReader reads them: what it  *)
(* means that a file holds a stored database.  A stored database is what   *)
(* both formats have in common: the rows of each table, cell by cell, with *)
(* the most significant byte of a number first, and the texts.             *)
(***************************************************************************)
EXTENDS DrbDatabase

\* n bytes from a place that counts from 0
Part(file, from, n) == SubSeq(file, from + 1, from + n)

IsStarScan(file) == Part(file, Len(file) - 23, 8) = <<83, 84, 65, 82, 83, 67, 65, 78>>

\* The bytes of a cell: StarSCAN's file has numbers and floats the other way
\* round, and the DRB's file the two ids of a conversion.
Encoded(t, col, cell, star) ==
    CASE <<t, col>> \in RawColumns -> cell
      [] <<t, col>> = <<23, 1>> ->
            IF star THEN cell
            ELSE [cell EXCEPT ![3] = cell[4], ![4] = cell[3], ![5] = cell[6], ![6] = cell[5]]
      [] OTHER -> IF star THEN Reverse(cell) ELSE cell

\* The columns of a table that take up room in its rows
Filled(sizes) == SelectSeq(sizes, LAMBDA size : size # 0)

\* A layout says of each table where its rows begin, how many there are and how
\* long they are, the sizes of the columns, and where in a row the columns begin.
HasHeader(file, layout) ==
    /\ Len(layout) >= 28 /\ LittleEndian(Part(file, 6, 2)) = Len(layout)
    /\ \A k \in 1 .. Len(layout) :
        LET at == 8 + 36 * (k - 1)
            table == layout[k]
        IN /\ LittleEndian(Part(file, at, 4)) = table.offset
           /\ LittleEndian(Part(file, at + 4, 2)) = table.rowCount
           /\ LittleEndian(Part(file, at + 6, 2)) = table.rowSize
           /\ file[at + 9] = Len(table.sizes)
           /\ Part(file, at + 9, Len(table.sizes)) = table.sizes
           /\ table.sizes \in Seq(0 .. 255) /\ table.starts \in Seq(Nat)
           /\ table.starts = [c \in DOMAIN Filled(table.sizes) |->
                IF c = 1 THEN 0 ELSE table.starts[c - 1] + Filled(table.sizes)[c - 1]]

\* The columns of tables 0 to 23 that makeTables reads as numbers
NumberColumns ==
    <<{0, 1, 3}, {0, 1}, {0, 1, 2}, 0 .. 4, {0, 1, 2}, {0}, {0, 1, 3}, {0, 1, 2}, {0, 1, 3, 5, 6, 10}, 0 .. 4,
      {0, 1}, {0, 1}, {}, {}, {}, {0, 1, 3}, {0, 1}, {0, 3, 6}, {}, {0, 1}, {0, 1}, 0 .. 3, {0, 1},
      {0, 2, 3, 4, 8, 13, 14}>>

\* A row that the methods can read: numbers of 1, 2 or 4 bytes, floats of 4, a
\* code, a conversion of 6, and as many bytes to transmit as the first one says.
Readable(t, row) ==
    LET has(cols, lengths) == \A c \in cols : c \in DOMAIN row /\ Len(row[c]) \in lengths
    IN /\ has(NumberColumns[t + 1], {1, 2, 4})
       /\ t = 5 => has({1, 2}, {4})
       /\ t = 16 => 3 \in DOMAIN row
       /\ t = 17 => has({2, 4}, {4})
       /\ t = 23 => has({1}, {6}) /\ 6 \in DOMAIN row /\ row[6][1] < Len(row[6])

HoldsRows(file, table, t, rows) ==
    LET sizes == Filled(table.sizes)
    IN /\ rows = [r \in 0 .. table.rowCount - 1 |-> [c \in 0 .. Len(sizes) - 1 |-> rows[r][c]]]
       /\ \A r \in 0 .. table.rowCount - 1 : Readable(t, rows[r])
       /\ \A r \in 0 .. table.rowCount - 1, c \in 0 .. Len(sizes) - 1 :
            /\ rows[r][c] \in Seq(0 .. 255) /\ Len(rows[r][c]) = sizes[c + 1]
            /\ Part(file, table.offset + r * table.rowSize + table.starts[c + 1], sizes[c + 1])
                    = Encoded(t, c, rows[r][c], IsStarScan(file))

\* a text that ends with a zero, in the table that the first byte of its
\* location names
HoldsText(file, layout, location, text) ==
    LET first == layout[IF location \div 2^24 = 1 THEN 28 ELSE 27].offset + (location % 2^24)
    IN /\ first \in Nat /\ first + Len(text) < Len(file) /\ text \in Seq(1 .. 255)
       /\ Part(file, first, Len(text)) = text
       /\ file[first + Len(text) + 1] = 0

HoldsAs(file, layout, stored) ==
    /\ file \in Seq(0 .. 255) /\ HasHeader(file, layout)
    /\ \A t \in 0 .. 23 : HoldsRows(file, layout[t + 1], t, stored.tables[t])
    /\ stored.texts = [r \in DOMAIN stored.tables[16] |-> stored.texts[r]]
    /\ \A r \in DOMAIN stored.tables[16] :
        HoldsText(file, layout, AsNumber(stored.tables[16][r][1]), stored.texts[r])

Holds(file, stored) == \E layout : HoldsAs(file, layout, stored)

\* the groups of table 7, with the items that table 18 has for them
StoredGroups(groups, items) ==
    LET read == TXGroups(groups)
    IN [i \in DOMAIN read |->
           [ModuleTypeID |-> read[i].ModuleTypeID, Order |-> read[i].Order,
            TXItemIDs |-> Linked(items, 0, i, 1)]]

\* the dictionaries of a stored database, with the one that StarSCAN's file gives
ContentOf(stored) ==
    LET t == stored.tables
    IN [Modules |-> Modules(t[0], t[10], t[19]), ModuleMenuItems |-> ModuleMenuItems(t[1]),
        BinaryFormatters |-> BinaryFormatters(t[2]), Functions |-> Functions(t[3], t[11]),
        StateScalers |-> StateScalers(t[4]), NumericScalers |-> NumericScalers(t[5]),
        ModuleTypes |-> ModuleTypes(t[6]), TXGroups |-> StoredGroups(t[7], t[18]),
        DataAcquireMethods |-> DataAcquireMethods(t[8]), MainMenuItems |-> MainMenuItems(t[9]),
        StateFormatters |-> StateFormatters(t[15]), Resources |-> Resources(t[16], stored.texts, FALSE),
        Texts |-> Resources(t[16], stored.texts, TRUE), NumericFormatters |-> NumericFormatters(t[17]),
        DataMenuItems |-> DataMenuItems(t[21], t[20], t[22]), TXItems |-> TXItems(t[23])]
===============================================================================
