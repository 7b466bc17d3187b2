------------------------------ MODULE SSTBlock ------------------------------
(***************************************************************************)
(* The layout of an SST block: flushBlock and serializeMemtable put a      *)
(* memtable into a buffer and append it to the file of the region, the     *)
(* constructor SSTBlock(buffer, size) and the read functions find the      *)
(* parts again (src/src/dataNode/dataNodeLib/SST.hpp).                     *)
(*                                                                         *)
(* A block is its size and the set of the fields written to it, a field    *)
(* being where it is, how long, and what it says.  A number stands for     *)
(* itself, a string for its place in the table; of names only the length   *)
(* matters.  A row may carry strings for columns the region does not have: *)
(* extra is what they add to Memtable::varCapacity.                        *)
(***************************************************************************)
EXTENDS Naturals, Sequences

CONSTANTS Types,     \* types of columns, of UINT64, INT64, DOUBLE, STRING
          NameSizes, \* lengths of column names
          Lengths,   \* lengths of strings
          Extras,    \* var capacity of strings no column stores
          Times,     \* timestamps of rows
          MaxCols, MaxRows, MaxBlocks, \* bounds: columns, rows, blocks of a file
          Garbage    \* what a read of bytes that are no field gives

ASSUME BlockAssumption ==
  /\ Types \subseteq {"UINT64", "INT64", "DOUBLE", "STRING"}
  /\ NameSizes \subseteq Nat /\ Lengths \subseteq Nat /\ Extras \subseteq Nat
  /\ Times \subseteq Nat
  /\ MaxCols \in Nat /\ MaxRows \in Nat /\ MaxBlocks \in Nat

VARIABLES file,    \* the blocks in the file of a region, each with its start
          length,  \* the length of the file
          metas,   \* fileOffset of each SSTBlockMeta
          written  \* history: the memtable behind each meta

vars == <<file, length, metas, written>>
-----------------------------------------------------------------------------
(* Memtables: columns, and rows of a timestamp and a cell per column; the  *)
(* cell of a string column holds the length of its string.                 *)

Columns == UNION {[1 .. n -> [type : Types, name : NameSizes]] : n \in 1 .. MaxCols}

CellsOf(cols) == {cells \in [DOMAIN cols -> Lengths \cup {0}] :
                    \A c \in DOMAIN cols : cols[c].type # "STRING" => cells[c] = 0}

RowsOf(cols) == [ts : Times, cells : CellsOf(cols)]

Memtables == UNION {UNION {[cols : {cols}, rows : [1 .. n -> RowsOf(cols)], extra : Extras] :
                             n \in 1 .. MaxRows} : cols \in Columns}

ColCount(m) == Len(m.cols)
RowCount(m) == Len(m.rows)
Cells(m)    == (1 .. RowCount(m)) \X (1 .. ColCount(m))
Strings(m)  == {p \in Cells(m) : m.cols[p[2]].type = "STRING"}

(* What a cell says: a number, or a string by its place and length.        *)
Says(m, p) == <<m.cols[p[2]].type, p, m.rows[p[1]].cells[p[2]]>>

StringSize(m, p) == IF p \in Strings(m) THEN m.rows[p[1]].cells[p[2]] ELSE 0
-----------------------------------------------------------------------------
(* Sizes and offsets. *)

(* What a loop over sizes has added up after 0, 1, ... of them. *)
Sums(sizes) ==
  LET sum[k \in 0 .. Len(sizes)] == IF k = 0 THEN 0 ELSE sum[k - 1] + sizes[k]
  IN  sum

Word          == 8   \* sizeof(u_int64_t), and of int64_t and double
TypeSize      == 4   \* sizeof(enum ColumnType)
InfoSize      == 16  \* sizeof(VarColumnInfo)
FixedMetaSize == 7 * Word

ColSize(t) == IF t = "STRING" THEN InfoSize ELSE Word

(* col_offsets *)
ColSizes(m)     == [c \in 1 .. ColCount(m) |-> ColSize(m.cols[c].type)]
ColOffset(m, c) == Sums(ColSizes(m))[c - 1]
RowSize(m)      == ColOffset(m, ColCount(m) + 1)

NameLengths(m)   == [c \in 1 .. ColCount(m) |-> m.cols[c].name]
NameOffset(m, c) == Sums(NameLengths(m))[c - 1]

(* Faulty variant: the end offset of the names is forgotten. *)
BasicSizeShort(n) == TypeSize * n + Word * n + Word * n

(* BlockVarMeta::BasicSize *)
BasicSize(n) == TypeSize * n + Word * n + Word * (n + 1)

VarMetaSize(m)   == BasicSize(ColCount(m)) + NameOffset(m, ColCount(m) + 1)
FixedDataSize(m) == RowSize(m) * RowCount(m)

(* The strings of a row, and of all rows. *)
RowStrings(m, i) == [c \in 1 .. ColCount(m) |-> StringSize(m, <<i, c>>)]
StringsOf(m)     == [i \in 1 .. RowCount(m) |-> Sums(RowStrings(m, i))[ColCount(m)]]

(* Memtable::varCapacity *)
VarCapacity(m) == m.extra + Sums(StringsOf(m))[RowCount(m)]

(* disk_size *)
DiskSize(m) == FixedMetaSize + VarMetaSize(m) + FixedDataSize(m) + VarCapacity(m)

(* var_data_offset when the string of a cell is written. *)
VarOffset(m, p) == Sums(StringsOf(m))[p[1] - 1] + Sums(RowStrings(m, p[1]))[p[2] - 1]
-----------------------------------------------------------------------------
(* serializeMemtable *)

Field(at, size, says) == [at |-> at, size |-> size, says |-> says]

FixedMeta(m) ==
  {Field(0, Word, DiskSize(m)),                Field(Word, Word, FixedMetaSize),
   Field(2 * Word, Word, VarMetaSize(m)),      Field(3 * Word, Word, FixedDataSize(m)),
   Field(4 * Word, Word, VarCapacity(m)),      Field(5 * Word, Word, RowCount(m)),
   Field(6 * Word, Word, ColCount(m))}

(* BlockVarMeta: the places its constructor computes. *)
TypeAt(n, c)     == FixedMetaSize + TypeSize * (c - 1)
SizeAt(n, c)     == FixedMetaSize + TypeSize * n + Word * (c - 1)
NameOffAt(n, c)  == FixedMetaSize + TypeSize * n + Word * n + Word * (c - 1)
NamesAt(n)       == FixedMetaSize + TypeSize * n + Word * n + Word * (n + 1)

(* BlockVarMeta::serialize *)
VarMeta(m) == LET n == ColCount(m) IN
  {Field(TypeAt(n, c), TypeSize, m.cols[c].type) : c \in 1 .. n} \cup
  {Field(SizeAt(n, c), Word, ColSize(m.cols[c].type)) : c \in 1 .. n} \cup
  {Field(NameOffAt(n, c), Word, NameOffset(m, c)) : c \in 1 .. n + 1} \cup
  {Field(NamesAt(n) + NameOffset(m, c), m.cols[c].name, <<"name", c>>) : c \in 1 .. n}

RowsAt(m)    == FixedMetaSize + VarMetaSize(m)
VarDataAt(m) == RowsAt(m) + FixedDataSize(m)

(* VarColumnInfo; its offset is the size of the whole variable data. *)
VarInfo(m, p) == [offset |-> VarCapacity(m), size |-> StringSize(m, p)]

(* Faulty variant: the offset of a column is not added. *)
CellAtRow(m, p) == RowsAt(m) + RowSize(m) * (p[1] - 1)

(* FixedBlock::write *)
CellAt(m, p) == RowsAt(m) + RowSize(m) * (p[1] - 1) + ColOffset(m, p[2])

FixedRows(m) ==
  {Field(CellAt(m, p), ColSize(m.cols[p[2]].type),
         IF p \in Strings(m) THEN VarInfo(m, p) ELSE Says(m, p)) : p \in Cells(m)}

(* VarBlock::write *)
VarData(m) == {Field(VarDataAt(m) + VarOffset(m, p), StringSize(m, p), Says(m, p)) :
                 p \in Strings(m)}

Fields(m) == FixedMeta(m) \cup VarMeta(m) \cup FixedRows(m) \cup VarData(m)
-----------------------------------------------------------------------------
Init == file = << >> /\ length = 0 /\ metas = << >> /\ written = << >>

(* Faulty variant: the offset is taken when the block has been written.    *)
OffsetAtClose == length'

(* tellp at the end of a file opened for appending *)
FileOffset == length

(* flushBlock and appendMemtable. *)
FlushBlock(m) ==
  /\ Len(file) < MaxBlocks
  /\ file' = Append(file, [start |-> length, size |-> DiskSize(m), fields |-> Fields(m)])
  /\ length' = length + DiskSize(m)
  /\ metas' = Append(metas, FileOffset)
  /\ written' = Append(written, m)

Next == \E m \in Memtables : FlushBlock(m)

Spec == Init /\ [][Next]_vars
-----------------------------------------------------------------------------
(* Reading a block back, at a place in the file. *)

(* The bytes of the file from a place on, as the field that begins there.  *)
Read(at, size) ==
  LET hits == {f \in UNION {{[g EXCEPT !.at = @ + file[i].start] : g \in file[i].fields} :
                              i \in DOMAIN file} : f.at = at /\ f.size = size}
  IN  IF hits = {} THEN Garbage ELSE (CHOOSE f \in hits : TRUE).says

(* SSTBlock(buffer, size), FixedBlock::read and VarBlock::read: the row    *)
(* size is the sum of the column sizes in the var meta.                    *)
MetaAt(o, k) == Read(o + k * Word, Word)

ReadSize(o, n, c) == Read(o + SizeAt(n, c), Word)
ReadOffset(o, n, c) == Sums([d \in 1 .. n |-> ReadSize(o, n, d)])[c - 1]

ReadCell(o, p) ==
  LET n    == MetaAt(o, 6)
      rows == o + FixedMetaSize + MetaAt(o, 2)
      at   == rows + ReadOffset(o, n, n + 1) * (p[1] - 1) + ReadOffset(o, n, p[2])
      cell == Read(at, ReadSize(o, n, p[2]))
  IN  IF Read(o + TypeAt(n, p[2]), TypeSize) = "STRING" /\ cell # Garbage
      THEN Read(rows + MetaAt(o, 3) + cell.offset, cell.size)
      ELSE cell
-----------------------------------------------------------------------------
(* Properties. *)

(* The parts of a block, whose sizes flushBlock, serializeMemtable and     *)
(* BlockVarMeta compute each for itself, lie within the buffer and do not  *)
(* run into each other.                                                    *)
LayoutSound == \A i \in DOMAIN file : \A f \in file[i].fields :
  /\ f.at + f.size <= file[i].size
  /\ \A g \in file[i].fields \ {f} :
       f.at + f.size <= g.at \/ g.at + g.size <= f.at

(* What a meta points to is its block: sizes, column types and every       *)
(* number of the memtable are read back from it, whatever else was         *)
(* appended to the file (flushBlock, loadBlock).                           *)
NumbersReadBack == \A i \in DOMAIN metas : LET m == written[i] IN
  /\ MetaAt(metas[i], 0) = DiskSize(m)
  /\ MetaAt(metas[i], 5) = RowCount(m) /\ MetaAt(metas[i], 6) = ColCount(m)
  /\ \A p \in Cells(m) \ Strings(m) : ReadCell(metas[i], p) = Says(m, p)

(* So is every string that is not empty: the fixed data hold its offset    *)
(* and its length in the variable data (FixedBlock in readme.md).  This    *)
(* does not hold.                                                          *)
StringsReadBack == \A i \in DOMAIN metas : LET m == written[i] IN
  \A p \in Strings(m) : StringSize(m, p) > 0 => ReadCell(metas[i], p) = Says(m, p)

(* The columns of a block include the timestamp (column_num in readme.md): *)
(* blocks of rows with different timestamps differ.  This does not hold.   *)
TimesStored == \A i, j \in DOMAIN file :
  file[i].fields = file[j].fields => written[i].rows = written[j].rows
=============================================================================
