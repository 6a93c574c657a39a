------------------------------ MODULE RowCodec ------------------------------
(***************************************************************************)
(* The encoding of a row's columns, the primary key apart, into the value  *)
(* of a B+ tree cell (row_codec.cpp).                                      *)
(*                                                                         *)
(* A value is its kind and one number: an INTEGER's own value, or the      *)
(* length of a TEXT, which stands for the text.  A blob maps the offset at *)
(* which a column's field begins to the number stored there; it says       *)
(* nothing of the field's kind, which only the schema knows.               *)
(***************************************************************************)
EXTENDS Integers, Sequences, FiniteSetsExt

CONSTANTS
    TEXT_COLUMN_CAPACITY,   \* a length byte and the text
    INTEGER_WIDTH           \* sizeof(int64_t)

ASSUME WidthAssumption ==
    TEXT_COLUMN_CAPACITY \in Nat \ {0} /\ INTEGER_WIDTH \in Nat \ {0}

Value == [kind : {"INTEGER", "TEXT"}, data : Int]

\* TableSchema::PrimaryKeyIndex, for a schema that has a primary key.
PrimaryKeyIndex(columns) ==
    CHOOSE i \in 1 .. Len(columns) :
        /\ columns[i].is_primary_key
        /\ \A j \in 1 .. i - 1 : ~columns[j].is_primary_key

\* The columns RowCodec encodes.
Encoded(columns) == (1 .. Len(columns)) \ {PrimaryKeyIndex(columns)}

ColumnWidth(col) ==
    IF col.type = "INTEGER" THEN INTEGER_WIDTH ELSE TEXT_COLUMN_CAPACITY

\* The running total of the loops over the columns, the key apart: where it
\* stands at column i, and, one past the last, where it ends.
Offsets(columns) ==
    LET at[i \in 1 .. Len(columns) + 1] ==
            IF i = 1 THEN 0
            ELSE at[i - 1] + (IF i - 1 \in Encoded(columns)
                              THEN ColumnWidth(columns[i - 1]) ELSE 0)
    IN  at

\* Where Encode and Decode find the field of column i.
FieldOffset(columns, i) == Offsets(columns)[i]

\* RowCodec's constructor computes the size of every blob it will produce.
EncodedSize(columns) == Offsets(columns)[Len(columns) + 1]

\* What Encode demands of the values, in its order: their number, then each
\* one's kind and the length of a text.
Encodable(columns, values) ==
    /\ Len(values) = Len(columns)
    /\ \A i \in Encoded(columns) :
          /\ values[i].kind = columns[i].type
          /\ values[i].kind = "TEXT" => values[i].data <= TEXT_COLUMN_CAPACITY - 1

Encode(columns, values) ==
    [o \in {FieldOffset(columns, i) : i \in Encoded(columns)} |->
        values[CHOOSE i \in Encoded(columns) : FieldOffset(columns, i) = o].data]

\* Seeded fault: the key is returned in front, whatever its column.
DecodeKeyFirst(columns, key, blob) ==
    [i \in 1 .. Len(columns) |->
        IF i = 1 THEN [kind |-> "INTEGER", data |-> key]
        ELSE [kind |-> columns[i].type,
              data |-> blob[FieldOffset(columns, Max(Encoded(columns)))]]]

\* Decode puts the key back at the primary key's position and reads the
\* other fields as the schema says.
Decode(columns, key, blob) ==
    [i \in 1 .. Len(columns) |->
        IF i = PrimaryKeyIndex(columns) THEN [kind |-> "INTEGER", data |-> key]
        ELSE [kind |-> columns[i].type, data |-> blob[FieldOffset(columns, i)]]]
=============================================================================
