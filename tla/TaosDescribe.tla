---------------------------- MODULE TaosDescribe ----------------------------
(***************************************************************************)
(* What the connector says of the columns of a table (src/field.rs,        *)
(* TaosDescribe and TaosDataType; src/client.rs, fetch_fields).  A         *)
(* `describe' statement names a type by a text, the metadata of a query by *)
(* a number; both become a TaosDataType, a number that is not known        *)
(* becomes Unknown on the native way and is refused over HTTP.             *)
(***************************************************************************)
EXTENDS Integers, Sequences

-----------------------------------------------------------------------------
(* The server: a table is a sequence of columns, its tags last.  The types of *)
(* the server are known by the names of the variants that stand for them; a   *)
(* newer server has types that the connector was not made for.                *)

Column == [name : STRING, type : STRING, bytes : Nat, tag : BOOLEAN]

\* TSDB_DATA_TYPE_*, the numbers of the library.
LibraryNumber ==
    [Null |-> 0, Bool |-> 1, TinyInt |-> 2, SmallInt |-> 3, Int |-> 4, BigInt |-> 5,
     Float |-> 6, Double |-> 7, Binary |-> 8, Timestamp |-> 9, NChar |-> 10,
     UTinyInt |-> 11, USmallInt |-> 12, UInt |-> 13, UBigInt |-> 14]

\* JSON came after the library's numbers were taken over, and others after it.
NumberOf(type) ==
    IF type \in DOMAIN LibraryNumber THEN LibraryNumber[type]
    ELSE IF type = "Json" THEN 15 ELSE 16

\* The names of the types of a column in SQL.
SqlName ==
    [Bool |-> "bool", TinyInt |-> "tinyint", SmallInt |-> "smallint", Int |-> "int",
     BigInt |-> "bigint", UTinyInt |-> "tinyint unsigned",
     USmallInt |-> "smallint unsigned", UInt |-> "int unsigned",
     UBigInt |-> "bigint unsigned", Float |-> "float", Double |-> "double",
     Binary |-> "binary", Timestamp |-> "timestamp", NChar |-> "nchar", Json |-> "json"]

\* The server writes a name in capitals.
TextOf(type) ==
    [letters |-> IF type \in DOMAIN SqlName THEN SqlName[type] ELSE "another",
     case |-> "upper"]

\* The rows of `describe': Field, Type, Length and Note.
DescribeRows(table) ==
    [i \in DOMAIN table |->
        [field |-> table[i].name, type |-> TextOf(table[i].type),
         length |-> table[i].bytes, note |-> IF table[i].tag THEN "TAG" ELSE ""]]

-----------------------------------------------------------------------------
(* The types of the connector *)

\* Wrong on purpose: two variants have each other's number.
TypesSwapped == <<"Null", "Bool", "TinyInt", "SmallInt", "Int", "BigInt", "Float",
                  "Double", "NChar", "Timestamp", "Binary", "UTinyInt", "USmallInt",
                  "UInt", "UBigInt", "Json">>

\* TaosDataType in the order of its numbers, from 0.
Types == <<"Null", "Bool", "TinyInt", "SmallInt", "Int", "BigInt", "Float",
           "Double", "Binary", "Timestamp", "NChar", "UTinyInt", "USmallInt",
           "UInt", "UBigInt", "Json">>

\* FromPrimitive for TaosDataType.
KnownNumber(number) == number + 1 \in DOMAIN Types
TypeOf(number) == IF KnownNumber(number) THEN Types[number + 1] ELSE "Unknown"

\* Wrong on purpose: two arms have each other's type.
IntegerArmsSwapped ==
    {<<"tinyint", "TinyInt">>, <<"smallint", "SmallInt">>,
     <<"int", "BigInt">>, <<"bigint", "Int">>,
     <<"tinyint unsigned", "UTinyInt">>, <<"smallint unsigned", "USmallInt">>,
     <<"int unsigned", "UInt">>, <<"bigint unsigned", "UBigInt">>}

\* The arms of TaosDataType::from_str, whose texts are in lower case.
IntegerArms ==
    {<<"tinyint", "TinyInt">>, <<"smallint", "SmallInt">>,
     <<"int", "Int">>, <<"bigint", "BigInt">>,
     <<"tinyint unsigned", "UTinyInt">>, <<"smallint unsigned", "USmallInt">>,
     <<"int unsigned", "UInt">>, <<"bigint unsigned", "UBigInt">>}
OtherArms ==
    {<<"timestamp", "Timestamp">>, <<"bool", "Bool">>, <<"float", "Float">>,
     <<"double", "Double">>, <<"binary", "Binary">>, <<"nchar", "NChar">>}
Arms  == IntegerArms \union OtherArms
Named == [s \in {arm[1] : arm \in Arms} |-> (CHOOSE arm \in Arms : arm[1] = s)[2]]

ToLowercase(text) == [text EXCEPT !.case = "lower"]

\* TaosDataType::from_str is Ok, and what it then is.
HasName(text) ==
    LET lower == ToLowercase(text)
    IN  lower.case = "lower" /\ lower.letters \in DOMAIN Named
FromStr(text) == Named[ToLowercase(text).letters]

\* `as i16', as the length of a column is kept.
AsI16(num) == ((num + \h8000) % \h10000) - \h8000

-----------------------------------------------------------------------------
(* A schema: how the call ended, and the columns and tags *)

Panicked == [how |-> "panicked", cols |-> <<>>, tags |-> <<>>]
Refused  == [how |-> "error", cols |-> <<>>, tags |-> <<>>]
Schema(cols, tags) == [how |-> "ok", cols |-> cols, tags |-> tags]

ColumnMeta(row) ==
    [name |-> row.field, type |-> FromStr(row.type), bytes |-> AsI16(row.length)]
ColumnMetas(rows) == [i \in DOMAIN rows |-> ColumnMeta(rows[i])]

\* Iterator::partition by the note of a row: the rows of one side, in order.
SideOf(row) == IF row.note = "TAG" THEN "tags" ELSE "cols"
Side(rows, which) ==
    LET side[n \in 0 .. Len(rows)] ==
            IF n = 0 THEN <<>>
            ELSE IF SideOf(rows[n]) = which THEN Append(side[n - 1], rows[n])
                                            ELSE side[n - 1]
    IN  side[Len(rows)]

\* Wrong on purpose: the two halves of the partition are taken the wrong way
\* round.
DescribeFlipped(rows) ==
    IF \A i \in DOMAIN rows : HasName(rows[i].type)
    THEN Schema(ColumnMetas(Side(rows, "tags")), ColumnMetas(Side(rows, "cols")))
    ELSE Panicked

\* From<TaosQueryData> for TaosDescribe: the rows are parted by their note; a
\* type without a name is expect("from describe").
Describe(rows) ==
    IF \A i \in DOMAIN rows : HasName(rows[i].type)
    THEN Schema(ColumnMetas(Side(rows, "cols")), ColumnMetas(Side(rows, "tags")))
    ELSE Panicked

\* The column_meta of a query for all columns, from the fields of the library.
NativeMeta(table) ==
    Schema([i \in DOMAIN table |->
               [name |-> table[i].name, type |-> TypeOf(NumberOf(table[i].type)),
                bytes |-> table[i].bytes]],
           <<>>)

\* The column_meta of a response: serde accepts the numbers of the variants
\* only, so another one makes the whole response an error.
RestMeta(table) ==
    IF \A i \in DOMAIN table : KnownNumber(NumberOf(table[i].type))
    THEN NativeMeta(table)
    ELSE Refused

\* TaosDescribe::names, col_names and tag_names.
NamesOf(metas) == [i \in DOMAIN metas |-> metas[i].name]
Names(schema)  == NamesOf(schema.cols \o schema.tags)

=============================================================================
