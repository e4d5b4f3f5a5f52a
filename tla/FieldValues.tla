---------------------------- MODULE FieldValues ----------------------------
(***************************************************************************)
(* The way of one value through the connector: it is converted to a bound  *)
(* parameter (src/stmt/bind.rs), the library copies it into a cell, the    *)
(* parameter is freed, and the cell is read back as a Field, by a native   *)
(* query (src/client.rs, fetch_fields) and by one over HTTP (src/rest.rs,  *)
(* value_to_field).  Cells of time have the precision of the database and  *)
(* become time stamps (src/timestamp.rs).                                  *)
(*                                                                         *)
(* A number passes through memory as the two's complement image of its     *)
(* width.  Text is a sequence of bytes, of which the model tells apart     *)
(* those that the conversions treat differently.  Instants are counted     *)
(* from the epoch in ticks of the finest precision.  A Float holds every   *)
(* second number that a Double holds.                                      *)
(***************************************************************************)
EXTENDS Integers, Sequences, SequencesExt

CONSTANTS
    Half,           \* Half[b]: half the number of the integers of b bits
    Ratio,          \* ticks of a precision in one tick of the next coarser one
    Bound           \* the values that the program binds

Bits == {8, 16, 32, 64}

Signed    == [TinyInt |-> 8, SmallInt |-> 16, Int |-> 32, BigInt |-> 64]
Unsigned  == [UTinyInt |-> 8, USmallInt |-> 16, UInt |-> 32, UBigInt |-> 64]
Integer   == DOMAIN Signed \union DOMAIN Unsigned
TextType  == {"Binary", "NChar", "Json"}
DataType  == {"Null", "Bool", "Float", "Double", "Timestamp"} \union Integer
                \union TextType
Precision == {"Milli", "Micro", "Nano"}

\* 0xFF is not UTF-8; it is replaced by U+FFFD, which has three bytes.
Byte == {"letter", "xFF", "nul", "rep1", "rep2", "rep3"}

IsUtf8(text) ==
    /\ "xFF" \notin Range(text)
    /\ text # <<>> => Last(text) \notin {"rep1", "rep2"}

\* A value: its number, its text or its number and precision, by its type.
Value(types) == [type : types, num : Int, text : Seq(Byte),
                 precision : Precision \union {"none"}]
Field == Value(DataType)

Number(type, num) == [type |-> type, num |-> num, text |-> <<>>, precision |-> "none"]
Text(type, text)  == [type |-> type, num |-> 0, text |-> text, precision |-> "none"]
Time(num, p)      == [type |-> "Timestamp", num |-> num, text |-> <<>>, precision |-> p]
Null              == Number("Null", 0)

\* Two's complement: the image of a number in memory, and what a read of it as
\* a number of the given type, or an `as' conversion to it, yields.
Image(bits, num)    == num % (2 * Half[bits])
AsSigned(bits, num) == ((num + Half[bits]) % (2 * Half[bits])) - Half[bits]
As(type, num) == IF type \in DOMAIN Signed THEN AsSigned(Signed[type], num)
                                           ELSE Image(Unsigned[type], num)
AsF32(num)    == num - (num % 2)

\* Instants, in ticks.
TickOf(p) == CASE p = "Milli" -> Ratio * Ratio [] p = "Micro" -> Ratio [] p = "Nano" -> 1
Instant(num, p) == num * TickOf(p)
Millis(instant) == instant \div TickOf("Milli")

\* What besides a Field can be bound: instants of std and of chrono.
Bindable == Value(DataType \union {"SystemTime", "NaiveDateTime"})

\* The values of a type: of its width; a String is UTF-8; JSON is never empty; the
\* instants that chrono can hold have 64 bits in milliseconds.
InType(v) ==
    /\ v.type \in Integer => As(v.type, v.num) = v.num
    /\ v.type = "Bool" => v.num \in {0, 1}
    /\ v.type = "Float" => AsF32(v.num) = v.num /\ AsSigned(32, v.num) = v.num
    /\ v.type \in {"Double", "Timestamp"} => AsSigned(64, v.num) = v.num
    /\ v.type = "Timestamp" => v = Time(v.num, v.precision) /\ v.precision # "none"
    /\ v.type \in {"SystemTime", "NaiveDateTime"} =>
            AsSigned(64, Millis(v.num)) = Millis(v.num)
    /\ v.type \in TextType => v = Text(v.type, v.text)
    /\ v.type \in {"NChar", "Json"} => IsUtf8(v.text)
    /\ v.type = "Json" => v.text # <<>>
    /\ v.type = "Null" => v = Null
    /\ v.type \notin TextType \union {"Timestamp"} => v = Number(v.type, v.num)

ASSUME WidthAssumption ==
    /\ Half \in [Bits -> Nat \ {0}]
    /\ \A bits \in Bits : Half[bits] <= Half[64]
    /\ Ratio \in Nat \ {0}

\* The three bytes of U+FFFD count as letters in a text that the program binds.
ASSUME BoundAssumption ==
    \A v \in Bound :
        /\ v \in Bindable /\ InType(v)
        /\ Range(v.text) \subseteq {"letter", "xFF", "nul"}

VARIABLES
    pc,             \* how far the value is
    input,          \* the value that is bound
    db,             \* the precision of the database
    format,         \* how the endpoint writes times: /rest/sql or /rest/sqlt
    param,          \* the TAOS_BIND
    blocks,         \* the heap blocks that the TAOS_BIND owns
    cell,           \* the cell in the table
    native,         \* what the native query reads
    rest            \* what the query over HTTP reads

vars == <<pc, input, db, format, param, blocks, cell, native, rest>>

\* What a read can end with instead of a Field.
NotRead  == Number("not read", 0)
Panicked == Number("panicked", 0)
Failed   == Number("error", 0)
Outcome  == Value(DataType \union {"not read", "panicked", "error"})

\* A parameter: the type, the content of the buffer, and the length that the
\* library is told.
Param == [type : DataType, num : Nat, text : Seq(Byte), length : Nat]
NoParam == [type |-> "Null", num |-> 0, text |-> <<>>, length |-> 0]

\* The type of every variable of the component.
TypeOK ==
    /\ pc \in {"value", "bound", "copied", "stored", "panicked"}
    /\ input \in Bound
    /\ db \in Precision
    /\ format \in {"string", "number"}
    /\ param \in Param
    /\ blocks \subseteq {"buffer", "length", "is_null"}
    /\ cell \in Param
    /\ native \in Outcome /\ InType(native)
    /\ rest \in Outcome /\ InType(rest)

Init ==
    /\ pc = "value"
    /\ input \in Bound
    /\ db \in Precision
    /\ format \in {"string", "number"}
    /\ param = NoParam
    /\ blocks = {}
    /\ cell = NoParam
    /\ native = NotRead
    /\ rest = NotRead

-----------------------------------------------------------------------------
(* Times *)

\* Wrong on purpose: the duration is added on either side of the epoch.
ToStdTimeAdded(ts) ==
    LET abs == Image(64, AsSigned(64, IF ts.num < 0 THEN -ts.num ELSE ts.num))
    IN  abs * TickOf(ts.precision)

\* Timestamp::to_std_time: the magnitude is taken in i64, where a release build
\* leaves the least number as it is, and read as u64.
ToStdTime(ts) ==
    LET abs == Image(64, AsSigned(64, IF ts.num < 0 THEN -ts.num ELSE ts.num))
    IN  IF ts.num > 0 THEN abs * TickOf(ts.precision)
                      ELSE -(abs * TickOf(ts.precision))

\* Timestamp::to_naive_datetime, for dates that chrono can hold.
ToNaiveDateTime(ts) == ts.num * TickOf(ts.precision)

\* Wrong on purpose: the milliseconds are cut off towards the epoch.
FromStrTowardsEpoch(instant) ==
    Time(IF instant < 0 THEN -Millis(-instant) ELSE Millis(instant), "Milli")

\* Timestamp::from_str keeps milliseconds; the text is taken for UTC.
FromStr(instant) == Time(Millis(instant), "Milli")

-----------------------------------------------------------------------------
(* into_bind_param *)

\* String::from_utf8_lossy, and BStr::to_string: text that is UTF-8 stays as it is.
Lossy(text) ==
    IF IsUtf8(text)
    THEN text
    ELSE FlattenSeq([i \in DOMAIN text |->
            IF text[i] = "xFF" THEN <<"rep1", "rep2", "rep3">> ELSE <<text[i]>>])

Bytes(bits) == bits \div 8

\* Wrong on purpose: the number itself, without regard to its width.
NumberParamUnbounded(type, bits, num) ==
    [type |-> type, num |-> num, text |-> <<>>, length |-> Bytes(bits)]

\* A number in a box.
NumberParam(type, bits, num) ==
    [type |-> type, num |-> Image(bits, num), text |-> <<>>, length |-> Bytes(bits)]

\* Text: the buffer holds the text made UTF-8 (and a NUL, or what else is to be
\* found behind it), the length is that of the text as it was.
TextParam(type, text) ==
    [type |-> type, num |-> 0, text |-> Lossy(text), length |-> Len(text)]

\* The parameter of a value, by its type.
ParamOf(v) ==
    CASE v.type \in DOMAIN Signed   -> NumberParam(v.type, Signed[v.type], v.num)
      [] v.type \in DOMAIN Unsigned -> NumberParam(v.type, Unsigned[v.type], v.num)
      [] v.type = "Bool"            -> NumberParam("Bool", 8, v.num)
      [] v.type = "Float"           -> NumberParam("Float", 32, v.num)
      [] v.type = "Double"          -> NumberParam("Double", 64, v.num)
      [] v.type = "Timestamp"       -> NumberParam("Timestamp", 64, v.num)
      [] v.type \in {"SystemTime", "NaiveDateTime"}
                                    -> NumberParam("Timestamp", 64, Millis(v.num))
      [] v.type \in TextType        -> TextParam(v.type, v.text)
      [] v.type = "Null"            -> NoParam

\* CString::new of text with a NUL inside, and a SystemTime before the epoch.
\* JSON is not made a CString, and escapes a NUL.
ConversionPanics(v) ==
    \/ v.type \in {"Binary", "NChar"} /\ "nul" \in Range(v.text)
    \/ v.type = "SystemTime" /\ v.num < 0

IntoBindParam ==
    /\ pc = "value"
    /\ ~ConversionPanics(input)
    /\ pc' = "bound"
    /\ param' = ParamOf(input)
    /\ blocks' = IF input.type = "Null" THEN {"is_null"} ELSE {"buffer", "length"}
    /\ UNCHANGED <<input, db, format, cell, native, rest>>

IntoBindParamPanics ==
    /\ pc = "value"
    /\ ConversionPanics(input)
    /\ pc' = "panicked"
    /\ UNCHANGED <<input, db, format, param, blocks, cell, native, rest>>

\* taos_stmt_bind_param: of text the library copies as many bytes as it is told.
CopyParam ==
    /\ pc = "bound"
    /\ pc' = "copied"
    /\ cell' = [param EXCEPT !.text = SubSeq(@, 1, Min({param.length, Len(@)}))]
    /\ UNCHANGED <<input, db, format, param, blocks, native, rest>>

\* Wrong on purpose: the box of the length is forgotten.
DropParamKeepsLength ==
    /\ pc = "copied"
    /\ pc' = "stored"
    /\ blocks' = blocks \ {"buffer", "is_null"}
    /\ UNCHANGED <<input, db, format, param, cell, native, rest>>

\* Drop for BindParam.  The buffer is freed as a Vec of `length' bytes: a Vec of
\* no bytes has no buffer to free.
DropParam ==
    /\ pc = "copied"
    /\ pc' = "stored"
    /\ blocks' = IF "buffer" \in blocks /\ param.length = 0 THEN {"buffer"} ELSE {}
    /\ UNCHANGED <<input, db, format, param, cell, native, rest>>

-----------------------------------------------------------------------------
(* Reading the cell *)

\* Wrong on purpose: every integer is read as a signed one.
NativeIntegerSigned(type, num) ==
    AsSigned(IF type \in DOMAIN Signed THEN Signed[type] ELSE Unsigned[type], num)

\* A read through a pointer to the integer type of the column.
NativeInteger(type, num) == As(type, num)

\* The closure of fetch_fields.  JSON text that does not parse becomes NULL.
NativeField ==
    LET type == cell.type
    IN  CASE type = "Null"      -> Null
          [] type = "Bool"      -> Number(type, IF cell.num # 0 THEN 1 ELSE 0)
          [] type \in Integer   -> Number(type, NativeInteger(type, cell.num))
          [] type = "Timestamp" -> Time(AsSigned(64, cell.num), db)
          [] type = "Float"     -> Number(type, AsSigned(32, cell.num))
          [] type = "Double"    -> Number(type, AsSigned(64, cell.num))
          [] type = "Binary"    -> Text(type, cell.text)
          [] type = "NChar"     -> Text(type, Lossy(cell.text))
          [] type = "Json"      -> IF IsUtf8(cell.text) THEN Text(type, cell.text) ELSE Null

NativeRead ==
    /\ pc = "stored"
    /\ native = NotRead
    /\ native' = NativeField
    /\ UNCHANGED <<pc, input, db, format, param, blocks, cell, rest>>

\* Wrong on purpose: as_i64 for every type.
RestIntegerSigned(type, num) ==
    IF AsSigned(64, num) = num THEN Number(type, As(type, num)) ELSE Panicked

\* as_i64 and as_u64 yield a number of 64 bits or panic, and `as' cuts it to
\* the type of the column.
RestInteger(type, num) ==
    LET fits == IF type \in DOMAIN Signed THEN AsSigned(64, num) = num
                                          ELSE Image(64, num) = num
    IN  IF fits THEN Number(type, As(type, num)) ELSE Panicked

\* The server writes the cell as JSON, text that is no UTF-8 so that the whole
\* response does not parse, and value_to_field converts it.  A time is a string
\* or, from /rest/sqlt, a number, which is taken for milliseconds.  There is no
\* case for Json.
RestField ==
    LET type == cell.type
        num  == IF type \in Integer THEN As(type, cell.num) ELSE AsSigned(64, cell.num)
    IN  CASE type = "Null"    -> Null
          [] type = "Bool"    -> Number(type, cell.num)
          [] type \in Integer -> RestInteger(type, num)
          [] type = "Timestamp" ->
                IF format = "number" THEN Time(num, "Milli") ELSE FromStr(Instant(num, db))
          [] type = "Float"   -> Number(type, AsF32(AsSigned(32, cell.num)))
          [] type = "Double"  -> Number(type, num)
          [] type \in {"Binary", "NChar"} ->
                IF IsUtf8(cell.text) THEN Text(type, cell.text) ELSE Failed
          [] type = "Json"    -> Panicked

RestRead ==
    /\ pc = "stored"
    /\ rest = NotRead
    /\ rest' = RestField
    /\ UNCHANGED <<pc, input, db, format, param, blocks, cell, native>>

Next ==
    \/ IntoBindParam \/ IntoBindParamPanics \/ CopyParam \/ DropParam
    \/ NativeRead \/ RestRead

Spec == Init /\ [][Next]_vars

-----------------------------------------------------------------------------
(* Properties *)

\* What the tests of stmt.rs assert of one value per type: a Field that is bound
\* is read back equal; here for every value, unless a binary is not UTF-8 or a
\* time stamp has another precision than the database.  Instants are read back
\* as the millisecond they lie in, from a database in milliseconds.
RoundTrip ==
    native # NotRead =>
        CASE input.type \in {"SystemTime", "NaiveDateTime"} ->
                db = "Milli" =>
                    /\ native.type = "Timestamp"
                    /\ ToNaiveDateTime(native) <= input.num
                    /\ input.num < ToNaiveDateTime(native) + TickOf("Milli")
          [] input.type = "Timestamp" -> input.precision = db => native = input
          [] input.type = "Binary"    -> IsUtf8(input.text) => native = input
          [] OTHER                    -> native = input

\* Both transports read the same Field from a cell, but for JSON, for text that
\* cannot be sent, and for the times of a database finer than milliseconds.  A time
\* that comes as a string is cut to the millisecond it lies in, also before the
\* epoch.  One that comes as a number is not converted at all: HTTP yields the count
\* of micro- or nanoseconds as one of milliseconds, a time that is wrong.
TransportsAgree ==
    native # NotRead /\ rest \notin {NotRead, Panicked, Failed} =>
        IF native.type = "Timestamp" /\ db # "Milli"
        THEN IF format = "number"
             THEN rest = Time(native.num, "Milli")
             ELSE /\ ToStdTime(rest) <= ToStdTime(native)
                  /\ ToStdTime(native) < ToStdTime(rest) + TickOf("Milli")
        ELSE rest = native

\* No value but JSON panics over HTTP, and no text but bytes that are not UTF-8
\* is refused.
RestReads ==
    /\ rest = Panicked => input.type = "Json"
    /\ rest = Failed => input.type = "Binary" /\ ~IsUtf8(input.text)

\* The two conversions of a time stamp mean the same instant.
TimesAgree ==
    native.type = "Timestamp" => ToStdTime(native) = ToNaiveDateTime(native)

\* Drop for BindParam frees every block that the conversion has put on the heap,
\* but for the buffer of an empty text.
BuffersFreed ==
    pc = "stored" /\ blocks # {} =>
        /\ blocks = {"buffer"}
        /\ input.type \in {"Binary", "NChar"} /\ input.text = <<>>

=============================================================================
