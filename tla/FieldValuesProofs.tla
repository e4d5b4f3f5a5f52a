------------------------- MODULE FieldValuesProofs -------------------------
(***************************************************************************)
(* Proofs about FieldValues, for any widths of the integers, any ratio of  *)
(* the precisions and any values: types, what is bound is read back, both  *)
(* transports read the same, times agree, and buffers are freed and never  *)
(* read behind their end.                                                  *)
(***************************************************************************)
EXTENDS FieldValues, WellFoundedInduction, TLAPS

-----------------------------------------------------------------------------
(* Numbers *)

\* The types of the integers and their widths.
LEMMA Widths ==
    /\ DOMAIN Signed = {"TinyInt", "SmallInt", "Int", "BigInt"}
    /\ DOMAIN Unsigned = {"UTinyInt", "USmallInt", "UInt", "UBigInt"}
    /\ \A type \in DOMAIN Signed : Signed[type] \in Bits
    /\ \A type \in DOMAIN Unsigned : Unsigned[type] \in Bits
<1>1. DOMAIN Signed = {"TinyInt", "SmallInt", "Int", "BigInt"}
    BY DEF Signed
<1>2. DOMAIN Unsigned = {"UTinyInt", "USmallInt", "UInt", "UBigInt"}
    BY DEF Unsigned
<1>3. \A type \in DOMAIN Signed : Signed[type] \in Bits
    BY <1>1 DEF Signed, Bits
<1>4. \A type \in DOMAIN Unsigned : Unsigned[type] \in Bits
    BY <1>2 DEF Unsigned, Bits
<1> QED
    BY <1>1, <1>2, <1>3, <1>4

\* Half of the numbers of a width is at least one, and at most that of 64 bits.
LEMMA Halves ==
    ASSUME NEW bits \in Bits
    PROVE  Half[bits] \in Nat \ {0} /\ Half[64] \in Nat \ {0} /\ Half[bits] <= Half[64]
BY WidthAssumption DEF Bits

\* A remainder of a number that is in range is the number, and one below the
\* range is moved up by the modulus.
LEMMA Remainders ==
    ASSUME NEW m \in Nat \ {0}, NEW a \in Int
    PROVE  /\ a % m \in 0 .. m - 1
           /\ 0 <= a /\ a < m => a % m = a
           /\ -m <= a /\ a < 0 => a % m = a + m
<1>1. a % m \in 0 .. m - 1
    BY SMT
<1>2. 0 <= a /\ a < m => a % m = a
    BY SMT
<1>3. -m <= a /\ a < 0 => a % m = a + m
    BY SMT
<1> QED
    BY <1>1, <1>2, <1>3

\* The image of a number is in the range of its width, and a signed read is in
\* the signed range.
LEMMA ImageRange ==
    ASSUME NEW bits \in Bits, NEW num \in Int
    PROVE  /\ Image(bits, num) \in 0 .. 2 * Half[bits] - 1
           /\ AsSigned(bits, num) \in -Half[bits] .. Half[bits] - 1
<1>1. Half[bits] \in Nat \ {0}
    BY Halves
<1>2. 2 * Half[bits] \in Nat \ {0} /\ num + Half[bits] \in Int
    BY <1>1
<1>3. num % (2 * Half[bits]) \in 0 .. 2 * Half[bits] - 1
    BY <1>2, Remainders
<1>4. (num + Half[bits]) % (2 * Half[bits]) \in 0 .. 2 * Half[bits] - 1
    BY <1>2, Remainders
<1> QED
    BY <1>1, <1>3, <1>4 DEF Image, AsSigned

\* A conversion to a signed or unsigned type leaves the numbers of the type alone.
LEMMA InRange ==
    ASSUME NEW bits \in Bits, NEW num \in Int
    PROVE  /\ -Half[bits] <= num /\ num < Half[bits] => AsSigned(bits, num) = num
           /\ 0 <= num /\ num < 2 * Half[bits] => Image(bits, num) = num
<1>1. Half[bits] \in Nat \ {0}
    BY Halves
<1>2. 2 * Half[bits] \in Nat \ {0} /\ num + Half[bits] \in Int
    BY <1>1
<1>3. ASSUME -Half[bits] <= num, num < Half[bits]
      PROVE  AsSigned(bits, num) = num
  <2>1. 0 <= num + Half[bits] /\ num + Half[bits] < 2 * Half[bits]
    BY <1>1, <1>3
  <2>2. (num + Half[bits]) % (2 * Half[bits]) = num + Half[bits]
    BY <1>2, <2>1, Remainders
  <2> QED
    BY <1>1, <2>2 DEF AsSigned
<1>4. ASSUME 0 <= num, num < 2 * Half[bits]
      PROVE  Image(bits, num) = num
    BY <1>2, <1>4, Remainders DEF Image
<1> QED
    BY <1>3, <1>4

\* A signed number passes through its image in memory.
LEMMA SignedImage ==
    ASSUME NEW bits \in Bits, NEW num \in Int, AsSigned(bits, num) = num
    PROVE  AsSigned(bits, Image(bits, num)) = num
<1>1. Half[bits] \in Nat \ {0}
    BY Halves
<1>2. -Half[bits] <= num /\ num < Half[bits]
    BY <1>1, ImageRange
<1>3. CASE num >= 0
  <2>1. Image(bits, num) = num
    BY <1>1, <1>2, <1>3, InRange
  <2> QED
    BY <2>1
<1>4. CASE num < 0
  <2>1. Image(bits, num) = num + 2 * Half[bits]
    <3>1. 2 * Half[bits] \in Nat \ {0} /\ -(2 * Half[bits]) <= num
      BY <1>1, <1>2
    <3> QED
      BY <3>1, <1>4, Remainders DEF Image
  <2>2. (num + 3 * Half[bits]) % (2 * Half[bits]) = num + Half[bits]
    BY <1>1, <1>2, <1>4, SMT
  <2>3. num + 2 * Half[bits] + Half[bits] = num + 3 * Half[bits]
    BY <1>1
  <2> QED
    BY <1>1, <2>1, <2>2, <2>3 DEF AsSigned
<1> QED
    BY <1>3, <1>4

\* An unsigned one does, too.
LEMMA UnsignedImage ==
    ASSUME NEW bits \in Bits, NEW num \in Int, Image(bits, num) = num
    PROVE  Image(bits, Image(bits, num)) = num
OBVIOUS

\* So every integer is read back from the image of its width, by `as' and by a
\* pointer of its type, and it passes as_i64 or as_u64.
LEMMA IntegerRead ==
    ASSUME NEW type \in Integer, NEW num \in Int, As(type, num) = num
    PROVE  LET bits == IF type \in DOMAIN Signed THEN Signed[type] ELSE Unsigned[type]
           IN  /\ As(type, Image(bits, num)) = num
               /\ RestInteger(type, num) = Number(type, num)
<1>1. CASE type \in DOMAIN Signed
  <2>1. Signed[type] \in Bits /\ AsSigned(Signed[type], num) = num
    BY <1>1, Widths DEF As
  <2>2. As(type, Image(Signed[type], num)) = num
    BY <1>1, <2>1, SignedImage DEF As
  <2>3. AsSigned(64, num) = num
    <3>1. num \in -Half[Signed[type]] .. Half[Signed[type]] - 1
      BY <2>1, ImageRange
    <3>2. /\ Half[Signed[type]] \in Nat \ {0} /\ Half[64] \in Nat \ {0}
          /\ Half[Signed[type]] <= Half[64]
      BY <2>1, Halves
    <3>3. -Half[64] <= num /\ num < Half[64]
      BY <3>1, <3>2
    <3> QED
      BY <3>3, InRange DEF Bits
  <2>4. RestInteger(type, num) = Number(type, num)
    BY <1>1, <2>3 DEF RestInteger
  <2> QED
    BY <1>1, <2>2, <2>4
<1>2. CASE type \notin DOMAIN Signed
  <2>1. Unsigned[type] \in Bits /\ Image(Unsigned[type], num) = num
    BY <1>2, Widths DEF As, Integer
  <2>2. As(type, Image(Unsigned[type], num)) = num
    BY <1>2, <2>1 DEF As
  <2>3. Image(64, num) = num
    <3>1. num \in 0 .. 2 * Half[Unsigned[type]] - 1
      BY <2>1, ImageRange
    <3>2. /\ Half[Unsigned[type]] \in Nat \ {0} /\ Half[64] \in Nat \ {0}
          /\ Half[Unsigned[type]] <= Half[64]
      BY <2>1, Halves
    <3>3. 0 <= num /\ num < 2 * Half[64]
      BY <3>1, <3>2
    <3> QED
      BY <3>3, InRange DEF Bits
  <2>4. RestInteger(type, num) = Number(type, num)
    BY <1>2, <2>3 DEF RestInteger
  <2> QED
    BY <1>2, <2>2, <2>4
<1> QED
    BY <1>1, <1>2

-----------------------------------------------------------------------------
(* Times *)

\* The ticks of a precision: those of a millisecond are the most.
LEMMA Ticks ==
    ASSUME NEW p \in Precision
    PROVE  TickOf(p) \in Nat \ {0} /\ TickOf("Milli") \in Nat \ {0}
           /\ TickOf(p) <= TickOf("Milli")
<1>1. Ratio \in Nat \ {0}
    BY WidthAssumption
<1>2. Ratio * Ratio \in Nat \ {0} /\ Ratio <= Ratio * Ratio /\ 1 <= Ratio * Ratio
    BY <1>1, SMT
<1>3. /\ TickOf("Milli") = Ratio * Ratio
      /\ TickOf("Micro") = Ratio
      /\ TickOf("Nano") = 1
    BY DEF TickOf
<1> QED
    BY <1>1, <1>2, <1>3 DEF Precision

\* An instant lies in its millisecond.
LEMMA InMilli ==
    ASSUME NEW x \in Int
    PROVE  LET m == TickOf("Milli")
           IN  /\ Millis(x) \in Int
               /\ Millis(x) * m <= x
               /\ x < Millis(x) * m + m
<1> DEFINE m == TickOf("Milli")
<1>1. m \in Nat \ {0}
    BY Ticks DEF Precision
<1> HIDE DEF m
<1>2. (x \div m) \in Int /\ (x \div m) * m <= x /\ x < (x \div m) * m + m
    BY <1>1, SMT
<1> QED
    BY <1>2 DEF m, Millis

\* The milliseconds of a time stamp of 64 bits have 64 bits.
LEMMA MillisInRange ==
    ASSUME NEW n \in Int, NEW p \in Precision, AsSigned(64, n) = n
    PROVE  AsSigned(64, Millis(Instant(n, p))) = Millis(Instant(n, p))
<1> DEFINE m == TickOf("Milli")
           k == TickOf(p)
           h == Half[64]
<1>1. m \in Nat \ {0} /\ k \in Nat \ {0} /\ k <= m /\ h \in Nat \ {0} /\ 64 \in Bits
    BY Ticks, WidthAssumption DEF Bits
<1>2. -h <= n /\ n < h
    BY <1>1, ImageRange
<1>3. Millis(Instant(n, p)) = (n * k) \div m
    BY DEF Millis, Instant
<1> HIDE DEF m, k, h
<1>4. -h <= (n * k) \div m /\ (n * k) \div m < h /\ (n * k) \div m \in Int
    BY <1>1, <1>2, SMT
<1> QED
    BY <1>1, <1>3, <1>4, InRange DEF h

\* to_std_time and to_naive_datetime mean the same instant, for every time stamp
\* of 64 bits, the least one included.
LEMMA SameInstant ==
    ASSUME NEW ts, ts.num \in Int, AsSigned(64, ts.num) = ts.num,
           ts.precision \in Precision
    PROVE  ToStdTime(ts) = ts.num * TickOf(ts.precision)
           /\ ToNaiveDateTime(ts) = ts.num * TickOf(ts.precision)
<1> DEFINE n   == ts.num
           k   == TickOf(ts.precision)
           h   == Half[64]
           mag == IF n < 0 THEN -n ELSE n
           abs == Image(64, AsSigned(64, mag))
<1>1. h \in Nat \ {0} /\ 64 \in Bits /\ k \in Nat \ {0} /\ n \in Int
    BY WidthAssumption, Ticks DEF Bits
<1>2. -h <= n /\ n < h
    BY <1>1, ImageRange
<1>3. mag \in Int /\ 0 <= mag /\ mag <= h
    BY <1>1, <1>2
<1>4. abs = mag
  <2>1. CASE mag < h
    <3>1. AsSigned(64, mag) = mag
      BY <1>1, <1>3, <2>1, InRange
    <3>2. mag < 2 * h
      BY <1>1, <1>3
    <3>3. Image(64, mag) = mag
      BY <1>1, <1>3, <3>2, InRange
    <3> QED
      BY <3>1, <3>3
  <2>2. CASE mag = h
    <3>1. AsSigned(64, h) = -h
      <4>1. (h + h) % (2 * h) = 0
        BY <1>1, SMT
      <4> QED
        BY <1>1, <4>1 DEF AsSigned
    <3>2. Image(64, -h) = h
      <4>1. (-h) % (2 * h) = h
        BY <1>1, SMT
      <4> QED
        BY <4>1 DEF Image
    <3> QED
      BY <2>2, <3>1, <3>2
  <2> QED
    BY <1>1, <1>3, <2>1, <2>2
<1>5. ToStdTime(ts) = IF n > 0 THEN abs * k ELSE -(abs * k)
    BY DEF ToStdTime
<1> HIDE DEF n, k, h, abs
<1>6. CASE n > 0
  <2>1. mag = n
    BY <1>1, <1>6
  <2> QED
    BY <1>4, <1>5, <1>6, <2>1 DEF n, k, ToNaiveDateTime
<1>7. CASE ~(n > 0)
  <2>1. mag = -n
    BY <1>1, <1>7
  <2>2. -((-n) * k) = n * k
    BY <1>1, SMT
  <2> QED
    BY <1>4, <1>5, <1>7, <2>1, <2>2 DEF n, k, ToNaiveDateTime
<1> QED
    BY <1>6, <1>7

-----------------------------------------------------------------------------
(* Cells *)

\* The copy that the library makes of a parameter.
CopyOf(p) == [p EXCEPT !.text = SubSeq(@, 1, Min({p.length, Len(@)}))]

\* What is known of a value that is bound.
LEMMA BoundValue ==
    ASSUME NEW v \in Bound
    PROVE  /\ v.type \in DataType \union {"SystemTime", "NaiveDateTime"}
           /\ v.num \in Int /\ v.text \in Seq(Byte) /\ InType(v)
           /\ v.precision \in Precision \union {"none"}
BY BoundAssumption DEF Bindable, Value

\* UTF-8 text is copied whole.
LEMMA TextCopied ==
    ASSUME NEW type, NEW text \in Seq(Byte), IsUtf8(text)
    PROVE  CopyOf(TextParam(type, text)) = TextParam(type, text)
           /\ TextParam(type, text).text = text
<1>1. Lossy(text) = text
    BY DEF Lossy
<1>2. Min({Len(text), Len(text)}) = Len(text)
    BY DEF Min
<1>3. SubSeq(text, 1, Len(text)) = text
    OBVIOUS
<1>4. TextParam(type, text) =
        [type |-> type, num |-> 0, text |-> text, length |-> Len(text)]
    BY <1>1 DEF TextParam
<1>5. CopyOf(TextParam(type, text)) =
        [type |-> type, num |-> 0, text |-> text, length |-> Len(text)]
  <2> DEFINE p == TextParam(type, text)
  <2>1. p.text = text /\ p.length = Len(text)
    BY <1>4
  <2>2. SubSeq(p.text, 1, Min({p.length, Len(p.text)})) = text
    BY <2>1, <1>2, <1>3
  <2>3. CopyOf(p) = [p EXCEPT !.text = SubSeq(p.text, 1, Min({p.length, Len(p.text)}))]
    BY DEF CopyOf
  <2>4. CopyOf(p) = [p EXCEPT !.text = text]
    BY <2>2, <2>3
  <2> HIDE DEF p
  <2> QED
    BY <2>4, <1>4 DEF p
<1> QED
    BY <1>4, <1>5

\* A copy has the type and the number of the parameter.
LEMMA CopyKeeps ==
    ASSUME NEW type, NEW num, NEW text, NEW length
    PROVE  LET p == [type |-> type, num |-> num, text |-> text, length |-> length]
           IN  CopyOf(p).type = type /\ CopyOf(p).num = num
BY DEF CopyOf

\* The types of a value are different ones, so that ParamOf has one case for each.
LEMMA Types ==
    /\ DOMAIN Signed \cap DOMAIN Unsigned = {}
    /\ Integer = DOMAIN Signed \union DOMAIN Unsigned
    /\ \A type \in Integer :
        type \notin {"Null", "Bool", "Float", "Double", "Timestamp", "SystemTime",
                     "NaiveDateTime", "Binary", "NChar", "Json"}
BY Widths DEF Integer

\* The parameter of an integer.
LEMMA IntegerParam ==
    ASSUME NEW v, v.type \in Integer
    PROVE  ParamOf(v) = NumberParam(v.type, IF v.type \in DOMAIN Signed
                                THEN Signed[v.type] ELSE Unsigned[v.type], v.num)
<1>1. v.type \notin {"Null", "Bool", "Float", "Double", "Timestamp", "SystemTime",
                     "NaiveDateTime", "Binary", "NChar", "Json"}
    BY Types
<1>2. CASE v.type \in DOMAIN Signed
  <2>1. v.type \notin DOMAIN Unsigned
    BY <1>2, Types
  <2> QED
    BY <1>1, <1>2, <2>1 DEF ParamOf, TextType
<1>3. CASE v.type \notin DOMAIN Signed
  <2>1. v.type \in DOMAIN Unsigned
    BY <1>3, Types
  <2> QED
    BY <1>1, <1>3, <2>1 DEF ParamOf, TextType
<1> QED
    BY <1>2, <1>3

\* The parameter of everything else.
LEMMA OtherParam ==
    ASSUME NEW v, v.type \notin Integer
    PROVE  /\ v.type = "Bool" => ParamOf(v) = NumberParam("Bool", 8, v.num)
           /\ v.type = "Float" => ParamOf(v) = NumberParam("Float", 32, v.num)
           /\ v.type = "Double" => ParamOf(v) = NumberParam("Double", 64, v.num)
           /\ v.type = "Timestamp" => ParamOf(v) = NumberParam("Timestamp", 64, v.num)
           /\ v.type \in {"SystemTime", "NaiveDateTime"} =>
                ParamOf(v) = NumberParam("Timestamp", 64, Millis(v.num))
           /\ v.type \in TextType => ParamOf(v) = TextParam(v.type, v.text)
           /\ v.type = "Null" => ParamOf(v) = NoParam
<1>1. v.type \notin DOMAIN Signed /\ v.type \notin DOMAIN Unsigned
    BY Types
<1> QED
    BY <1>1 DEF ParamOf, TextType

\* The type and the number of the cell of a number or a time.
LEMMA CellNumber ==
    ASSUME NEW v \in Bound
    PROVE  LET c == CopyOf(ParamOf(v))
           IN  /\ v.type \in Integer =>
                    /\ c.type = v.type
                    /\ c.num = Image(IF v.type \in DOMAIN Signed THEN Signed[v.type]
                                     ELSE Unsigned[v.type], v.num)
               /\ v.type = "Bool" => c.type = "Bool" /\ c.num = Image(8, v.num)
               /\ v.type = "Float" => c.type = "Float" /\ c.num = Image(32, v.num)
               /\ v.type = "Double" => c.type = "Double" /\ c.num = Image(64, v.num)
               /\ v.type = "Timestamp" =>
                    c.type = "Timestamp" /\ c.num = Image(64, v.num)
               /\ v.type \in {"SystemTime", "NaiveDateTime"} =>
                    c.type = "Timestamp" /\ c.num = Image(64, Millis(v.num))
<1>1. CASE v.type \in Integer
  <2>1. v.type \notin {"Bool", "Float", "Double", "Timestamp", "SystemTime",
                       "NaiveDateTime"}
    BY <1>1, Types
  <2> QED
    BY <1>1, <2>1, IntegerParam, CopyKeeps DEF NumberParam
<1>2. CASE v.type \notin Integer
    BY <1>2, OtherParam, CopyKeeps DEF NumberParam
<1> QED
    BY <1>1, <1>2

\* The type of the cell of a text, and its text if it is UTF-8.
LEMMA CellText ==
    ASSUME NEW v \in Bound, v.type \in TextType
    PROVE  LET c == CopyOf(ParamOf(v))
           IN  /\ c.type = v.type
               /\ IsUtf8(v.text) => c.text = v.text
               /\ v.type \in {"NChar", "Json"} => IsUtf8(v.text)
<1>1. v.type \notin Integer
    BY Types DEF TextType
<1>2. ParamOf(v) = TextParam(v.type, v.text)
    BY <1>1, OtherParam
<1>3. v.text \in Seq(Byte) /\ InType(v)
    BY BoundValue
<1>4. CopyOf(ParamOf(v)).type = v.type
    BY <1>2, CopyKeeps DEF TextParam
<1>5. IsUtf8(v.text) => CopyOf(ParamOf(v)).text = v.text
    BY <1>2, <1>3, TextCopied
<1> QED
    BY <1>3, <1>4, <1>5 DEF InType

-----------------------------------------------------------------------------
(* Reads.  The cell is the copy of the parameter of the value. *)

\* The instant or time stamp that was bound, as the number in the cell.
TimeOf(v) == IF v.type = "Timestamp" THEN v.num ELSE Millis(v.num)
IsTime(v) == v.type \in {"Timestamp", "SystemTime", "NaiveDateTime"}

\* The number in a cell of time has 64 bits and is read as it was bound.
LEMMA TimeRead ==
    ASSUME NEW v \in Bound, IsTime(v), cell = CopyOf(ParamOf(v)), db \in Precision
    PROVE  /\ cell.type = "Timestamp"
           /\ TimeOf(v) \in Int /\ AsSigned(64, TimeOf(v)) = TimeOf(v)
           /\ AsSigned(64, cell.num) = TimeOf(v)
<1>1. v.num \in Int /\ InType(v)
    BY BoundValue
<1>2. TimeOf(v) \in Int /\ AsSigned(64, TimeOf(v)) = TimeOf(v)
    BY <1>1, InMilli DEF TimeOf, IsTime, InType
<1>3. cell.type = "Timestamp" /\ cell.num = Image(64, TimeOf(v))
    BY CellNumber DEF IsTime, TimeOf
<1> QED
    BY <1>2, <1>3, SignedImage DEF Bits

\* What a native query reads from the cell.
LEMMA NativeReads ==
    ASSUME NEW v \in Bound, cell = CopyOf(ParamOf(v)), db \in Precision
    PROVE  /\ IsTime(v) => NativeField = Time(TimeOf(v), db)
           /\ v.type = "Binary" => NativeField = Text("Binary", cell.text)
           /\ ~IsTime(v) /\ v.type # "Binary" => NativeField = v
           /\ v.type = "Binary" /\ IsUtf8(v.text) => NativeField = v
<1>1. v.num \in Int /\ v.text \in Seq(Byte) /\ InType(v)
      /\ v.type \in DataType \union {"SystemTime", "NaiveDateTime"}
    BY BoundValue
<1>2. CASE IsTime(v)
  <2>1. cell.type = "Timestamp" /\ AsSigned(64, cell.num) = TimeOf(v)
    BY <1>2, TimeRead
  <2>2. "Timestamp" \notin Integer
    BY Types
  <2> QED
    BY <1>2, <2>1, <2>2 DEF NativeField, IsTime
<1>3. CASE v.type \in Integer
  <2>1. v.type \notin {"Null", "Bool", "Float", "Double", "Timestamp", "SystemTime",
                       "NaiveDateTime", "Binary", "NChar", "Json"}
    BY <1>3, Types
  <2>2. cell.type = v.type /\ As(v.type, cell.num) = v.num
    BY <1>1, <1>3, CellNumber, IntegerRead DEF InType
  <2>3. v = Number(v.type, v.num)
    BY <1>1, <2>1 DEF InType, TextType
  <2> QED
    BY <1>3, <2>1, <2>2, <2>3 DEF NativeField, NativeInteger, IsTime
<1>4. CASE v.type = "Bool"
  <2>1. cell.type = "Bool" /\ cell.num = Image(8, v.num)
    BY <1>4, CellNumber
  <2>2. v.num \in {0, 1} /\ v = Number("Bool", v.num)
    BY <1>1, <1>4 DEF InType, TextType
  <2>3. Image(8, v.num) = v.num
    <3>1. 8 \in Bits /\ Half[8] \in Nat \ {0}
      BY Halves DEF Bits
    <3>2. 0 <= v.num /\ v.num < 2 * Half[8]
      BY <2>2, <3>1
    <3> QED
      BY <1>1, <3>1, <3>2, InRange
  <2>4. "Bool" \notin Integer
    BY Types
  <2>5. (IF v.num # 0 THEN 1 ELSE 0) = v.num
    BY <2>2
  <2> QED
    BY <1>4, <2>1, <2>2, <2>3, <2>4, <2>5 DEF NativeField, IsTime
<1>5. CASE v.type = "Float"
  <2>1. cell.type = "Float" /\ AsSigned(32, cell.num) = v.num
    BY <1>1, <1>5, CellNumber, SignedImage DEF InType, Bits
  <2>2. v = Number("Float", v.num) /\ "Float" \notin Integer
    BY <1>1, <1>5, Types DEF InType, TextType
  <2> QED
    BY <1>5, <2>1, <2>2 DEF NativeField, IsTime
<1>6. CASE v.type = "Double"
  <2>1. cell.type = "Double" /\ AsSigned(64, cell.num) = v.num
    BY <1>1, <1>6, CellNumber, SignedImage DEF InType, Bits
  <2>2. v = Number("Double", v.num) /\ "Double" \notin Integer
    BY <1>1, <1>6, Types DEF InType, TextType
  <2> QED
    BY <1>6, <2>1, <2>2 DEF NativeField, IsTime
<1>7. CASE v.type \in TextType
  <2>1. /\ cell.type = v.type /\ v = Text(v.type, v.text)
        /\ IsUtf8(v.text) => cell.text = v.text
        /\ v.type \in {"NChar", "Json"} => IsUtf8(v.text)
    BY <1>1, <1>7, CellText DEF InType
  <2>2. v.type \notin Integer /\ ~IsTime(v)
    BY <1>7, Types DEF TextType, IsTime
  <2>3. CASE v.type = "Binary"
    BY <2>1, <2>2, <2>3 DEF NativeField
  <2>4. CASE v.type = "NChar"
    <3>1. Lossy(cell.text) = v.text
      BY <2>1, <2>4 DEF Lossy
    <3> QED
      BY <2>1, <2>2, <2>4, <3>1 DEF NativeField
  <2>5. CASE v.type = "Json"
    BY <2>1, <2>2, <2>5 DEF NativeField
  <2> QED
    BY <1>7, <2>3, <2>4, <2>5 DEF TextType
<1>8. CASE v.type = "Null"
  <2>1. v.type \notin Integer /\ v = Null
    BY <1>1, <1>8, Types DEF InType
  <2>2. cell.type = "Null"
    BY <1>8, <2>1, OtherParam, CopyKeeps DEF NoParam
  <2> QED
    BY <1>8, <2>1, <2>2 DEF NativeField, IsTime
<1> QED
    BY <1>1, <1>2, <1>3, <1>4, <1>5, <1>6, <1>7, <1>8 DEF DataType, IsTime

\* What a query over HTTP reads from the cell.
LEMMA RestReadsCell ==
    ASSUME NEW v \in Bound, cell = CopyOf(ParamOf(v)), db \in Precision
    PROVE  /\ IsTime(v) => RestField = IF format = "number" THEN Time(TimeOf(v), "Milli")
                                       ELSE Time(Millis(Instant(TimeOf(v), db)), "Milli")
           /\ v.type = "Binary" =>
                RestField = IF IsUtf8(cell.text) THEN Text("Binary", cell.text) ELSE Failed
           /\ v.type = "Json" => RestField = Panicked
           /\ ~IsTime(v) /\ v.type \notin {"Binary", "Json"} => RestField = v
<1>1. v.num \in Int /\ v.text \in Seq(Byte) /\ InType(v)
      /\ v.type \in DataType \union {"SystemTime", "NaiveDateTime"}
    BY BoundValue
<1>2. CASE IsTime(v)
  <2>1. cell.type = "Timestamp" /\ AsSigned(64, cell.num) = TimeOf(v)
    BY <1>2, TimeRead
  <2>2. "Timestamp" \notin Integer
    BY Types
  <2> QED
    BY <1>2, <2>1, <2>2 DEF RestField, FromStr, IsTime
<1>3. CASE v.type \in Integer
  <2>1. v.type \notin {"Null", "Bool", "Float", "Double", "Timestamp", "SystemTime",
                       "NaiveDateTime", "Binary", "NChar", "Json"}
    BY <1>3, Types
  <2>2. /\ cell.type = v.type /\ As(v.type, cell.num) = v.num
        /\ RestInteger(v.type, v.num) = Number(v.type, v.num)
    BY <1>1, <1>3, CellNumber, IntegerRead DEF InType
  <2>3. v = Number(v.type, v.num)
    BY <1>1, <2>1 DEF InType, TextType
  <2> QED
    BY <1>3, <2>1, <2>2, <2>3 DEF RestField, IsTime
<1>4. CASE v.type = "Bool"
  <2>1. cell.type = "Bool" /\ cell.num = Image(8, v.num)
    BY <1>4, CellNumber
  <2>2. v.num \in {0, 1} /\ v = Number("Bool", v.num)
    BY <1>1, <1>4 DEF InType, TextType
  <2>3. Image(8, v.num) = v.num
    <3>1. 8 \in Bits /\ Half[8] \in Nat \ {0}
      BY Halves DEF Bits
    <3>2. 0 <= v.num /\ v.num < 2 * Half[8]
      BY <2>2, <3>1
    <3> QED
      BY <1>1, <3>1, <3>2, InRange
  <2>4. "Bool" \notin Integer
    BY Types
  <2> QED
    BY <1>4, <2>1, <2>2, <2>3, <2>4 DEF RestField, IsTime
<1>5. CASE v.type = "Float"
  <2>1. cell.type = "Float" /\ AsSigned(32, cell.num) = v.num /\ AsF32(v.num) = v.num
    BY <1>1, <1>5, CellNumber, SignedImage DEF InType, Bits
  <2>2. v = Number("Float", v.num) /\ "Float" \notin Integer
    BY <1>1, <1>5, Types DEF InType, TextType
  <2> QED
    BY <1>5, <2>1, <2>2 DEF RestField, IsTime
<1>6. CASE v.type = "Double"
  <2>1. cell.type = "Double" /\ AsSigned(64, cell.num) = v.num
    BY <1>1, <1>6, CellNumber, SignedImage DEF InType, Bits
  <2>2. v = Number("Double", v.num) /\ "Double" \notin Integer
    BY <1>1, <1>6, Types DEF InType, TextType
  <2> QED
    BY <1>6, <2>1, <2>2 DEF RestField, IsTime
<1>7. CASE v.type \in TextType
  <2>1. /\ cell.type = v.type /\ v = Text(v.type, v.text)
        /\ IsUtf8(v.text) => cell.text = v.text
        /\ v.type \in {"NChar", "Json"} => IsUtf8(v.text)
    BY <1>1, <1>7, CellText DEF InType
  <2>2. v.type \notin Integer /\ ~IsTime(v)
    BY <1>7, Types DEF TextType, IsTime
  <2>3. CASE v.type = "Binary"
    BY <2>1, <2>2, <2>3 DEF RestField
  <2>4. CASE v.type = "NChar"
    BY <2>1, <2>2, <2>4 DEF RestField
  <2>5. CASE v.type = "Json"
    BY <2>1, <2>2, <2>5 DEF RestField
  <2> QED
    BY <1>7, <2>3, <2>4, <2>5 DEF TextType
<1>8. CASE v.type = "Null"
  <2>1. v.type \notin Integer /\ v = Null
    BY <1>1, <1>8, Types DEF InType
  <2>2. cell.type = "Null"
    BY <1>8, <2>1, OtherParam, CopyKeeps DEF NoParam
  <2> QED
    BY <1>8, <2>1, <2>2 DEF RestField, IsTime
<1> QED
    BY <1>1, <1>2, <1>3, <1>4, <1>5, <1>6, <1>7, <1>8 DEF DataType, IsTime

\* Only the buffer of an empty text has the length 0.
LEMMA EmptyParam ==
    ASSUME NEW v \in Bound, ParamOf(v).length = 0, v.type # "Null"
    PROVE  v.type \in {"Binary", "NChar"} /\ v.text = <<>>
<1>1. v.text \in Seq(Byte) /\ InType(v)
      /\ v.type \in DataType \union {"SystemTime", "NaiveDateTime"}
    BY BoundValue
<1>2. \A type, num : \A bits \in Bits : NumberParam(type, bits, num).length # 0
    BY DEF NumberParam, Bytes, Bits
<1>3. v.type \notin Integer
    BY <1>2, IntegerParam, Widths, Types
<1>4. v.type \in TextType
    BY <1>1, <1>2, <1>3, OtherParam DEF Bits, DataType, TextType
<1>5. Len(v.text) = 0
    BY <1>3, <1>4, OtherParam DEF TextParam
<1>6. v.text = <<>>
    BY <1>1, <1>5
<1> QED
    BY <1>1, <1>4, <1>6 DEF InType, TextType

-----------------------------------------------------------------------------
(* The invariant *)

\* The value is one that the program binds; the parameter is its own and has all
\* its blocks until it is dropped.
Parameter ==
    /\ pc \in {"value", "bound", "copied", "stored", "panicked"}
    /\ input \in Bound /\ db \in Precision
    /\ pc \in {"bound", "copied", "stored"} => param = ParamOf(input)
    /\ pc \in {"bound", "copied"} =>
        blocks = IF input.type = "Null" THEN {"is_null"} ELSE {"buffer", "length"}

\* The cell is the copy of the parameter, and what was read is read from it.
Copied ==
    /\ pc \in {"copied", "stored"} => cell = CopyOf(ParamOf(input))
    /\ native = NotRead \/ (pc = "stored" /\ native = NativeField)
    /\ rest = NotRead \/ (pc = "stored" /\ rest = RestField)

IInv == Parameter /\ Copied /\ BuffersFreed

\* The invariant holds in every reachable state.
THEOREM Invariance == Spec => []IInv
<1>1. Init => IInv
    BY DEF Init, IInv, Parameter, Copied, BuffersFreed
<1>2. IInv /\ [Next]_vars => IInv'
  <2> SUFFICES ASSUME IInv, [Next]_vars
               PROVE  IInv'
    OBVIOUS
  <2>1. CASE IntoBindParam
    BY <2>1 DEF IntoBindParam, IInv, Parameter, Copied, BuffersFreed
  <2>2. CASE IntoBindParamPanics
    BY <2>2 DEF IntoBindParamPanics, IInv, Parameter, Copied, BuffersFreed
  <2>3. CASE CopyParam
    BY <2>3 DEF CopyParam, CopyOf, IInv, Parameter, Copied, BuffersFreed
  <2>4. CASE DropParam
    <3>1. Parameter' /\ Copied'
      BY <2>4 DEF DropParam, IInv, Parameter, Copied
    <3>2. BuffersFreed'
      <4>1. CASE input.type = "Null"
        BY <2>4, <4>1 DEF DropParam, IInv, Parameter, BuffersFreed
      <4>2. CASE input.type # "Null"
        BY <2>4, <4>2, EmptyParam DEF DropParam, IInv, Parameter, BuffersFreed
      <4> QED
        BY <4>1, <4>2
    <3> QED
      BY <3>1, <3>2 DEF IInv
  <2>5. CASE NativeRead
    BY <2>5 DEF NativeRead, NativeField, RestField, IInv, Parameter, Copied, BuffersFreed
  <2>6. CASE RestRead
    BY <2>6 DEF RestRead, NativeField, RestField, IInv, Parameter, Copied, BuffersFreed
  <2>7. CASE UNCHANGED vars
    BY <2>7 DEF vars, NativeField, RestField, IInv, Parameter, Copied, BuffersFreed
  <2> QED
    BY <2>1, <2>2, <2>3, <2>4, <2>5, <2>6, <2>7 DEF Next
<1> QED
    BY <1>1, <1>2, PTL DEF Spec

-----------------------------------------------------------------------------
(* Theorems *)

\* After a native read the cell is of the value that was bound.
LEMMA NativeOf ==
    ASSUME IInv, native # NotRead
    PROVE  /\ input \in Bound /\ db \in Precision /\ cell = CopyOf(ParamOf(input))
           /\ native = NativeField
BY DEF IInv, Parameter, Copied

\* A Field that is bound is read back equal, for every width and every value,
\* as far as precisions and bytes that are not UTF-8 let it.
THEOREM BoundIsReadBack == Spec => []RoundTrip
<1>1. IInv => RoundTrip
  <2> SUFFICES ASSUME IInv, native # NotRead
               PROVE  RoundTrip
    BY DEF RoundTrip
  <2>1. /\ input \in Bound /\ db \in Precision /\ cell = CopyOf(ParamOf(input))
        /\ native = NativeField /\ input.num \in Int /\ InType(input)
    BY NativeOf, BoundValue
  <2>2. CASE input.type \in {"SystemTime", "NaiveDateTime"}
    <3>1. native = Time(Millis(input.num), db)
      BY <2>1, <2>2, NativeReads DEF IsTime, TimeOf
    <3>2. native.type = "Timestamp" /\ native.num = Millis(input.num)
          /\ native.precision = db
      BY <3>1 DEF Time
    <3>3. db = "Milli" =>
            /\ ToNaiveDateTime(native) <= input.num
            /\ input.num < ToNaiveDateTime(native) + TickOf("Milli")
      BY <2>1, <3>2, InMilli DEF ToNaiveDateTime
    <3> QED
      BY <2>2, <3>2, <3>3 DEF RoundTrip
  <2>3. CASE input.type = "Timestamp"
    <3>1. native = Time(input.num, db) /\ input = Time(input.num, input.precision)
      BY <2>1, <2>3, NativeReads DEF IsTime, TimeOf, InType
    <3>2. input.precision = db => native = input
      BY <3>1
    <3> QED
      BY <2>3, <3>2 DEF RoundTrip
  <2>4. CASE input.type = "Binary"
    <3>1. IsUtf8(input.text) => native = input
      BY <2>1, <2>4, NativeReads
    <3> QED
      BY <2>4, <3>1 DEF RoundTrip
  <2>5. CASE ~IsTime(input) /\ input.type # "Binary"
    <3>1. native = input
      BY <2>1, <2>5, NativeReads
    <3> QED
      BY <2>5, <3>1 DEF RoundTrip, IsTime
  <2> QED
    BY <2>2, <2>3, <2>4, <2>5 DEF IsTime
<1> QED
    BY <1>1, Invariance, PTL

\* Both conversions of a time stamp mean the same instant, for every width and
\* ratio, at the least number too.
THEOREM TimesMeanTheSame == Spec => []TimesAgree
<1>1. IInv => TimesAgree
  <2> SUFFICES ASSUME IInv, native.type = "Timestamp"
               PROVE  ToStdTime(native) = ToNaiveDateTime(native)
    BY DEF TimesAgree
  <2>1. native # NotRead
    <3>1. NotRead.type = "not read"
      BY DEF NotRead, Number
    <3> QED
      BY <3>1
  <2>2. /\ input \in Bound /\ db \in Precision /\ cell = CopyOf(ParamOf(input))
        /\ native = NativeField
    BY <2>1, NativeOf
  <2>3. IsTime(input)
    BY <2>2, NativeReads DEF Text, IsTime
  <2>4. native = Time(TimeOf(input), db)
    BY <2>2, <2>3, NativeReads
  <2>5. /\ native.num = TimeOf(input) /\ native.precision = db
        /\ TimeOf(input) \in Int /\ AsSigned(64, TimeOf(input)) = TimeOf(input)
    BY <2>2, <2>3, <2>4, TimeRead DEF Time
  <2> QED
    BY <2>2, <2>5, SameInstant
<1> QED
    BY <1>1, Invariance, PTL

\* Nothing but JSON panics over HTTP and nothing but bytes that are not UTF-8 is
\* refused, whatever the widths are.
THEOREM RestReadsAll == Spec => []RestReads
<1>1. IInv => RestReads
  <2> SUFFICES ASSUME IInv, rest \in {Panicked, Failed}
               PROVE  /\ rest = Panicked => input.type = "Json"
                      /\ rest = Failed => input.type = "Binary" /\ ~IsUtf8(input.text)
    BY DEF RestReads
  <2>1. Panicked # NotRead /\ Failed # NotRead /\ Panicked # Failed
        /\ Panicked.type = "panicked" /\ Failed.type = "error"
    BY DEF Panicked, Failed, NotRead, Number
  <2>2. /\ input \in Bound /\ db \in Precision /\ cell = CopyOf(ParamOf(input))
        /\ rest = RestField
    BY <2>1 DEF IInv, Parameter, Copied
  <2>3. input.type \notin {"panicked", "error"}
    BY <2>2, BoundValue, Widths DEF DataType, Integer, TextType
  <2>4. CASE IsTime(input)
    <3>1. rest.type = "Timestamp"
      BY <2>2, <2>4, RestReadsCell DEF Time
    <3> QED
      BY <2>1, <3>1
  <2>5. CASE input.type = "Binary"
    <3>1. rest = IF IsUtf8(cell.text) THEN Text("Binary", cell.text) ELSE Failed
      BY <2>2, <2>5, RestReadsCell
    <3>2. rest # Panicked /\ (rest = Failed => ~IsUtf8(cell.text))
      BY <2>1, <3>1 DEF Text
    <3>3. IsUtf8(input.text) => cell.text = input.text
      BY <2>2, <2>5, CellText DEF TextType
    <3> QED
      BY <2>5, <3>2, <3>3
  <2>6. CASE input.type = "Json"
    BY <2>1, <2>2, <2>6, RestReadsCell
  <2>7. CASE ~IsTime(input) /\ input.type \notin {"Binary", "Json"}
    <3>1. rest = input
      BY <2>2, <2>7, RestReadsCell
    <3> QED
      BY <2>1, <2>3, <3>1
  <2> QED
    BY <2>4, <2>5, <2>6, <2>7
<1> QED
    BY <1>1, Invariance, PTL

\* Both transports read the same from a cell, for every width, ratio and value, but
\* for a finer time: over HTTP it is the millisecond that it lies in if it comes as a
\* string, and its count taken for milliseconds if it comes as a number.
THEOREM TransportsReadTheSame == Spec => []TransportsAgree
<1>1. IInv => TransportsAgree
  <2> SUFFICES ASSUME IInv, native # NotRead, rest \notin {NotRead, Panicked, Failed}
               PROVE  IF native.type = "Timestamp" /\ db # "Milli"
                      THEN IF format = "number"
                           THEN rest = Time(native.num, "Milli")
                           ELSE /\ ToStdTime(rest) <= ToStdTime(native)
                                /\ ToStdTime(native) < ToStdTime(rest) + TickOf("Milli")
                      ELSE rest = native
    BY DEF TransportsAgree
  <2>1. /\ input \in Bound /\ db \in Precision /\ cell = CopyOf(ParamOf(input))
        /\ native = NativeField /\ rest = RestField
    BY NativeOf DEF IInv, Copied
  <2>2. CASE IsTime(input)
    <3> DEFINE n == TimeOf(input)
    <3>1. /\ n \in Int /\ AsSigned(64, n) = n
          /\ native = Time(n, db)
          /\ rest = IF format = "number" THEN Time(n, "Milli")
                    ELSE Time(Millis(Instant(n, db)), "Milli")
      BY <2>1, <2>2, TimeRead, NativeReads, RestReadsCell
    <3>2. native.type = "Timestamp" /\ native.num = n /\ native.precision = db
      BY <3>1 DEF Time
    <3> HIDE DEF n
    <3>3. CASE format = "number"
      BY <3>1, <3>2, <3>3
    <3>4. CASE format # "number" /\ db = "Milli"
      <4> DEFINE m == TickOf("Milli")
      <4>1. m \in Nat \ {0}
        BY Ticks DEF Precision
      <4>2. Millis(Instant(n, db)) = (n * m) \div m
        BY <3>4 DEF Millis, Instant
      <4> HIDE DEF m
      <4>3. (n * m) \div m = n
        BY <4>1, <3>1, SMT
      <4> QED
        BY <3>1, <3>4, <4>2, <4>3
    <3>5. CASE format # "number" /\ db # "Milli"
      <4>1. /\ Instant(n, db) \in Int
            /\ Instant(n, db) = n * TickOf(db) /\ "Milli" \in Precision
        BY <2>1, <3>1, Ticks DEF Instant, Precision
      <4>2. /\ rest.num = Millis(Instant(n, db)) /\ rest.precision = "Milli"
            /\ Millis(Instant(n, db)) \in Int
            /\ AsSigned(64, Millis(Instant(n, db))) = Millis(Instant(n, db))
        BY <2>1, <3>1, <3>5, <4>1, InMilli, MillisInRange DEF Time
      <4>3. ToStdTime(rest) = Millis(Instant(n, db)) * TickOf("Milli")
        BY <4>1, <4>2, SameInstant
      <4>4. ToStdTime(native) = Instant(n, db)
        BY <2>1, <3>1, <3>2, <4>1, SameInstant
      <4>5. /\ Millis(Instant(n, db)) * TickOf("Milli") <= Instant(n, db)
            /\ Instant(n, db) < Millis(Instant(n, db)) * TickOf("Milli") + TickOf("Milli")
        BY <4>1, InMilli
      <4> QED
        BY <3>2, <3>5, <4>3, <4>4, <4>5
    <3> QED
      BY <3>3, <3>4, <3>5
  <2>3. CASE input.type = "Binary"
    <3>1. native = Text("Binary", cell.text)
          /\ rest = IF IsUtf8(cell.text) THEN Text("Binary", cell.text) ELSE Failed
      BY <2>1, <2>3, NativeReads, RestReadsCell
    <3>2. native.type # "Timestamp"
      BY <3>1 DEF Text
    <3>3. rest = native
      BY <3>1
    <3> QED
      BY <3>2, <3>3
  <2>4. CASE input.type = "Json"
    BY <2>1, <2>4, RestReadsCell
  <2>5. CASE ~IsTime(input) /\ input.type \notin {"Binary", "Json"}
    <3>1. native = input /\ rest = input
      BY <2>1, <2>5, NativeReads, RestReadsCell
    <3>2. input.type # "Timestamp"
      BY <2>5 DEF IsTime
    <3> QED
      BY <3>1, <3>2
  <2> QED
    BY <2>2, <2>3, <2>4, <2>5
<1> QED
    BY <1>1, Invariance, PTL

\* Drop frees every block, but for the buffer of an empty text.
THEOREM BlocksFreed == Spec => []BuffersFreed
<1>1. IInv => BuffersFreed
    BY DEF IInv
<1> QED
    BY <1>1, Invariance, PTL

-----------------------------------------------------------------------------
(* Texts *)

\* A set of numbers that holds 0 and with a number its successor holds all of
\* them; from the well-foundedness of < on Nat.
LEMMA Induction ==
    ASSUME NEW S, 0 \in S, \A n \in Nat : n \in S => n + 1 \in S
    PROVE  Nat \subseteq S
<1> DEFINE R == OpToRel(<, Nat)
           T == Nat \ S
<1> SUFFICES ASSUME T # {}
             PROVE  FALSE
    OBVIOUS
<1>1. IsWellFoundedOn(R, Nat) /\ T \subseteq Nat
    BY NatLessThanWellFounded
<1>2. \A x, y \in Nat : x < y => <<x, y>> \in R
    BY DEF OpToRel
<1> HIDE DEF R, T
<1>3. PICK x \in T : \A y \in T : ~(<<y, x>> \in R)
    BY <1>1, WFMin
<1>4. x \in Nat /\ x \notin S /\ x # 0
    BY <1>1, <1>3 DEF T
<1>5. x - 1 \in Nat /\ x - 1 < x /\ x = (x - 1) + 1
    BY <1>4
<1>6. x - 1 \notin S
    BY <1>4, <1>5
<1>7. x - 1 \in T
    BY <1>5, <1>6 DEF T
<1> QED
    BY <1>2, <1>3, <1>4, <1>5, <1>7

\* What FlattenSeq joins, up to each of its pieces.
Joins(f, seqs, n) ==
    f = [i \in 1 .. n |-> IF i = 1 THEN seqs[i] ELSE f[i - 1] \o seqs[i]]

\* Its recursion has a solution.
LEMMA JoinsExist ==
    ASSUME NEW seqs, NEW n \in Nat
    PROVE  \E f : Joins(f, seqs, n)
<1> DEFINE S == {m \in Nat : \E f : Joins(f, seqs, m)}
<1>1. 0 \in S
  <2>1. Joins([i \in 1 .. 0 |-> 0], seqs, 0)
    BY DEF Joins
  <2> QED
    BY <2>1
<1>2. ASSUME NEW m \in Nat, m \in S
      PROVE  m + 1 \in S
  <2>1. PICK f : Joins(f, seqs, m)
    BY <1>2
  <2> DEFINE g == [i \in 1 .. (m + 1) |->
                     IF i <= m THEN f[i] ELSE IF i = 1 THEN seqs[i] ELSE f[i - 1] \o seqs[i]]
  <2>2. ASSUME NEW i \in 1 .. (m + 1)
        PROVE  g[i] = IF i = 1 THEN seqs[i] ELSE g[i - 1] \o seqs[i]
    <3>1. CASE i = 1
      <4>1. i <= m => f[i] = seqs[i]
        BY <2>1, <3>1 DEF Joins
      <4> QED
        BY <3>1, <4>1
    <3>2. CASE i # 1
      <4>1. i - 1 \in 1 .. (m + 1) /\ i - 1 <= m
        BY <3>2
      <4>2. g[i - 1] = f[i - 1]
        BY <4>1
      <4>3. i <= m => f[i] = f[i - 1] \o seqs[i]
        <5>1. i <= m => i \in 1 .. m
          OBVIOUS
        <5> QED
          BY <2>1, <3>2, <5>1 DEF Joins
      <4> QED
        BY <3>2, <4>2, <4>3
    <3> QED
      BY <3>1, <3>2
  <2>3. Joins(g, seqs, m + 1)
    <3>1. g = [i \in 1 .. (m + 1) |-> g[i]]
      OBVIOUS
    <3> HIDE DEF g
    <3> QED
      BY <2>2, <3>1 DEF Joins
  <2> QED
    BY <2>3
<1> HIDE DEF S
<1>3. Nat \subseteq S
    BY <1>1, <1>2, Induction
<1> QED
    BY <1>3 DEF S

\* Pieces that are not empty are joined to a sequence of their elements, at
\* least as long as they are many, which ends as the last one ends.
LEMMA Flattened ==
    ASSUME NEW U, NEW n \in Nat, n # 0, NEW seqs \in [1 .. n -> Seq(U) \ {<<>>}]
    PROVE  /\ FlattenSeq(seqs) \in Seq(U)
           /\ Len(FlattenSeq(seqs)) >= n
           /\ Last(FlattenSeq(seqs)) = Last(seqs[n])
<1> DEFINE Eqn(h) == h = [i \in 1 .. Len(seqs) |->
                            IF i = 1 THEN seqs[i] ELSE h[i - 1] \o seqs[i]]
           f == CHOOSE h : Eqn(h)
<1>1. Len(seqs) = n
    OBVIOUS
<1>2. FlattenSeq(seqs) = f[Len(seqs)]
    BY <1>1 DEF FlattenSeq
<1>3. Joins(f, seqs, n)
  <2>1. \E h : Eqn(h)
    BY <1>1, JoinsExist DEF Joins
  <2>2. Eqn(f)
    BY <2>1
  <2> QED
    BY <1>1, <2>2 DEF Joins
<1> HIDE DEF f
<1> DEFINE S == {m \in Nat : m \in 1 .. n =>
                    /\ f[m] \in Seq(U) /\ Len(f[m]) >= m
                    /\ Last(f[m]) = Last(seqs[m])}
<1>4. 0 \in S
    OBVIOUS
<1>5. ASSUME NEW m \in Nat, m \in S
      PROVE  m + 1 \in S
  <2> SUFFICES ASSUME m + 1 \in 1 .. n
               PROVE  /\ f[m + 1] \in Seq(U) /\ Len(f[m + 1]) >= m + 1
                      /\ Last(f[m + 1]) = Last(seqs[m + 1])
    OBVIOUS
  <2>1. seqs[m + 1] \in Seq(U) /\ seqs[m + 1] # <<>> /\ Len(seqs[m + 1]) >= 1
    OBVIOUS
  <2>2. CASE m = 0
    <3>1. f[1] = seqs[1]
      BY <1>3 DEF Joins
    <3> QED
      BY <2>1, <2>2, <3>1
  <2>3. CASE m # 0
    <3>1. f[m + 1] = f[m] \o seqs[m + 1]
      <4>1. (m + 1) - 1 = m /\ m + 1 # 1
        BY <2>3
      <4> QED
        BY <1>3, <4>1 DEF Joins
    <3>2. f[m] \in Seq(U) /\ Len(f[m]) >= m
      BY <1>5, <2>3
    <3> DEFINE s == f[m]
               t == seqs[m + 1]
    <3>3. s \in Seq(U) /\ t \in Seq(U) /\ Len(t) >= 1 /\ Len(s) >= m
      BY <2>1, <3>2
    <3> HIDE DEF s, t
    <3> DEFINE c == s \o t
    <3>4. c \in Seq(U) /\ Len(c) = Len(s) + Len(t) /\ c[Len(s) + Len(t)] = t[Len(t)]
      BY <3>3
    <3>5. f[m + 1] = c
      BY <3>1 DEF s, t
    <3> HIDE DEF c
    <3>6. Len(c) >= m + 1 /\ Last(c) = Last(t)
      BY <3>3, <3>4 DEF Last
    <3> QED
      BY <3>4, <3>5, <3>6 DEF t
  <2> QED
    BY <2>2, <2>3
<1> HIDE DEF S
<1>6. Nat \subseteq S
    BY <1>4, <1>5, Induction
<1>7. n \in S /\ n \in 1 .. n
    BY <1>6
<1> QED
    BY <1>1, <1>2, <1>7 DEF S

\* Text is made UTF-8, and is not made shorter.
LEMMA LossyText ==
    ASSUME NEW text \in Seq(Byte), Range(text) \subseteq {"letter", "xFF", "nul"}
    PROVE  /\ Lossy(text) \in Seq(Byte) /\ IsUtf8(Lossy(text))
           /\ Len(Lossy(text)) >= Len(text)
<1>1. CASE IsUtf8(text)
    BY <1>1 DEF Lossy
<1>2. CASE ~IsUtf8(text)
  <2> DEFINE n == Len(text)
             U == Byte \ {"xFF"}
             Piece(b) == IF b = "xFF" THEN <<"rep1", "rep2", "rep3">> ELSE <<b>>
             pieces == [i \in DOMAIN text |-> Piece(text[i])]
  <2>1. n \in Nat /\ DOMAIN text = 1 .. n /\ \A i \in 1 .. n : text[i] \in Byte
    OBVIOUS
  <2>2. n # 0
    <3> SUFFICES ASSUME n = 0
                 PROVE  FALSE
      OBVIOUS
    <3>1. text = <<>>
      OBVIOUS
    <3>2. Range(text) = {}
      BY <3>1 DEF Range
    <3> QED
      BY <1>2, <3>1, <3>2 DEF IsUtf8
  <2>3. \A i \in 1 .. n : text[i] \in {"letter", "xFF", "nul"}
    BY <2>1 DEF Range
  <2>4. ASSUME NEW b \in {"letter", "xFF", "nul"}
        PROVE  /\ Piece(b) \in Seq(U) \ {<<>>}
               /\ Last(Piece(b)) \notin {"rep1", "rep2"}
    <3>1. CASE b = "xFF"
      BY <3>1 DEF Byte, Last
    <3>2. CASE b # "xFF"
      BY <3>2 DEF Byte, Last
    <3> QED
      BY <3>1, <3>2
  <2> HIDE DEF Piece
  <2>5. pieces \in [1 .. n -> Seq(U) \ {<<>>}]
    BY <2>1, <2>3, <2>4
  <2>6. Last(pieces[n]) \notin {"rep1", "rep2"}
    BY <2>1, <2>2, <2>3, <2>4
  <2>7. Lossy(text) = FlattenSeq(pieces)
    BY <1>2 DEF Lossy, Piece
  <2> HIDE DEF pieces, n, U
  <2>8. /\ Lossy(text) \in Seq(U) /\ Len(Lossy(text)) >= n
        /\ Last(Lossy(text)) \notin {"rep1", "rep2"}
    BY <2>1, <2>2, <2>5, <2>6, <2>7, Flattened
  <2>9. Lossy(text) \in Seq(Byte) /\ "xFF" \notin Range(Lossy(text))
    BY <2>8 DEF U, Range
  <2> QED
    BY <2>8, <2>9 DEF IsUtf8, n
<1> QED
    BY <1>1, <1>2

-----------------------------------------------------------------------------
(* Types, and what the library reads *)

\* Every parameter is one, and so is the cell that is copied from it.
LEMMA ParamTyped ==
    ASSUME NEW v \in Bound
    PROVE  ParamOf(v) \in Param /\ CopyOf(ParamOf(v)) \in Param
<1>1. v.num \in Int /\ v.text \in Seq(Byte) /\ InType(v)
      /\ v.type \in DataType \union {"SystemTime", "NaiveDateTime"}
    BY BoundValue
<1>2. ASSUME NEW type \in DataType, NEW bits \in Bits, NEW num \in Int
      PROVE  NumberParam(type, bits, num) \in Param
  <2>1. Image(bits, num) \in Nat
    <3>1. Half[bits] \in Nat \ {0}
      BY Halves
    <3>2. 2 * Half[bits] \in Nat \ {0}
      BY <3>1
    <3> QED
      BY <3>2 DEF Image
  <2>2. Bytes(bits) \in Nat /\ <<>> \in Seq(Byte)
    BY DEF Bytes, Bits
  <2> QED
    BY <2>1, <2>2 DEF NumberParam, Param
<1>3. ASSUME NEW type \in DataType
      PROVE  TextParam(type, v.text) \in Param
  <2>1. Range(v.text) \subseteq {"letter", "xFF", "nul"}
    BY BoundAssumption
  <2>2. Lossy(v.text) \in Seq(Byte) /\ Len(v.text) \in Nat
    BY <1>1, <2>1, LossyText
  <2> QED
    BY <2>2 DEF TextParam, Param
<1>4. NoParam \in Param
  <2>1. "Null" \in DataType /\ <<>> \in Seq(Byte)
    BY DEF DataType
  <2> QED
    BY <2>1 DEF NoParam, Param
<1>5. ParamOf(v) \in Param
  <2>1. CASE v.type \in Integer
    <3>1. (IF v.type \in DOMAIN Signed THEN Signed[v.type] ELSE Unsigned[v.type]) \in Bits
      BY <2>1, Widths DEF Integer
    <3>2. v.type \in DataType
      BY <2>1 DEF DataType
    <3> QED
      BY <1>1, <1>2, <2>1, <3>1, <3>2, IntegerParam
  <2>2. CASE v.type \notin Integer
    <3>1. {8, 32, 64} \subseteq Bits /\ {"Bool", "Float", "Double", "Timestamp"} \subseteq DataType
          /\ TextType \subseteq DataType
      BY DEF Bits, DataType
    <3>2. Millis(v.num) \in Int
      BY <1>1, InMilli
    <3>3. CASE v.type \in {"Bool", "Float", "Double", "Timestamp", "SystemTime",
                           "NaiveDateTime"}
      BY <1>1, <1>2, <2>2, <3>1, <3>2, <3>3, OtherParam
    <3>4. CASE v.type \in TextType
      <4>1. ParamOf(v) = TextParam(v.type, v.text)
        BY <2>2, <3>4, OtherParam
      <4> QED
        BY <1>3, <3>1, <3>4, <4>1
    <3>5. CASE v.type = "Null"
      BY <1>4, <2>2, <3>5, OtherParam
    <3> QED
      BY <1>1, <2>2, <3>3, <3>4, <3>5 DEF DataType
  <2> QED
    BY <2>1, <2>2
<1>6. ASSUME NEW p \in Param
      PROVE  CopyOf(p) \in Param
  <2>1. p.length \in Nat /\ p.text \in Seq(Byte)
    BY DEF Param
  <2> DEFINE n == Min({p.length, Len(p.text)})
  <2>2. n \in Nat /\ n <= Len(p.text)
    <3>1. Len(p.text) \in Nat
      BY <2>1
    <3> QED
      BY <2>1, <3>1 DEF Min
  <2> HIDE DEF n
  <2>3. SubSeq(p.text, 1, n) \in Seq(Byte)
    BY <2>1, <2>2
  <2>4. CopyOf(p) = [p EXCEPT !.text = SubSeq(p.text, 1, n)]
    BY DEF CopyOf, n
  <2> QED
    BY <2>3, <2>4 DEF Param
<1> QED
    BY <1>5, <1>6

\* What the component knows of the outcome of a read that is a Field.
LEMMA OutcomeTyped ==
    /\ \A text \in Seq(Byte) :
            Text("Binary", text) \in Outcome /\ InType(Text("Binary", text))
    /\ \A n \in Int, p \in Precision :
            AsSigned(64, n) = n => Time(n, p) \in Outcome /\ InType(Time(n, p))
    /\ \A o \in {NotRead, Panicked, Failed} : o \in Outcome /\ InType(o)
<1>0. <<>> \in Seq(Byte) /\ 0 \in Int
    OBVIOUS
<1>1. ASSUME NEW text \in Seq(Byte)
      PROVE  Text("Binary", text) \in Outcome /\ InType(Text("Binary", text))
  <2> DEFINE v == Text("Binary", text)
  <2>1. v.type = "Binary" /\ v = Text(v.type, v.text)
    BY DEF Text
  <2>2. "Binary" \notin Integer /\ "Binary" \in TextType /\ "Binary" \in DataType
    BY Types DEF TextType, DataType
  <2>3. v \in Outcome
    BY <2>2 DEF Text, Outcome, Value
  <2> HIDE DEF v
  <2>4. InType(v)
    BY <2>1, <2>2 DEF InType
  <2> QED
    BY <2>3, <2>4 DEF v
<1>2. ASSUME NEW n \in Int, NEW p \in Precision, AsSigned(64, n) = n
      PROVE  Time(n, p) \in Outcome /\ InType(Time(n, p))
  <2> DEFINE v == Time(n, p)
  <2>1. v.type = "Timestamp" /\ v.num = n /\ v.precision = p /\ v = Time(v.num, v.precision)
    BY DEF Time
  <2>2. "Timestamp" \notin Integer /\ "Timestamp" \notin TextType /\ "Timestamp" \in DataType
        /\ p # "none"
    BY Types DEF TextType, DataType, Precision
  <2>3. v \in Outcome
    BY <1>0, <2>2 DEF Time, Outcome, Value
  <2> HIDE DEF v
  <2>4. InType(v)
    BY <1>2, <2>1, <2>2 DEF InType
  <2> QED
    BY <2>3, <2>4 DEF v
<1>3. ASSUME NEW type \in {"not read", "panicked", "error"}
      PROVE  Number(type, 0) \in Outcome /\ InType(Number(type, 0))
  <2> DEFINE v == Number(type, 0)
  <2>1. v.type = type /\ v.num = 0 /\ v = Number(v.type, v.num)
    BY DEF Number
  <2>2. type \notin Integer /\ type \notin TextType
    BY Widths DEF Integer, TextType
  <2>3. v \in Outcome
    BY <1>0 DEF Number, Outcome, Value
  <2> HIDE DEF v
  <2>4. InType(v)
    BY <2>1, <2>2 DEF InType
  <2> QED
    BY <2>3, <2>4 DEF v
<1> QED
    BY <1>1, <1>2, <1>3 DEF NotRead, Panicked, Failed

\* A value that is read back as it was bound is an outcome.
LEMMA BoundOutcome ==
    ASSUME NEW v \in Bound, ~IsTime(v)
    PROVE  v \in Outcome /\ InType(v)
<1>1. v \in Value(DataType \union {"SystemTime", "NaiveDateTime"}) /\ InType(v)
    BY BoundAssumption DEF Bindable
<1>2. v.type \in DataType
    BY <1>1 DEF Value, IsTime
<1> QED
    BY <1>1, <1>2 DEF Outcome, Value

\* What a native query reads from the cell of a value, and what one over HTTP
\* does, is a Field that is in its type, or is no Field.
LEMMA ReadsTyped ==
    ASSUME NEW v \in Bound, cell = CopyOf(ParamOf(v)), db \in Precision
    PROVE  /\ NativeField \in Outcome /\ InType(NativeField)
           /\ RestField \in Outcome /\ InType(RestField)
<1>1. cell.text \in Seq(Byte) /\ "Binary" \in DataType /\ "Milli" \in Precision
  <2>1. cell \in Param
    BY ParamTyped
  <2> QED
    BY <2>1 DEF Param, DataType, TextType, Precision
<1>2. CASE IsTime(v)
  <2> DEFINE n == TimeOf(v)
             m == Millis(Instant(n, db))
  <2>1. n \in Int /\ AsSigned(64, n) = n
    BY <1>2, TimeRead
  <2>2. m \in Int /\ AsSigned(64, m) = m
    <3>1. Instant(n, db) \in Int
      BY <2>1, Ticks DEF Instant
    <3> QED
      BY <2>1, <3>1, InMilli, MillisInRange
  <2>3. /\ NativeField = Time(n, db)
        /\ RestField = Time(n, "Milli") \/ RestField = Time(m, "Milli")
    BY <1>2, NativeReads, RestReadsCell
  <2> HIDE DEF n, m
  <2> QED
    BY <1>1, <2>1, <2>2, <2>3, OutcomeTyped
<1>3. CASE v.type = "Binary"
  <2>1. /\ NativeField = Text("Binary", cell.text)
        /\ RestField = Text("Binary", cell.text) \/ RestField = Failed
    BY <1>3, NativeReads, RestReadsCell
  <2> QED
    BY <1>1, <2>1, OutcomeTyped
<1>4. CASE ~IsTime(v) /\ v.type # "Binary"
  <2>1. NativeField = v /\ (RestField = v \/ RestField = Panicked)
    BY <1>4, NativeReads, RestReadsCell
  <2> QED
    BY <1>4, <2>1, BoundOutcome, OutcomeTyped
<1> QED
    BY <1>2, <1>3, <1>4

\* What the value has not reached yet is as it was; the rest of the types.
NotReached ==
    /\ format \in {"string", "number"}
    /\ blocks \subseteq {"buffer", "length", "is_null"}
    /\ pc \in {"value", "panicked"} => param = NoParam
    /\ pc \in {"value", "bound", "panicked"} => cell = NoParam

\* It stays so.
LEMMA NotReachedInvariance == Spec => []NotReached
<1>1. Init => NotReached
    BY DEF Init, NotReached
<1>2. NotReached /\ [Next]_vars => NotReached'
  <2> SUFFICES ASSUME NotReached, [Next]_vars
               PROVE  NotReached'
    OBVIOUS
  <2>1. CASE IntoBindParam
    BY <2>1 DEF IntoBindParam, NotReached
  <2>2. CASE IntoBindParamPanics
    BY <2>2 DEF IntoBindParamPanics, NotReached
  <2>3. CASE CopyParam
    BY <2>3 DEF CopyParam, NotReached
  <2>4. CASE DropParam
    BY <2>4 DEF DropParam, NotReached
  <2>5. CASE NativeRead
    BY <2>5 DEF NativeRead, NotReached
  <2>6. CASE RestRead
    BY <2>6 DEF RestRead, NotReached
  <2>7. CASE UNCHANGED vars
    BY <2>7 DEF vars, NotReached
  <2> QED
    BY <2>1, <2>2, <2>3, <2>4, <2>5, <2>6, <2>7 DEF Next
<1> QED
    BY <1>1, <1>2, PTL DEF Spec

\* The types of the component: among them that what a query reads is in the
\* range of its type, for every width, and that NCHAR and JSON stay UTF-8.
THEOREM TypeCorrect == Spec => []TypeOK
<1>1. IInv /\ NotReached => TypeOK
  <2> SUFFICES ASSUME IInv, NotReached
               PROVE  TypeOK
    OBVIOUS
  <2>1. input \in Bound /\ db \in Precision
        /\ pc \in {"value", "bound", "copied", "stored", "panicked"}
    BY DEF IInv, Parameter
  <2>2. ParamOf(input) \in Param /\ CopyOf(ParamOf(input)) \in Param
    BY <2>1, ParamTyped
  <2>3. NoParam \in Param
    <3>1. "Null" \in DataType /\ <<>> \in Seq(Byte)
      BY DEF DataType
    <3> QED
      BY <3>1 DEF NoParam, Param
  <2>4. param \in Param /\ cell \in Param
    BY <2>1, <2>2, <2>3 DEF IInv, Parameter, Copied, NotReached
  <2>5. native \in Outcome /\ InType(native)
    <3>1. CASE native = NotRead
      BY <3>1, OutcomeTyped
    <3>2. CASE native # NotRead
      BY <3>2, NativeOf, ReadsTyped
    <3> QED
      BY <3>1, <3>2
  <2>6. rest \in Outcome /\ InType(rest)
    <3>1. CASE rest = NotRead
      BY <3>1, OutcomeTyped
    <3>2. CASE rest # NotRead
      <4>1. cell = CopyOf(ParamOf(input)) /\ rest = RestField
        BY <3>2 DEF IInv, Copied
      <4> QED
        BY <2>1, <4>1, ReadsTyped
    <3> QED
      BY <3>1, <3>2
  <2> QED
    BY <2>1, <2>4, <2>5, <2>6 DEF TypeOK, NotReached
<1> QED
    BY <1>1, Invariance, NotReachedInvariance, PTL

\* The buffer that the library reads is at least as long as it is told, though
\* it is told the length of another text than the one that the buffer holds, and
\* the buffer is UTF-8.
ReadsInside ==
    pc \in {"bound", "copied"} /\ input.type \in TextType =>
        param.length <= Len(param.text) /\ IsUtf8(param.text)

\* The library never reads behind the buffer of a text, however many bytes of it
\* are replaced.
THEOREM BuffersReadInside == Spec => []ReadsInside
<1>1. IInv => ReadsInside
  <2> SUFFICES ASSUME IInv, pc \in {"bound", "copied"}, input.type \in TextType
               PROVE  param.length <= Len(param.text) /\ IsUtf8(param.text)
    BY DEF ReadsInside
  <2>1. input \in Bound /\ param = ParamOf(input)
    BY DEF IInv, Parameter
  <2>2. input.text \in Seq(Byte) /\ Range(input.text) \subseteq {"letter", "xFF", "nul"}
    BY <2>1, BoundValue, BoundAssumption
  <2>3. param = TextParam(input.type, input.text)
    <3>1. input.type \notin Integer
      BY Types DEF TextType
    <3> QED
      BY <2>1, <3>1, OtherParam
  <2>4. param.length = Len(input.text) /\ param.text = Lossy(input.text)
    BY <2>3 DEF TextParam
  <2> QED
    BY <2>2, <2>4, LossyText
<1> QED
    BY <1>1, Invariance, PTL

=============================================================================
