------------------------------ MODULE TaosCode ------------------------------
(***************************************************************************)
(* The error codes of the connector (src/error.rs): the enum TaosCode is a *)
(* table of the numbers that TDengine uses, and every other number becomes *)
(* Unknown.  A code is modelled by its number; the names of the variants,  *)
(* and the predicates of one variant each, are left out.                   *)
(***************************************************************************)
EXTENDS Integers

\* The families of the table, in the order of its numbers.
RpcCodes   == 0 .. \h16
ComCodes   == (\h100 .. \h104) \union (\h105 .. \h10A)
TscCodes   == \h200 .. \h219
MndCodes   == (\h300 .. \h30E) \union (\h310 .. \h314) \union (\h320 .. \h325)
                \union (\h330 .. \h33E) \union (\h340 .. \h343)
                \union (\h350 .. \h355)
MndDbCodes == (\h360 .. \h36E) \union (\h380 .. \h387) \union (\h390 .. \h395)
DndCodes   == \h400 .. \h405
VndCodes   == (\h500 .. \h50E) \union (\h511 .. \h513)
TdbCodes   == \h600 .. \h615
QryCodes   == \h700 .. \h70C
GrantCodes == \h800 .. \h80B
SynCodes   == \h900 .. \h90A
WalCodes   == \h1000 .. \h1002
HttpCodes  == (\h1100 .. \h110E) \union (\h1120 .. \h1132)
                \union (\h1134 .. \h1135) \union (\h1150 .. \h1152)
HttpMetricCodes == (\h1160 .. \h117F) \union (\h1190 .. \h11A6)
OdbcCodes  == \h2100 .. \h2115
FsCodes    == \h2200 .. \h2208

Success      == 0
RpcFqdnError == \h15
Unknown      == \hFFFF

Codes == UNION {RpcCodes, ComCodes, TscCodes, MndCodes, MndDbCodes, DndCodes,
                VndCodes, TdbCodes, QryCodes, GrantCodes, SynCodes, WalCodes,
                HttpCodes, HttpMetricCodes, OdbcCodes, FsCodes, {Unknown}}

\* Wrong on purpose: the table has no default.
FromI32AsIs(number) == number

\* What FromPrimitive derives from the table: a number that no variant has is
\* the default one.
FromI32(number) == IF number \in Codes THEN number ELSE Unknown

\* The library's error numbers carry the code in their low half.
LowHalf(errno) == errno % \h10000

=============================================================================
