--------------------------- MODULE MCFieldValues ---------------------------
(* FieldValues for TLC: every integer of widths that hold 4, 8, 16 and 32    *)
(* numbers, and texts of up to three bytes.                                  *)
EXTENDS FieldValues, TLC

SmallHalf == (8 :> 2) @@ (16 :> 4) @@ (32 :> 8) @@ (64 :> 16)

Texts(bytes) == UNION {[1 .. n -> bytes] : n \in 0 .. 3}

Integers8to64 ==
    UNION {{Number(t, n) : n \in -Half[Signed[t]] .. Half[Signed[t]] - 1} :
              t \in DOMAIN Signed}
    \union
    UNION {{Number(t, n) : n \in 0 .. 2 * Half[Unsigned[t]] - 1} :
              t \in DOMAIN Unsigned}

EveryValue ==
    {Null, Number("Bool", 0), Number("Bool", 1)}
    \union Integers8to64
    \union {Number("Float", n) : n \in {-4, -2, 0, 6}}
    \union {Number("Double", n) : n \in {-3, 0, 5}}
    \union {Time(n, p) : n \in -16 .. 15, p \in Precision}
    \union {Number(k, n) : k \in {"SystemTime", "NaiveDateTime"}, n \in -9 .. 9}
    \union {Text("Binary", s) : s \in Texts({"letter", "xFF", "nul"})}
    \union {Text("NChar", s) : s \in Texts({"letter", "nul"})}
    \union {Text("Json", s) : s \in Texts({"letter"}) \ {<<>>}}

=============================================================================
