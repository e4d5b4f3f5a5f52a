----------------------------- MODULE MCTaosCalls -----------------------------
(* TaosCalls for TLC: an error number that is a code with the sign bit set, *)
(* as taos_errno returns it, one without it, one that no version of the     *)
(* table knows, the one that execute asks for, and success; and tables with *)
(* every type, with tags and without, and with types that have no name.     *)
EXTENDS TaosCalls, TLC

Signed(code) == code - \h7FFFFFFF - 1

Errnos == {0, Signed(\h362), \h362, Signed(\h2FFF), Signed(RpcFqdnError)}

Col(name, type, bytes) == [name |-> name, type |-> type, bytes |-> bytes, tag |-> FALSE]
Tag(name, type, bytes) == [name |-> name, type |-> type, bytes |-> bytes, tag |-> TRUE]

\* Every type but Null and Json once as a column and, in the other order, as a tag.
Every == <<"Bool", "TinyInt", "SmallInt", "Int", "BigInt", "Float", "Double", "Binary",
           "Timestamp", "NChar", "UTinyInt", "USmallInt", "UInt", "UBigInt">>
Name == <<"a", "b", "c", "d", "e", "f", "g", "h", "i", "j", "k", "l", "m", "n",
          "o", "p", "q", "r", "s", "t", "u", "v", "w", "x", "y", "z", "A", "B">>

Tables ==
    {[i \in 1 .. 28 |-> IF i <= 14 THEN Col(Name[i], Every[i], i)
                                   ELSE Tag(Name[i], Every[29 - i], \h4000)],
     <<Col("ts", "Timestamp", 8), Col("n", "Int", 4)>>,
     <<Col("ts", "Timestamp", 8), Tag("j", "Json", 4095)>>,
     <<Col("ts", "Timestamp", 8), Col("n", "Newer", 4), Tag("t", "Int", 4)>>}

Symmetry == Permutations(Stmt)

=============================================================================
