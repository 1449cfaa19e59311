------------------------------ MODULE MCConfig ------------------------------
(* Config on a small instance.  Names are made of 11 and 12, values of     *)
(* digits and 13; ints have six bits.                                      *)
EXTENDS Config

Text(shape, name, value) == [shape |-> shape, name |-> name, value |-> value]

a == <<11>>      \* the beginning of the name of a section
b == <<11, 12>>  \* a section
c == <<12, 12>>  \* another
k == <<12, 11>>  \* a key of both

Settings == <<[section |-> b, key |-> k, default |-> 7],
              [section |-> c, key |-> k, default |-> 8]>>

AllLines ==
    {Text("blank", <<>>, <<>>), Text("comment", k, <<1>>),
     Text("section", b, <<>>), Text("section", c, <<>>), Text("section", a, <<>>),
     Text("unclosed", b, <<>>),
     Text("pair", k, <<1, 13>>), Text("pair", k, <<3, 2>>), Text("pair", k, <<>>),
     Text("pair", <<12, 11, 11>>, <<2>>),
     Text("spaced", k, <<1, 2>>), Text("spaced", <<>>, k),
     Text("bare", k, <<>>), Text("dangling", k, <<>>)}
=============================================================================
