----------------------------- MODULE MCLibraries -----------------------------
(* Values for checking Libraries.  A word of the guest's stack is a number;   *)
(* 100 and 101 are the addresses of a short text and of one that outgrows the *)
(* piece buffer.                                                              *)
EXTENDS Libraries

LiteralsValue == {<<"a", "b">>}

\* Comparators that order, order backwards, leave two keys equal, and two that
\* contradict themselves.
KeysValue == 1..3
Up == [p \in KeysValue \X KeysValue |->
         IF p[1] < p[2] THEN -1 ELSE IF p[1] = p[2] THEN 0 ELSE 1]
Down == [p \in DOMAIN Up |-> -Up[p]]
Coarse == [p \in DOMAIN Up |-> IF p[1] <= 2 /\ p[2] <= 2 THEN 0 ELSE Up[p]]
ComparatorsValue ==
  {Up, Down, Coarse, [p \in DOMAIN Up |-> 1], [p \in DOMAIN Up |-> IF p[1] # p[2] THEN 1 ELSE -1]}

TextsValue == [a \in {100, 101} |-> IF a = 100 THEN <<50, 51>> ELSE <<50, 51, 52, 53, 54>>]
Directed(conv, stars, value) == [conv |-> conv, stars |-> stars, value |-> value]
ItemsValue ==
  {Directed("literal", <<>>, <<>>), Directed("%", <<>>, <<>>),
   Directed("d", <<>>, <<7>>), Directed("d", <<3>>, <<6>>),
   Directed("long long", <<>>, <<1, 2>>), Directed("double", <<1, 2>>, <<3, 4>>),
   Directed("s", <<>>, <<100>>), Directed("s", <<>>, <<101>>), Directed("n", <<>>, <<9>>)}
=============================================================================
