--------------------------- MODULE MCPacketFields ---------------------------
(* Two tables of up to two pairs: what scripts put into them, a function   *)
(* that cannot be packed, and the tables themselves.                       *)
EXTENDS PacketFields
CONSTANTS t1, t2

MCNumbers == {-2, 3, 70}
MCStrings == {<<>>, <<1, 2>>}
Function == [type |-> "function", is |-> 0]
MCKeys == {Number(1), String(<<2>>)}
MCValues ==
  {Number(n) : n \in {-3, -1, 0, 2, 9, 70, 300, 5003}}
  \cup {Fraction(n) : n \in {1, 200}} \cup {String(s) : s \in MCStrings}
  \cup {Boolean(b) : b \in BOOLEAN} \cup {TableOf(t) : t \in {t1, t2}} \cup {Function}
Pairs == {<<Number(1), v>> : v \in MCValues}
Others == {<<String(<<2>>), v>> : v \in {Number(70), Boolean(TRUE), TableOf(t2)}}
          \cup {<<Boolean(TRUE), Number(1)>>, <<Fraction(1), String(<<>>)>>}
Contents == {<<>>} \cup {<<p>> : p \in Pairs} \cup {<<p, q>> : p \in Pairs, q \in Others}
Inner == {<<>>, <<<<Number(1), Number(2)>>>>, <<<<Number(1), TableOf(t1)>>, <<String(<<2>>), Boolean(FALSE)>>>>}
MCLuas == [pairs : {t1 :> c @@ t2 :> i : c \in Contents, i \in Inner}, meta : {{}, {t2}}]
MCFractions == {-5}
=============================================================================
