------------------------------- MODULE MCKds -------------------------------
(* Small instances of Kds: short parameters over few characters.           *)
EXTENDS Kds

CONSTANTS Longest, Some

\* Every parameter of at most Longest characters, and two to four words of a few.
AllTexts ==
  LET Join(ws) == FlattenSeq([n \in DOMAIN ws |-> <<Space>> \o ws[n]])
      Few == {<<3>>, <<1, 1>>, <<3, 3>>, <<Minus, 3, 1>>, <<Minus, 3, 3>>, <<0>>}
  IN  UNION {[1 .. n -> Some \cup {Space, Plus, Minus, Newline, Junk}] : n \in 0 .. Longest}
        \cup {Join(ws) : ws \in UNION {[1 .. n -> Few] : n \in 2 .. 3}}
        \cup {<<a, Space, b, Space, c, Space, d>> : a, b, c, d \in Some}
=============================================================================
