----------------------------- MODULE MCElfExec -----------------------------
(* ElfExec on every list of three sections around three pages.             *)
EXTENDS ElfExec, LinkInputs

CONSTANTS Addresses, Sizes

Placed(tag) ==
  {[Sec("text", TRUE, 1, Bytes(tag, 1, n), << >>) EXCEPT !.addr = a] : a \in Addresses, n \in Sizes}
  \union {Sec("note", FALSE, 1, Bytes(tag, 1, 5), << >>)}

MCImages == {<<x, y, z>> : x \in Placed(1), y \in Placed(2), z \in Placed(3)}
=============================================================================
