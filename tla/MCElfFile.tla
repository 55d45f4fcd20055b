----------------------------- MODULE MCElfFile -----------------------------
(* ElfFile on small objects: three symbols in every order of local and     *)
(* global, up to three sections with and without relocations.              *)
EXTENDS ElfFile, LinkInputs

CONSTANTS Plenty, Shapes

MCSymbols ==
  {<<Sym("f", 1, 2, x, "FUNC"), Sym("g", d[1], 3, y, "NOTYPE"), Sym("f", d[2], 0, z, "NOTYPE")>> :
     d \in {<<0, 1>>, <<2, 0>>, <<2, 1>>},
     x \in {"LOCAL", "GLOBAL"}, y \in {"LOCAL", "WEAK"}, z \in {"LOCAL", "GLOBAL"}}

(* Code with two relocations, data with one or none, perhaps a note. *)
MCSections(shape) ==
  LET code == Sec("text", TRUE, 16, Bytes(1, 1, 9), <<Reloc(1, 1, "PC32"), Reloc(5, 3, "32S")>>)
      data == Sec("data", TRUE, 8, Bytes(1, 2, 8), <<Reloc(0, 2, "64")>>)
      note == Sec("note", FALSE, 1, Bytes(1, 3, 5), <<Reloc(0, 0, "32")>>)
  IN CASE shape = "both"  -> <<code, data>>
       [] shape = "empty" -> <<code, [data EXCEPT !.relas = << >>, !.data = << >>]>>
       [] shape = "note"  -> <<code, [data EXCEPT !.align = 1, !.relas = << >>], note>>

MCObjects ==
  {[secs |-> MCSections(shape), syms |-> syms] : shape \in Shapes, syms \in MCSymbols}
    \union {EmptyObj}

MCRooms == {Plenty, 300, 40}
=============================================================================
