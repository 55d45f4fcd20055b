----------------------------- MODULE LinkInputs -----------------------------
(***************************************************************************)
(* Small objects for the runs of the linker and of its files.  Each byte   *)
(* of an object is told from every other by tag, section and place.        *)
(***************************************************************************)
EXTENDS ElfObject

LinkNames == {"text", "data", "note", "f", "g"}

Bytes(tag, s, n) == [j \in 1..n |-> <<tag, s, j>>]

Reloc(off, sym, type) == [off |-> off, sym |-> sym, type |-> type, addend |-> IF type = "PC32" THEN -4 ELSE 1]

Sym(name, sec, value, bind, type) ==
  [name |-> name, sec |-> sec, value |-> value, bind |-> bind, type |-> type]

(* How an object may know a name: its own label, a definition, a weak one, *)
(* a reference, a label whose section the reader dropped, or not at all.   *)
Labelled(name, how, sec, value) ==
  CASE how = "local"  -> <<Sym(name, sec, value, "LOCAL", "NOTYPE")>>
    [] how = "global" -> <<Sym(name, sec, value, "GLOBAL", "FUNC")>>
    [] how = "weak"   -> <<Sym(name, sec, value, "WEAK", "FUNC")>>
    [] how = "extern" -> <<Sym(name, 0, 0, "GLOBAL", "NOTYPE")>>
    [] how = "lost"   -> <<Sym(name, 0, 0, "LOCAL", "NOTYPE")>>
    [] how = "none"   -> << >>

Sec(name, alloc, align, data, relas) ==
  [name |-> name, alloc |-> alloc, addr |-> 0, align |-> align, data |-> data, relas |-> relas]

(* An object with code, and perhaps data and a note.  The first field of   *)
(* its code refers to its first symbol, the second to its last.            *)
Obj(tag, f, g, shape) ==
  LET syms == Labelled("f", f, 1, 2) \o Labelled("g", g, IF shape = "code" THEN 1 ELSE 2, 3)
      last == Len(syms)
      code == Sec("text", TRUE, IF shape = "code" THEN 1 ELSE 4, Bytes(tag, 1, 9),
                  <<Reloc(1, IF last = 0 THEN 0 ELSE 1, "PC32"), Reloc(5, last, "32S")>>)
      data == Sec("data", TRUE, 8, Bytes(tag, 2, 8), <<Reloc(0, last, "64")>>)
      note == Sec("note", FALSE, 1, Bytes(tag, 3, 5), <<Reloc(0, last, "32")>>)
  IN [secs |-> CASE shape = "code" -> <<code>>
                 [] shape = "data" -> <<code, data>>
                 [] shape = "note" -> <<code, data, note>>
                 [] shape = "split" -> <<code, data, [code EXCEPT !.data = Bytes(tag, 3, 9)]>>
                 [] shape = "odd" -> <<code, [data EXCEPT !.relas = <<Reloc(0, last, "OTHER")>>]>>,
      syms |-> syms]

EmptyObject == [secs |-> << >>, syms |-> << >>]
=============================================================================
