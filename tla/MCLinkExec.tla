----------------------------- MODULE MCLinkExec -----------------------------
(* Placement, on every object of up to three loaded sections of several    *)
(* sizes, some of them not loaded, under several -place requests.          *)
EXTENDS LinkExec, LinkInputs

Sizes == {0, 5, 8, 9}

OfSize(name, alloc, n) == Sec(name, alloc, 1, Bytes(1, 1, n), << >>)

WithField(sec, type) ==
  [sec EXCEPT !.relas = IF Len(sec.data) < 5 THEN << >> ELSE <<Reloc(1, 1, type)>>]

MCMergedObjects ==
  {[secs |-> <<OfSize("text", TRUE, x), OfSize("note", n, y), WithField(OfSize("data", TRUE, z), type)>>,
    syms |-> Labelled("f", how, 1, 0)] :
     x \in Sizes, y \in Sizes, z \in Sizes, n \in BOOLEAN, how \in {"global", "extern"},
     type \in {"PC32", "OTHER"}}

Place(name, addr) == [name |-> name, addr |-> addr]

Opt(places) == [entry |-> "f", relocatable |-> FALSE, places |-> places]

MCLinkOptions ==
  {Opt(<< >>), [Opt(<< >>) EXCEPT !.relocatable = TRUE]}
  \union {Opt(<<Place(name, addr)>>) : name \in {"text", "note", "data"}, addr \in {16, 40, 48, 50, 100, 244}}
  \union {Opt(<<Place("note", 100), Place("text", 60), Place("note", 40)>>)}
=============================================================================
