----------------------------- MODULE MCDrivers -----------------------------
(* Every tool with every set of flags.  Links are of every pair of a set   *)
(* of small objects, from two starting objects, under each kind of option. *)
EXTENDS Drivers, LinkInputs

CONSTANT Bad

Inputs(tag) ==
  {Obj(tag, f, g, "note") : f \in {"local", "global", "extern"}, g \in {"global", "weak", "extern"}}
  \union {Obj(tag, f, "lost", "split") : f \in {"global", "extern"}}
  \union {Obj(tag, "none", g, "odd") : g \in {"global", "extern"}}
  \union {Bad}

Starts == {EmptyObject, Obj(1, "global", "extern", "data")}

MCUnitSeqs ==
  {<<(EmptyObject)>>} \union {<<b, x, y>> : b \in Starts, x \in Inputs(2), y \in Inputs(3)}

(* Every link of the run is one the refinement is proved of.               *)
ASSUME MCInputsWellFormed == \A us \in MCUnitSeqs : WellFormed(us)

Opt(start, relocatable, places) ==
  [entry |-> start, relocatable |-> relocatable, places |-> places]

Place(name, addr) == [name |-> name, addr |-> addr]

MCLinkOptions ==
  {Opt("f", TRUE, << >>)}
  \union {Opt(e, FALSE, << >>) : e \in {"f", "g"}}
  \union {Opt("f", FALSE, <<Place("data", 160), Place("data", 64)>>),
          Opt("f", FALSE, <<Place("text", 100), Place("data", 70)>>),
          Opt("f", FALSE, <<Place("text", 100), Place("data", 70), Place("note", 8)>>)}

File(content, kind, runnable) == [content |-> content, kind |-> kind, runnable |-> runnable]

MCOldFiles == {File("absent", "none", FALSE), File("old", "executable", TRUE), File("old", "text", FALSE)}
=============================================================================
