---------------------------- MODULE MCLinkMerge ----------------------------
(* LinkMerge on every pair of a set of small objects, and on some triples. *)
EXTENDS LinkMerge, LinkInputs

CONSTANT Bad

Many(tag) ==
  {Obj(tag, f, g, shape) :
     f \in {"local", "global", "extern", "none"},
     g \in {"weak", "global", "extern", "lost", "none"},
     shape \in {"code", "split"}}

Few(tag) ==
  {Obj(tag, f, g, "note") : f \in {"global", "extern"}, g \in {"local", "weak", "extern"}}

Starts == {EmptyObject, Obj(1, "global", "extern", "data")}

MCUnitSeqs ==
  {<<b, x, y>> : b \in Starts, x \in Many(2), y \in Many(3)}
  \union {<<b, x, y, z>> : b \in Starts, x \in Few(2), y \in Few(3), z \in Few(4)}
  \union {<<b, x, Bad>> : b \in Starts, x \in Few(2)}
=============================================================================
