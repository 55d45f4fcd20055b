------------------------------ MODULE LinkAbs ------------------------------
(***************************************************************************)
(* What a link promises, said of its inputs and its image alone: it fails  *)
(* exactly when the inputs give it a reason to, and otherwise yields an    *)
(* image in which every input section has a place of its own and every     *)
(* relocation field holds the address its symbol's definition ended up at. *)
(* Link implements this specification.                                     *)
(***************************************************************************)
EXTENDS Relocate

CONSTANTS LinkPage, Unreadable

VARIABLES
  units, opts,   \* the link that is asked for
  phase,         \* "linking", "linked" or "failed"
  err,           \* the reason given for a failure
  image          \* addr of each input section, field of each relocation, entry

absVars == <<units, opts, phase, err, image>>

NoImage == [addr |-> << >>, field |-> << >>, entry |-> 0]

Readable == {o \in DOMAIN units : units[o] # Unreadable}

(* Sections, symbols and relocations of the inputs, named by their place.  *)
Pieces   == UNION {{o} \X DOMAIN units[o].secs : o \in Readable}
Labels   == UNION {{o} \X DOMAIN units[o].syms : o \in Readable}
Fields   == UNION {{<<p[1], p[2], q>> : q \in DOMAIN units[p[1]].secs[p[2]].relas} : p \in Pieces}

Piece(p) == units[p[1]].secs[p[2]]
Label(l) == units[l[1]].syms[l[2]]
Field(f) == units[f[1]].secs[f[2]].relas[f[3]]

(* Link order: by object, then by position in the object. *)
Before(x, y) == x[1] < y[1] \/ (x[1] = y[1] /\ x[2] < y[2])
Earliest(S) == CHOOSE x \in S : \A y \in S : x = y \/ Before(x, y)

IsLocal(l)    == Label(l).bind = "LOCAL"
Definitions(name) ==
  {l \in Labels : ~IsLocal(l) /\ Label(l).name = name /\ Label(l).sec # 0}

(* The definitions a label may stand for: its own if it is local, those of *)
(* its name anywhere in the link if it is global.                          *)
Meaning(l) ==
  IF IsLocal(l) THEN IF Label(l).sec # 0 THEN {l} ELSE {}
                ELSE Definitions(Label(l).name)

EntryLabels == {l \in Labels : Label(l).name = opts.entry}

(***************************************************************************)
(* Failure                                                                 *)
(***************************************************************************)
(* The object the link starts from is taken as it is: only what is merged  *)
(* into it can define a name twice.  A reference without a symbol is       *)
(* dropped by the merge.                                                   *)
MergeReasons ==
  {x \in {"cannot read object"} : Readable # DOMAIN units}
  \union
  {x \in {"multiple definition"} :
     \E l \in Labels : l[1] # 1 /\ l \in Definitions(Label(l).name)
                       /\ Definitions(Label(l).name) # {l}}

ExecReasons ==
  {x \in {"undefined symbol"} :
     \E f \in Fields : Field(f).sym # 0 /\ Meaning(<<f[1], Field(f).sym>>) = {}}
  \union
  {x \in {"undefined entry symbol"} :
     EntryLabels = {} \/ Meaning(Earliest(EntryLabels)) = {}}
  \union
  {x \in {"unsupported relocation type"} :
     \E f \in Fields : Field(f).sym # 0 /\ Field(f).type \notin Supported}

(* A link with an unreadable object never gets past the merge. *)
Reasons ==
  IF MergeReasons # {} THEN MergeReasons
  ELSE IF opts.relocatable THEN {} ELSE ExecReasons

(***************************************************************************)
(* Success                                                                 *)
(***************************************************************************)
Namesakes(p) == {x \in Pieces : Piece(x).name = Piece(p).name}
Loaded(p) == Piece(Earliest(Namesakes(p))).alloc
Size(p)   == Len(Piece(p).data)

Requests(name) == {n \in DOMAIN opts.places : opts.places[n].name = name}

Disjoint(addr, p, q) == addr[p] + Size(p) <= addr[q] \/ addr[q] + Size(q) <= addr[p]

(* Input sections of one name follow each other, each at an offset from    *)
(* the first that its alignment divides; the first starts where -place     *)
(* asked, or else on a page.  Without -place no two share a byte.          *)
LayoutOK(addr) ==
  /\ \A p \in Pieces :
       LET head == Earliest(Namesakes(p)) IN
       /\ Piece(p).align > 1 /\ p[1] # 1 => (addr[p] - addr[head]) % Piece(p).align = 0
       /\ \A q \in Namesakes(p) : Before(p, q) => addr[p] + Size(p) <= addr[q]
       /\ ~Loaded(p) => addr[head] = 0
       /\ Loaded(p) /\ Requests(Piece(p).name) = {} => addr[head] % LinkPage = 0
       /\ Loaded(p) /\ Requests(Piece(p).name) # {} =>
            addr[head] = opts.places[First(Requests(Piece(p).name))].addr
  /\ opts.places = << >> =>
       \A p, q \in Pieces : p # q /\ Loaded(p) /\ Loaded(q) => Disjoint(addr, p, q)

AddressOf(addr, l) == (addr[<<l[1], Label(l).sec>>] + Label(l).value) % Modulus(8)

(* What the field of relocation f must hold. *)
Resolved(addr, f) ==
  LET def == CHOOSE l \in Meaning(<<f[1], Field(f).sym>>) : TRUE
  IN FieldValue(Field(f).type, AddressOf(addr, def), Field(f).addend,
                addr[<<f[1], f[2]>>] + Field(f).off)

Correct(im) ==
  /\ DOMAIN im.addr = Pieces
  /\ LayoutOK(im.addr)
  /\ \A f \in Fields : Field(f).sym # 0 => im.field[f] = Resolved(im.addr, f)
  /\ im.entry \in {AddressOf(im.addr, l) : l \in Meaning(Earliest(EntryLabels))}

-----------------------------------------------------------------------------
AbsInit == phase = "linking" /\ err = "none" /\ image = NoImage

AbsFail ==
  /\ phase = "linking" /\ phase' = "failed"
  /\ err' \in Reasons
  /\ UNCHANGED <<units, opts, image>>

AbsLink ==
  /\ phase = "linking" /\ phase' = "linked"
  /\ Reasons = {}
  /\ IF opts.relocatable THEN image' = NoImage ELSE Correct(image')
  /\ UNCHANGED <<units, opts, err>>

AbsNext == AbsFail \/ AbsLink

AbsSpec == AbsInit /\ [][AbsNext]_absVars
=============================================================================
