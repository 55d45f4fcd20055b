------------------------------ MODULE LinkExec ------------------------------
(***************************************************************************)
(* Link_Exec of src/util/link.c: a merged object is placed in memory, its  *)
(* references are checked, its entry is set and its relocations applied.   *)
(* Placement and relocation take one step per iteration of their loops.    *)
(***************************************************************************)
EXTENDS Relocate

CONSTANTS
  Names,         \* section and symbol names
  MergedObjects, \* the objects Link_Exec may be given
  LinkOptions,   \* the Link_Options it may be given
  LinkBase,      \* LINK_BASE
  LinkPage       \* LINK_PAGE

ASSUME LinkLayoutAssumption ==
  /\ LinkBase \in Nat /\ LinkPage \in Nat \ {0}
  /\ LinkBase % LinkPage = 0
  /\ LinkBase + LinkPage < Modulus(8) /\ Modulus(8) % LinkPage = 0

ASSUME MergedObjectsAssumption ==
  MergedObjects \subseteq Object(Names)

(* One -place request: Link_Place. *)
Requests == [name : Names, addr : Nat]

ASSUME LinkOptionsAssumption ==
  LinkOptions \subseteq [entry : Names, relocatable : BOOLEAN, places : Seq(Requests)]

VARIABLES
  opts,    \* entry, relocatable, places: the Link_Options
  pc, i, r, secs, syms, err,   \* shared with LinkMerge
  next,    \* Link_PlaceSections' next free page
  entry,   \* the object's entry address
  etype    \* the object's type: "REL" or "EXEC"

execVars == <<opts, pc, i, r, secs, syms, err, next, entry, etype>>

AddrMod == Modulus(8)

RoundUp(n) == ((n + LinkPage - 1) \div LinkPage) * LinkPage

(* The -place request that holds for a section: the first of its name. *)
PlaceRequest(name) == First({p \in DOMAIN opts.places : opts.places[p].name = name})

(* Wrong next pages: beyond 64 bits, forgetting what lies further on, or   *)
(* the page end is on.                                                     *)
NextFreeUnbounded(end) == IF end > next THEN RoundUp(end) ELSE next
NextFreeRewinds(end) == RoundUp(end) % AddrMod
NextFreeRoundsDown(end) == IF end > next THEN (end \div LinkPage) * LinkPage ELSE next

(* The first page past end, or the one already free if end lies before it, *)
(* in 64 bits.                                                             *)
NextFree(end) == IF end > next THEN RoundUp(end) % AddrMod ELSE next

PlacedAddr(name) ==
  IF PlaceRequest(name) # 0 THEN opts.places[PlaceRequest(name)].addr ELSE next

ExecVarsInit ==
  /\ opts \in LinkOptions
  /\ next = 0 /\ entry = 0 /\ etype = "REL"

ExecInit ==
  /\ ExecVarsInit
  /\ pc = "merged" /\ i = 1 /\ r = 1 /\ err = "none"
  /\ \E obj \in MergedObjects : secs = obj.secs /\ syms = obj.syms

(* ivan-ld -r stops at the merged object. *)
KeepRelocatable ==
  /\ pc = "merged" /\ opts.relocatable
  /\ pc' = "linked"
  /\ UNCHANGED <<opts, i, r, secs, syms, err, next, entry, etype>>

StartPlacing ==
  /\ pc = "merged" /\ ~opts.relocatable
  /\ pc' = "place" /\ i' = 1
  /\ next' = LinkBase + LinkPage
  /\ UNCHANGED <<opts, r, secs, syms, err, entry, etype>>

SkipSection ==
  /\ pc = "place" /\ i <= Len(secs)
  /\ ~secs[i].alloc
  /\ i' = i + 1
  /\ UNCHANGED <<opts, pc, r, secs, syms, err, next, entry, etype>>

PlaceSection ==
  /\ pc = "place" /\ i <= Len(secs)
  /\ secs[i].alloc
  /\ LET addr == PlacedAddr(secs[i].name)
         end  == (addr + Len(secs[i].data)) % AddrMod
     IN /\ secs' = [secs EXCEPT ![i].addr = addr]
        /\ next' = NextFree(end)
  /\ i' = i + 1
  /\ UNCHANGED <<opts, pc, r, syms, err, entry, etype>>

PlacingDone ==
  /\ pc = "place" /\ i > Len(secs)
  /\ pc' = "check"
  /\ UNCHANGED <<opts, i, r, secs, syms, err, next, entry, etype>>

Defined(j) == j # 0 /\ syms[j].sec # 0

AllDefined ==
  \A d \in DOMAIN secs : \A q \in DOMAIN secs[d].relas : Defined(secs[d].relas[q].sym)

Abort(reason) ==
  /\ pc' = "failed" /\ err' = reason
  /\ UNCHANGED <<opts, i, r, secs, syms, next, entry, etype>>

(* Link_CheckDefined changes nothing, so its two loops are one step. *)
CheckDefined ==
  /\ pc = "check" /\ AllDefined
  /\ pc' = "entry"
  /\ UNCHANGED <<opts, i, r, secs, syms, err, next, entry, etype>>

UndefinedSymbol ==
  /\ pc = "check" /\ ~AllDefined
  /\ Abort("undefined symbol")

EntrySymbol == SymbolFind(syms, opts.entry)

SetEntry ==
  /\ pc = "entry" /\ Defined(EntrySymbol)
  /\ entry' = SymbolAddr(secs, syms[EntrySymbol])
  /\ pc' = "apply" /\ i' = 1 /\ r' = 1
  /\ UNCHANGED <<opts, secs, syms, err, next, etype>>

UndefinedEntry ==
  /\ pc = "entry" /\ ~Defined(EntrySymbol)
  /\ Abort("undefined entry symbol")

AtReloc == pc = "apply" /\ i <= Len(secs) /\ r <= Len(secs[i].relas)

ApplyReloc ==
  /\ AtReloc
  /\ secs[i].relas[r].type \in Supported
  /\ secs' = Relocated(secs, syms, i, secs[i].relas[r])
  /\ r' = r + 1
  /\ UNCHANGED <<opts, pc, i, syms, err, next, entry, etype>>

UnsupportedReloc ==
  /\ AtReloc
  /\ secs[i].relas[r].type \notin Supported
  /\ Abort("unsupported relocation type")

(* The loop over the sections forgets to move on. *)
NextApplySectionStays ==
  /\ pc = "apply" /\ i <= Len(secs) /\ r > Len(secs[i].relas)
  /\ r' = 1
  /\ UNCHANGED <<opts, pc, i, secs, syms, err, next, entry, etype>>

NextApplySection ==
  /\ pc = "apply" /\ i <= Len(secs) /\ r > Len(secs[i].relas)
  /\ i' = i + 1 /\ r' = 1
  /\ UNCHANGED <<opts, pc, secs, syms, err, next, entry, etype>>

ApplyDone ==
  /\ pc = "apply" /\ i > Len(secs)
  /\ pc' = "linked" /\ etype' = "EXEC"
  /\ UNCHANGED <<opts, i, r, secs, syms, err, next, entry>>

ExecNext ==
  \/ KeepRelocatable \/ StartPlacing
  \/ SkipSection \/ PlaceSection \/ PlacingDone
  \/ CheckDefined \/ UndefinedSymbol
  \/ SetEntry \/ UndefinedEntry
  \/ ApplyReloc \/ UnsupportedReloc \/ NextApplySection \/ ApplyDone

ExecSpec == ExecInit /\ [][ExecNext]_execVars

-----------------------------------------------------------------------------
(* Properties.                                                             *)

Reports == {"none", "undefined symbol", "undefined entry symbol", "unsupported relocation type"}

(* Every variable of Link_Exec has its type; the next free page is a       *)
(* 64-bit address.                                                         *)
ExecTypeOK ==
  /\ opts \in LinkOptions
  /\ pc \in {"merged", "place", "check", "entry", "apply", "linked", "failed"}
  /\ i \in Nat \ {0} /\ r \in Nat \ {0}
  /\ [secs |-> secs, syms |-> syms] \in Object(Names)
  /\ err \in Reports
  /\ next \in 0..(AddrMod - 1) /\ entry \in Nat
  /\ etype \in {"REL", "EXEC"}

(* Link_PlaceSections has given section d its address. *)
Placed(d) ==
  /\ secs[d].alloc
  /\ \/ pc = "place" /\ d < i
     \/ pc \in {"check", "entry", "apply"}
     \/ pc = "linked" /\ etype = "EXEC"

EndOf(d) == secs[d].addr + Len(secs[d].data)

Requested(d) == PlaceRequest(secs[d].name) # 0

(* No section reaches into the last page of the address space, where the   *)
(* 64-bit sums of the placement loop wrap around.                          *)
FitsAddressSpace == \A d \in DOMAIN secs : Placed(d) => EndOf(d) <= AddrMod - LinkPage

(* A section without a -place request starts on a page boundary, past      *)
(* everything Link_PlaceSections placed before it, whether that was        *)
(* requested or not, in whatever order requests and sections come.         *)
UnplacedIsFree ==
  FitsAddressSpace =>
    \A b \in DOMAIN secs :
      Placed(b) /\ ~Requested(b) =>
        /\ secs[b].addr % LinkPage = 0
        /\ \A a \in 1..(b - 1) : Placed(a) => EndOf(a) <= secs[b].addr

Overlap(a, b) ==
  /\ Len(secs[a].data) > 0 /\ Len(secs[b].data) > 0
  /\ secs[a].addr < EndOf(b) /\ secs[b].addr < EndOf(a)

(* Without -place no byte of the image belongs to two sections.            *)
NoOverlapUnrequested ==
  FitsAddressSpace /\ opts.places = << >> =>
    \A a, b \in DOMAIN secs : a # b /\ Placed(a) /\ Placed(b) => ~Overlap(a, b)
=============================================================================
