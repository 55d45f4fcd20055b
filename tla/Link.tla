-------------------------------- MODULE Link --------------------------------
(***************************************************************************)
(* Link_Run of src/util/link.c, and the link at the end of ivan-cc: the    *)
(* objects are merged (LinkMerge), then finished as an executable          *)
(* (LinkExec) unless -r asks for a relocatable object.                     *)
(***************************************************************************)
EXTENDS LinkMerge

CONSTANTS ByteBase, LinkBase, LinkPage, LinkOptions

VARIABLES opts, next, entry, etype

Exec == INSTANCE LinkExec WITH MergedObjects <- {}

(* What LinkExec assumes of its parameters. *)
ASSUME LinkAssumption ==
  /\ ByteBase \in Nat /\ ByteBase >= 2
  /\ \A n \in 0..8 : Exec!Modulus(n) \in Nat \ {0}
  /\ Exec!Modulus(0) = 1
  /\ \A n \in 0..7 : Exec!Modulus(n + 1) = ByteBase * Exec!Modulus(n)
  /\ LinkBase \in Nat /\ LinkPage \in Nat \ {0} /\ LinkBase % LinkPage = 0
  /\ LinkBase + LinkPage < Exec!Modulus(8) /\ Exec!Modulus(8) % LinkPage = 0
  /\ LinkOptions \subseteq [entry : Names, relocatable : BOOLEAN, places : Seq(Exec!Requests)]

execOnly == <<opts, next, entry, etype>>
linkVars == <<mergeVars, execOnly>>

LinkInit == MergeInit /\ Exec!ExecVarsInit

Merging == MergeNext /\ UNCHANGED execOnly
Finishing == Exec!ExecNext /\ UNCHANGED <<units, k, maps>>

LinkNext == Merging \/ Finishing

LinkSpec == LinkInit /\ [][LinkNext]_linkVars

-----------------------------------------------------------------------------
(* The image of a finished link, read off the patched bytes.               *)

InputPieces == UNION {{o} \X DOMAIN units[o].secs : o \in DOMAIN maps}

InputFields ==
  UNION {{<<p[1], p[2], q>> : q \in DOMAIN units[p[1]].secs[p[2]].relas} : p \in InputPieces}

OutSection(p) == secs[maps[p[1]].sec[p[2]]]

(* The integer held by width little-endian bytes of data at offset off. *)
Decode(data, off, width) ==
  LET digit(j) == data[off + 1 + j][1] * ByteBase^j
      Sum[n \in 0..width] == IF n = 0 THEN 0 ELSE Sum[n - 1] + digit(n - 1)
  IN Sum[width]

FieldIn(f) ==
  LET p    == <<f[1], f[2]>>
      rela == units[f[1]].secs[f[2]].relas[f[3]]
  IN Decode(OutSection(p).data, maps[f[1]].base[f[2]] + rela.off, Exec!Width(rela.type))

Image ==
  [addr  |-> [p \in InputPieces |-> OutSection(p).addr + maps[p[1]].base[p[2]]],
   field |-> [f \in {g \in InputFields : units[g[1]].secs[g[2]].relas[g[3]].sym # 0} |-> FieldIn(f)],
   entry |-> entry]

Finished == pc \in {"linked", "failed"}

Abs == INSTANCE LinkAbs WITH
  phase <- IF Finished THEN pc ELSE "linking",
  image <- IF pc = "linked" /\ etype = "EXEC" THEN Image
           ELSE [addr |-> << >>, field |-> << >>, entry |-> 0]

-----------------------------------------------------------------------------
(* Inputs as the assembler makes them.                                     *)
WellFormed(us) ==
  /\ Exec!FreshlyEncoded(us[1])
  /\ \A o \in DOMAIN us : us[o] # Unreadable => Exec!FieldsWithin(us[o])

-----------------------------------------------------------------------------
(* Properties.                                                             *)

(* The linker fails exactly for the reasons LinkAbs lists, and what it     *)
(* links is an image LinkAbs calls correct: Link_Run as a whole.           *)
ImplementsLink == Abs!AbsSpec

(* The bytes of its input section that a carried relocation is to patch.   *)
FieldBytes(f) ==
  LET rela == units[f[1]].secs[f[2]].relas[f[3]]
  IN (rela.off + 1)..(rela.off + Exec!Width(rela.type))

(* Each patches bytes of its own section, as an assembler asks for.        *)
FieldsApart ==
  \A f \in Carried :
    /\ FieldBytes(f) \subseteq DOMAIN DataOf(f)
    /\ \A g \in Carried :
         f # g /\ f[1] = g[1] /\ f[2] = g[2] => FieldBytes(f) \intersect FieldBytes(g) = {}

(* A processor that adds the displacement to the address of the field, as  *)
(* every addend of -4 and rip-relative operand expects, arrives at the     *)
(* symbol; an absolute field reads back as its address.  It holds of each  *)
(* field whose exact value fits, which rel.c does not check.               *)
Signed(v, width) == IF 2 * v >= Exec!Modulus(width) THEN v - Exec!Modulus(width) ELSE v

FieldReaches(d, rela) ==
  LET S == Exec!SymbolAddr(secs, syms[rela.sym])
      P == secs[d].addr + rela.off
      w == Exec!Width(rela.type)
      half == Exec!Modulus(w) \div 2
      held == Decode(secs[d].data, rela.off, w)
      exact == IF rela.type \in Exec!PcRelative THEN S + rela.addend - P ELSE S + rela.addend
  IN /\ rela.type \in {"PC32", "PLT32", "32S"} /\ exact \in (-half)..(half - 1)
           => Signed(held, w) = exact
     /\ rela.type \in {"32", "64"} /\ exact \in 0..(2 * half - 1)
           => held = exact

FieldsReach ==
  pc = "linked" /\ etype = "EXEC" /\ FieldsApart =>
    \A d \in DOMAIN secs : \A q \in DOMAIN secs[d].relas :
      FieldReaches(d, secs[d].relas[q])

(* Relocating an image changes no byte outside a relocation's field: what  *)
(* the inputs contained is still there, at the place the merge gave it.    *)
Patched(p, j) ==
  \E f \in Carried : OutOf(f) = OutOf(p) /\ BaseOf(p) + j - BaseOf(f) \in FieldBytes(f)

BytesSurvive ==
  pc = "linked" =>
    \A p \in InputPieces : \A j \in DOMAIN DataOf(p) :
      ~Patched(p, j) => OutSection(p).data[BaseOf(p) + j] = DataOf(p)[j]
=============================================================================
