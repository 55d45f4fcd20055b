------------------------------ MODULE Relocate ------------------------------
(***************************************************************************)
(* src/arch/x86_64/rel.c: what a relocation writes, and where.             *)
(*                                                                         *)
(* A byte holds ByteBase values, 256 in the code.  TLC is given a smaller  *)
(* base, so that a field of four bytes overflows within its reach: the     *)
(* widths below are those of the code, in bytes.                           *)
(***************************************************************************)
EXTENDS ElfObject

CONSTANT ByteBase   \* values of a byte

(* The range of an unsigned integer of n bytes. *)
Modulus(n) == ByteBase^n

ASSUME ByteBaseAssumption ==
  /\ ByteBase \in Nat /\ ByteBase >= 2
  /\ \A n \in 0..8 : Modulus(n) \in Nat \ {0}
  /\ Modulus(0) = 1
  /\ \A n \in 0..7 : Modulus(n + 1) = ByteBase * Modulus(n)

PcRelative == {"PC32", "PLT32"}
Absolute32 == {"32", "32S"}
Supported  == PcRelative \union Absolute32 \union {"64"}

Width(type) == IF type = "64" THEN 8 ELSE 4

(* A symbol taken for the start of its section. *)
SymbolAddrOfSection(secs, sym) == IF sym.sec # 0 THEN secs[sym.sec].addr ELSE sym.value

(* Virtual address a symbol resolves to, in 64 bits. *)
SymbolAddr(secs, sym) ==
  IF sym.sec # 0 THEN (secs[sym.sec].addr + sym.value) % Modulus(8) ELSE sym.value

(* Every field taken for an absolute one. *)
FieldValueAbsolute(type, S, A, P) == (S + A) % Modulus(Width(type))

(* The value written for S (symbol), A (addend) and P (patch site), cut to *)
(* the width of the field.                                                 *)
FieldValue(type, S, A, P) ==
  (IF type \in PcRelative THEN S + A - P ELSE S + A) % Modulus(Width(type))

(* A patch one byte too wide. *)
PatchLEWide(data, off, value, width) ==
  [j \in DOMAIN data |->
     IF j \in (off + 1)..(off + width + 1)
     THEN Byte((value \div Modulus(j - off - 1)) % ByteBase)
     ELSE data[j]]

(* Overwrite width little-endian bytes of data at offset off. *)
PatchLE(data, off, value, width) ==
  [j \in DOMAIN data |->
     IF j \in (off + 1)..(off + width)
     THEN Byte((value \div Modulus(j - off - 1)) % ByteBase)
     ELSE data[j]]

(* Section d after Rel_x86_64_One applied rela to it. *)
Relocated(secs, syms, d, rela) ==
  LET S == SymbolAddr(secs, syms[rela.sym])
      P == secs[d].addr + rela.off
  IN [secs EXCEPT ![d].data =
        PatchLE(@, rela.off, FieldValue(rela.type, S, rela.addend, P), Width(rela.type))]

-----------------------------------------------------------------------------
(* What those who patch and link take for granted of an object.            *)

(* The fields of its relocations lie in the section they are of, and       *)
(* apart.  A relocation without a symbol has none: it is not carried over. *)
FieldsWithin(u) ==
  \A s \in DOMAIN u.secs :
    LET relas == u.secs[s].relas
        live  == {q \in DOMAIN relas : relas[q].sym # 0}
        Bytes(q) == (relas[q].off + 1)..(relas[q].off + Width(relas[q].type))
    IN \A q \in live :
         /\ Bytes(q) \subseteq DOMAIN u.secs[s].data
         /\ \A x \in live : x # q => Bytes(q) \intersect Bytes(x) = {}

(* The object a link starts from is an empty one or one just encoded: it   *)
(* has each section and each global symbol once, no section has been       *)
(* placed, and every relocation has a symbol.                              *)
FreshlyEncoded(u) ==
  /\ UniqueGlobals(u.syms)
  /\ \A s, t \in DOMAIN u.secs : u.secs[s].name = u.secs[t].name => s = t
  /\ \A s \in DOMAIN u.secs :
       /\ u.secs[s].addr = 0
       /\ \A q \in DOMAIN u.secs[s].relas : u.secs[s].relas[q].sym # 0
=============================================================================
