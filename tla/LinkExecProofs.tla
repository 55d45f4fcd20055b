--------------------------- MODULE LinkExecProofs ---------------------------
(***************************************************************************)
(* Proofs about Link_Exec: its type invariant, and that a section without  *)
(* a -place request gets a free page.                                      *)
(***************************************************************************)
EXTENDS LinkExec, ElfObjectProofs

(* Assigning a multiple of the page is all that RoundUp does. *)
LEMMA RoundUpIsPage ==
  ASSUME NEW n \in Nat
  PROVE  /\ RoundUp(n) \in Nat
         /\ RoundUp(n) >= n
         /\ RoundUp(n) < n + LinkPage
         /\ RoundUp(n) % LinkPage = 0
<1> DEFINE q == (n + LinkPage - 1) \div LinkPage
           m == (n + LinkPage - 1) % LinkPage
<1>1. LinkPage \in Nat \ {0}
  BY LinkLayoutAssumption
<1>2. q \in Nat /\ m \in 0..(LinkPage - 1) /\ n + LinkPage - 1 = q * LinkPage + m
  BY <1>1, SMTT(30)
<1>3. (q * LinkPage) % LinkPage = 0
  BY <1>1, <1>2, SMTT(30)
<1>4. q * LinkPage \in Nat
  BY <1>1, <1>2, SMTT(30)
<1>5. RoundUp(n) = q * LinkPage
  BY DEF RoundUp
<1> HIDE DEF q, m
<1> QED
  BY <1>1, <1>2, <1>3, <1>4, <1>5

(* Each digit of a patched value is a byte. *)
LEMMA DigitIsByte ==
  ASSUME NEW value \in Int, NEW off \in Nat, NEW width \in 0..8,
         NEW j \in (off + 1)..(off + width)
  PROVE  Byte((value \div Modulus(j - off - 1)) % ByteBase) \in Seq(Nat)
<1>1. j - off - 1 \in 0..8
  OBVIOUS
<1>2. PICK m \in Nat : m > 0 /\ m = Modulus(j - off - 1)
  BY <1>1, ByteBaseAssumption
<1>3. value \div m \in Int
  BY <1>2
<1>4. (value \div m) % ByteBase \in Nat
  BY <1>3, ByteBaseAssumption
<1> QED
  BY <1>2, <1>4 DEF Byte

(* Patching a field keeps a section's contents a byte sequence of the same *)
(* length.                                                                 *)
LEMMA PatchKeepsLength ==
  ASSUME NEW data \in Seq(Seq(Nat)), NEW off \in Nat, NEW value \in Int,
         NEW width \in 0..8
  PROVE  /\ PatchLE(data, off, value, width) \in Seq(Seq(Nat))
         /\ Len(PatchLE(data, off, value, width)) = Len(data)
<1> DEFINE new == PatchLE(data, off, value, width)
<1>1. ASSUME NEW j \in DOMAIN data
      PROVE  new[j] \in Seq(Nat)
  <2>1. CASE j \in (off + 1)..(off + width)
    BY <2>1, DigitIsByte DEF PatchLE
  <2>2. CASE j \notin (off + 1)..(off + width)
    BY <2>2 DEF PatchLE
  <2> QED
    BY <2>1, <2>2
<1>2. DOMAIN data = 1..Len(data) /\ Len(data) \in Nat
  BY LenProperties
<1>3. new \in [1..Len(data) -> Seq(Nat)]
  BY <1>1, <1>2 DEF PatchLE
<1> QED
  BY <1>2, <1>3, FunctionIsSeq

-----------------------------------------------------------------------------
(* Type correctness.                                                       *)

LEMMA AddressSpace == AddrMod \in Nat /\ AddrMod > 0
BY ByteBaseAssumption, 8 \in 0..8 DEF AddrMod

LEMMA RemainderInRange ==
  ASSUME NEW n \in Int, NEW m \in Nat, m > 0
  PROVE  n % m \in 0..(m - 1)
BY SMT

(* A section goes to an address, the requested one or the next free page.  *)
LEMMA PlacedAddrIsAddress ==
  ASSUME opts \in LinkOptions, next \in Nat, NEW name
  PROVE  /\ PlacedAddr(name) \in Nat
         /\ PlaceRequest(name) = 0 => PlacedAddr(name) = next
<1> DEFINE hits == {p \in DOMAIN opts.places : opts.places[p].name = name}
<1>1. opts.places \in Seq(Requests)
  BY LinkOptionsAssumption
<1>2. hits \in SUBSET (Nat \ {0})
  BY <1>1
<1>3. PlaceRequest(name) # 0 => PlaceRequest(name) \in DOMAIN opts.places
  BY <1>2, FirstIsLeast DEF PlaceRequest
<1>4. \A p \in DOMAIN opts.places : opts.places[p] \in Requests
  BY <1>1, LenProperties, ElementOfSeq
<1>5. PlaceRequest(name) # 0 => opts.places[PlaceRequest(name)].addr \in Nat
  BY <1>3, <1>4 DEF Requests
<1> QED
  BY <1>5 DEF PlacedAddr

(* The address of a defined symbol is a 64-bit one. *)
LEMMA SymbolAddrIsAddress ==
  ASSUME [secs |-> secs, syms |-> syms] \in Object(Names),
         NEW j \in DOMAIN syms, Defined(j)
  PROVE  SymbolAddr(secs, syms[j]) \in Nat
<1>1. /\ secs \in Seq(Section(Names)) /\ syms \in Seq(Symbol(Names))
      /\ syms[j].sec \in 0..Len(secs)
  BY ObjectParts
<1>2. /\ syms[j] \in Symbol(Names)
      /\ syms[j].sec \in 1..Len(secs) /\ secs[syms[j].sec] \in Section(Names)
  BY <1>1, Defined(j) DEF Defined
<1>3. secs[syms[j].sec].addr + syms[j].value \in Int
  BY <1>2 DEF Section, Symbol
<1>4. SymbolAddr(secs, syms[j]) = (secs[syms[j].sec].addr + syms[j].value) % AddrMod
  BY Defined(j) DEF SymbolAddr, Defined, AddrMod
<1> QED
  BY <1>3, <1>4, AddressSpace, RemainderInRange

(* Link_CheckDefined let the object through. *)
Checked == pc \in {"entry", "apply"} => AllDefined

ExecTyped == ExecTypeOK /\ Checked

LEMMA ReportsAre ==
  /\ "none" \in Reports /\ "undefined symbol" \in Reports
  /\ "undefined entry symbol" \in Reports /\ "unsupported relocation type" \in Reports
BY DEF Reports

LEMMA ExecInitTyped == ExecInit => ExecTyped
<1> SUFFICES ASSUME ExecInit PROVE ExecTyped
  OBVIOUS
<1>1. PICK obj \in MergedObjects : secs = obj.secs /\ syms = obj.syms
  BY DEF ExecInit
<1>2. obj \in Object(Names)
  BY <1>1, MergedObjectsAssumption
<1>3. [secs |-> secs, syms |-> syms] \in Object(Names)
  BY <1>1, <1>2 DEF Object
<1>4. /\ opts \in LinkOptions /\ next = 0 /\ entry = 0 /\ etype = "REL"
      /\ pc = "merged" /\ i = 1 /\ r = 1 /\ err = "none"
  BY DEF ExecInit, ExecVarsInit
<1>5. next \in 0..(AddrMod - 1)
  BY <1>4, AddressSpace
<1>6. /\ err \in Reports /\ etype \in {"REL", "EXEC"}
      /\ i \in Nat \ {0} /\ r \in Nat \ {0} /\ entry \in Nat
  <2>1. err \in Reports
    BY <1>4, ReportsAre, Zenon
  <2> QED
    BY <1>4, <2>1
<1>7. /\ pc \in {"merged", "place", "check", "entry", "apply", "linked", "failed"}
      /\ pc \notin {"entry", "apply"}
  BY <1>4
<1> QED
  BY <1>3, <1>4, <1>5, <1>6, <1>7 DEF ExecTyped, ExecTypeOK, Checked

(* A step that leaves the object alone only has to get the scalars right. *)
LEMMA ScalarSteps ==
  ASSUME ExecTyped,
         \/ KeepRelocatable \/ SkipSection \/ PlacingDone
         \/ CheckDefined \/ UndefinedSymbol \/ UndefinedEntry
         \/ UnsupportedReloc \/ NextApplySection \/ ApplyDone
         \/ UNCHANGED execVars
  PROVE  ExecTyped'
<1> USE DEF ExecTyped, ExecTypeOK, Checked, AllDefined, Defined
<1>1. CASE KeepRelocatable
  BY <1>1 DEF KeepRelocatable
<1>2. CASE SkipSection
  BY <1>2 DEF SkipSection
<1>3. CASE PlacingDone
  BY <1>3 DEF PlacingDone
<1>4. CASE CheckDefined
  BY <1>4 DEF CheckDefined
<1>5. CASE UndefinedSymbol
  BY <1>5, ReportsAre DEF UndefinedSymbol, Abort
<1>6. CASE UndefinedEntry
  BY <1>6, ReportsAre DEF UndefinedEntry, Abort
<1>7. CASE UnsupportedReloc
  BY <1>7, ReportsAre DEF UnsupportedReloc, Abort
<1>8. CASE NextApplySection
  BY <1>8 DEF NextApplySection
<1>9. CASE ApplyDone
  BY <1>9 DEF ApplyDone
<1>10. CASE UNCHANGED execVars
  BY <1>10 DEF execVars
<1> QED
  BY <1>1, <1>2, <1>3, <1>4, <1>5, <1>6, <1>7, <1>8, <1>9, <1>10

LEMMA StartPlacingTyped == ExecTyped /\ StartPlacing => ExecTyped'
<1>1. LinkBase + LinkPage \in 0..(AddrMod - 1)
  BY LinkLayoutAssumption, AddressSpace DEF AddrMod
<1> QED
  BY <1>1 DEF ExecTyped, ExecTypeOK, Checked, StartPlacing

(* The next free page after placing a section is an address too. *)
LEMMA NextFreeInRange ==
  ASSUME NEW end \in Nat, next \in 0..(AddrMod - 1)
  PROVE  NextFree(end) \in 0..(AddrMod - 1)
BY RoundUpIsPage, AddressSpace, RemainderInRange DEF NextFree

LEMMA PlaceSectionTyped ==
  ASSUME ExecTyped, PlaceSection
  PROVE  ExecTyped'
<1> DEFINE addr == PlacedAddr(secs[i].name)
           end  == (addr + Len(secs[i].data)) % AddrMod
<1>1. /\ pc = "place" /\ pc' = "place"
      /\ i \in DOMAIN secs
      /\ [secs |-> secs, syms |-> syms] \in Object(Names)
  BY ObjectParts DEF ExecTyped, ExecTypeOK, PlaceSection
<1>2. addr \in Nat
  BY PlacedAddrIsAddress DEF ExecTyped, ExecTypeOK
<1>3. Len(secs[i].data) \in Nat
  BY <1>1, ObjectParts DEF Section
<1>4. end \in Nat
  BY <1>2, <1>3, AddressSpace, RemainderInRange
<1>5. /\ secs' = [secs EXCEPT ![i].addr = addr]
      /\ next' = NextFree(end)
      /\ i' = i + 1
      /\ UNCHANGED <<opts, pc, r, syms, err, entry, etype>>
  BY DEF PlaceSection
<1> HIDE DEF addr, end
<1>6. [secs |-> secs', syms |-> syms'] \in Object(Names)
  BY <1>1, <1>2, <1>5, AddressKeepsObject
<1>7. next' \in 0..(AddrMod - 1)
  BY <1>4, <1>5, NextFreeInRange DEF ExecTyped, ExecTypeOK
<1> QED
  BY <1>1, <1>5, <1>6, <1>7 DEF ExecTyped, ExecTypeOK, Checked

LEMMA SetEntryTyped ==
  ASSUME ExecTyped, SetEntry
  PROVE  ExecTyped'
<1> DEFINE hits == {j \in DOMAIN syms : syms[j].name = opts.entry}
<1>1. syms \in Seq(Symbol(Names))
  BY ObjectParts DEF ExecTyped, ExecTypeOK
<1>2. hits \in SUBSET (Nat \ {0})
  BY <1>1
<1>3. EntrySymbol \in DOMAIN syms /\ Defined(EntrySymbol)
  BY <1>2, FirstIsLeast DEF SetEntry, Defined, EntrySymbol, SymbolFind
<1>4. SymbolAddr(secs, syms[EntrySymbol]) \in Nat
  BY <1>3, SymbolAddrIsAddress DEF ExecTyped, ExecTypeOK
<1> QED
  BY <1>4 DEF ExecTyped, ExecTypeOK, Checked, AllDefined, Defined, SetEntry

(* The value that the next relocation writes. *)
Patching ==
  LET rela == secs[i].relas[r]
  IN FieldValue(rela.type, SymbolAddr(secs, syms[rela.sym]), rela.addend, secs[i].addr + rela.off)

(* Applying a relocation changes nothing but the bytes of one section. *)
LEMMA ApplyRelocEffect ==
  ASSUME ExecTyped, ApplyReloc
  PROVE  /\ [secs |-> secs', syms |-> syms'] \in Object(Names)
         /\ DOMAIN secs' = DOMAIN secs
         /\ \A d \in DOMAIN secs :
              /\ secs'[d].relas = secs[d].relas /\ secs'[d].name = secs[d].name
              /\ secs'[d].alloc = secs[d].alloc /\ secs'[d].addr = secs[d].addr
              /\ Len(secs'[d].data) = Len(secs[d].data)
              /\ d # i => secs'[d] = secs[d]
         /\ i \in DOMAIN secs /\ r \in DOMAIN secs[i].relas
         /\ secs[i].relas[r] \in Rela /\ secs[i].data \in Seq(Seq(Nat)) /\ Patching \in Int
         /\ secs'[i].data = PatchLE(secs[i].data, secs[i].relas[r].off, Patching,
                                   Width(secs[i].relas[r].type))
         /\ r' = r + 1
         /\ UNCHANGED <<opts, pc, i, syms, err, next, entry, etype>>
<1> DEFINE rela == secs[i].relas[r]
           S == SymbolAddr(secs, syms[rela.sym])
           P == secs[i].addr + rela.off
           value == FieldValue(rela.type, S, rela.addend, P)
           data == PatchLE(secs[i].data, rela.off, value, Width(rela.type))
<1>1. /\ secs \in Seq(Section(Names)) /\ syms \in Seq(Symbol(Names))
      /\ [secs |-> secs, syms |-> syms] \in Object(Names)
      /\ pc = "apply" /\ AllDefined /\ i \in Nat \ {0} /\ r \in Nat \ {0}
      /\ i <= Len(secs) /\ r <= Len(secs[i].relas)
  BY ObjectParts DEF ExecTyped, ExecTypeOK, Checked, ApplyReloc, AtReloc
<1>2. i \in DOMAIN secs /\ secs[i] \in Section(Names)
  BY <1>1
<1>3. /\ secs[i].addr \in Nat /\ secs[i].data \in Seq(Seq(Nat))
      /\ secs[i].relas \in Seq(Rela)
  BY <1>2 DEF Section
<1>4. r \in DOMAIN secs[i].relas /\ rela \in Rela
  BY <1>1, <1>3
<1>5. rela.sym \in 0..Len(syms)
  BY <1>1, <1>2, <1>4, ObjectParts
<1>6. Defined(rela.sym)
  BY <1>1, <1>2, <1>4 DEF AllDefined
<1>7. rela.sym \in DOMAIN syms
  BY <1>1, <1>5, <1>6 DEF Defined
<1>8. S \in Nat
  BY <1>1, <1>6, <1>7, SymbolAddrIsAddress
<1>9. rela.off \in Nat /\ rela.addend \in Int /\ P \in Nat
  <2>1. \A x \in Rela : x.off \in Nat /\ x.addend \in Int
    BY DEF Rela
  <2>2. rela.off \in Nat /\ rela.addend \in Int
    BY <1>4, <2>1
  <2> QED
    BY <1>3, <2>2
<1>10. Width(rela.type) \in 0..8
  BY DEF Width
<1>11. value \in Int
  <2>1. Modulus(Width(rela.type)) \in Nat /\ Modulus(Width(rela.type)) > 0
    BY <1>10, ByteBaseAssumption
  <2>2. S + rela.addend - P \in Int /\ S + rela.addend \in Int
    BY <1>8, <1>9
  <2> QED
    BY <2>1, <2>2, RemainderInRange DEF FieldValue
<1>12. data \in Seq(Seq(Nat)) /\ Len(data) = Len(secs[i].data)
  BY <1>3, <1>9, <1>10, <1>11, PatchKeepsLength
<1>13. /\ secs' = [secs EXCEPT ![i].data = data]
       /\ r' = r + 1
       /\ UNCHANGED <<opts, pc, i, syms, err, next, entry, etype>>
  BY DEF ApplyReloc, Relocated
<1>16. data = PatchLE(secs[i].data, rela.off, Patching, Width(rela.type)) /\ Patching \in Int
  BY <1>11 DEF Patching
<1> HIDE DEF data
<1>14. /\ [secs |-> secs', syms |-> syms'] \in Object(Names)
       /\ DOMAIN secs' = DOMAIN secs
       /\ secs'[i].data = data
       /\ \A d \in DOMAIN secs :
            /\ secs'[d].relas = secs[d].relas /\ secs'[d].name = secs[d].name
            /\ secs'[d].alloc = secs[d].alloc /\ secs'[d].addr = secs[d].addr
            /\ d # i => secs'[d] = secs[d]
  <2>1. [secs |-> secs, syms |-> syms] \in Object(Names)
    BY <1>1
  <2>2. secs' = [secs EXCEPT ![i].data = data] /\ syms' = syms
    BY <1>13
  <2>3. /\ [secs |-> secs', syms |-> syms'] \in Object(Names)
        /\ DOMAIN secs' = DOMAIN secs
    BY <1>2, <1>12, <2>1, <2>2, ContentsKeepObject
  <2>4. secs'[i].data = data
    <3>1. secs'[i] = [secs[i] EXCEPT !.data = data]
      BY <1>1, <1>2, <2>2
    <3> QED
      BY <1>2, <3>1 DEF Section
  <2>5. ASSUME NEW d \in DOMAIN secs
        PROVE  /\ secs'[d].relas = secs[d].relas /\ secs'[d].name = secs[d].name
               /\ secs'[d].alloc = secs[d].alloc /\ secs'[d].addr = secs[d].addr
               /\ d # i => secs'[d] = secs[d]
    BY <1>2, <1>12, <2>1, <2>2, ContentsKeepObject
  <2> QED
    BY <2>3, <2>4, <2>5
<1>15. \A d \in DOMAIN secs : Len(secs'[d].data) = Len(secs[d].data)
  BY <1>12, <1>14
<1>17. \A d \in DOMAIN secs : d # i => secs'[d] = secs[d]
  BY <1>14
<1> QED
  BY <1>2, <1>3, <1>4, <1>13, <1>14, <1>15, <1>16, <1>17

LEMMA ApplyRelocTyped ==
  ASSUME ExecTyped, ApplyReloc
  PROVE  ExecTyped'
<1>1. AllDefined
  BY DEF ExecTyped, Checked, ApplyReloc, AtReloc
<1>2. AllDefined'
  BY <1>1, ApplyRelocEffect DEF AllDefined, Defined
<1> QED
  BY <1>2, ApplyRelocEffect DEF ExecTyped, ExecTypeOK, Checked

LEMMA ExecTypedStep == ExecTyped /\ [ExecNext]_execVars => ExecTyped'
BY ScalarSteps, StartPlacingTyped, PlaceSectionTyped, SetEntryTyped, ApplyRelocTyped
   DEF ExecNext

(* Link_Exec keeps its object well formed from one step to the next: every *)
(* pointer stays inside it, relocation only starts on defined symbols, and *)
(* the next free page is a 64-bit address.                                 *)
THEOREM ExecTypeCorrect == ExecSpec => []ExecTypeOK
<1>1. ExecTyped => ExecTypeOK
  BY DEF ExecTyped
<1> QED
  BY ExecInitTyped, ExecTypedStep, <1>1, PTL DEF ExecSpec

-----------------------------------------------------------------------------
(* Placement.                                                              *)

LEMMA NextPageIsPage ==
  ASSUME NEW n \in Nat, n % LinkPage = 0
  PROVE  (n + LinkPage) % LinkPage = 0
<1> DEFINE q == n \div LinkPage
<1>1. LinkPage \in Nat \ {0}
  BY LinkLayoutAssumption
<1>2. q \in Nat /\ n = q * LinkPage
  BY <1>1, SMTT(30)
<1>3. n + LinkPage = (q + 1) * LinkPage
  BY <1>1, <1>2, SMTT(30)
<1> HIDE DEF q
<1>4. \A m \in Nat : (m * LinkPage) % LinkPage = 0
  BY <1>1, SMTT(30)
<1> QED
  BY <1>2, <1>3, <1>4

(* Without a wrap around, the next free page is a page, and past both the  *)
(* section just placed and the free page before.                           *)
LEMMA NextFreeIsPast ==
  ASSUME NEW end \in Nat, end <= AddrMod - LinkPage, next \in Nat, next % LinkPage = 0
  PROVE  /\ NextFree(end) % LinkPage = 0
         /\ NextFree(end) >= end /\ NextFree(end) >= next
<1>1. CASE end > next
  <2>1. RoundUp(end) \in Nat /\ RoundUp(end) >= end /\ RoundUp(end) % LinkPage = 0
    BY RoundUpIsPage
  <2>2. RoundUp(end) < AddrMod
    BY RoundUpIsPage, AddressSpace, LinkLayoutAssumption
  <2>3. RoundUp(end) % AddrMod = RoundUp(end)
    BY <2>1, <2>2, AddressSpace, SMT
  <2> QED
    BY <1>1, <2>1, <2>3 DEF NextFree
<1>2. CASE ~(end > next)
  BY <1>2 DEF NextFree
<1> QED
  BY <1>1, <1>2

Unplaced == \A b \in DOMAIN secs :
  Placed(b) /\ ~Requested(b) =>
    /\ secs[b].addr % LinkPage = 0
    /\ \A a \in 1..(b - 1) : Placed(a) => EndOf(a) <= secs[b].addr

NextIsFree ==
  pc = "place" => /\ next % LinkPage = 0
                  /\ \A a \in DOMAIN secs : Placed(a) => EndOf(a) <= next

(* What the placement loop relies on from one section to the next.  The    *)
(* last conjunct keeps `ivan-ld -r' from counting as placed.               *)
PlacementInv ==
  /\ FitsAddressSpace => Unplaced /\ NextIsFree
  /\ pc = "merged" => etype = "REL"

(* A step after which nothing counts as placed and the loop is not running. *)
LEMMA NothingPlaced ==
  ASSUME \A d : ~Placed(d)', pc' \notin {"place", "merged"}
  PROVE  PlacementInv'
BY DEF PlacementInv, Unplaced, NextIsFree

(* A step that moves no placed section and leaves the loop as it is.       *)
LEMMA SamePlacement ==
  ASSUME PlacementInv, DOMAIN secs' = DOMAIN secs, opts' = opts,
         \A d \in DOMAIN secs :
           /\ Placed(d)' <=> Placed(d)
           /\ secs'[d].addr = secs[d].addr /\ secs'[d].name = secs[d].name
           /\ Len(secs'[d].data) = Len(secs[d].data),
         pc' # "merged",
         pc' = "place" => pc = "place" /\ next' = next,
         secs \in Seq(Section(Names))
  PROVE  PlacementInv'
<1>1. \A d \in DOMAIN secs : EndOf(d)' = EndOf(d) /\ (Requested(d)' <=> Requested(d))
  BY DEF EndOf, Requested, PlaceRequest
<1>2. FitsAddressSpace' => FitsAddressSpace
  <2> SUFFICES ASSUME FitsAddressSpace', NEW d \in DOMAIN secs, Placed(d)
               PROVE  EndOf(d) <= AddrMod - LinkPage
    BY DEF FitsAddressSpace
  <2>1. d \in DOMAIN secs' /\ Placed(d)' /\ EndOf(d)' = EndOf(d)
    BY <1>1
  <2>2. EndOf(d)' <= AddrMod - LinkPage
    BY <2>1 DEF FitsAddressSpace
  <2> QED
    BY <2>1, <2>2
<1>3. \A b \in DOMAIN secs : 1..(b - 1) \subseteq DOMAIN secs
  BY LenProperties
<1>4. Unplaced => Unplaced'
  <2> SUFFICES ASSUME Unplaced, NEW b \in DOMAIN secs, Placed(b)', ~Requested(b)'
               PROVE  /\ secs'[b].addr % LinkPage = 0
                      /\ \A a \in 1..(b - 1) : Placed(a)' => EndOf(a)' <= secs'[b].addr
    BY DEF Unplaced
  <2>1. Placed(b) /\ ~Requested(b) /\ secs'[b].addr = secs[b].addr
    BY <1>1
  <2>2. \A a \in 1..(b - 1) : (Placed(a)' <=> Placed(a)) /\ EndOf(a)' = EndOf(a)
    BY <1>1, <1>3
  <2> QED
    BY <2>1, <2>2 DEF Unplaced
<1>5. NextIsFree => NextIsFree'
  <2> SUFFICES ASSUME NextIsFree, pc' = "place"
               PROVE  /\ next' % LinkPage = 0
                      /\ \A a \in DOMAIN secs : Placed(a)' => EndOf(a)' <= next'
    BY DEF NextIsFree
  <2>1. pc = "place" /\ next' = next
    OBVIOUS
  <2>2. \A a \in DOMAIN secs : (Placed(a)' <=> Placed(a)) /\ EndOf(a)' = EndOf(a)
    BY <1>1
  <2> QED
    BY <2>1, <2>2 DEF NextIsFree
<1> QED
  BY <1>2, <1>4, <1>5 DEF PlacementInv

LEMMA PlaceSectionPlaces ==
  ASSUME ExecTyped, PlacementInv, PlaceSection
  PROVE  PlacementInv'
<1>0. PICK m \in DOMAIN secs : m = i
  BY ObjectParts DEF ExecTyped, ExecTypeOK, PlaceSection
<1> DEFINE addr == PlacedAddr(secs[m].name)
           len  == Len(secs[m].data)
<1>1. /\ pc = "place" /\ pc' = "place" /\ i = m /\ i' = m + 1
      /\ m \in Nat /\ opts' = opts
      /\ next \in Nat /\ next < AddrMod
      /\ [secs |-> secs, syms |-> syms] \in Object(Names)
  BY <1>0, ObjectParts, AddressSpace DEF ExecTyped, ExecTypeOK, PlaceSection
<1>2. addr \in Nat /\ (~Requested(m) => addr = next)
  BY <1>1, PlacedAddrIsAddress DEF ExecTyped, ExecTypeOK, Requested
<1>3. len \in Nat /\ secs \in Seq(Section(Names))
  <2>1. secs \in Seq(Section(Names))
    BY <1>1, ObjectParts
  <2>2. secs[m] \in Section(Names)
    BY <1>1, <2>1
  <2>3. secs[m].data \in Seq(Seq(Nat))
    BY <2>2 DEF Section
  <2> QED
    BY <2>1, <2>3
<1>4. /\ secs' = [secs EXCEPT ![m].addr = addr]
      /\ next' = NextFree((addr + len) % AddrMod)
  BY <1>0 DEF PlaceSection
<1> HIDE DEF addr, len
<1>5. /\ DOMAIN secs' = DOMAIN secs
      /\ secs'[m].addr = addr
      /\ \A e \in DOMAIN secs :
           /\ secs'[e].name = secs[e].name /\ secs'[e].alloc = secs[e].alloc
           /\ secs'[e].data = secs[e].data
           /\ e # m => secs'[e] = secs[e]
  <2>1. m \in DOMAIN secs /\ [secs |-> secs, syms |-> syms] \in Object(Names)
    BY <1>1
  <2>2. addr \in Nat /\ secs' = [secs EXCEPT ![m].addr = addr]
    BY <1>2, <1>4
  <2>3. DOMAIN secs' = DOMAIN secs
    BY <2>1, <2>2, AddressKeepsObject
  <2>4. secs'[m].addr = addr
    <3>1. secs \in Seq(Section(Names)) /\ secs[m] \in Section(Names)
      BY <1>3, <2>1
    <3>2. secs'[m] = [secs[m] EXCEPT !.addr = addr]
      BY <2>1, <2>2, <3>1
    <3> QED
      BY <3>1, <3>2 DEF Section
  <2>5. ASSUME NEW e \in DOMAIN secs
        PROVE  /\ secs'[e].name = secs[e].name /\ secs'[e].alloc = secs[e].alloc
               /\ secs'[e].data = secs[e].data
               /\ e # m => secs'[e] = secs[e]
    BY <2>1, <2>2, AddressKeepsObject
  <2> QED
    BY <2>3, <2>4, <2>5
<1>6. \A d \in DOMAIN secs :
        /\ Requested(d)' <=> Requested(d)
        /\ d # m => EndOf(d)' = EndOf(d) /\ secs'[d].addr = secs[d].addr
  BY <1>1, <1>5 DEF Requested, PlaceRequest, EndOf
<1>7. \A d \in DOMAIN secs : d # m => (Placed(d)' <=> Placed(d)) /\ (Placed(d) => d < m)
  BY <1>1, <1>3, <1>5 DEF Placed
<1>8. Placed(m)' /\ ~Placed(m)
  <2>1. secs'[m].alloc
    BY <1>1, <1>5 DEF PlaceSection
  <2> QED
    BY <1>1, <2>1 DEF Placed
<1>9. EndOf(m)' = addr + len
  <2>1. secs'[m].addr = addr /\ Len(secs'[m].data) = len
    BY <1>1, <1>5 DEF len
  <2> QED
    BY <2>1 DEF EndOf
<1>10. SUFFICES ASSUME FitsAddressSpace' PROVE Unplaced' /\ NextIsFree'
  BY <1>1 DEF PlacementInv
<1>11. FitsAddressSpace
  BY <1>5, <1>6, <1>7, <1>8, <1>10 DEF FitsAddressSpace
<1>12. Unplaced /\ NextIsFree
  BY <1>11 DEF PlacementInv
<1>13. addr + len <= AddrMod - LinkPage
  <2>1. m \in DOMAIN secs' /\ Placed(m)'
    BY <1>1, <1>5, <1>8
  <2>2. EndOf(m)' <= AddrMod - LinkPage
    BY <1>10, <2>1 DEF FitsAddressSpace
  <2> QED
    BY <1>9, <2>2
<1>14. (addr + len) % AddrMod = addr + len
  BY <1>2, <1>3, <1>13, AddressSpace, LinkLayoutAssumption, SMT
<1>15. /\ next' % LinkPage = 0 /\ next' >= addr + len /\ next' >= next
       /\ next' \in Nat
  <2>1. next % LinkPage = 0
    BY <1>1, <1>12 DEF NextIsFree
  <2>2. addr + len \in Nat
    BY <1>2, <1>3
  <2>3. next' \in Nat
    BY <1>1, <1>4, <1>14, <2>2, NextFreeInRange, AddressSpace
  <2> QED
    BY <1>1, <1>4, <1>13, <1>14, <2>1, <2>2, <2>3, NextFreeIsPast
<1>16. \A a \in DOMAIN secs : Placed(a) => EndOf(a) \in Int /\ EndOf(a) <= next
  <2> SUFFICES ASSUME NEW a \in DOMAIN secs, Placed(a)
               PROVE  EndOf(a) \in Int /\ EndOf(a) <= next
    OBVIOUS
  <2>1. secs[a] \in Section(Names)
    BY <1>3
  <2>2. secs[a].addr \in Nat /\ secs[a].data \in Seq(Seq(Nat))
    BY <2>1 DEF Section
  <2>3. EndOf(a) \in Int
    BY <2>2 DEF EndOf
  <2> QED
    BY <1>1, <1>12, <2>3 DEF NextIsFree
<1>17. NextIsFree'
  <2> SUFFICES ASSUME NEW a \in DOMAIN secs, Placed(a)'
               PROVE  EndOf(a)' <= next'
    BY <1>5, <1>15 DEF NextIsFree
  <2>1. CASE a = m
    BY <1>9, <1>15, <2>1
  <2>2. CASE a # m
    <3>1. EndOf(a)' = EndOf(a) /\ EndOf(a) \in Int /\ EndOf(a) <= next
      BY <1>6, <1>7, <1>16, <2>2
    <3> QED
      BY <1>1, <1>15, <3>1
  <2> QED
    BY <2>1, <2>2
<1>18. ASSUME NEW b \in DOMAIN secs, Placed(b)', ~Requested(b)'
       PROVE  /\ secs'[b].addr % LinkPage = 0
              /\ \A a \in 1..(b - 1) : Placed(a)' => EndOf(a)' <= secs'[b].addr
  <2>1. \A a \in 1..(b - 1) : a \in DOMAIN secs /\ a # b
    BY <1>3, LenProperties
  <2>2. CASE b = m
    BY <1>1, <1>2, <1>5, <1>6, <1>7, <1>12, <1>16, <1>18, <2>1, <2>2 DEF NextIsFree
  <2>3. CASE b # m
    <3>1. b < m /\ Placed(b) /\ ~Requested(b)
      BY <1>6, <1>7, <1>18, <2>3
    <3>2. \A a \in 1..(b - 1) : a # m
      BY <1>1, <1>3, <3>1, LenProperties
    <3> QED
      BY <1>6, <1>7, <1>12, <2>1, <2>3, <3>1, <3>2 DEF Unplaced
  <2> QED
    BY <2>2, <2>3
<1>19. Unplaced'
  BY <1>5, <1>18 DEF Unplaced
<1> QED
  BY <1>17, <1>19

LEMMA ApplyRelocPlaces ==
  ASSUME ExecTyped, PlacementInv, ApplyReloc
  PROVE  PlacementInv'
<1>1. secs \in Seq(Section(Names)) /\ pc = "apply"
  BY ObjectParts DEF ExecTyped, ExecTypeOK, ApplyReloc, AtReloc
<1>2. \A d \in DOMAIN secs : Placed(d)' <=> Placed(d)
  BY <1>1, ApplyRelocEffect DEF Placed
<1> QED
  BY <1>1, <1>2, ApplyRelocEffect, SamePlacement

LEMMA PlacementStep == ExecTyped /\ PlacementInv /\ [ExecNext]_execVars => PlacementInv'
<1> SUFFICES ASSUME ExecTyped, PlacementInv, [ExecNext]_execVars
             PROVE  PlacementInv'
  OBVIOUS
<1>0. secs \in Seq(Section(Names)) /\ i \in Nat \ {0}
  BY ObjectParts DEF ExecTyped, ExecTypeOK
<1>1. CASE KeepRelocatable
  BY <1>1, NothingPlaced DEF KeepRelocatable, Placed, PlacementInv
<1>2. CASE StartPlacing
  <2>1. \A d \in DOMAIN secs : ~Placed(d)'
    BY <1>0, <1>2 DEF StartPlacing, Placed
  <2>2. next' % LinkPage = 0
    BY <1>2, NextPageIsPage, LinkLayoutAssumption DEF StartPlacing
  <2>3. secs' = secs /\ pc' = "place"
    BY <1>2 DEF StartPlacing
  <2> QED
    BY <2>1, <2>2, <2>3 DEF PlacementInv, Unplaced, NextIsFree
<1>3. CASE SkipSection
  BY <1>0, <1>3, SamePlacement DEF SkipSection, Placed
<1>4. CASE PlaceSection
  BY <1>4, PlaceSectionPlaces
<1>5. CASE PlacingDone
  BY <1>0, <1>5, SamePlacement DEF PlacingDone, Placed
<1>6. CASE CheckDefined
  BY <1>0, <1>6, SamePlacement DEF CheckDefined, Placed
<1>7. CASE UndefinedSymbol \/ UndefinedEntry \/ UnsupportedReloc
  BY <1>7, NothingPlaced DEF UndefinedSymbol, UndefinedEntry, UnsupportedReloc, Abort, Placed
<1>8. CASE SetEntry
  BY <1>0, <1>8, SamePlacement DEF SetEntry, Placed
<1>9. CASE ApplyReloc
  BY <1>9, ApplyRelocPlaces
<1>10. CASE NextApplySection
  BY <1>0, <1>10, SamePlacement DEF NextApplySection, Placed
<1>11. CASE ApplyDone
  BY <1>0, <1>11, SamePlacement DEF ApplyDone, Placed
<1>12. CASE UNCHANGED execVars
  <2>1. CASE pc = "merged"
    BY <1>12, <2>1 DEF execVars, PlacementInv, Unplaced, NextIsFree, Placed
  <2>2. CASE pc # "merged"
    BY <1>0, <1>12, <2>2, SamePlacement DEF execVars, Placed
  <2> QED
    BY <2>1, <2>2
<1> QED
  BY <1>1, <1>2, <1>3, <1>4, <1>5, <1>6, <1>7, <1>8, <1>9, <1>10, <1>11, <1>12 DEF ExecNext

(* A section without a -place request gets a whole free page: past the end *)
(* of everything placed before it, as long as the image stays clear of the *)
(* last page of the address space.                                         *)
THEOREM UnplacedFree == ExecSpec => []UnplacedIsFree
<1>1. ExecInit => PlacementInv
  BY DEF ExecInit, ExecVarsInit, PlacementInv, Unplaced, NextIsFree, Placed
<1>2. ExecTyped /\ [ExecNext]_execVars => ExecTyped'
  BY ExecTypedStep
<1>3. PlacementInv => UnplacedIsFree
  BY DEF PlacementInv, Unplaced, UnplacedIsFree
<1> QED
  BY ExecInitTyped, <1>1, <1>2, <1>3, PlacementStep, PTL DEF ExecSpec

(* Without a -place option no byte of the image belongs to two sections,   *)
(* whatever the sections' names, sizes and order.                          *)
THEOREM NoOverlap == ExecSpec => []NoOverlapUnrequested
<1>1. ExecTypeOK /\ UnplacedIsFree => NoOverlapUnrequested
  <2> SUFFICES ASSUME ExecTypeOK, UnplacedIsFree, FitsAddressSpace, opts.places = << >>,
                      NEW a \in DOMAIN secs, NEW b \in DOMAIN secs,
                      a # b, Placed(a), Placed(b)
               PROVE  ~Overlap(a, b)
    BY DEF NoOverlapUnrequested
  <2>1. secs \in Seq(Section(Names))
    BY ObjectParts DEF ExecTypeOK
  <2>2. a \in Nat /\ b \in Nat /\ a >= 1 /\ b >= 1
    BY <2>1
  <2>3. ~Requested(a) /\ ~Requested(b)
    BY DEF Requested, PlaceRequest, First
  <2>4. /\ a < b => EndOf(a) <= secs[b].addr
        /\ b < a => EndOf(b) <= secs[a].addr
    BY <2>2, <2>3 DEF UnplacedIsFree
  <2>5. secs[a] \in Section(Names) /\ secs[b] \in Section(Names)
    BY <2>1
  <2>6. /\ secs[a].addr \in Nat /\ secs[a].data \in Seq(Seq(Nat))
        /\ secs[b].addr \in Nat /\ secs[b].data \in Seq(Seq(Nat))
    BY <2>5 DEF Section
  <2>7. EndOf(a) \in Nat /\ EndOf(b) \in Nat
    BY <2>6 DEF EndOf
  <2> QED
    BY <2>2, <2>4, <2>6, <2>7 DEF Overlap
<1> QED
  BY <1>1, ExecTypeCorrect, UnplacedFree, PTL
=============================================================================
