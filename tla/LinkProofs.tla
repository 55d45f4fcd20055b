----------------------------- MODULE LinkProofs -----------------------------
(***************************************************************************)
(* Proofs about whole links and the tools that make them.  What Link_Merge *)
(* established is still true when Link_Exec has placed and relocated the   *)
(* merged object, and the relocated fields arrive at their symbols.        *)
(* Link_Run does what LinkAbs promises: it fails for the reasons LinkAbs   *)
(* gives and no others, and links an image LinkAbs calls correct.  A tool  *)
(* that fails leaves no half of an output, one that succeeds delivers.     *)
(***************************************************************************)
EXTENDS Drivers, LinkMergeProofs

(* What is proved of Link_Exec holds of it as a part of the link. *)
Ex == INSTANCE LinkExecProofs WITH MergedObjects <- {}

LEMMA ExByteBase == Ex!ByteBaseAssumption
BY LinkAssumption DEF Ex!ByteBaseAssumption, Ex!Modulus, Exec!Modulus

LEMMA ExLayout == Ex!LinkLayoutAssumption
BY LinkAssumption DEF Ex!LinkLayoutAssumption, Ex!Modulus, Exec!Modulus

LEMMA ExOptions == Ex!LinkOptionsAssumption
BY LinkAssumption DEF Ex!LinkOptionsAssumption, Ex!Requests, Exec!Requests

LEMMA ExObjects == Ex!MergedObjectsAssumption
BY DEF Ex!MergedObjectsAssumption

(* The two names of each action mean the same. *)
LEMMA SameSteps ==
  /\ Exec!KeepRelocatable <=> Ex!KeepRelocatable
  /\ Exec!StartPlacing <=> Ex!StartPlacing
  /\ Exec!SkipSection <=> Ex!SkipSection
  /\ Exec!PlaceSection <=> Ex!PlaceSection
  /\ Exec!PlacingDone <=> Ex!PlacingDone
  /\ Exec!CheckDefined <=> Ex!CheckDefined
  /\ Exec!UndefinedSymbol <=> Ex!UndefinedSymbol
  /\ Exec!SetEntry <=> Ex!SetEntry
  /\ Exec!UndefinedEntry <=> Ex!UndefinedEntry
  /\ Exec!ApplyReloc <=> Ex!ApplyReloc
  /\ Exec!UnsupportedReloc <=> Ex!UnsupportedReloc
  /\ Exec!NextApplySection <=> Ex!NextApplySection
  /\ Exec!ApplyDone <=> Ex!ApplyDone
<1>1. Exec!KeepRelocatable <=> Ex!KeepRelocatable
  BY DEF Exec!KeepRelocatable, Ex!KeepRelocatable
<1>2. Exec!StartPlacing <=> Ex!StartPlacing
  BY DEF Exec!StartPlacing, Ex!StartPlacing
<1>3. Exec!SkipSection <=> Ex!SkipSection
  BY DEF Exec!SkipSection, Ex!SkipSection
<1>4. Exec!PlaceSection <=> Ex!PlaceSection
  BY DEF Exec!PlaceSection, Ex!PlaceSection, Exec!PlacedAddr, Ex!PlacedAddr, Exec!PlaceRequest,
         Ex!PlaceRequest, Exec!AddrMod, Ex!AddrMod, Exec!NextFree, Ex!NextFree,
         Exec!RoundUp, Ex!RoundUp, Exec!Modulus, Ex!Modulus, Exec!First, Ex!First, Exec!Min, Ex!Min
<1>5. Exec!PlacingDone <=> Ex!PlacingDone
  BY DEF Exec!PlacingDone, Ex!PlacingDone
<1>6. Exec!AllDefined <=> Ex!AllDefined
  BY DEF Exec!AllDefined, Ex!AllDefined, Exec!Defined, Ex!Defined
<1>7. Exec!CheckDefined <=> Ex!CheckDefined
  BY <1>6 DEF Exec!CheckDefined, Ex!CheckDefined
<1>8. Exec!UndefinedSymbol <=> Ex!UndefinedSymbol
  BY <1>6 DEF Exec!UndefinedSymbol, Ex!UndefinedSymbol, Exec!Abort, Ex!Abort
<1>9. Exec!EntrySymbol = Ex!EntrySymbol
  BY DEF Exec!EntrySymbol, Ex!EntrySymbol, Exec!SymbolFind, Ex!SymbolFind, Exec!First, Ex!First, Exec!Min, Ex!Min
<1>10. Exec!SetEntry <=> Ex!SetEntry
  BY <1>9 DEF Exec!SetEntry, Ex!SetEntry, Exec!Defined, Ex!Defined, Exec!SymbolAddr, Ex!SymbolAddr,
              Exec!Modulus, Ex!Modulus
<1>11. Exec!UndefinedEntry <=> Ex!UndefinedEntry
  BY <1>9 DEF Exec!UndefinedEntry, Ex!UndefinedEntry, Exec!Defined, Ex!Defined, Exec!Abort, Ex!Abort
<1>12. Exec!AtReloc <=> Ex!AtReloc
  BY DEF Exec!AtReloc, Ex!AtReloc
<1>13. Exec!Supported = Ex!Supported
  BY DEF Exec!Supported, Ex!Supported, Exec!PcRelative, Ex!PcRelative, Exec!Absolute32, Ex!Absolute32
<1>14. Exec!ApplyReloc <=> Ex!ApplyReloc
  BY <1>12, <1>13 DEF Exec!ApplyReloc, Ex!ApplyReloc, Exec!Relocated, Ex!Relocated,
         Exec!SymbolAddr, Ex!SymbolAddr, Exec!PatchLE, Ex!PatchLE, Exec!FieldValue, Ex!FieldValue,
         Exec!Width, Ex!Width, Exec!PcRelative, Ex!PcRelative, Exec!Modulus, Ex!Modulus,
         Exec!Byte, Ex!Byte
<1>15. Exec!UnsupportedReloc <=> Ex!UnsupportedReloc
  BY <1>12, <1>13 DEF Exec!UnsupportedReloc, Ex!UnsupportedReloc, Exec!Abort, Ex!Abort
<1>16. Exec!NextApplySection <=> Ex!NextApplySection
  BY DEF Exec!NextApplySection, Ex!NextApplySection
<1>17. Exec!ApplyDone <=> Ex!ApplyDone
  BY DEF Exec!ApplyDone, Ex!ApplyDone
<1> QED
  BY <1>1, <1>2, <1>3, <1>4, <1>5, <1>7, <1>8, <1>10, <1>11, <1>14, <1>15, <1>16, <1>17

LEMMA FinishingStep == Finishing => Ex!ExecNext /\ UNCHANGED <<units, k, maps>>
BY SameSteps DEF Finishing, Exec!ExecNext, Ex!ExecNext

LEMMA ExAssumptions ==
  /\ Ex!ByteBaseAssumption /\ Ex!LinkLayoutAssumption
  /\ Ex!LinkOptionsAssumption /\ Ex!MergedObjectsAssumption
BY ExByteBase, ExLayout, ExOptions, ExObjects

-----------------------------------------------------------------------------
(* Numbers.                                                                *)

LEMMA NextDigit ==
  ASSUME NEW n \in 0..7, NEW w \in 0..8, n + 1 <= w
  PROVE  n + 1 \in 0..w /\ n + 1 # 0 /\ (n + 1) - 1 = n
OBVIOUS

(* Reading a field gives the number whose digits it holds. *)
LEMMA DecodeDigits ==
  ASSUME NEW data, NEW off, NEW width \in 0..8, NEW value \in 0..(ByteBase^width - 1),
         \A n \in 0..8 : ByteBase^n \in Nat \ {0},
         ByteBase^0 = 1,
         \A n \in 0..7 : ByteBase^(n + 1) = ByteBase * ByteBase^n,
         ByteBase \in Nat, ByteBase > 0,
         \A j \in 0..(width - 1) : data[off + 1 + j][1] = (value \div ByteBase^j) % ByteBase
  PROVE  Decode(data, off, width) = value
<1> DEFINE digit(j) == data[off + 1 + j][1] * ByteBase^j
           Sum[n \in 0..width] == IF n = 0 THEN 0 ELSE Sum[n - 1] + digit(n - 1)
           G == [n \in 0..width |-> value % ByteBase^n]
<1>1. \A n \in 0..width : G[n] = IF n = 0 THEN 0 ELSE G[n - 1] + digit(n - 1)
  <2> SUFFICES ASSUME NEW n \in 0..width
               PROVE  value % ByteBase^n = IF n = 0 THEN 0 ELSE G[n - 1] + digit(n - 1)
    OBVIOUS
  <2>1. value \in Nat
    BY ByteBase^width \in Nat
  <2>2. CASE n = 0
    BY <2>1, <2>2
  <2>3. CASE n # 0
    <3> DEFINE l == n - 1
    <3>1. l \in 0..7 /\ l \in 0..(width - 1) /\ n = l + 1 /\ l \in 0..8 /\ l \in 0..width
      BY <2>3
    <3>2. G[l] = value % ByteBase^l
      BY <3>1
    <3>3. digit(l) = ((value \div ByteBase^l) % ByteBase) * ByteBase^l
      BY <3>1
    <3>4. ByteBase^n = ByteBase * ByteBase^l
      BY <3>1
    <3> HIDE DEF l, G, digit
    <3>5. PICK m \in Nat : m > 0 /\ m = ByteBase^l
      BY <3>1
    <3>6. value % (ByteBase * m) = (value % m) + ((value \div m) % ByteBase) * m
      <4>1. value \in Int
        BY <2>1
      <4> QED
        BY <4>1, <3>5, OneDigitMore, Zenon
    <3>7. value % ByteBase^n = G[l] + digit(l)
      BY <3>2, <3>3, <3>4, <3>5, <3>6
    <3> QED
      BY <2>3, <3>7 DEF l
  <2> QED
    BY <2>2, <2>3
<1>2. Sum = [n \in 0..width |-> IF n = 0 THEN 0 ELSE Sum[n - 1] + digit(n - 1)]
  <2> HIDE DEF digit
  <2> DEFINE Def(f) == f = [n \in 0..width |-> IF n = 0 THEN 0 ELSE f[n - 1] + digit(n - 1)]
  <2>1. Def(G)
    BY <1>1
  <2>2. Sum = CHOOSE f : Def(f)
    OBVIOUS
  <2> HIDE DEF G, Sum, Def
  <2>3. Def(Sum)
    BY <2>1, <2>2
  <2> QED
    BY <2>3 DEF Def
<1> HIDE DEF Sum
<1>3. \A n \in 0..width : n # 0 /\ Sum[n - 1] = G[n - 1] => Sum[n] = G[n]
  BY <1>1, <1>2
<1>4. 0 \in 0..width /\ Sum[0] = G[0]
  BY <1>1, <1>2
<1> HIDE DEF G
<1>5. \A n \in 0..7 : n + 1 <= width /\ Sum[n] = G[n] => Sum[n + 1] = G[n + 1]
  <2> SUFFICES ASSUME NEW n \in 0..7, n + 1 <= width, Sum[n] = G[n]
               PROVE  Sum[n + 1] = G[n + 1]
    OBVIOUS
  <2>1. n + 1 \in 0..width /\ n + 1 # 0 /\ (n + 1) - 1 = n
    BY NextDigit
  <2> QED
    BY <1>3, <2>1
<1>6. Sum[width] = G[width]
  <2>1. 1 <= width => Sum[1] = G[1]
    BY <1>4, <1>5
  <2>2. 2 <= width => Sum[2] = G[2]
    BY <1>5, <2>1
  <2>3. 3 <= width => Sum[3] = G[3]
    BY <1>5, <2>2
  <2>4. 4 <= width => Sum[4] = G[4]
    BY <1>5, <2>3
  <2>5. 5 <= width => Sum[5] = G[5]
    BY <1>5, <2>4
  <2>6. 6 <= width => Sum[6] = G[6]
    BY <1>5, <2>5
  <2>7. 7 <= width => Sum[7] = G[7]
    BY <1>5, <2>6
  <2>8. 8 <= width => Sum[8] = G[8]
    BY <1>5, <2>7
  <2> QED
    BY <1>4, <2>1, <2>2, <2>3, <2>4, <2>5, <2>6, <2>7, <2>8
<1>7. G[width] = value
  <2>1. PICK m \in Nat \ {0} : m = ByteBase^width
    OBVIOUS
  <2>2. value % m = value
    <3>1. m \in Nat /\ value \in 0..(m - 1)
      BY <2>1
    <3> QED
      BY <3>1, SmallRemainder, Zenon
  <2>3. G[width] = value % m
    <3>1. G[width] = value % ByteBase^width
      <4>1. width \in 0..width
        OBVIOUS
      <4> HIDE DEF digit
      <4> QED
        BY <4>1, Zenon DEF G
    <3> QED
      BY <2>1, <3>1
  <2> QED
    BY <2>2, <2>3
<1>8. Decode(data, off, width) = Sum[width]
  BY DEF Decode, Sum
<1> QED
  BY <1>6, <1>7, <1>8

-----------------------------------------------------------------------------
(* Types.                                                                  *)

MergePhases  == {"read", "sections", "symbols", "relocs", "merged"}
FinishPhases == {"merged", "place", "check", "entry", "apply", "linked"}

(* Each half of the link keeps its types; the merged object suits both.    *)
LinkTyped ==
  /\ pc \in MergePhases \union FinishPhases \union {"failed"}
  /\ pc # "failed" => err = "none"
  /\ pc \in MergePhases =>
       /\ MergeTyped
       /\ opts \in LinkOptions /\ next = 0 /\ entry = 0 /\ etype = "REL"
  /\ pc \in FinishPhases => Ex!ExecTyped

(* What is merged can be given to Link_Exec. *)
ReadyToFinish ==
  /\ MergeTyped /\ pc = "merged" /\ err = "none"
  /\ opts \in LinkOptions /\ next = 0 /\ entry = 0 /\ etype = "REL"

LEMMA MergedIsTyped == ReadyToFinish => Ex!ExecTyped
<1> SUFFICES ASSUME ReadyToFinish PROVE Ex!ExecTyped
  OBVIOUS
<1>0. /\ pc = "merged" /\ err = "none" /\ opts \in LinkOptions
      /\ next = 0 /\ entry = 0 /\ etype = "REL"
  BY DEF ReadyToFinish
<1>1. [secs |-> secs, syms |-> syms] \in Objects /\ i \in Nat \ {0} /\ r \in Nat \ {0}
  BY DEF ReadyToFinish, MergeTyped, MergeTypeOK
<1>2. [secs |-> secs, syms |-> syms] \in Ex!Object(Names)
  BY <1>1 DEF Objects, Object, Ex!Object, Section, Ex!Section, Symbol, Ex!Symbol, Rela, Ex!Rela,
              Binds, Ex!Binds, Locals, Ex!Locals, Globals, Ex!Globals
<1>3. next \in 0..(Ex!AddrMod - 1) /\ entry \in Nat
  <2>1. Ex!AddrMod \in Nat /\ Ex!AddrMod > 0
    BY Ex!AddressSpace, ExAssumptions
  <2> QED
    BY <1>0, <2>1
<1>4. err \in Ex!Reports
  BY <1>0 DEF Ex!Reports
<1> QED
  BY <1>0, <1>1, <1>2, <1>3, <1>4 DEF Ex!ExecTyped, Ex!ExecTypeOK, Ex!Checked

LEMMA MergedIsTypedNext == ReadyToFinish' => Ex!ExecTyped'
BY MergedIsTyped, PTL

LEMMA LinkInitTyped == LinkInit => LinkTyped
<1> SUFFICES ASSUME LinkInit PROVE LinkTyped
  OBVIOUS
<1>1. pc = "read" /\ err = "none" /\ MergeTyped
  BY MergeInitTyped DEF LinkInit, MergeInit
<1>2. opts \in LinkOptions /\ next = 0 /\ entry = 0 /\ etype = "REL"
  BY DEF LinkInit, Exec!ExecVarsInit
<1> QED
  BY <1>1, <1>2 DEF LinkTyped, MergePhases, FinishPhases

LEMMA MergePhaseStep ==
  ASSUME MergeNext
  PROVE  /\ pc \in MergePhases \ {"merged"}
         /\ pc' \in MergePhases \/ pc' = "failed"
         /\ pc' # "failed" => err' = err
         /\ units' = units
BY DEF MergePhases, MergeNext, Fail, ReadObject, CannotRead, MergeDone, MergeSection, SectionsDone,
       AddSymbol, ReferGlobal, DefineGlobal, MapSymbol, AtSymbol, MultipleDefinition, SymbolsDone,
       MergeReloc, CarryReloc, NextRelocSection, RelocsDone

LEMMA FinishPhaseStep ==
  ASSUME Ex!ExecNext
  PROVE  /\ pc \in FinishPhases \ {"linked"}
         /\ pc' \in FinishPhases \ {"merged"} \/ pc' = "failed"
         /\ pc' # "failed" => err' = err
         /\ UNCHANGED <<opts, syms>>
BY DEF FinishPhases, Ex!ExecNext, Ex!Abort, Ex!AtReloc, Ex!KeepRelocatable, Ex!StartPlacing,
       Ex!SkipSection, Ex!PlaceSection, Ex!PlacingDone, Ex!CheckDefined, Ex!UndefinedSymbol,
       Ex!SetEntry, Ex!UndefinedEntry, Ex!ApplyReloc, Ex!UnsupportedReloc, Ex!NextApplySection,
       Ex!ApplyDone

LEMMA LinkTypedStep == LinkTyped /\ [LinkNext]_linkVars => LinkTyped'
<1> SUFFICES ASSUME LinkTyped, [LinkNext]_linkVars PROVE LinkTyped'
  OBVIOUS
<1>1. CASE Merging
  <2>1. MergeNext /\ UNCHANGED execOnly
    BY <1>1 DEF Merging
  <2>2. /\ pc \in MergePhases \ {"merged"}
        /\ pc' \in MergePhases \/ pc' = "failed"
        /\ pc' # "failed" => err' = err
    BY <2>1, MergePhaseStep
  <2>3. /\ MergeTyped /\ opts \in LinkOptions /\ next = 0 /\ entry = 0 /\ etype = "REL"
        /\ err = "none"
    BY <2>2 DEF LinkTyped, MergePhases
  <2>4. /\ MergeTyped' /\ opts' \in LinkOptions /\ next' = 0 /\ entry' = 0 /\ etype' = "REL"
    BY <2>1, <2>3, MergeTypedStep DEF execOnly
  <2>5. ASSUME pc' = "merged" PROVE Ex!ExecTyped'
    <3>1. err' = "none"
      BY <2>2, <2>3, <2>5
    <3> QED
      BY <2>4, <2>5, <3>1, MergedIsTypedNext DEF ReadyToFinish
  <2> QED
    BY <2>2, <2>3, <2>4, <2>5 DEF LinkTyped, MergePhases, FinishPhases
<1>2. CASE Finishing
  <2>1. Ex!ExecNext
    BY <1>2, FinishingStep
  <2>2. /\ pc \in FinishPhases \ {"linked"}
        /\ pc' \in FinishPhases \ {"merged"} \/ pc' = "failed"
        /\ pc' # "failed" => err' = err
    BY <2>1, FinishPhaseStep
  <2>3. Ex!ExecTyped /\ err = "none"
    BY <2>2 DEF LinkTyped, FinishPhases
  <2>4. Ex!ExecTyped'
    BY <2>1, <2>3, Ex!ExecTypedStep, ExAssumptions
  <2> QED
    BY <2>2, <2>3, <2>4 DEF LinkTyped, MergePhases, FinishPhases
<1>3. CASE UNCHANGED linkVars
  <2>1. UNCHANGED mergeVars /\ UNCHANGED execOnly
    BY <1>3 DEF linkVars
  <2>2. MergeTyped => MergeTyped'
    BY <2>1, MergeTypedStep
  <2>3. Ex!ExecTyped => Ex!ExecTyped'
    <3>1. UNCHANGED Ex!execVars
      BY <2>1 DEF Ex!execVars, mergeVars, execOnly
    <3> QED
      BY <3>1, Ex!ExecTypedStep, ExAssumptions
  <2> QED
    BY <2>1, <2>2, <2>3 DEF LinkTyped, mergeVars, execOnly
<1> QED
  BY <1>1, <1>2, <1>3 DEF LinkNext

-----------------------------------------------------------------------------
(* Link_Exec moves sections and patches bytes.                             *)

(* All that Link_Exec leaves of the merged object. *)
LEMMA FinishingKeeps ==
  ASSUME Ex!ExecTyped, Ex!ExecNext
  PROVE  /\ DOMAIN secs' = DOMAIN secs /\ syms' = syms
         /\ \A d \in DOMAIN secs :
              /\ secs'[d].relas = secs[d].relas /\ secs'[d].name = secs[d].name
              /\ Len(secs'[d].data) = Len(secs[d].data)
              /\ secs'[d].data = secs[d].data \/ (Ex!ApplyReloc /\ d = i)
<1>1. CASE Ex!ApplyReloc
  BY <1>1, Ex!ApplyRelocEffect, ExAssumptions
<1>2. CASE Ex!PlaceSection
  <2> DEFINE addr == Ex!PlacedAddr(secs[i].name)
  <2>1. /\ secs' = [secs EXCEPT ![i].addr = addr] /\ syms' = syms
        /\ i <= Len(secs)
    BY <1>2 DEF Ex!PlaceSection
  <2>2. /\ [secs |-> secs, syms |-> syms] \in Ex!Object(Names) /\ i \in Nat \ {0}
        /\ opts \in LinkOptions /\ next \in Nat
    <3>1. /\ [secs |-> secs, syms |-> syms] \in Ex!Object(Names) /\ i \in Nat \ {0}
          /\ opts \in LinkOptions /\ next \in 0..(Ex!AddrMod - 1)
      BY DEF Ex!ExecTyped, Ex!ExecTypeOK
    <3>2. Ex!AddrMod \in Nat
      BY Ex!AddressSpace, ExAssumptions
    <3> QED
      BY <3>1, <3>2
  <2>3. i \in DOMAIN secs
    <3>1. secs \in Seq(Ex!Section(Names))
      BY <2>2 DEF Ex!Object
    <3> QED
      BY <2>1, <2>2, <3>1
  <2>4. addr \in Nat
    BY <2>2, Ex!PlacedAddrIsAddress, ExAssumptions
  <2> HIDE DEF addr
  <2>5. /\ DOMAIN secs' = DOMAIN secs
        /\ \A d \in DOMAIN secs :
             /\ secs'[d].relas = secs[d].relas /\ secs'[d].name = secs[d].name
             /\ secs'[d].data = secs[d].data
    BY <2>1, <2>2, <2>3, <2>4, Ex!AddressKeepsObject
  <2> QED
    BY <2>1, <2>5
<1>3. CASE UNCHANGED <<secs, syms>>
  BY <1>3
<1>4. Ex!ApplyReloc \/ Ex!PlaceSection \/ UNCHANGED <<secs, syms>>
  BY DEF Ex!ExecNext, Ex!Abort, Ex!KeepRelocatable, Ex!StartPlacing, Ex!SkipSection,
         Ex!PlacingDone, Ex!CheckDefined, Ex!UndefinedSymbol, Ex!SetEntry, Ex!UndefinedEntry,
         Ex!UnsupportedReloc, Ex!NextApplySection, Ex!ApplyDone
<1> QED
  BY <1>1, <1>2, <1>3, <1>4

FieldWidth(type) == IF type = "64" THEN 8 ELSE 4

(* Outside of the field it writes, a patch changes nothing. *)
LEMMA PatchOnlyField ==
  ASSUME Ex!ExecTyped, Ex!ApplyReloc, NEW n \in DOMAIN secs[i].data,
         n \notin (secs[i].relas[r].off + 1)..(secs[i].relas[r].off + FieldWidth(secs[i].relas[r].type))
  PROVE  secs'[i].data[n] = secs[i].data[n]
<1>1. secs'[i].data = Ex!PatchLE(secs[i].data, secs[i].relas[r].off, Ex!Patching,
                                 Ex!Width(secs[i].relas[r].type))
  BY Ex!ApplyRelocEffect, ExAssumptions
<1>2. Ex!Width(secs[i].relas[r].type) = FieldWidth(secs[i].relas[r].type)
  BY DEF Ex!Width, FieldWidth
<1> QED
  BY <1>1, <1>2 DEF Ex!PatchLE

-----------------------------------------------------------------------------
(* What the merge leaves for good.                                         *)

(* Every input section has its place, inside the output section and apart  *)
(* from every other, and the output's relocations are the inputs' ones,    *)
(* each once.                                                              *)
LaidOut ==
  /\ \A d \in DOMAIN secs : secs[d].relas \in Seq(Rela) /\ secs[d].data \in Seq(Seq(Nat))
  /\ \A p \in InputPieces : p = <<p[1], p[2]>> /\ Mapped(p[1], p[2])
  /\ \A o, s : Mapped(o, s) =>
       /\ maps[o].sec[s] \in DOMAIN secs /\ maps[o].base[s] \in Nat
       /\ units[o].secs[s].data \in Seq(Seq(Nat))
       /\ maps[o].base[s] + Len(units[o].secs[s].data) <= Len(secs[maps[o].sec[s]].data)
  /\ \A o, s, o2, s2 :
       Mapped(o, s) /\ Mapped(o2, s2) /\ (o # o2 \/ s # s2) => PiecesApart(o, s, o2, s2)
  /\ \A f : Carries(f) => RelaOf(f) \in Rela
  /\ \A d \in DOMAIN secs :
       /\ IsFiniteSet({f \in Carried : OutOf(f) = d})
       /\ Len(secs[d].relas) = Cardinality({f \in Carried : OutOf(f) = d})
       /\ \A f \in {g \in Carried : OutOf(g) = d} :
            \E q \in DOMAIN secs[d].relas : secs[d].relas[q] = CarriedAs(f)
       /\ \A q \in DOMAIN secs[d].relas :
            \E f \in {g \in Carried : OutOf(g) = d} : secs[d].relas[q] = CarriedAs(f)

(* The bytes of its input section that relocation f patches. *)
Field(f) == (RelaOf(f).off + 1)..(RelaOf(f).off + FieldWidth(RelaOf(f).type))

(* Byte j of section s of object o lies in the field of some relocation. *)
Hit(o, s, j) ==
  \E f \in Carried : OutOf(f) = maps[o].sec[s] /\ maps[o].base[s] + j - BaseOf(f) \in Field(f)

(* A byte that no relocation is to patch is what it was. *)
BytesInv ==
  \A o, s : Mapped(o, s) =>
    \A j \in 1..Len(units[o].secs[s].data) :
      ~Hit(o, s, j) =>
        secs[maps[o].sec[s]].data[maps[o].base[s] + j] = units[o].secs[s].data[j]

LEMMA LinkedSections ==
  ASSUME LaidOut, NEW d \in DOMAIN secs
  PROVE  /\ secs[d].relas \in Seq(Rela) /\ secs[d].data \in Seq(Seq(Nat))
         /\ DOMAIN secs[d].relas = 1..Len(secs[d].relas) /\ Len(secs[d].relas) \in Nat
         /\ DOMAIN secs[d].data = 1..Len(secs[d].data) /\ Len(secs[d].data) \in Nat
<1>1. secs[d].relas \in Seq(Rela) /\ secs[d].data \in Seq(Seq(Nat))
  BY DEF LaidOut
<1> QED
  BY <1>1

SectionsTyped ==
  \A d \in DOMAIN secs : secs[d].relas \in Seq(Rela) /\ secs[d].data \in Seq(Seq(Nat))

LEMMA ExecSections == Ex!ExecTyped => SectionsTyped
<1> SUFFICES ASSUME Ex!ExecTyped, NEW d \in DOMAIN secs
             PROVE  secs[d].relas \in Seq(Rela) /\ secs[d].data \in Seq(Seq(Nat))
  BY DEF SectionsTyped
<1>1. secs \in Seq(Ex!Section(Names))
  BY DEF Ex!ExecTyped, Ex!ExecTypeOK, Ex!Object
<1>2. secs[d] \in Ex!Section(Names)
  BY <1>1
<1> QED
  BY <1>2 DEF Ex!Section, Ex!Rela, Rela

LEMMA ExecSectionsNext == Ex!ExecTyped' => SectionsTyped'
BY ExecSections, PTL

LEMMA MergedLaidOut ==
  ASSUME MergeTyped, ContentsInv, RelocsInv, pc = "merged"
  PROVE  LaidOut /\ BytesInv
<1>1. ASSUME NEW p \in InputPieces
      PROVE  p = <<p[1], p[2]>> /\ Mapped(p[1], p[2])
  <2>1. PICK o \in DOMAIN maps : p \in {o} \X DOMAIN units[o].secs
    BY DEF InputPieces
  <2>2. p = <<p[1], p[2]>> /\ p[1] = o /\ p[2] \in DOMAIN units[o].secs
    BY <2>1
  <2>3. DOMAIN maps[o].sec = DOMAIN units[o].secs
    BY AllWhole
  <2> QED
    BY <2>2, <2>3 DEF Mapped
<1>2. ASSUME NEW o, NEW s, Mapped(o, s)
      PROVE  /\ maps[o].sec[s] \in DOMAIN secs /\ maps[o].base[s] \in Nat
             /\ units[o].secs[s].data \in Seq(Seq(Nat))
             /\ maps[o].base[s] + Len(units[o].secs[s].data) <= Len(secs[maps[o].sec[s]].data)
  <2>1. PieceKept(o, s)
    BY <1>2 DEF ContentsInv
  <2> QED
    BY <1>2, <2>1, MappedFacts DEF PieceKept
<1>3. \A f : Carries(f) => RelaOf(f) \in Rela
  BY CarriesFacts
<1>4. ASSUME NEW d \in DOMAIN secs
      PROVE  /\ IsFiniteSet({f \in Carried : OutOf(f) = d})
             /\ Len(secs[d].relas) = Cardinality({f \in Carried : OutOf(f) = d})
             /\ \A f \in {g \in Carried : OutOf(g) = d} :
                  \E q \in DOMAIN secs[d].relas : secs[d].relas[q] = CarriedAs(f)
             /\ \A q \in DOMAIN secs[d].relas :
                  \E f \in {g \in Carried : OutOf(g) = d} : secs[d].relas[q] = CarriedAs(f)
  <2>1. \A f \in Carried : Past(f)
    BY AllPast
  <2>2. DoneIn(d) = {f \in Carried : OutOf(f) = d}
    BY <2>1 DEF DoneIn, Done
  <2> QED
    BY <2>2 DEF RelocsInv
<1>5. \A o, s, o2, s2 :
        Mapped(o, s) /\ Mapped(o2, s2) /\ (o # o2 \/ s # s2) => PiecesApart(o, s, o2, s2)
  BY DEF ContentsInv
<1>8. ASSUME NEW d \in DOMAIN secs
      PROVE  secs[d].relas \in Seq(Rela) /\ secs[d].data \in Seq(Seq(Nat))
  <2>1. secs \in Seq(Section(Names))
    BY TypedFacts
  <2>2. secs[d] \in Section(Names)
    BY <2>1
  <2> QED
    BY <2>2 DEF Section
<1>6. LaidOut
  BY <1>1, <1>2, <1>3, <1>4, <1>5, <1>8 DEF LaidOut
<1>7. BytesInv
  <2> SUFFICES ASSUME NEW o, NEW s, Mapped(o, s), NEW j \in 1..Len(units[o].secs[s].data),
                      ~Hit(o, s, j)
               PROVE  secs[maps[o].sec[s]].data[maps[o].base[s] + j] = units[o].secs[s].data[j]
    BY DEF BytesInv
  <2>1. PieceKept(o, s)
    BY DEF ContentsInv
  <2> QED
    BY <2>1 DEF PieceKept
<1> QED
  BY <1>6, <1>7

LEMMA MergedLaidOutNext == (MergeTyped /\ ContentsInv /\ RelocsInv /\ pc = "merged")' => LaidOut' /\ BytesInv'
<1>1. MergeTyped /\ ContentsInv /\ RelocsInv /\ pc = "merged" => LaidOut /\ BytesInv
  BY MergedLaidOut
<1> QED
  BY <1>1, PTL

(* Link_Exec lays nothing out anew. *)
LEMMA LaidOutStep ==
  ASSUME Ex!ExecTyped, LaidOut, Ex!ExecNext, UNCHANGED <<units, k, maps>>
  PROVE  LaidOut'
<1>1. /\ DOMAIN secs' = DOMAIN secs
      /\ \A d \in DOMAIN secs :
           secs'[d].relas = secs[d].relas /\ Len(secs'[d].data) = Len(secs[d].data)
  BY FinishingKeeps
<1>2. /\ InputPieces' = InputPieces /\ \A o, s : Mapped(o, s)' <=> Mapped(o, s)
      /\ \A f : Carries(f)' <=> Carries(f)
      /\ \A f : /\ RelaOf(f)' = RelaOf(f) /\ OutOf(f)' = OutOf(f)
                /\ CarriedAs(f)' = CarriedAs(f)
      /\ Carried' = Carried
  BY DEF InputPieces, Mapped, Carries, RelaOf, OutOf, BaseOf, CarriedAs, Carried, Settled
<1>3. \A p \in InputPieces' : p = <<p[1], p[2]>> /\ Mapped(p[1], p[2])'
  BY <1>2 DEF LaidOut
<1>4. \A o, s : Mapped(o, s)' =>
        /\ maps'[o].sec[s] \in DOMAIN secs' /\ maps'[o].base[s] \in Nat
        /\ units'[o].secs[s].data \in Seq(Seq(Nat))
        /\ maps'[o].base[s] + Len(units'[o].secs[s].data) <= Len(secs'[maps'[o].sec[s]].data)
  BY <1>1, <1>2 DEF LaidOut
<1>5. \A o, s, o2, s2 :
        Mapped(o, s)' /\ Mapped(o2, s2)' /\ (o # o2 \/ s # s2) => PiecesApart(o, s, o2, s2)'
  BY <1>2 DEF LaidOut, PiecesApart
<1>6. \A f : Carries(f)' => RelaOf(f)' \in Rela
  BY <1>2 DEF LaidOut
<1>7. \A d \in DOMAIN secs' :
        /\ {f \in Carried' : OutOf(f)' = d} = {f \in Carried : OutOf(f) = d}
        /\ secs'[d].relas = secs[d].relas
  BY <1>1, <1>2
<1>8. \A d \in DOMAIN secs' :
        /\ IsFiniteSet({f \in Carried' : OutOf(f)' = d})
        /\ Len(secs'[d].relas) = Cardinality({f \in Carried' : OutOf(f)' = d})
        /\ \A f \in {g \in Carried' : OutOf(g)' = d} :
             \E q \in DOMAIN secs'[d].relas : secs'[d].relas[q] = CarriedAs(f)'
        /\ \A q \in DOMAIN secs'[d].relas :
             \E f \in {g \in Carried' : OutOf(g)' = d} : secs'[d].relas[q] = CarriedAs(f)'
  <2> TAKE d \in DOMAIN secs'
  <2> DEFINE S  == {f \in Carried : OutOf(f) = d}
             S2 == {f \in Carried' : OutOf(f)' = d}
  <2>1. /\ IsFiniteSet(S) /\ Len(secs[d].relas) = Cardinality(S)
        /\ \A f \in S : \E q \in DOMAIN secs[d].relas : secs[d].relas[q] = CarriedAs(f)
        /\ \A q \in DOMAIN secs[d].relas : \E f \in S : secs[d].relas[q] = CarriedAs(f)
    BY <1>1 DEF LaidOut
  <2>2. S2 = S /\ secs'[d].relas = secs[d].relas
    BY <1>7
  <2> HIDE DEF S, S2
  <2>3. /\ IsFiniteSet(S2) /\ Len(secs'[d].relas) = Cardinality(S2)
        /\ \A f \in S2 : \E q \in DOMAIN secs'[d].relas : secs'[d].relas[q] = CarriedAs(f)'
        /\ \A q \in DOMAIN secs'[d].relas : \E f \in S2 : secs'[d].relas[q] = CarriedAs(f)'
    BY <1>2, <2>1, <2>2
  <2> QED
    BY <2>3 DEF S2
<1>9. \A d \in DOMAIN secs' : secs'[d].relas \in Seq(Rela) /\ secs'[d].data \in Seq(Seq(Nat))
  <2>1. Ex!ExecTyped'
    BY Ex!ExecTypedStep, ExAssumptions
  <2> QED
    BY <2>1, ExecSectionsNext DEF SectionsTyped
<1> QED
  BY <1>3, <1>4, <1>5, <1>6, <1>8, <1>9 DEF LaidOut

(* An output relocation is an input's one, moved with its section. *)
LEMMA OutputRela ==
  ASSUME LaidOut, NEW d \in DOMAIN secs, NEW q \in DOMAIN secs[d].relas
  PROVE  \E f \in Carried :
           /\ OutOf(f) = d /\ secs[d].relas[q] = CarriedAs(f)
           /\ secs[d].relas[q].off = BaseOf(f) + RelaOf(f).off
           /\ secs[d].relas[q].type = RelaOf(f).type
<1>1. PICK f \in Carried : OutOf(f) = d /\ secs[d].relas[q] = CarriedAs(f)
  BY DEF LaidOut
<1>2. RelaOf(f) \in Rela
  BY CarriedMeans DEF LaidOut
<1>3. CarriedAs(f).off = BaseOf(f) + RelaOf(f).off /\ CarriedAs(f).type = RelaOf(f).type
  BY <1>2, RelaExcept DEF CarriedAs, RelaOf
<1> QED
  BY <1>1, <1>3

LEMMA SameHits ==
  ASSUME UNCHANGED <<units, maps>>, NEW o, NEW s, NEW j
  PROVE  Hit(o, s, j)' <=> Hit(o, s, j)
BY DEF Hit, Field, RelaOf, Carried, Settled, OutOf, BaseOf

LEMMA MovedIndex ==
  ASSUME NEW b \in Nat, NEW len \in Nat, NEW m \in Nat, b + len <= m, NEW j \in 1..len
  PROVE  b + j \in 1..m /\ b + j \in Nat /\ j \in Nat
OBVIOUS

LEMMA MovedField ==
  ASSUME NEW n \in Int, NEW b \in Nat, NEW off \in Nat, NEW w \in Nat
  PROVE  n - b \in (off + 1)..(off + w) <=> n \in (b + off + 1)..(b + off + w)
OBVIOUS

(* Link_Exec changes patched bytes only. *)
LEMMA BytesStep ==
  ASSUME Ex!ExecTyped, LaidOut, BytesInv, Ex!ExecNext, UNCHANGED <<units, k, maps>>
  PROVE  BytesInv'
<1> SUFFICES ASSUME NEW o, NEW s, Mapped(o, s)', NEW j \in 1..Len(units'[o].secs[s].data),
                    ~Hit(o, s, j)'
             PROVE  secs'[maps'[o].sec[s]].data[maps'[o].base[s] + j] = units'[o].secs[s].data[j]
  BY DEF BytesInv
<1>1. Mapped(o, s) /\ j \in 1..Len(units[o].secs[s].data)
  BY DEF Mapped
<1>2. ~Hit(o, s, j)
  BY SameHits
<1> DEFINE d == maps[o].sec[s]
           n == maps[o].base[s] + j
<1>3. secs[d].data[n] = units[o].secs[s].data[j]
  <2> HIDE DEF d, n
  <2>1. \A x \in 1..Len(units[o].secs[s].data) :
          ~Hit(o, s, x) =>
            secs[maps[o].sec[s]].data[maps[o].base[s] + x] = units[o].secs[s].data[x]
    BY <1>1 DEF BytesInv
  <2> QED
    BY <1>1, <1>2, <2>1 DEF d, n
<1>4. /\ d \in DOMAIN secs /\ n \in Nat /\ j \in Nat /\ maps[o].base[s] \in Nat
      /\ n \in 1..Len(secs[d].data)
  <2>1. /\ d \in DOMAIN secs /\ maps[o].base[s] \in Nat
        /\ units[o].secs[s].data \in Seq(Seq(Nat))
        /\ maps[o].base[s] + Len(units[o].secs[s].data) <= Len(secs[d].data)
    BY <1>1 DEF LaidOut
  <2>2. Len(units[o].secs[s].data) \in Nat
    BY <2>1
  <2>3. Len(secs[d].data) \in Nat
    <3>1. secs \in Seq(Ex!Section(Names))
      BY DEF Ex!ExecTyped, Ex!ExecTypeOK, Ex!Object
    <3>2. secs[d] \in Ex!Section(Names)
      BY <2>1, <3>1
    <3> QED
      BY <3>2 DEF Ex!Section
  <2> QED
    BY <1>1, <2>1, <2>2, <2>3, MovedIndex
<1>5. secs'[d].data[n] = secs[d].data[n]
  <2>1. CASE secs'[d].data = secs[d].data
    BY <2>1
  <2>2. CASE Ex!ApplyReloc /\ d = i
    <3>1. r \in DOMAIN secs[d].relas /\ secs[d].data \in Seq(Seq(Nat))
      BY <2>2, Ex!ApplyRelocEffect, ExAssumptions
    <3>2. PICK f \in Carried :
            /\ OutOf(f) = d
            /\ secs[d].relas[r].off = BaseOf(f) + RelaOf(f).off
            /\ secs[d].relas[r].type = RelaOf(f).type
      BY <1>4, <3>1, OutputRela
    <3>3. Carries(f) /\ RelaOf(f).off \in Nat /\ BaseOf(f) \in Nat
      <4>1. Carries(f)
        BY CarriedMeans
      <4>2. RelaOf(f) \in Rela /\ Mapped(f[1], f[2])
        BY <4>1 DEF LaidOut, Carries
      <4> QED
        BY <4>1, <4>2 DEF Rela, BaseOf, LaidOut
    <3>4. n - BaseOf(f) \notin Field(f)
      <4>1. maps[o].base[s] + j - BaseOf(f) \notin Field(f)
        BY <1>2, <3>2 DEF Hit
      <4>2. maps[o].base[s] + j - BaseOf(f) = n - BaseOf(f)
        BY <1>4, <3>3
      <4> QED
        BY <4>1, <4>2
    <3>5. n \notin (secs[d].relas[r].off + 1)..(secs[d].relas[r].off + FieldWidth(secs[d].relas[r].type))
      <4> DEFINE w == FieldWidth(RelaOf(f).type)
      <4>1. w \in Nat
        BY DEF FieldWidth
      <4>2. Field(f) = (RelaOf(f).off + 1)..(RelaOf(f).off + w)
        BY DEF Field
      <4> HIDE DEF w, n, d
      <4>3. n \notin (BaseOf(f) + RelaOf(f).off + 1)..(BaseOf(f) + RelaOf(f).off + w)
        BY <1>4, <3>3, <3>4, <4>1, <4>2, MovedField
      <4> QED
        BY <3>2, <4>3 DEF w
    <3>6. n \in DOMAIN secs[d].data
      BY <1>4, <3>1
    <3> QED
      BY <2>2, <3>5, <3>6, PatchOnlyField
  <2> QED
    BY <1>4, <2>1, <2>2, FinishingKeeps
<1> QED
  BY <1>3, <1>5

-----------------------------------------------------------------------------
(* Fields of the output.                                                   *)

(* FieldsApart, with the width of a field written out. *)
Apart ==
  \A f \in Carried :
    /\ Field(f) \subseteq DOMAIN DataOf(f)
    /\ \A g \in Carried : f # g /\ f[1] = g[1] /\ f[2] = g[2] => Field(f) \intersect Field(g) = {}

LEMMA ApartMeans == FieldsApart <=> Apart
<1>1. \A f : FieldBytes(f) = Field(f)
  BY DEF FieldBytes, Field, Exec!Width, FieldWidth, RelaOf
<1> QED
  BY <1>1 DEF FieldsApart, Apart

(* The bytes of an output section that a relocation there patches. *)
OutField(rela) == (rela.off + 1)..(rela.off + FieldWidth(rela.type))

LEMMA CarriedFacts ==
  ASSUME LaidOut, NEW f \in Carried
  PROVE  /\ Carries(f) /\ Mapped(f[1], f[2]) /\ f = <<f[1], f[2], f[3]>>
         /\ RelaOf(f) \in Rela /\ RelaOf(f).off \in Nat /\ BaseOf(f) \in Nat
         /\ OutOf(f) \in DOMAIN secs /\ DataOf(f) \in Seq(Seq(Nat)) /\ Len(DataOf(f)) \in Nat
         /\ BaseOf(f) + Len(DataOf(f)) <= Len(secs[OutOf(f)].data)
         /\ FieldWidth(RelaOf(f).type) \in 4..8
         /\ CarriedAs(f).off = BaseOf(f) + RelaOf(f).off /\ CarriedAs(f).type = RelaOf(f).type
<1>1. Carries(f) /\ Mapped(f[1], f[2]) /\ f = <<f[1], f[2], f[3]>>
  BY CarriedMeans DEF Carries
<1>2. RelaOf(f) \in Rela
  BY <1>1 DEF LaidOut
<1>3. /\ BaseOf(f) \in Nat /\ OutOf(f) \in DOMAIN secs /\ DataOf(f) \in Seq(Seq(Nat))
      /\ BaseOf(f) + Len(DataOf(f)) <= Len(secs[OutOf(f)].data)
  BY <1>1 DEF LaidOut, BaseOf, OutOf, DataOf
<1>4. RelaOf(f).off \in Nat
  BY <1>2 DEF Rela
<1>5. FieldWidth(RelaOf(f).type) \in 4..8
  BY DEF FieldWidth
<1>6. CarriedAs(f).off = BaseOf(f) + RelaOf(f).off /\ CarriedAs(f).type = RelaOf(f).type
  BY <1>2, RelaExcept DEF CarriedAs, RelaOf
<1>7. Len(DataOf(f)) \in Nat
  BY <1>3
<1> QED
  BY <1>1, <1>2, <1>3, <1>4, <1>5, <1>6, <1>7

(* A field moves with its section. *)
LEMMA FieldMoves ==
  ASSUME LaidOut, NEW f \in Carried, NEW n \in Int
  PROVE  n \in OutField(CarriedAs(f)) <=> n - BaseOf(f) \in Field(f)
<1> DEFINE b == BaseOf(f)
           off == RelaOf(f).off
           w == FieldWidth(RelaOf(f).type)
<1>1. b \in Nat /\ off \in Nat /\ w \in Nat
  BY CarriedFacts
<1>2. OutField(CarriedAs(f)) = (b + off + 1)..(b + off + w)
  BY CarriedFacts DEF OutField
<1>3. Field(f) = (off + 1)..(off + w)
  BY DEF Field
<1> HIDE DEF b, off, w
<1>4. n - b \in (off + 1)..(off + w) <=> n \in (b + off + 1)..(b + off + w)
  BY <1>1, MovedField
<1> QED
  BY <1>2, <1>3, <1>4 DEF b

(* It lies in the contents of its output section. *)
LEMMA FieldInside ==
  ASSUME LaidOut, Apart, NEW f \in Carried, NEW n \in OutField(CarriedAs(f))
  PROVE  /\ n \in Int /\ n - BaseOf(f) \in 1..Len(DataOf(f))
         /\ n \in 1..Len(secs[OutOf(f)].data)
<1>1. n \in Int
  <2>1. BaseOf(f) + RelaOf(f).off \in Int /\ FieldWidth(RelaOf(f).type) \in Int
    BY CarriedFacts
  <2> QED
    BY <2>1, CarriedFacts DEF OutField
<1>2. n - BaseOf(f) \in Field(f)
  BY <1>1, FieldMoves
<1>3. n - BaseOf(f) \in DOMAIN DataOf(f)
  BY <1>2 DEF Apart
<1>4. n - BaseOf(f) \in 1..Len(DataOf(f))
  BY <1>3, CarriedFacts
<1>5. n \in 1..Len(secs[OutOf(f)].data)
  <2>1. /\ BaseOf(f) \in Nat /\ Len(DataOf(f)) \in Nat
        /\ BaseOf(f) + Len(DataOf(f)) <= Len(secs[OutOf(f)].data)
    BY CarriedFacts
  <2>2. Len(secs[OutOf(f)].data) \in Int
    BY CarriedFacts, LinkedSections
  <2> QED
    BY <1>1, <1>4, <2>1, <2>2
<1> QED
  BY <1>1, <1>4, <1>5

(* Fields of different relocations are apart in the output too. *)
LEMMA MovedFieldsApart ==
  ASSUME LaidOut, Apart, NEW f \in Carried, NEW g \in Carried, f # g, OutOf(f) = OutOf(g)
  PROVE  OutField(CarriedAs(f)) \intersect OutField(CarriedAs(g)) = {}
<1> SUFFICES ASSUME NEW n \in OutField(CarriedAs(f)), n \in OutField(CarriedAs(g))
             PROVE  FALSE
  OBVIOUS
<1>1. /\ n \in Int /\ n - BaseOf(f) \in 1..Len(DataOf(f)) /\ n - BaseOf(g) \in 1..Len(DataOf(g))
      /\ n - BaseOf(f) \in Field(f) /\ n - BaseOf(g) \in Field(g)
  BY FieldInside, FieldMoves
<1>2. CASE f[1] = g[1] /\ f[2] = g[2]
  <2>1. BaseOf(f) = BaseOf(g)
    BY <1>2 DEF BaseOf
  <2>2. Field(f) \intersect Field(g) = {}
    BY <1>2 DEF Apart
  <2> QED
    BY <1>1, <2>1, <2>2
<1>3. CASE f[1] # g[1] \/ f[2] # g[2]
  <2>1. Mapped(f[1], f[2]) /\ Mapped(g[1], g[2])
    BY CarriedFacts
  <2>2. PiecesApart(f[1], f[2], g[1], g[2])
    BY <1>3, <2>1 DEF LaidOut
  <2>3. \/ BaseOf(f) + Len(DataOf(f)) <= BaseOf(g)
        \/ BaseOf(g) + Len(DataOf(g)) <= BaseOf(f)
    BY <2>2 DEF PiecesApart, BaseOf, OutOf, DataOf
  <2>4. /\ BaseOf(f) \in Nat /\ Len(DataOf(f)) \in Nat
        /\ BaseOf(g) \in Nat /\ Len(DataOf(g)) \in Nat
    BY CarriedFacts
  <2> QED
    BY <1>1, <2>3, <2>4
<1> QED
  BY <1>2, <1>3

(* So the output has a relocation for each input one, and no two alike.    *)
LEMMA OneEach ==
  ASSUME LaidOut, Apart, NEW d \in DOMAIN secs,
         NEW q \in DOMAIN secs[d].relas, NEW q2 \in DOMAIN secs[d].relas, q # q2
  PROVE  OutField(secs[d].relas[q]) \intersect OutField(secs[d].relas[q2]) = {}
<1> DEFINE S == {f \in Carried : OutOf(f) = d}
           Q == DOMAIN secs[d].relas
           F == [x \in Q |-> CHOOSE f \in S : secs[d].relas[x] = CarriedAs(f)]
<1>1. /\ IsFiniteSet(S) /\ Len(secs[d].relas) = Cardinality(S)
      /\ \A f \in S : \E x \in Q : secs[d].relas[x] = CarriedAs(f)
      /\ \A x \in Q : \E f \in S : secs[d].relas[x] = CarriedAs(f)
  BY DEF LaidOut
<1>2. \A x \in Q : F[x] \in S /\ secs[d].relas[x] = CarriedAs(F[x])
  BY <1>1
<1>3. ASSUME NEW f \in S, NEW g \in S, CarriedAs(f) = CarriedAs(g)
      PROVE  f = g
  <2>1. OutField(CarriedAs(f)) # {}
    <3>1. BaseOf(f) + RelaOf(f).off + 1 \in OutField(CarriedAs(f))
      <4>1. BaseOf(f) + RelaOf(f).off \in Int /\ FieldWidth(RelaOf(f).type) \in 4..8
        BY CarriedFacts
      <4>2. OutField(CarriedAs(f)) =
              (BaseOf(f) + RelaOf(f).off + 1)..(BaseOf(f) + RelaOf(f).off + FieldWidth(RelaOf(f).type))
        BY CarriedFacts DEF OutField
      <4> QED
        BY <4>1, <4>2
    <3> QED
      BY <3>1
  <2> QED
    BY <1>3, <2>1, MovedFieldsApart
<1> HIDE DEF S
<1>4. \A f \in S : \E x \in Q : F[x] = f
  BY <1>1, <1>2, <1>3
<1> HIDE DEF F
<1>5. Q = 1..Len(secs[d].relas) /\ Len(secs[d].relas) \in Nat
  BY LinkedSections
<1>6. IsFiniteSet(Q) /\ Cardinality(Q) = Len(secs[d].relas)
  BY <1>5, FS_Interval
<1>7. F \in Surjection(Q, S)
  <2>1. F \in [Q -> S]
    BY <1>2 DEF F
  <2> QED
    BY <1>4, <2>1 DEF Surjection
<1>8. F \in Injection(Q, S)
  BY <1>1, <1>6, <1>7, FS_Surjection
<1>9. F[q] # F[q2]
  <2>1. F \in [Q -> S] /\ IsInjective(F)
    BY <1>8 DEF Injection
  <2> QED
    BY <2>1 DEF IsInjective
<1>10. F[q] \in S /\ F[q2] \in S
  BY <1>2
<1> QED
  BY <1>2, <1>9, <1>10, MovedFieldsApart DEF S

-----------------------------------------------------------------------------
(* What the fields hold.                                                   *)

SymAt(sym) ==
  IF sym.sec # 0 THEN (secs[sym.sec].addr + sym.value) % ByteBase^8 ELSE sym.value

(* What a relocation of section d asks its field to hold. *)
Exact(d, rela) ==
  LET S == SymAt(syms[rela.sym])
      P == secs[d].addr + rela.off
  IN IF rela.type \in {"PC32", "PLT32"} THEN S + rela.addend - P ELSE S + rela.addend

Written(d, rela) == Exact(d, rela) % ByteBase^FieldWidth(rela.type)

FieldHolds(d, rela) ==
  \A j \in 1..FieldWidth(rela.type) :
    secs[d].data[rela.off + j] = <<(Written(d, rela) \div ByteBase^(j - 1)) % ByteBase>>

(* Link_Exec has applied relocation q of section d. *)
Applied(d, q) ==
  \/ pc = "apply" /\ (d < i \/ (d = i /\ q < r))
  \/ pc = "linked" /\ etype = "EXEC"

FieldsInv ==
  Apart => \A d \in DOMAIN secs : \A q \in DOMAIN secs[d].relas :
             Applied(d, q) => FieldHolds(d, secs[d].relas[q])

LEMMA Powers ==
  /\ \A n \in 0..8 : ByteBase^n \in Nat \ {0}
  /\ ByteBase^0 = 1
  /\ \A n \in 0..7 : ByteBase^(n + 1) = ByteBase * ByteBase^n
  /\ ByteBase \in Nat /\ ByteBase > 0
BY LinkAssumption DEF Exec!Modulus

(* The next relocation writes what it asks its field to hold. *)
LEMMA PatchingIs ==
  Ex!Patching = Written(i, secs[i].relas[r])
BY DEF Ex!Patching, Ex!FieldValue, Ex!SymbolAddr, Ex!Modulus, Ex!PcRelative, Ex!Width,
       Written, Exact, SymAt, FieldWidth

(* Relocating changes no address, so what a relocation asks for stays. *)
LEMMA SameWritten ==
  ASSUME Ex!ExecTyped, Ex!ApplyReloc, NEW d \in DOMAIN secs, NEW q \in DOMAIN secs[d].relas
  PROVE  Written(d, secs[d].relas[q])' = Written(d, secs[d].relas[q])
<1> DEFINE rela == secs[d].relas[q]
<1>1. /\ DOMAIN secs' = DOMAIN secs /\ syms' = syms
      /\ \A e \in DOMAIN secs : secs'[e].addr = secs[e].addr /\ secs'[e].relas = secs[e].relas
  BY Ex!ApplyRelocEffect, ExAssumptions
<1>2. syms[rela.sym].sec \in DOMAIN secs \/ syms[rela.sym].sec = 0
  <2>1. [secs |-> secs, syms |-> syms] \in Ex!Object(Names) /\ Ex!AllDefined
    BY DEF Ex!ExecTyped, Ex!ExecTypeOK, Ex!Checked, Ex!ApplyReloc, Ex!AtReloc
  <2>2. rela.sym \in 0..Len(syms) /\ rela.sym # 0
    BY <2>1 DEF Ex!Object, Ex!AllDefined, Ex!Defined
  <2>3. /\ \A j \in DOMAIN syms : syms[j].sec \in 0..Len(secs)
        /\ syms \in Seq(Ex!Symbol(Names)) /\ secs \in Seq(Ex!Section(Names))
    BY <2>1 DEF Ex!Object
  <2>4. rela.sym \in DOMAIN syms /\ DOMAIN secs = 1..Len(secs) /\ Len(secs) \in Nat
    BY <2>2, <2>3
  <2>5. syms[rela.sym].sec \in 0..Len(secs)
    BY <2>3, <2>4
  <2> QED
    BY <2>4, <2>5
<1>3. rela' = rela
  BY <1>1
<1>4. SymAt(syms[rela.sym])' = SymAt(syms[rela.sym])
  <2> HIDE DEF rela
  <2> QED
    BY <1>1, <1>2, <1>3 DEF SymAt
<1> HIDE DEF rela
<1>5. Exact(d, rela)' = Exact(d, rela)
  BY <1>1, <1>3, <1>4 DEF Exact
<1>6. Written(d, rela)' = Written(d, rela)
  BY <1>3, <1>5 DEF Written
<1> QED
  BY <1>6 DEF rela

LEMMA OffsetsAre ==
  ASSUME LaidOut, NEW d \in DOMAIN secs, NEW q \in DOMAIN secs[d].relas
  PROVE  /\ secs[d].relas[q].off \in Nat /\ FieldWidth(secs[d].relas[q].type) \in 4..8
         /\ Apart => OutField(secs[d].relas[q]) \subseteq 1..Len(secs[d].data)
<1>1. secs[d].relas[q] \in Rela
  BY LinkedSections
<1>2. secs[d].relas[q].off \in Nat
  BY <1>1 DEF Rela
<1>3. PICK f \in Carried : OutOf(f) = d /\ secs[d].relas[q] = CarriedAs(f)
  BY OutputRela
<1>4. Apart => OutField(secs[d].relas[q]) \subseteq 1..Len(secs[d].data)
  BY <1>3, FieldInside
<1> QED
  BY <1>2, <1>4 DEF FieldWidth

(* A relocation's field holds what it asks for once it is applied, and the *)
(* relocations after it write elsewhere.                                   *)
LEMMA FieldsWhenApplied ==
  ASSUME Ex!ExecTyped, LaidOut, Apart, FieldsInv, Ex!ApplyReloc,
         NEW d \in DOMAIN secs, NEW q \in DOMAIN secs[d].relas,
         d < i \/ (d = i /\ q < r + 1)
  PROVE  FieldHolds(d, secs[d].relas[q])'
<1>1. /\ i \in DOMAIN secs /\ r \in DOMAIN secs[i].relas
      /\ \A e \in DOMAIN secs : secs'[e].relas = secs[e].relas
      /\ \A e \in DOMAIN secs : e # i => secs'[e] = secs[e]
      /\ Len(secs'[i].data) = Len(secs[i].data)
      /\ secs'[i].data = Ex!PatchLE(secs[i].data, secs[i].relas[r].off, Ex!Patching,
                                    Ex!Width(secs[i].relas[r].type))
  BY Ex!ApplyRelocEffect, ExAssumptions
<1>2. pc = "apply"
  BY DEF Ex!ApplyReloc, Ex!AtReloc
<1>3. Written(d, secs[d].relas[q])' = Written(d, secs[d].relas[q])
  BY SameWritten
<1>4. (secs[d].relas[q])' = secs[d].relas[q]
  BY <1>1
<1> DEFINE rela == secs[d].relas[q]
<1>5. rela.off \in Nat /\ FieldWidth(rela.type) \in 4..8
  BY OffsetsAre
<1> SUFFICES ASSUME NEW j \in 1..FieldWidth(rela.type)
             PROVE  secs'[d].data[rela.off + j] =
                      <<(Written(d, rela) \div ByteBase^(j - 1)) % ByteBase>>
  BY <1>3, <1>4 DEF FieldHolds
<1>6. rela.off + j \in OutField(rela) /\ rela.off + j \in 1..Len(secs[d].data)
  <2>1. rela.off + j \in OutField(rela)
    <3> HIDE DEF rela
    <3> QED
      BY <1>5 DEF OutField
  <2> QED
    BY <2>1, OffsetsAre
<1>7. ASSUME ~(d = i /\ q = r)
      PROVE  secs[d].data[rela.off + j] = <<(Written(d, rela) \div ByteBase^(j - 1)) % ByteBase>>
  <2>1. d < i \/ (d = i /\ q < r)
    <3>1. q \in Nat /\ r \in Nat
      <4>1. /\ DOMAIN secs[d].relas = 1..Len(secs[d].relas)
            /\ DOMAIN secs[i].relas = 1..Len(secs[i].relas)
        BY <1>1, LinkedSections
      <4> QED
        BY <1>1, <4>1
    <3> QED
      BY <1>7, <3>1
  <2>2. Applied(d, q)
    BY <1>2, <2>1 DEF Applied
  <2>3. FieldHolds(d, rela)
    BY <2>2 DEF FieldsInv
  <2> QED
    BY <2>3 DEF FieldHolds
<1>8. CASE d # i
  BY <1>1, <1>7, <1>8
<1>9. CASE d = i /\ q # r
  <2>1. rela.off + j \notin OutField(secs[i].relas[r])
    BY <1>1, <1>6, <1>9, OneEach
  <2>2. secs'[i].data[rela.off + j] = secs[i].data[rela.off + j]
    BY <1>6, <1>9, <2>1, PatchOnlyField, LinkedSections DEF OutField
  <2> QED
    BY <1>7, <1>9, <2>2
<1>10. CASE d = i /\ q = r
  <2> DEFINE n == rela.off + j
  <2>1. n \in DOMAIN secs[i].data
    BY <1>6, <1>10, LinkedSections
  <2>2. n \in (rela.off + 1)..(rela.off + FieldWidth(rela.type)) /\ n - rela.off - 1 = j - 1
    <3> HIDE DEF rela
    <3> QED
      BY <1>5
  <2>3. Ex!Width(rela.type) = FieldWidth(rela.type)
    BY DEF Ex!Width, FieldWidth
  <2>4. Ex!Patching = Written(d, rela)
    BY <1>10, PatchingIs
  <2>5. secs'[i].data = Ex!PatchLE(secs[i].data, rela.off, Written(d, rela), FieldWidth(rela.type))
    BY <1>1, <1>10, <2>3, <2>4
  <2> HIDE DEF rela, n
  <2>6. secs'[i].data[n] = Ex!Byte((Written(d, rela) \div Ex!Modulus(n - rela.off - 1)) % ByteBase)
    BY <2>1, <2>2, <2>5 DEF Ex!PatchLE
  <2>7. secs'[i].data[n] = <<(Written(d, rela) \div ByteBase^(j - 1)) % ByteBase>>
    BY <2>2, <2>6 DEF Ex!Byte, Ex!Modulus
  <2> QED
    BY <1>10, <2>7 DEF n
<1> QED
  BY <1>8, <1>9, <1>10

LEMMA SameApart == UNCHANGED <<units, maps>> => (Apart' <=> Apart)
<1> SUFFICES ASSUME UNCHANGED <<units, maps>> PROVE Apart' <=> Apart
  OBVIOUS
<1>1. Carried' = Carried /\ \A f : Field(f)' = Field(f) /\ DataOf(f)' = DataOf(f)
  BY DEF Carried, Settled, Field, RelaOf, DataOf
<1> QED
  BY <1>1 DEF Apart

(* No other step applies a relocation or moves what is applied. *)
LEMMA FieldsStep ==
  ASSUME Ex!ExecTyped, LaidOut, FieldsInv, Ex!ExecNext, UNCHANGED <<units, k, maps>>,
         pc = "merged" => etype = "REL"
  PROVE  FieldsInv'
<1> SUFFICES ASSUME Apart, NEW d \in DOMAIN secs', NEW q \in DOMAIN secs'[d].relas, Applied(d, q)'
             PROVE  FieldHolds(d, secs[d].relas[q])'
  <2>1. Apart' <=> Apart
    BY SameApart
  <2> QED
    BY <2>1 DEF FieldsInv
<1>1. d \in DOMAIN secs /\ q \in DOMAIN secs[d].relas
  BY FinishingKeeps
<1>2. /\ DOMAIN secs[d].relas = 1..Len(secs[d].relas) /\ Len(secs[d].relas) \in Nat
      /\ q \in Nat \ {0} /\ d \in Nat \ {0} /\ d <= Len(secs) /\ Len(secs) \in Nat
  <2>1. secs \in Seq(Ex!Section(Names))
    BY DEF Ex!ExecTyped, Ex!ExecTypeOK, Ex!Object
  <2>2. d \in 1..Len(secs) /\ Len(secs) \in Nat
    BY <1>1, <2>1
  <2>3. q \in 1..Len(secs[d].relas) /\ Len(secs[d].relas) \in Nat
    BY <1>1, LinkedSections
  <2> QED
    BY <1>1, <2>2, <2>3, LinkedSections
<1>3. i \in Nat \ {0} /\ r \in Nat \ {0}
  BY DEF Ex!ExecTyped, Ex!ExecTypeOK
<1>4. ASSUME Applied(d, q), UNCHANGED <<secs, syms>>
      PROVE  FieldHolds(d, secs[d].relas[q])'
  <2>1. FieldHolds(d, secs[d].relas[q])
    BY <1>1, <1>4 DEF FieldsInv
  <2> QED
    BY <1>4, <2>1 DEF FieldHolds, Written, Exact, SymAt
<1>5. CASE Ex!ApplyReloc
  <2>1. pc' = "apply" /\ i' = i /\ r' = r + 1
    BY <1>5 DEF Ex!ApplyReloc, Ex!AtReloc
  <2>2. d < i \/ (d = i /\ q < r + 1)
    BY <2>1 DEF Applied
  <2> QED
    BY <1>1, <1>5, <2>2, FieldsWhenApplied
<1>6. CASE Ex!NextApplySection
  <2>1. /\ pc = "apply" /\ pc' = "apply" /\ i' = i + 1 /\ r' = 1 /\ r > Len(secs[i].relas)
        /\ UNCHANGED <<secs, syms>>
    BY <1>6 DEF Ex!NextApplySection
  <2>2. d < i + 1 \/ (d = i + 1 /\ q < 1)
    BY <2>1 DEF Applied
  <2>3. d < i \/ d = i
    BY <1>2, <1>3, <2>2
  <2>4. d = i => q < r
    <3> SUFFICES ASSUME d = i PROVE q < r
      OBVIOUS
    <3>1. q <= Len(secs[d].relas) /\ r > Len(secs[d].relas)
      BY <1>1, <1>2, <2>1
    <3> QED
      BY <1>2, <1>3, <3>1
  <2> QED
    BY <1>4, <2>1, <2>3, <2>4 DEF Applied
<1>7. CASE Ex!ApplyDone
  <2>1. pc = "apply" /\ i > Len(secs) /\ UNCHANGED <<secs, syms>>
    BY <1>7 DEF Ex!ApplyDone
  <2>2. d < i
    BY <1>2, <1>3, <2>1
  <2> QED
    BY <1>4, <2>1, <2>2 DEF Applied
<1>8. CASE Ex!SetEntry
  <2>1. pc' = "apply" /\ i' = 1 /\ r' = 1
    BY <1>8 DEF Ex!SetEntry
  <2>2. d < 1 \/ (d = 1 /\ q < 1)
    BY <2>1 DEF Applied
  <2> QED
    BY <1>2, <2>2
<1>9. CASE Ex!KeepRelocatable
  <2>1. pc' = "linked" /\ etype' = "REL"
    BY <1>9 DEF Ex!KeepRelocatable
  <2> QED
    BY <2>1 DEF Applied
<1>10. CASE pc' \in {"place", "check", "entry", "failed"}
  BY <1>10 DEF Applied
<1>11. \/ Ex!ApplyReloc \/ Ex!NextApplySection \/ Ex!ApplyDone \/ Ex!SetEntry \/ Ex!KeepRelocatable
       \/ pc' \in {"place", "check", "entry", "failed"}
  BY DEF Ex!ExecNext, Ex!Abort, Ex!StartPlacing, Ex!SkipSection, Ex!PlaceSection,
         Ex!PlacingDone, Ex!CheckDefined, Ex!UndefinedSymbol, Ex!UndefinedEntry,
         Ex!UnsupportedReloc
<1> QED
  BY <1>5, <1>6, <1>7, <1>8, <1>9, <1>10, <1>11

(* Link_CheckDefined let every relocation that was applied through. *)
DefinedInv == pc = "linked" /\ etype = "EXEC" => Ex!AllDefined

LEMMA DefinedStep ==
  ASSUME Ex!ExecTyped, Ex!ExecNext, pc = "merged" => etype = "REL"
  PROVE  DefinedInv'
<1>1. CASE Ex!ApplyDone
  <2>1. Ex!AllDefined /\ UNCHANGED <<secs, syms>>
    BY <1>1 DEF Ex!ExecTyped, Ex!Checked, Ex!ApplyDone
  <2> QED
    BY <2>1 DEF DefinedInv, Ex!AllDefined, Ex!Defined
<1>2. CASE Ex!KeepRelocatable
  BY <1>2 DEF Ex!KeepRelocatable, DefinedInv
<1>3. CASE pc' # "linked"
  BY <1>3 DEF DefinedInv
<1>4. Ex!ApplyDone \/ Ex!KeepRelocatable \/ pc' # "linked"
  BY DEF Ex!ExecNext, Ex!Abort, Ex!StartPlacing, Ex!SkipSection, Ex!PlaceSection,
         Ex!PlacingDone, Ex!CheckDefined, Ex!UndefinedSymbol, Ex!UndefinedEntry, Ex!SetEntry,
         Ex!UnsupportedReloc, Ex!ApplyReloc, Ex!AtReloc, Ex!NextApplySection
<1> QED
  BY <1>1, <1>2, <1>3, <1>4

LEMMA MergedFields == pc = "merged" => FieldsInv
BY DEF FieldsInv, Applied

LEMMA MergedFieldsNext == (pc = "merged")' => FieldsInv'
BY MergedFields, PTL

-----------------------------------------------------------------------------
(* The whole link.                                                         *)

LinkInv ==
  /\ LinkTyped
  /\ pc \in MergePhases => ContentsInv /\ RelocsInv
  /\ pc \in FinishPhases => LaidOut /\ BytesInv /\ FieldsInv /\ DefinedInv

LEMMA LinkInvInitially == LinkInit => LinkInv
<1>1. LinkInit => LinkTyped
  BY LinkInitTyped
<1>2. LinkInit => ContentsInv /\ RelocsInv /\ pc = "read"
  BY ContentsInitially, RelocsInitially DEF LinkInit, MergeInit
<1> QED
  BY <1>1, <1>2 DEF LinkInv, FinishPhases

LEMMA LinkInvStep == LinkInv /\ [LinkNext]_linkVars => LinkInv'
<1> SUFFICES ASSUME LinkInv, [LinkNext]_linkVars PROVE LinkInv'
  OBVIOUS
<1>1. LinkTyped /\ LinkTyped'
  BY LinkTypedStep DEF LinkInv
<1>2. CASE Merging
  <2>1. MergeNext
    BY <1>2 DEF Merging
  <2>2. pc \in MergePhases /\ (pc' \in MergePhases \/ pc' = "failed")
    BY <2>1, MergePhaseStep
  <2>3. MergeTyped /\ ContentsInv /\ RelocsInv
    BY <1>1, <2>2 DEF LinkInv, LinkTyped
  <2>4. ContentsInv' /\ RelocsInv'
    BY <2>1, <2>3, ContentsStep, RelocsStep
  <2>5. ASSUME pc' = "merged" PROVE LaidOut' /\ BytesInv' /\ FieldsInv'
    <3>1. MergeTyped'
      BY <2>1, <2>3, MergeTypedStep
    <3> QED
      BY <2>4, <2>5, <3>1, MergedLaidOutNext, MergedFieldsNext
  <2> QED
    BY <1>1, <2>2, <2>4, <2>5 DEF LinkInv, MergePhases, FinishPhases, DefinedInv
<1>3. CASE Finishing
  <2>1. Ex!ExecNext /\ UNCHANGED <<units, k, maps>>
    BY <1>3, FinishingStep
  <2>2. pc \in FinishPhases /\ (pc' \in FinishPhases \ {"merged"} \/ pc' = "failed")
    BY <2>1, FinishPhaseStep
  <2>3. /\ Ex!ExecTyped /\ LaidOut /\ BytesInv /\ FieldsInv
        /\ pc = "merged" => etype = "REL"
    BY <1>1, <2>2 DEF LinkInv, LinkTyped, MergePhases
  <2>4. LaidOut' /\ BytesInv' /\ FieldsInv' /\ DefinedInv'
    BY <2>1, <2>3, LaidOutStep, BytesStep, FieldsStep, DefinedStep
  <2> QED
    BY <1>1, <2>2, <2>4 DEF LinkInv, MergePhases, FinishPhases
<1>4. CASE UNCHANGED linkVars
  <2>1. UNCHANGED <<pc, units, k, maps, secs, syms>> /\ UNCHANGED mergeVars
    BY <1>4 DEF linkVars, mergeVars
  <2>2. pc \in MergePhases => ContentsInv' /\ RelocsInv'
    BY <1>1, <2>1, ContentsStep, RelocsStep DEF LinkInv, LinkTyped
  <2>3. LaidOut' <=> LaidOut
    BY <2>1 DEF LaidOut, InputPieces, Mapped, PiecesApart, Carries, RelaOf, OutOf, BaseOf,
                CarriedAs, Carried, Settled
  <2>4. BytesInv' <=> BytesInv
    BY <2>1, SameHits DEF BytesInv, Mapped
  <2>5. FieldsInv' <=> FieldsInv
    <3>1. UNCHANGED <<i, r, etype>>
      BY <1>4 DEF linkVars, mergeVars, execOnly
    <3>2. (\A d, rela : FieldHolds(d, rela)' <=> FieldHolds(d, rela)) /\ (Apart' <=> Apart)
      BY <2>1 DEF FieldHolds, Written, Exact, SymAt, Apart, Carried, Settled, Field, RelaOf, DataOf
    <3>3. \A d, q : Applied(d, q)' <=> Applied(d, q)
      BY <2>1, <3>1 DEF Applied
    <3> QED
      BY <2>1, <3>2, <3>3 DEF FieldsInv
  <2>6. DefinedInv' <=> DefinedInv
    <3>1. UNCHANGED <<secs, syms, pc, etype>>
      BY <1>4 DEF linkVars, mergeVars, execOnly
    <3> QED
      BY <3>1 DEF DefinedInv, Ex!AllDefined, Ex!Defined
  <2> QED
    BY <1>1, <2>1, <2>2, <2>3, <2>4, <2>5, <2>6 DEF LinkInv
<1> QED
  BY <1>2, <1>3, <1>4 DEF LinkNext

LEMMA LinkInvariant == LinkSpec => []LinkInv
<1> QED
  BY LinkInvInitially, LinkInvStep, PTL DEF LinkSpec

(* Theorem: what the inputs contained is in the linked object, at the      *)
(* place the merge gave it, but for the fields of relocations (Link_Run,   *)
(* link.c:347-365, and the loop of Link_Exec over relocations).            *)
THEOREM BytesKept == LinkSpec => []BytesSurvive
<1>1. LinkInv => BytesSurvive
  <2> SUFFICES ASSUME LinkInv, pc = "linked", NEW p \in InputPieces,
                      NEW j \in DOMAIN DataOf(p), ~Patched(p, j)
               PROVE  OutSection(p).data[BaseOf(p) + j] = DataOf(p)[j]
    BY DEF BytesSurvive
  <2>1. LaidOut /\ BytesInv
    BY DEF LinkInv, FinishPhases
  <2>2. p = <<p[1], p[2]>> /\ Mapped(p[1], p[2])
    BY <2>1 DEF LaidOut
  <2>3. j \in 1..Len(DataOf(p))
    <3>1. DataOf(p) \in Seq(Seq(Nat))
      BY <2>1, <2>2 DEF LaidOut, DataOf
    <3> QED
      BY <3>1
  <2>4. ~Hit(p[1], p[2], j)
    BY DEF Patched, Hit, FieldBytes, Field, Exec!Width, FieldWidth, RelaOf, OutOf, BaseOf
  <2> QED
    BY <2>1, <2>2, <2>3, <2>4 DEF BytesInv, OutSection, DataOf, BaseOf
<1> QED
  BY <1>1, LinkInvariant, PTL

(* What an applied relocation asked for is a number. *)
LEMMA ExactIsNumber ==
  ASSUME LaidOut, Ex!ExecTyped, Ex!AllDefined, NEW d \in DOMAIN secs, NEW q \in DOMAIN secs[d].relas
  PROVE  Exact(d, secs[d].relas[q]) \in Int
<1> DEFINE rela == secs[d].relas[q]
<1>1. rela \in Rela
  BY LinkedSections
<1>2. rela.off \in Nat /\ rela.addend \in Int
  BY <1>1 DEF Rela
<1>3. [secs |-> secs, syms |-> syms] \in Ex!Object(Names)
  BY DEF Ex!ExecTyped, Ex!ExecTypeOK
<1>4. /\ syms \in Seq(Ex!Symbol(Names)) /\ secs \in Seq(Ex!Section(Names))
      /\ rela.sym \in 0..Len(syms) /\ rela.sym # 0 /\ syms[rela.sym].sec # 0
  BY <1>3 DEF Ex!Object, Ex!AllDefined, Ex!Defined
<1>5. rela.sym \in DOMAIN syms /\ Ex!Defined(rela.sym)
  BY <1>4 DEF Ex!Defined
<1>6. Ex!SymbolAddr(secs, syms[rela.sym]) \in Nat
  BY <1>3, <1>5, Ex!SymbolAddrIsAddress, ExAssumptions
<1>7. SymAt(syms[rela.sym]) \in Nat
  BY <1>6 DEF SymAt, Ex!SymbolAddr, Ex!Modulus
<1>8. secs[d].addr \in Nat
  <2>1. secs[d] \in Ex!Section(Names)
    BY <1>4
  <2> QED
    BY <2>1 DEF Ex!Section
<1> HIDE DEF rela
<1>9. Exact(d, rela) \in Int
  BY <1>2, <1>7, <1>8 DEF Exact
<1> QED
  BY <1>9 DEF rela

(* A field whose relocation has been applied reads back as what it asked.  *)
LEMMA FieldReadsBack ==
  ASSUME LaidOut, NEW d \in DOMAIN secs, NEW q \in DOMAIN secs[d].relas,
         FieldHolds(d, secs[d].relas[q]), Exact(d, secs[d].relas[q]) \in Int
  PROVE  LET rela == secs[d].relas[q]
         IN Decode(secs[d].data, rela.off, FieldWidth(rela.type)) = Written(d, rela)
<1> DEFINE rela == secs[d].relas[q]
           w == FieldWidth(rela.type)
           v == Written(d, rela)
<1>1. rela.off \in Nat /\ w \in 0..8
  BY OffsetsAre
<1>2. PICK m \in Nat \ {0} : m = ByteBase^w
  BY <1>1, Powers
<1>3. v = Exact(d, rela) % m
  BY <1>2 DEF Written
<1>4. v \in 0..(m - 1)
  <2>1. Exact(d, rela) \in Int
    OBVIOUS
  <2> HIDE DEF v
  <2> QED
    BY <1>3, <2>1
<1>5. \A j \in 0..(w - 1) :
        secs[d].data[rela.off + 1 + j][1] = (v \div ByteBase^j) % ByteBase
  <2> SUFFICES ASSUME NEW j \in 0..(w - 1)
               PROVE  secs[d].data[rela.off + 1 + j][1] = (v \div ByteBase^j) % ByteBase
    OBVIOUS
  <2>1. /\ j + 1 \in 1..w /\ (j + 1) - 1 = j /\ rela.off + 1 + j = rela.off + (j + 1)
    <3> HIDE DEF rela, w
    <3> QED
      BY <1>1
  <2>2. secs[d].data[rela.off + (j + 1)] = <<(v \div ByteBase^((j + 1) - 1)) % ByteBase>>
    BY <2>1 DEF FieldHolds
  <2> QED
    BY <2>1, <2>2
<1>6. v \in 0..(ByteBase^w - 1)
  BY <1>2, <1>4
<1> HIDE DEF rela, w, v
<1>7. Decode(secs[d].data, rela.off, w) = v
  <2>1. \A data, off : \A width \in 0..8 : \A value \in 0..(ByteBase^width - 1) :
          (\A j \in 0..(width - 1) : data[off + 1 + j][1] = (value \div ByteBase^j) % ByteBase)
            => Decode(data, off, width) = value
    BY Powers, DecodeDigits
  <2>2. PICK data, off, width, value :
          data = secs[d].data /\ off = rela.off /\ width = w /\ value = v
    OBVIOUS
  <2>3. /\ width \in 0..8 /\ value \in 0..(ByteBase^width - 1)
        /\ \A j \in 0..(width - 1) : data[off + 1 + j][1] = (value \div ByteBase^j) % ByteBase
    BY <1>1, <1>5, <1>6, <2>2
  <2>4. Decode(data, off, width) = value
    BY <2>1, <2>3
  <2> QED
    BY <2>2, <2>4
<1> QED
  BY <1>7 DEF rela, w, v

(* Theorem: in an executable whose inputs' relocations patch bytes apart,  *)
(* a pc-relative field leads to its symbol and an absolute one holds its   *)
(* address, where rel.c's cut to the field's width loses nothing           *)
(* (Rel_x86_64_One, rel.c, under the loop of Link_Exec).                   *)
THEOREM FieldsArrive == LinkSpec => []FieldsReach
<1>1. LinkInv => FieldsReach
  <2> SUFFICES ASSUME LinkInv, pc = "linked", etype = "EXEC", FieldsApart,
                      NEW d \in DOMAIN secs, NEW q \in DOMAIN secs[d].relas
               PROVE  FieldReaches(d, secs[d].relas[q])
    BY DEF FieldsReach
  <2> DEFINE rela == secs[d].relas[q]
             x == Exact(d, rela)
             w == FieldWidth(rela.type)
             held == Decode(secs[d].data, rela.off, w)
  <2>1. LaidOut /\ FieldsInv /\ DefinedInv /\ Ex!ExecTyped
    BY DEF LinkInv, LinkTyped, FinishPhases
  <2>2. x \in Int
    BY <2>1, ExactIsNumber DEF DefinedInv
  <2>3. FieldHolds(d, rela)
    BY <2>1, ApartMeans DEF FieldsInv, Applied
  <2>4. held = Written(d, rela)
    BY <2>1, <2>2, <2>3, FieldReadsBack
  <2>5. w \in 0..8
    BY <2>1, OffsetsAre
  <2>6. PICK m \in Nat \ {0} : m = ByteBase^w
    BY <2>5, Powers
  <2>7. held = x % m
    BY <2>4, <2>6 DEF Written
  <2>8. /\ x \in (-(m \div 2))..((m \div 2) - 1) =>
             (IF 2 * held >= m THEN held - m ELSE held) = x
        /\ x \in 0..(2 * (m \div 2) - 1) => held = x
    <3> HIDE DEF x, held
    <3> QED
      BY <2>2, <2>7, HeldIsExact
  <2>9. /\ Exec!Width(rela.type) = w /\ Exec!Modulus(w) = m
        /\ Exec!SymbolAddr(secs, syms[rela.sym]) = SymAt(syms[rela.sym])
        /\ Exec!PcRelative = {"PC32", "PLT32"}
    BY <2>6 DEF Exec!Width, FieldWidth, Exec!Modulus, Exec!SymbolAddr, SymAt, Exec!PcRelative
  <2>10. FieldReaches(d, rela)
    <3> HIDE DEF rela, w
    <3> QED
      BY <2>8, <2>9 DEF FieldReaches, Signed, Exact
  <2> QED
    BY <2>10
<1> QED
  BY <1>1, LinkInvariant, PTL

-----------------------------------------------------------------------------
(* What the tools do with a link.                                          *)


(* Link order. *)
Ahead(o, s, o2, s2) == o < o2 \/ (o = o2 /\ s < s2)

-----------------------------------------------------------------------------
(* Sections.                                                               *)

(* Section d of the output was made for section s of object o.             *)
HeadOf(d, o, s) ==
  /\ Mapped(o, s) /\ maps[o].sec[s] = d /\ maps[o].base[s] = 0
  /\ secs[d].alloc = units[o].secs[s].alloc
  /\ \A o2, s2 : Mapped(o2, s2) /\ maps[o2].sec[s2] = d => (o2 = o /\ s2 = s) \/ Ahead(o, s, o2, s2)

(* The output has one section for all that have its name; they stand there *)
(* in link order, the first at its start.                                  *)
SectionsInv ==
  /\ \A d, e \in DOMAIN secs : secs[d].name = secs[e].name => d = e
  /\ \A o, s : Mapped(o, s) => secs[maps[o].sec[s]].name = units[o].secs[s].name
  /\ \A d \in DOMAIN secs : \E o, s : HeadOf(d, o, s)
  /\ \A o, s, o2, s2 :
       Mapped(o, s) /\ Mapped(o2, s2) /\ maps[o].sec[s] = maps[o2].sec[s2] /\ Ahead(o, s, o2, s2)
         => maps[o].base[s] + Len(units[o].secs[s].data) <= maps[o2].base[s2]

(* Nothing has an address before it is placed. *)
NoAddress == \A d \in DOMAIN secs : secs[d].addr = 0

LEMMA BufAlignOfNothing ==
  ASSUME NEW a \in Nat
  PROVE  Len(BufAlign(<< >>, a)) = 0
<1>1. Padding(0, a) = 0
  <2>1. CASE a > 1
    <3>1. PICK z \in 0..(a - 1) : z = 0 /\ z = -0
      BY <2>1
    <3>2. z % a = z
      BY SmallRemainder
    <3>3. Padding(0, a) = z % a
      BY <2>1, <3>1, Zenon DEF Padding
    <3> QED
      BY <3>1, <3>2, <3>3
  <2>2. CASE ~(a > 1)
    BY <2>2 DEF Padding
  <2> QED
    BY <2>1, <2>2
<1>2. Zeros(0) \in Seq(Seq(Nat)) /\ Len(Zeros(0)) = 0
  <2>1. \A j \in 1..0 : Byte(0) \in Seq(Nat)
    BY DEF Byte
  <2>2. Zeros(0) \in [1..0 -> Seq(Nat)]
    BY <2>1 DEF Zeros
  <2>3. 0 \in Nat
    OBVIOUS
  <2> QED
    BY <2>2, <2>3, FunctionIsSeq
<1>3. << >> \in Seq(Seq(Nat)) /\ Len(<< >>) = 0
  OBVIOUS
<1>4. Len(<< >> \o Zeros(0)) = 0
  BY <1>2, <1>3, ConcatProperties
<1> QED
  BY <1>1, <1>3, <1>4 DEF BufAlign

(* What appending a section does to the names of the output. *)
LEMMA MergeSectionNames ==
  ASSUME MergeTyped, MergeSection
  PROVE  /\ secs'[Into].name = InSec.name
         /\ \A e \in DOMAIN secs :
              /\ secs'[e].name = secs[e].name /\ secs'[e].alloc = secs[e].alloc
              /\ secs'[e].addr = secs[e].addr
         /\ Into \notin DOMAIN secs =>
              /\ secs'[Into].alloc = InSec.alloc /\ secs'[Into].addr = 0 /\ Len(Room) = 0
              /\ \A e \in DOMAIN secs : secs[e].name # InSec.name
<1>1. InSec \in Section(Names)
  BY MergeSectionEffect
<1>2. InSec.name \in Names /\ InSec.alloc \in BOOLEAN /\ InSec.align \in Nat
  BY <1>1 DEF Section
<1>3. /\ Got \in Seq(Section(Names)) /\ Into \in 1..Len(Got) /\ Got[Into].name = InSec.name
      /\ Len(secs) <= Len(Got)
      /\ \A e \in 1..Len(secs) : Got[e] = secs[e]
      /\ \A e \in 1..Len(Got) : e \notin 1..Len(secs) => e = Len(secs) + 1 /\ e = Into
      /\ Got # secs => \A e \in 1..Len(secs) : secs[e].name # InSec.name
  BY <1>2, TypedFacts, SectionGetExtends DEF Got, Into
<1>4. DOMAIN secs = 1..Len(secs) /\ Len(secs) \in Nat /\ secs \in Seq(Section(Names))
  BY TypedFacts
<1>5. secs' = [Got EXCEPT ![Into].align = IF InSec.align > @ THEN InSec.align ELSE @,
                          ![Into].data = Room \o InSec.data]
  BY DEF MergeSection, Got, Into, Room
<1>6. /\ secs'[Into].name = Got[Into].name /\ secs'[Into].alloc = Got[Into].alloc
      /\ secs'[Into].addr = Got[Into].addr
      /\ \A e \in 1..Len(Got) : e # Into => secs'[e] = Got[e]
  <2>1. Got[Into] \in Section(Names)
    BY <1>3, ElementOfSeq
  <2> DEFINE align == IF InSec.align > Got[Into].align THEN InSec.align ELSE Got[Into].align
             data == Room \o InSec.data
             new == [Got[Into] EXCEPT !.align = align, !.data = data]
  <2>2. secs' = [Got EXCEPT ![Into] = new]
    BY <1>3, <1>5
  <2>3. new.name = Got[Into].name /\ new.alloc = Got[Into].alloc /\ new.addr = Got[Into].addr
    BY <2>1 DEF Section
  <2> HIDE DEF new
  <2> QED
    BY <1>3, <2>2, <2>3
<1>7. \A e \in DOMAIN secs :
        /\ secs'[e].name = secs[e].name /\ secs'[e].alloc = secs[e].alloc
        /\ secs'[e].addr = secs[e].addr
  BY <1>3, <1>4, <1>6
<1>8. ASSUME Into \notin DOMAIN secs
      PROVE  /\ secs'[Into].alloc = InSec.alloc /\ secs'[Into].addr = 0 /\ Len(Room) = 0
             /\ \A e \in DOMAIN secs : secs[e].name # InSec.name
  <2>1. Got # secs /\ Into = Len(secs) + 1
    BY <1>3, <1>4, <1>8
  <2>2. Got = Append(secs, NewSection(InSec.name, InSec.alloc))
    BY <2>1 DEF Got, SectionGet
  <2> DEFINE x == NewSection(InSec.name, InSec.alloc)
  <2>3. x \in Section(Names)
    <3>1. << >> \in Seq(Seq(Nat)) /\ << >> \in Seq(Rela)
      OBVIOUS
    <3> QED
      BY <1>2, <3>1 DEF NewSection, Section
  <2>4. x.alloc = InSec.alloc /\ x.addr = 0 /\ x.data = << >>
    BY DEF NewSection
  <2> HIDE DEF x
  <2>5. Got[Into] = x
    <3>1. Append(secs, x)[Len(secs) + 1] = x
      BY <1>4, <2>3, AppendProperties
    <3> QED
      BY <2>1, <2>2, <3>1, Zenon DEF x
  <2>6. Len(Room) = 0
    BY <1>2, <2>4, <2>5, BufAlignOfNothing DEF Room
  <2>7. secs'[Into].alloc = InSec.alloc /\ secs'[Into].addr = 0
    BY <1>6, <2>4, <2>5
  <2>8. \A e \in DOMAIN secs : secs[e].name # InSec.name
    <3>1. \A e \in 1..Len(secs) : secs[e].name # InSec.name
      BY <1>3, <2>1, Zenon
    <3> QED
      BY <1>4, <3>1, Zenon
  <2> QED
    BY <2>6, <2>7, <2>8
<1> QED
  BY <1>3, <1>6, <1>7, <1>8

LEMMA MergeRelocNames ==
  ASSUME MergeTyped, MergeReloc
  PROVE  \A e \in DOMAIN secs :
           /\ secs'[e].name = secs[e].name /\ secs'[e].alloc = secs[e].alloc
           /\ secs'[e].addr = secs[e].addr
<1>1. CASE InRel.sym = 0
  BY <1>1, MergeRelocEffect
<1>2. CASE InRel.sym # 0
  <2> DEFINE d == maps[k].sec[i]
             x == Append(secs[d].relas, Rebased)
             new == [secs[d] EXCEPT !.relas = x]
  <2>1. d \in 1..Len(secs) /\ secs \in Seq(Section(Names)) /\ DOMAIN secs = 1..Len(secs)
    BY MergeRelocEffect, TypedFacts
  <2>2. secs' = [secs EXCEPT ![d].relas = x]
    BY <1>2, <2>1 DEF MergeReloc, CarryReloc, Rebased
  <2>3. secs[d] \in Section(Names)
    BY <2>1, ElementOfSeq
  <2> HIDE DEF d, x
  <2>4. secs' = [secs EXCEPT ![d] = new]
    BY <2>1, <2>2
  <2>5. new.name = secs[d].name /\ new.alloc = secs[d].alloc /\ new.addr = secs[d].addr
    BY <2>3 DEF Section
  <2> HIDE DEF new
  <2> QED
    BY <2>1, <2>4, <2>5
<1> QED
  BY <1>1, <1>2

(* No step but MergeSection adds to the sections or renames them. *)
LEMMA SectionsLeftAlone ==
  ASSUME SectionsInv, units' = units, DOMAIN secs' = DOMAIN secs,
         \A e \in DOMAIN secs : secs'[e].name = secs[e].name /\ secs'[e].alloc = secs[e].alloc,
         \A o, s : Mapped(o, s)' <=> Mapped(o, s),
         \A o, s : Mapped(o, s) =>
           /\ maps[o].sec[s] \in DOMAIN secs
           /\ maps'[o].sec[s] = maps[o].sec[s] /\ maps'[o].base[s] = maps[o].base[s]
  PROVE  SectionsInv'
<1>1. \A d, e \in DOMAIN secs' : secs'[d].name = secs'[e].name => d = e
  BY DEF SectionsInv
<1>2. \A o, s : Mapped(o, s)' => secs'[maps'[o].sec[s]].name = units'[o].secs[s].name
  BY DEF SectionsInv
<1>3. ASSUME NEW d \in DOMAIN secs' PROVE \E o, s : HeadOf(d, o, s)'
  <2>1. PICK o, s : HeadOf(d, o, s)
    BY DEF SectionsInv
  <2>2. HeadOf(d, o, s)'
    BY <2>1 DEF HeadOf
  <2> QED
    BY <2>2
<1>4. \A o, s, o2, s2 :
        Mapped(o, s)' /\ Mapped(o2, s2)' /\ maps'[o].sec[s] = maps'[o2].sec[s2] /\ Ahead(o, s, o2, s2)
          => maps'[o].base[s] + Len(units'[o].secs[s].data) <= maps'[o2].base[s2]
  BY DEF SectionsInv
<1> QED
  BY <1>1, <1>2, <1>3, <1>4 DEF SectionsInv

(* The section just appended comes last in link order. *)
LEMMA NewPieceIsLast ==
  ASSUME MergeTyped, MergeSection, NEW o, NEW s, Mapped(o, s)
  PROVE  /\ Ahead(o, s, k, i) /\ ~Ahead(k, i, o, s)
         /\ Mapped(o, s)' /\ (o # k \/ s # i)
         /\ maps'[o].sec[s] = maps[o].sec[s] /\ maps'[o].base[s] = maps[o].base[s]
<1>1. /\ o \in 1..k /\ s \in 1..Len(maps[o].sec) /\ k \in Nat \ {0} /\ i \in Nat \ {0}
      /\ Len(maps[k].sec) = i - 1
  BY MappedFacts, TypedFacts, ScalarFacts DEF MergeSection
<1>2. Ahead(o, s, k, i) /\ ~Ahead(k, i, o, s) /\ (o # k \/ s # i)
  <2>1. CASE o = k
    BY <1>1, <2>1 DEF Ahead
  <2>2. CASE o # k
    BY <1>1, <2>2 DEF Ahead
  <2> QED
    BY <2>1, <2>2
<1>3. Mapped(o, s)'
  <2>1. DOMAIN maps' = 1..k /\ \A x \in 1..k : x # k => maps'[x] = maps[x]
    BY MergeSectionEffect
  <2>2. maps'[k] = [sec  |-> Append(maps[k].sec, Into), base |-> Append(maps[k].base, Len(Room)),
                    sym  |-> maps[k].sym]
    BY MergeSectionEffect
  <2>3. CASE o # k
    BY <1>1, <2>1, <2>3 DEF Mapped
  <2>4. CASE o = k
    <3>1. maps[k].sec \in Seq(Nat)
      BY AtWork
    <3> DEFINE a == maps[k].sec
               b == Into
    <3>2. maps'[k].sec = Append(a, b)
      BY <2>2
    <3>3. s \in 1..Len(a) /\ a \in Seq(Nat)
      BY <1>1, <2>4, <3>1
    <3>4. b \in Nat
      <4>1. Into \in DOMAIN secs' /\ secs' \in Seq(Section(Names))
        BY MergeSectionEffect
      <4> QED
        BY <4>1
    <3> HIDE DEF a, b
    <3>5. s \in DOMAIN Append(a, b)
      BY <3>3, <3>4, AppendProperties
    <3> QED
      BY <1>1, <2>1, <2>4, <3>2, <3>5 DEF Mapped
  <2> QED
    BY <2>3, <2>4
<1>4. maps'[o].sec[s] = maps[o].sec[s] /\ maps'[o].base[s] = maps[o].base[s]
  BY <1>2, <1>3, OnePieceMore
<1> QED
  BY <1>2, <1>3, <1>4

LEMMA SectionsWhenAppended ==
  ASSUME MergeTyped, ContentsInv, SectionsInv, MergeSection
  PROVE  SectionsInv'
<1>1. /\ units' = units /\ InSec = units[k].secs[i] /\ k \in Nat /\ i \in Nat
      /\ Into \in DOMAIN secs' /\ DOMAIN secs \subseteq DOMAIN secs'
      /\ \A e \in DOMAIN secs' : e \notin DOMAIN secs => e = Into
      /\ Len(Room) \in Nat
  <2>1. Room \in Seq(Seq(Nat))
    BY MergeSectionEffect
  <2>2. /\ units' = units /\ InSec = units[k].secs[i] /\ k \in Nat /\ i \in Nat
    BY TypedFacts, ScalarFacts, Zenon DEF MergeSection, InSec, In
  <2>3. /\ Into \in DOMAIN secs' /\ DOMAIN secs \subseteq DOMAIN secs'
        /\ \A e \in DOMAIN secs' : e \notin DOMAIN secs => e = Into
    BY MergeSectionEffect
  <2> QED
    BY <2>1, <2>2, <2>3
<1>2. /\ secs'[Into].name = InSec.name
      /\ \A e \in DOMAIN secs :
           secs'[e].name = secs[e].name /\ secs'[e].alloc = secs[e].alloc
      /\ Into \notin DOMAIN secs =>
           /\ secs'[Into].alloc = InSec.alloc /\ Len(Room) = 0
           /\ \A e \in DOMAIN secs : secs[e].name # InSec.name
  BY MergeSectionNames
<1>3. \A o, s : Mapped(o, s) =>
        /\ maps[o].sec[s] \in DOMAIN secs
        /\ Ahead(o, s, k, i) /\ ~Ahead(k, i, o, s) /\ Mapped(o, s)'
        /\ maps'[o].sec[s] = maps[o].sec[s] /\ maps'[o].base[s] = maps[o].base[s]
  BY NewPieceIsLast, MappedFacts
<1>4. \A o, s : Mapped(o, s)' => Mapped(o, s) \/ (o = k /\ s = i)
  BY OnePieceMore
<1>5. \A o, s : o = k /\ s = i =>
        Mapped(o, s)' /\ maps'[o].sec[s] = Into /\ maps'[o].base[s] = Len(Room)
  <2> SUFFICES ASSUME NEW o, NEW s, o = k, s = i
               PROVE  Mapped(o, s)' /\ maps'[o].sec[s] = Into /\ maps'[o].base[s] = Len(Room)
    OBVIOUS
  <2>1. maps[k].sec \in Seq(Nat) /\ Len(maps[k].sec) = i - 1 /\ DOMAIN maps' = 1..k
    BY AtWork, ScalarFacts, MergeSectionEffect, Zenon DEF MergeSection
  <2>2. maps'[k] = [sec  |-> Append(maps[k].sec, Into), base |-> Append(maps[k].base, Len(Room)),
                    sym  |-> maps[k].sym]
    BY MergeSectionEffect
  <2> DEFINE a == maps[k].sec
             b == Into
  <2>3. a \in Seq(Nat) /\ Len(a) = i - 1 /\ maps'[k].sec = Append(a, b)
    BY <2>1, <2>2
  <2>4. b \in Nat
    <3>1. secs' \in Seq(Section(Names))
      BY MergeSectionEffect
    <3> QED
      BY <1>1, <3>1
  <2> HIDE DEF a, b
  <2>5. i \in DOMAIN Append(a, b)
    BY <1>1, <2>3, <2>4, ScalarFacts, AppendProperties
  <2>6. Mapped(o, s)'
    <3>1. k \in DOMAIN maps'
      BY <2>1, TypedFacts
    <3> QED
      BY <2>3, <2>5, <3>1 DEF Mapped
  <2>7. ~Mapped(o, s)
    BY NewPieceIsLast
  <2> QED
    BY <2>6, <2>7, OnePieceMore
<1>6. \A d, e \in DOMAIN secs' : secs'[d].name = secs'[e].name => d = e
  <2> SUFFICES ASSUME NEW d \in DOMAIN secs', NEW e \in DOMAIN secs', secs'[d].name = secs'[e].name
               PROVE  d = e
    OBVIOUS
  <2>1. CASE d \in DOMAIN secs /\ e \in DOMAIN secs
    BY <1>2, <2>1 DEF SectionsInv
  <2>2. CASE d \notin DOMAIN secs /\ e \in DOMAIN secs
    BY <1>1, <1>2, <2>2
  <2>3. CASE d \in DOMAIN secs /\ e \notin DOMAIN secs
    BY <1>1, <1>2, <2>3
  <2>4. CASE d \notin DOMAIN secs /\ e \notin DOMAIN secs
    BY <1>1, <2>4
  <2> QED
    BY <2>1, <2>2, <2>3, <2>4
<1>7. \A o, s : Mapped(o, s)' => secs'[maps'[o].sec[s]].name = units'[o].secs[s].name
  <2> SUFFICES ASSUME NEW o, NEW s, Mapped(o, s)'
               PROVE  secs'[maps'[o].sec[s]].name = units'[o].secs[s].name
    OBVIOUS
  <2>1. CASE Mapped(o, s)
    BY <1>1, <1>2, <1>3, <2>1 DEF SectionsInv
  <2>2. CASE o = k /\ s = i
    BY <1>1, <1>2, <1>5, <2>2
  <2> QED
    BY <1>4, <2>1, <2>2
<1>8. ASSUME NEW d \in DOMAIN secs' PROVE \E o, s : HeadOf(d, o, s)'
  <2>1. CASE d \in DOMAIN secs
    <3>1. PICK o, s : HeadOf(d, o, s)
      BY <2>1 DEF SectionsInv
    <3>2. Mapped(o, s)' /\ maps'[o].sec[s] = d /\ maps'[o].base[s] = 0
          /\ secs'[d].alloc = units'[o].secs[s].alloc
      BY <1>1, <1>2, <1>3, <2>1, <3>1 DEF HeadOf
    <3>3. ASSUME NEW o2, NEW s2, Mapped(o2, s2)', maps'[o2].sec[s2] = d
          PROVE  (o2 = o /\ s2 = s) \/ Ahead(o, s, o2, s2)
      <4>1. CASE Mapped(o2, s2)
        BY <1>3, <3>1, <3>3, <4>1 DEF HeadOf
      <4>2. CASE o2 = k /\ s2 = i
        BY <1>3, <3>1, <4>2 DEF HeadOf
      <4> QED
        BY <1>4, <3>3, <4>1, <4>2
    <3>4. HeadOf(d, o, s)'
      BY <3>2, <3>3 DEF HeadOf
    <3> QED
      BY <3>4
  <2>2. CASE d \notin DOMAIN secs
    <3>1. d = Into
      BY <1>1, <2>2
    <3>2. PICK o, s : o = k /\ s = i
      OBVIOUS
    <3>3. Mapped(o, s)' /\ maps'[o].sec[s] = d /\ maps'[o].base[s] = 0
          /\ secs'[d].alloc = units'[o].secs[s].alloc
      BY <1>1, <1>2, <1>5, <2>2, <3>1, <3>2
    <3>4. \A o2, s2 : Mapped(o2, s2)' /\ maps'[o2].sec[s2] = d => (o2 = o /\ s2 = s)
      BY <1>3, <1>4, <2>2, <3>2
    <3>5. HeadOf(d, o, s)'
      BY <3>3, <3>4 DEF HeadOf
    <3> QED
      BY <3>5
  <2> QED
    BY <2>1, <2>2
<1>9. ASSUME NEW o, NEW s, NEW o2, NEW s2, Mapped(o, s)', Mapped(o2, s2)',
             maps'[o].sec[s] = maps'[o2].sec[s2], Ahead(o, s, o2, s2)
      PROVE  maps'[o].base[s] + Len(units'[o].secs[s].data) <= maps'[o2].base[s2]
  <2>1. CASE Mapped(o, s) /\ Mapped(o2, s2)
    BY <1>1, <1>3, <1>9, <2>1 DEF SectionsInv
  <2>2. CASE Mapped(o, s) /\ o2 = k /\ s2 = i
    <3>1. maps[o].sec[s] = Into /\ Into \in DOMAIN secs
      BY <1>3, <1>5, <1>9, <2>2
    <3>2. maps[o].base[s] + Len(units[o].secs[s].data) <= Len(secs[Into].data)
      BY <2>2, <3>1 DEF ContentsInv, PieceKept
    <3>3. Len(secs[Into].data) <= Len(Room) /\ Len(secs[Into].data) \in Nat
      <4>1. secs[Into] \in Section(Names)
        BY <3>1, TypedFacts, ElementOfSeq
      <4>2. secs[Into].data \in Seq(Seq(Nat))
        BY <4>1 DEF Section
      <4> QED
        BY <3>1, <4>2, MergeSectionEffect
    <3>4. maps[o].base[s] \in Nat /\ Len(units[o].secs[s].data) \in Nat
      BY <2>2, MappedFacts
    <3>5. maps'[o].base[s] = maps[o].base[s] /\ maps'[o2].base[s2] = Len(Room) /\ units' = units
      BY <1>1, <1>3, <1>5, <2>2
    <3>6. PICK b, n, m, room : /\ b = maps[o].base[s] /\ n = Len(units[o].secs[s].data)
                               /\ m = Len(secs[Into].data) /\ room = Len(Room)
      OBVIOUS
    <3>7. b \in Nat /\ n \in Nat /\ m \in Nat /\ room \in Nat /\ b + n <= m /\ m <= room
      BY <1>1, <3>2, <3>3, <3>4, <3>6
    <3>8. b + n <= room
      BY <3>7
    <3> QED
      BY <3>5, <3>6, <3>8
  <2>3. CASE o = k /\ s = i
    <3>1. ~(o2 = k /\ s2 = i)
      BY <1>1, <1>9, <2>3 DEF Ahead
    <3>2. Mapped(o2, s2)
      BY <1>4, <1>9, <3>1
    <3> QED
      BY <1>3, <1>9, <2>3, <3>2
  <2> QED
    BY <1>4, <1>9, <2>1, <2>2, <2>3
<1> QED
  BY <1>6, <1>7, <1>8, <1>9 DEF SectionsInv

LEMMA SectionsInitially == MergeInit /\ WellFormed(units) => SectionsInv /\ NoAddress
<1> SUFFICES ASSUME MergeInit, WellFormed(units) PROVE SectionsInv /\ NoAddress
  OBVIOUS
<1>1. secs = units[1].secs /\ maps = <<Identity(units[1])>>
  BY DEF MergeInit
<1>2. /\ \A s, t \in DOMAIN secs : secs[s].name = secs[t].name => s = t
      /\ \A s \in DOMAIN secs : secs[s].addr = 0
  BY <1>1 DEF WellFormed, Exec!FreshlyEncoded
<1>3. \A o, s : Mapped(o, s) <=> o = 1 /\ s \in DOMAIN secs
  BY <1>1 DEF Mapped, Identity
<1>4. \A s \in DOMAIN secs :
        maps[1].sec[s] = s /\ maps[1].base[s] = 0 /\ units[1].secs[s] = secs[s]
  BY <1>1 DEF Identity
<1>5. \A d \in DOMAIN secs : HeadOf(d, 1, d)
  BY <1>3, <1>4 DEF HeadOf
<1>6. ASSUME NEW o, NEW s, NEW o2, NEW s2, Mapped(o, s), Mapped(o2, s2),
             maps[o].sec[s] = maps[o2].sec[s2]
      PROVE  ~Ahead(o, s, o2, s2)
  <2>1. o = 1 /\ o2 = 1 /\ s = s2 /\ s \in DOMAIN secs
    BY <1>3, <1>4, <1>6
  <2>2. s \in Nat
    <3>1. MergeTyped
      BY MergeInitTyped
    <3> QED
      BY <2>1, <3>1, TypedFacts
  <2> QED
    BY <2>1, <2>2 DEF Ahead
<1> QED
  BY <1>2, <1>3, <1>4, <1>5, <1>6 DEF SectionsInv, NoAddress

LEMMA SectionsStep ==
  ASSUME MergeTyped, ContentsInv, SectionsInv, NoAddress, [MergeNext]_mergeVars
  PROVE  SectionsInv' /\ NoAddress'
<1>0. \A o, s : Mapped(o, s) => maps[o].sec[s] \in DOMAIN secs
  BY MappedFacts
<1>1. CASE MergeSection
  <2>1. SectionsInv'
    BY <1>1, SectionsWhenAppended
  <2>2. \A d \in DOMAIN secs' : secs'[d].addr = 0
    BY <1>1, MergeSectionEffect, MergeSectionNames DEF NoAddress
  <2> QED
    BY <2>1, <2>2 DEF NoAddress
<1>2. CASE ReadObject
  <2>1. /\ units' = units /\ secs' = secs /\ k \in Nat
        /\ DOMAIN maps = 1..k /\ DOMAIN maps' = 1..(k + 1)
        /\ \A o \in 1..k : maps'[o] = maps[o]
    BY <1>2, ReadObjectEffect
  <2>2. DOMAIN maps'[k + 1].sec = {}
    <3>1. maps'[k + 1] = [sec |-> << >>, base |-> << >>, sym |-> << >>]
      BY <1>2, ReadObjectEffect
    <3> QED
      BY <3>1
  <2>3. ASSUME NEW o, NEW s
        PROVE  Mapped(o, s)' <=> Mapped(o, s)
    <3>1. CASE o \in 1..k
      BY <2>1, <3>1 DEF Mapped
    <3>2. CASE o = k + 1
      BY <2>1, <2>2, <3>2 DEF Mapped
    <3>3. CASE o \notin 1..(k + 1)
      BY <2>1, <3>3 DEF Mapped
    <3> QED
      BY <2>1, <3>1, <3>2, <3>3
  <2>4. \A o, s : Mapped(o, s) => maps'[o] = maps[o]
    BY <2>1 DEF Mapped
  <2> QED
    BY <1>0, <2>1, <2>3, <2>4, SectionsLeftAlone DEF NoAddress
<1>3. CASE AddSymbol \/ ReferGlobal \/ DefineGlobal
  <2>1. /\ units' = units /\ secs' = secs
        /\ DOMAIN maps = 1..k /\ DOMAIN maps' = 1..k
        /\ \A o \in 1..k : maps'[o].sec = maps[o].sec /\ maps'[o].base = maps[o].base
    BY <1>3, SymbolStepEffect
  <2>2. \A o, s : Mapped(o, s)' <=> Mapped(o, s)
    BY <2>1 DEF Mapped
  <2>3. \A o, s : Mapped(o, s) => maps'[o].sec = maps[o].sec /\ maps'[o].base = maps[o].base
    BY <2>1 DEF Mapped
  <2> QED
    BY <1>0, <2>1, <2>2, <2>3, SectionsLeftAlone DEF NoAddress
<1>4. CASE MergeReloc
  <2>1. UNCHANGED <<units, maps>>
    BY <1>4 DEF MergeReloc, CarryReloc
  <2>2. DOMAIN secs' = DOMAIN secs
    BY <1>4, MergeRelocEffect, TypedFacts
  <2>3. \A o, s : Mapped(o, s)' <=> Mapped(o, s)
    BY <2>1 DEF Mapped
  <2> QED
    BY <1>0, <1>4, <2>1, <2>2, <2>3, MergeRelocNames, SectionsLeftAlone DEF NoAddress
<1>5. CASE Moves
  <2>1. UNCHANGED <<units, secs, maps>>
    BY <1>5, MovesKeep
  <2>2. \A o, s : Mapped(o, s)' <=> Mapped(o, s)
    BY <2>1 DEF Mapped
  <2> QED
    BY <1>0, <2>1, <2>2, SectionsLeftAlone DEF NoAddress
<1> QED
  BY <1>1, <1>2, <1>3, <1>4, <1>5, StepKinds

-----------------------------------------------------------------------------
(* Symbols.                                                                *)

(* Symbol q of object o is the first of its name among those mapped so     *)
(* far, and what it became is the first symbol of that name in the output. *)
LeadOf(j, o, q) ==
  /\ SymMapped(o, q) /\ units[o].syms[q].name = syms[j].name
  /\ \A e \in DOMAIN syms : syms[e].name = syms[j].name => maps[o].sym[q] <= e
  /\ \A o2, q2 : SymMapped(o2, q2) /\ units[o2].syms[q2].name = syms[j].name =>
       (o2 = o /\ q2 = q) \/ Ahead(o, q, o2, q2)

(* Symbol q of object o defines a global name. *)
Defining(o, q) ==
  /\ SymMapped(o, q)
  /\ units[o].syms[q].bind # "LOCAL" /\ units[o].syms[q].sec # 0

(* No global name has been defined twice, and the output's symbols come in *)
(* the order of the first labels of their names.                           *)
LabelsInv ==
  /\ UniqueGlobals(syms)
  /\ \A o, q, o2, q2 :
       Defining(o, q) /\ Defining(o2, q2) /\ units[o].syms[q].name = units[o2].syms[q2].name
         => o = o2 /\ q = q2
  /\ \A j \in DOMAIN syms : \E o, q : LeadOf(j, o, q)

(* The symbol just mapped comes last in link order. *)
LEMMA NewLabelIsLast ==
  ASSUME MergeTyped, AtSymbol, NEW o, NEW q, SymMapped(o, q)
  PROVE  Ahead(o, q, k, i)
<1>1. o \in 1..k /\ q \in DOMAIN maps[o].sym /\ k \in Nat
  BY SymMappedFacts, TypedFacts
<1>2. i \in Nat /\ Len(maps[k].sym) = i - 1 /\ maps[k].sym \in Seq(Nat)
  BY ScalarFacts, AtWork DEF AtSymbol
<1>3. CASE o = k
  <2>1. q \in 1..(i - 1)
    BY <1>1, <1>2, <1>3
  <2> QED
    BY <1>2, <1>3, <2>1 DEF Ahead
<1>4. CASE o # k
  BY <1>1, <1>4 DEF Ahead
<1> QED
  BY <1>3, <1>4

LEMMA LabelsInitially ==
  MergeInit /\ WellFormed(units) => LabelsInv
<1> SUFFICES ASSUME MergeInit, WellFormed(units) PROVE LabelsInv
  OBVIOUS
<1>1. syms = units[1].syms /\ maps = <<Identity(units[1])>> /\ MergeTyped
  BY MergeInitTyped DEF MergeInit
<1>2. UniqueGlobals(syms)
  BY <1>1 DEF WellFormed, Exec!FreshlyEncoded, Exec!UniqueGlobals, UniqueGlobals
<1>3. \A o, q : SymMapped(o, q) <=> o = 1 /\ q \in DOMAIN syms
  BY <1>1 DEF SymMapped, Identity
<1>4. \A q \in DOMAIN syms : maps[1].sym[q] = q /\ units[1].syms[q] = syms[q]
  BY <1>1 DEF Identity
<1>5. \A o, q, o2, q2 :
        Defining(o, q) /\ Defining(o2, q2) /\ units[o].syms[q].name = units[o2].syms[q2].name
          => o = o2 /\ q = q2
  BY <1>2, <1>3, <1>4 DEF Defining, UniqueGlobals
<1>6. ASSUME NEW j \in DOMAIN syms PROVE \E o, q : LeadOf(j, o, q)
  <2> DEFINE S == {e \in DOMAIN syms : syms[e].name = syms[j].name}
  <2>1. DOMAIN syms = 1..Len(syms) /\ Len(syms) \in Nat
    BY <1>1, TypedFacts
  <2>2. S \in SUBSET (Nat \ {0}) /\ S # {}
    BY <2>1
  <2>3. PICK q \in S : \A e \in S : q <= e
    <3>1. S \in SUBSET Nat
      BY <2>2
    <3> HIDE DEF S
    <3> QED
      BY <2>2, <3>1, LeastExists
  <2>4. q \in DOMAIN syms /\ syms[q].name = syms[j].name
    BY <2>3
  <2>5. \A e \in DOMAIN syms : syms[e].name = syms[j].name => q <= e
    BY <2>3
  <2>6. ASSUME NEW q2 \in DOMAIN syms, syms[q2].name = syms[j].name
        PROVE  q2 = q \/ Ahead(1, q, 1, q2)
    BY <2>1, <2>4, <2>5, <2>6 DEF Ahead
  <2>7. LeadOf(j, 1, q)
    BY <1>3, <1>4, <2>4, <2>5, <2>6 DEF LeadOf
  <2> QED
    BY <2>7
<1> QED
  BY <1>2, <1>5, <1>6 DEF LabelsInv

(* A step that maps no symbol. *)
LEMMA LabelsUntouched ==
  ASSUME LabelsInv, units' = units, syms' = syms,
         \A o, q : SymMapped(o, q)' <=> SymMapped(o, q),
         \A o, q : SymMapped(o, q) => maps'[o] = maps[o]
  PROVE  LabelsInv'
<1>1. UniqueGlobals(syms')
  BY DEF LabelsInv
<1>2. \A o, q, o2, q2 :
       Defining(o, q)' /\ Defining(o2, q2)' /\ units'[o].syms[q].name = units'[o2].syms[q2].name
         => o = o2 /\ q = q2
  BY DEF LabelsInv, Defining
<1>3. ASSUME NEW j \in DOMAIN syms' PROVE \E o, q : LeadOf(j, o, q)'
  <2>1. PICK o, q : LeadOf(j, o, q)
    BY DEF LabelsInv
  <2>2. LeadOf(j, o, q)'
    BY <2>1 DEF LeadOf
  <2> QED
    BY <2>2
<1> QED
  BY <1>1, <1>2, <1>3 DEF LabelsInv

(* What a step of the symbol loop has to show: that it names the symbol it *)
(* maps the current label to, and defines no name again.                   *)
LEMMA LabelsWhenMapped ==
  ASSUME MergeTyped, SymbolsInv, LabelsInv, AtSymbol, NEW j \in Nat, MapSymbol(j),
         UniqueGlobals(syms'),
         DOMAIN syms \subseteq DOMAIN syms', j \in DOMAIN syms', syms'[j].name = InSym.name,
         \A e \in DOMAIN syms : syms'[e].name = syms[e].name,
         \A e \in DOMAIN syms' : e \notin DOMAIN syms => e = j /\ \A x \in DOMAIN syms : x <= j,
         InSym.bind # "LOCAL" /\ InSym.sec # 0 =>
           \A o, q : Defining(o, q) => units[o].syms[q].name # InSym.name
  PROVE  LabelsInv'
<1>1. /\ units' = units /\ InSym = units[k].syms[i]
      /\ \A o, q : SymMapped(o, q)' <=> SymMapped(o, q) \/ (o = k /\ q = i)
      /\ maps'[k].sym[i] = j
      /\ \A o, q : SymMapped(o, q) => maps'[o].sym[q] = maps[o].sym[q]
  BY OneSymbolMore
<1>2. \A o, q : SymMapped(o, q) =>
        /\ Ahead(o, q, k, i) /\ maps[o].sym[q] \in DOMAIN syms
        /\ syms[maps[o].sym[q]].name = units[o].syms[q].name
  <2> SUFFICES ASSUME NEW o, NEW q, SymMapped(o, q)
               PROVE  /\ Ahead(o, q, k, i) /\ maps[o].sym[q] \in DOMAIN syms
                      /\ syms[maps[o].sym[q]].name = units[o].syms[q].name
    OBVIOUS
  <2>1. SymKept(o, q)
    BY DEF SymbolsInv
  <2> QED
    BY <2>1, NewLabelIsLast, SymMappedFacts DEF SymKept
<1>3. \A o, q, o2, q2 :
        Defining(o, q)' /\ Defining(o2, q2)' /\ units'[o].syms[q].name = units'[o2].syms[q2].name
          => o = o2 /\ q = q2
  <2> SUFFICES ASSUME NEW o, NEW q, NEW o2, NEW q2, Defining(o, q)', Defining(o2, q2)',
                      units[o].syms[q].name = units[o2].syms[q2].name
               PROVE  o = o2 /\ q = q2
    BY <1>1
  <2>1. Defining(o, q) \/ (o = k /\ q = i /\ InSym.bind # "LOCAL" /\ InSym.sec # 0)
    BY <1>1 DEF Defining
  <2>2. Defining(o2, q2) \/ (o2 = k /\ q2 = i /\ InSym.bind # "LOCAL" /\ InSym.sec # 0)
    BY <1>1 DEF Defining
  <2>3. CASE Defining(o, q) /\ Defining(o2, q2)
    BY <2>3 DEF LabelsInv
  <2>4. CASE ~(Defining(o, q) /\ Defining(o2, q2))
    BY <1>1, <2>1, <2>2, <2>4
  <2> QED
    BY <2>3, <2>4
<1>4. ASSUME NEW d \in DOMAIN syms' PROVE \E o, q : LeadOf(d, o, q)'
  <2>1. CASE \E e \in DOMAIN syms : syms[e].name = syms'[d].name
    <3>1. PICK e \in DOMAIN syms : syms[e].name = syms'[d].name
      BY <2>1
    <3>2. PICK o, q : LeadOf(e, o, q)
      BY DEF LabelsInv
    <3>3. /\ SymMapped(o, q) /\ units[o].syms[q].name = syms'[d].name
          /\ \A x \in DOMAIN syms : syms[x].name = syms'[d].name => maps[o].sym[q] <= x
          /\ \A o2, q2 : SymMapped(o2, q2) /\ units[o2].syms[q2].name = syms'[d].name =>
               (o2 = o /\ q2 = q) \/ Ahead(o, q, o2, q2)
      BY <3>1, <3>2 DEF LeadOf
    <3>4. ASSUME NEW x \in DOMAIN syms', syms'[x].name = syms'[d].name
          PROVE  maps'[o].sym[q] <= x
      <4>1. CASE x \in DOMAIN syms
        BY <1>1, <3>3, <3>4, <4>1
      <4>2. CASE x \notin DOMAIN syms
        BY <1>1, <1>2, <3>3, <4>2
      <4> QED
        BY <4>1, <4>2
    <3>5. ASSUME NEW o2, NEW q2, SymMapped(o2, q2)', units'[o2].syms[q2].name = syms'[d].name
          PROVE  (o2 = o /\ q2 = q) \/ Ahead(o, q, o2, q2)
      BY <1>1, <1>2, <3>3, <3>5
    <3>6. LeadOf(d, o, q)'
      BY <1>1, <3>3, <3>4, <3>5 DEF LeadOf
    <3> QED
      BY <3>6
  <2>2. CASE ~(\E e \in DOMAIN syms : syms[e].name = syms'[d].name)
    <3>1. d = j /\ syms'[d].name = InSym.name
      BY <2>2
    <3>2. PICK o, q : o = k /\ q = i
      OBVIOUS
    <3>3. SymMapped(o, q)' /\ units'[o].syms[q].name = syms'[d].name /\ maps'[o].sym[q] = j
      BY <1>1, <3>1, <3>2
    <3>4. \A x \in DOMAIN syms' : syms'[x].name = syms'[d].name => x = j
      BY <2>2
    <3>5. \A o2, q2 : SymMapped(o2, q2)' /\ units'[o2].syms[q2].name = syms'[d].name =>
            o2 = o /\ q2 = q
      BY <1>1, <1>2, <2>2, <3>2
    <3>6. LeadOf(d, o, q)'
      <4>1. \A x \in DOMAIN syms' : syms'[x].name = syms'[d].name => maps'[o].sym[q] <= x
        BY <3>3, <3>4
      <4> QED
        BY <3>3, <3>5, <4>1 DEF LeadOf
    <3> QED
      BY <3>6
  <2> QED
    BY <2>1, <2>2
<1> QED
  BY <1>3, <1>4 DEF LabelsInv

(* What a definition mapped so far has become. *)
LEMMA DefiningFacts ==
  ASSUME MergeTyped, SymbolsInv, pc = "symbols", NEW o, NEW q, Defining(o, q)
  PROVE  /\ maps[o].sym[q] \in DOMAIN syms
         /\ syms[maps[o].sym[q]].name = units[o].syms[q].name
         /\ syms[maps[o].sym[q]].bind # "LOCAL" /\ syms[maps[o].sym[q]].sec # 0
<1>1. SymKept(o, q) /\ SymMapped(o, q) /\ units[o].syms[q].bind # "LOCAL" /\ units[o].syms[q].sec # 0
  BY DEF Defining, SymbolsInv
<1>2. maps[o].sym[q] \in DOMAIN syms /\ maps[o].sec[units[o].syms[q].sec] # 0
  BY <1>1, SymMappedFacts
<1>3. syms[maps[o].sym[q]].sec # 0
  BY <1>1, <1>2 DEF SymKept, MovedFrom
<1> QED
  BY <1>1, <1>2, <1>3 DEF SymKept

LEMMA LabelsStep ==
  ASSUME MergeTyped, SymbolsInv, LabelsInv, [MergeNext]_mergeVars
  PROVE  LabelsInv'
<1>0. UniqueGlobals(syms') /\ UniqueGlobals(syms)
  BY UniqueStep DEF LabelsInv
<1>1. CASE AddSymbol
  <2> DEFINE n == Len(syms) + 1
  <2>1. /\ MapSymbol(n) /\ n \in Nat /\ AtSymbol /\ pc = "symbols"
        /\ DOMAIN syms = 1..Len(syms) /\ DOMAIN syms' = 1..n /\ Len(syms) \in Nat
        /\ \A e \in DOMAIN syms : syms'[e] = syms[e]
        /\ syms'[n].name = InSym.name
    BY <1>1, AddSymbolEffect, MovedIsSymbol, TypedFacts DEF AddSymbol, AtSymbol
  <2>2. /\ DOMAIN syms \subseteq DOMAIN syms' /\ n \in DOMAIN syms'
        /\ \A e \in DOMAIN syms' : e \notin DOMAIN syms => e = n /\ \A x \in DOMAIN syms : x <= n
    BY <2>1
  <2>3. ASSUME InSym.bind # "LOCAL", NEW o, NEW q, Defining(o, q)
        PROVE  units[o].syms[q].name # InSym.name
    <3>1. Existing = 0
      BY <1>1, <2>3 DEF AddSymbol
    <3> QED
      BY <2>1, <2>3, <3>1, DefiningFacts, ExistingIsGlobal
  <2>4. PICK j \in Nat : j = n
    BY <2>1
  <2> HIDE DEF n
  <2>5. /\ MapSymbol(j) /\ j \in DOMAIN syms' /\ syms'[j].name = InSym.name
        /\ \A e \in DOMAIN syms' : e \notin DOMAIN syms => e = j /\ \A x \in DOMAIN syms : x <= j
    BY <2>1, <2>2, <2>4
  <2>6. \A e \in DOMAIN syms : syms'[e].name = syms[e].name
    BY <2>1
  <2> QED
    BY <1>0, <2>1, <2>2, <2>3, <2>5, <2>6, LabelsWhenMapped
<1>2. CASE ReferGlobal
  <2>1. /\ AtSymbol /\ MapSymbol(Existing) /\ syms' = syms /\ Existing \in DOMAIN syms
        /\ syms[Existing].name = InSym.name /\ InSym.sec = 0
    BY <1>2, ExistingIsGlobal DEF ReferGlobal
  <2>2. PICK j \in Nat : j = Existing
    BY ExistingIsGlobal, TypedFacts
  <2>3. MapSymbol(j) /\ j \in DOMAIN syms' /\ syms'[j].name = InSym.name
    BY <2>1, <2>2
  <2> QED
    BY <1>0, <2>1, <2>3, LabelsWhenMapped
<1>3. CASE DefineGlobal
  <2>1. /\ AtSymbol /\ MapSymbol(Existing) /\ Existing \in DOMAIN syms /\ DOMAIN syms' = DOMAIN syms
        /\ syms[Existing].name = InSym.name /\ syms[Existing].sec = 0 /\ syms[Existing].bind # "LOCAL"
        /\ pc = "symbols"
    BY <1>3, DefineGlobalEffect, ExistingIsGlobal, TypedFacts DEF DefineGlobal, AtSymbol
  <2>2. \A e \in DOMAIN syms : syms'[e].name = syms[e].name
    BY SymbolsGrow
  <2>3. ASSUME NEW o, NEW q, Defining(o, q)
        PROVE  units[o].syms[q].name # InSym.name
    BY <1>0, <2>1, <2>3, DefiningFacts DEF UniqueGlobals
  <2>4. PICK j \in Nat : j = Existing
    BY ExistingIsGlobal, TypedFacts
  <2>5. MapSymbol(j) /\ j \in DOMAIN syms' /\ syms'[j].name = InSym.name
    BY <2>1, <2>2, <2>4
  <2> QED
    BY <1>0, <2>1, <2>2, <2>3, <2>5, LabelsWhenMapped
<1>4. CASE ReadObject
  <2>1. /\ units' = units /\ syms' = syms /\ k \in Nat
        /\ DOMAIN maps = 1..k /\ DOMAIN maps' = 1..(k + 1)
        /\ \A o \in 1..k : maps'[o] = maps[o]
    BY <1>4, ReadObjectEffect
  <2>2. DOMAIN maps'[k + 1].sym = {}
    <3>1. maps'[k + 1] = [sec |-> << >>, base |-> << >>, sym |-> << >>]
      BY <1>4, ReadObjectEffect
    <3> QED
      BY <3>1
  <2>3. ASSUME NEW o, NEW q
        PROVE  SymMapped(o, q)' <=> SymMapped(o, q)
    <3>1. CASE o \in 1..k
      BY <2>1, <3>1 DEF SymMapped
    <3>2. CASE o = k + 1
      BY <2>1, <2>2, <3>2 DEF SymMapped
    <3>3. CASE o \notin 1..(k + 1)
      BY <2>1, <3>3 DEF SymMapped
    <3> QED
      BY <2>1, <3>1, <3>2, <3>3
  <2>4. \A o, q : SymMapped(o, q) => maps'[o] = maps[o]
    BY <2>1 DEF SymMapped
  <2> QED
    BY <2>1, <2>3, <2>4, LabelsUntouched
<1>5. CASE MergeSection
  <2>1. /\ DOMAIN maps' = 1..k /\ DOMAIN maps = 1..k
        /\ \A o \in 1..k : o # k => maps'[o] = maps[o]
        /\ maps'[k].sym = maps[k].sym
    <3>1. maps'[k] = [sec  |-> Append(maps[k].sec, Into),
                      base |-> Append(maps[k].base, Len(Room)),
                      sym  |-> maps[k].sym]
      BY <1>5, MergeSectionEffect
    <3>2. maps'[k].sym = maps[k].sym
      BY <3>1
    <3> QED
      BY <1>5, <3>2, MergeSectionEffect, TypedFacts
  <2>2. units' = units /\ syms' = syms /\ maps[k].sym = << >>
    BY <1>5, ScalarFacts DEF MergeSection
  <2>3. \A o, q : SymMapped(o, q)' <=> SymMapped(o, q)
    BY <2>1 DEF SymMapped
  <2>4. \A o, q : SymMapped(o, q) => maps'[o] = maps[o]
    <3>1. DOMAIN maps[k].sym = {}
      BY <2>2
    <3> QED
      BY <2>1, <3>1 DEF SymMapped
  <2> QED
    BY <2>2, <2>3, <2>4, LabelsUntouched
<1>6. CASE MergeReloc \/ Moves
  <2>1. UNCHANGED <<units, syms, maps>>
    BY <1>6, MovesKeep DEF MergeReloc, CarryReloc
  <2> QED
    BY <2>1, LabelsUntouched DEF SymMapped
<1> QED
  BY <1>1, <1>2, <1>3, <1>4, <1>5, <1>6, StepKinds

-----------------------------------------------------------------------------
(* What Link_Exec starts from and keeps.                                   *)

(* Every object was read, and each of its sections and symbols mapped.     *)
AllMerged ==
  /\ DOMAIN maps = DOMAIN units /\ DOMAIN units \subseteq Nat
  /\ \A o \in DOMAIN units :
       /\ units[o] \in Objects
       /\ DOMAIN maps[o].sec = DOMAIN units[o].secs
       /\ DOMAIN maps[o].sym = DOMAIN units[o].syms
  /\ \A o, q : SymMapped(o, q) => maps[o].sym[q] \in DOMAIN syms

MergeEnds == MergeTyped /\ pc = "merged" /\ k = Len(units)

LEMMA MergeEndsWhole == MergeEnds => AllMerged
<1> SUFFICES ASSUME MergeTyped, pc = "merged", k = Len(units) PROVE AllMerged
  BY DEF MergeEnds
<1>1. DOMAIN maps = DOMAIN units /\ DOMAIN units \subseteq Nat
  BY TypedFacts, ScalarFacts
<1>2. \A o \in DOMAIN maps : units[o] \in Objects
  BY DEF MergeTyped, MapsSound
<1>3. \A o, q : SymMapped(o, q) => maps[o].sym[q] \in DOMAIN syms
  BY SymMappedFacts
<1> QED
  BY <1>1, <1>2, <1>3, AllWhole DEF AllMerged

LEMMA MergeEndsWholeNext == MergeEnds' => AllMerged'
BY MergeEndsWhole, PTL

(* The request among places that holds for a name. *)
Asked(places, name) == First({n \in DOMAIN places : places[n].name = name})

(* Sections that are not loaded have no address, and those -place names    *)
(* the one it gives.                                                       *)
Addresses ==
  \A d \in DOMAIN secs :
    /\ ~secs[d].alloc => secs[d].addr = 0
    /\ Ex!Placed(d) /\ Asked(opts.places, secs[d].name) # 0 =>
         secs[d].addr = opts.places[Asked(opts.places, secs[d].name)].addr

LEMMA AskedIsRequest ==
  ASSUME NEW name
  PROVE  Ex!PlaceRequest(name) = Asked(opts.places, name)
BY DEF Ex!PlaceRequest, Ex!First, Ex!Min, Asked, First, Min

(* The entry is where the entry symbol was put, and stays there. *)
EntrySet ==
  pc = "apply" =>
    Ex!Defined(Ex!EntrySymbol) /\ entry = Ex!SymbolAddr(secs, syms[Ex!EntrySymbol])

(* A relocation that was applied is of a type Rel_x86_64_One knows. *)
TypesKnown ==
  pc = "apply" =>
    \A d \in DOMAIN secs : \A q \in DOMAIN secs[d].relas :
      Applied(d, q) => secs[d].relas[q].type \in Ex!Supported

(* Link_Exec leaves a section its name and whether it is loaded, and gives *)
(* an address to the section the placement loop is at.                     *)
LEMMA FinishingPlaces ==
  ASSUME Ex!ExecTyped, Ex!ExecNext
  PROVE  /\ DOMAIN secs' = DOMAIN secs
         /\ \A d \in DOMAIN secs : secs'[d].name = secs[d].name /\ secs'[d].alloc = secs[d].alloc
         /\ ~Ex!PlaceSection => \A d \in DOMAIN secs : secs'[d].addr = secs[d].addr
         /\ Ex!PlaceSection =>
              /\ i \in DOMAIN secs /\ secs[i].alloc /\ pc = "place" /\ i \in Nat
              /\ secs'[i].addr = Ex!PlacedAddr(secs[i].name)
              /\ \A d \in DOMAIN secs : d # i => secs'[d].addr = secs[d].addr
<1>1. CASE Ex!ApplyReloc
  <2>1. ~Ex!PlaceSection
    BY <1>1 DEF Ex!ApplyReloc, Ex!AtReloc, Ex!PlaceSection
  <2> QED
    BY <1>1, <2>1, Ex!ApplyRelocEffect, ExAssumptions
<1>2. CASE Ex!PlaceSection
  <2> DEFINE addr == Ex!PlacedAddr(secs[i].name)
  <2>1. /\ secs' = [secs EXCEPT ![i].addr = addr] /\ i <= Len(secs) /\ secs[i].alloc /\ pc = "place"
    BY <1>2 DEF Ex!PlaceSection
  <2>2. /\ [secs |-> secs, syms |-> syms] \in Ex!Object(Names) /\ i \in Nat \ {0}
        /\ opts \in LinkOptions /\ next \in Nat
    <3>1. /\ [secs |-> secs, syms |-> syms] \in Ex!Object(Names) /\ i \in Nat \ {0}
          /\ opts \in LinkOptions /\ next \in 0..(Ex!AddrMod - 1)
      BY DEF Ex!ExecTyped, Ex!ExecTypeOK
    <3>2. Ex!AddrMod \in Nat
      BY Ex!AddressSpace, ExAssumptions
    <3> QED
      BY <3>1, <3>2
  <2>3. i \in DOMAIN secs
    <3>1. secs \in Seq(Ex!Section(Names))
      BY <2>2 DEF Ex!Object
    <3> QED
      BY <2>1, <2>2, <3>1
  <2>4. addr \in Nat
    BY <2>2, Ex!PlacedAddrIsAddress, ExAssumptions
  <2> HIDE DEF addr
  <2>5. /\ DOMAIN secs' = DOMAIN secs /\ secs'[i].addr = addr
        /\ \A d \in DOMAIN secs :
             /\ secs'[d].name = secs[d].name /\ secs'[d].alloc = secs[d].alloc
             /\ d # i => secs'[d] = secs[d]
    <3>1. PICK j, v, new : j = i /\ v = addr /\ new = secs'
      OBVIOUS
    <3>2. /\ j \in DOMAIN secs /\ v \in Nat /\ new = [secs EXCEPT ![j].addr = v]
          /\ [secs |-> secs, syms |-> syms] \in Ex!Object(Names)
      BY <2>1, <2>2, <2>3, <2>4, <3>1
    <3>3. /\ DOMAIN new = DOMAIN secs
          /\ \A d \in DOMAIN secs :
               /\ new[d].name = secs[d].name /\ new[d].alloc = secs[d].alloc
               /\ d # j => new[d] = secs[d]
      BY <3>2, Ex!AddressKeepsObject
    <3>4. new[j].addr = v
      <4>1. secs \in Seq(Ex!Section(Names))
        BY <3>2 DEF Ex!Object
      <4>2. secs[j] \in Ex!Section(Names)
        BY <3>2, <4>1
      <4>3. "addr" \in DOMAIN secs[j]
        BY <4>2 DEF Ex!Section
      <4> QED
        BY <3>2, <4>3
    <3> QED
      BY <3>1, <3>3, <3>4
  <2> QED
    BY <1>2, <2>1, <2>2, <2>3, <2>5 DEF addr
<1>3. CASE secs' = secs /\ ~Ex!PlaceSection
  BY <1>3
<1>4. Ex!ApplyReloc \/ Ex!PlaceSection \/ secs' = secs
  BY DEF Ex!ExecNext, Ex!Abort, Ex!KeepRelocatable, Ex!StartPlacing, Ex!SkipSection,
         Ex!PlacingDone, Ex!CheckDefined, Ex!UndefinedSymbol, Ex!SetEntry, Ex!UndefinedEntry,
         Ex!UnsupportedReloc, Ex!NextApplySection, Ex!ApplyDone
<1> QED
  BY <1>1, <1>2, <1>3, <1>4

LEMMA AddressesStep ==
  ASSUME Ex!ExecTyped, Addresses, Ex!ExecNext, pc = "merged" => etype = "REL"
  PROVE  Addresses'
<1>0. DOMAIN secs = 1..Len(secs) /\ Len(secs) \in Nat
  <2>1. [secs |-> secs, syms |-> syms] \in Ex!Object(Names)
    BY DEF Ex!ExecTyped, Ex!ExecTypeOK
  <2>2. secs \in Seq(Ex!Section(Names))
    BY <2>1 DEF Ex!Object
  <2> QED
    BY <2>2
<1>1. /\ opts' = opts
      /\ DOMAIN secs' = DOMAIN secs
      /\ \A d \in DOMAIN secs : secs'[d].name = secs[d].name /\ secs'[d].alloc = secs[d].alloc
  BY FinishingPlaces, FinishPhaseStep
<1>2. \A d \in DOMAIN secs : Ex!Placed(d)' => Ex!Placed(d) \/ (Ex!PlaceSection /\ d = i)
  <2>1. \A d \in DOMAIN secs : secs'[d].alloc <=> secs[d].alloc
    BY <1>1
  <2>2. CASE Ex!PlaceSection
    <3>1. pc = "place" /\ pc' = "place" /\ i' = i + 1 /\ i \in Nat
      BY <2>2, FinishingPlaces DEF Ex!PlaceSection
    <3>2. \A d \in DOMAIN secs : d < i + 1 => d < i \/ d = i
      BY <1>0, <3>1
    <3> QED
      BY <2>1, <2>2, <3>1, <3>2 DEF Ex!Placed
  <2>3. CASE Ex!SkipSection
    <3>1. pc = "place" /\ pc' = "place" /\ i' = i + 1 /\ i \in Nat /\ ~secs[i].alloc
      BY <2>3 DEF Ex!SkipSection, Ex!ExecTyped, Ex!ExecTypeOK
    <3>2. \A d \in DOMAIN secs : d < i + 1 => d < i \/ d = i
      BY <1>0, <3>1
    <3> QED
      BY <2>1, <3>1, <3>2 DEF Ex!Placed
  <2>4. CASE Ex!StartPlacing
    <3>1. pc' = "place" /\ i' = 1
      BY <2>4 DEF Ex!StartPlacing
    <3>2. \A d \in DOMAIN secs : ~(d < 1)
      BY <1>0
    <3> QED
      BY <3>1, <3>2 DEF Ex!Placed
  <2>5. CASE Ex!PlacingDone
    <3>1. pc = "place" /\ i > Len(secs) /\ i \in Nat
      BY <2>5 DEF Ex!PlacingDone, Ex!ExecTyped, Ex!ExecTypeOK
    <3>2. \A d \in DOMAIN secs : d < i
      BY <1>0, <3>1
    <3> QED
      BY <2>1, <3>1, <3>2 DEF Ex!Placed
  <2>6. CASE Ex!KeepRelocatable
    BY <2>6 DEF Ex!KeepRelocatable, Ex!Placed
  <2>7. CASE ~(Ex!PlaceSection \/ Ex!SkipSection \/ Ex!StartPlacing \/ Ex!PlacingDone \/ Ex!KeepRelocatable)
    <3>1. /\ pc \in {"check", "entry", "apply"}
          /\ pc' \in {"entry", "apply", "linked", "failed"}
      BY <2>7 DEF Ex!ExecNext, Ex!Abort, Ex!CheckDefined, Ex!UndefinedSymbol, Ex!SetEntry,
           Ex!UndefinedEntry, Ex!UnsupportedReloc, Ex!NextApplySection, Ex!ApplyDone, Ex!ApplyReloc, Ex!AtReloc
    <3> QED
      BY <2>1, <3>1 DEF Ex!Placed
  <2> QED
    BY <2>2, <2>3, <2>4, <2>5, <2>6, <2>7
<1> SUFFICES ASSUME NEW d \in DOMAIN secs
             PROVE  /\ ~secs'[d].alloc => secs'[d].addr = 0
                    /\ Ex!Placed(d)' /\ Asked(opts'.places, secs'[d].name) # 0 =>
                         secs'[d].addr = opts'.places[Asked(opts'.places, secs'[d].name)].addr
  BY <1>1 DEF Addresses
<1>3. opts' = opts /\ secs'[d].name = secs[d].name /\ secs'[d].alloc = secs[d].alloc
  BY <1>1
<1>4. CASE Ex!PlaceSection /\ d = i
  <2>1. secs[d].alloc /\ secs'[d].addr = Ex!PlacedAddr(secs[d].name)
    BY <1>4, FinishingPlaces
  <2>2. Asked(opts.places, secs[d].name) # 0 =>
          Ex!PlacedAddr(secs[d].name) = opts.places[Asked(opts.places, secs[d].name)].addr
    BY AskedIsRequest DEF Ex!PlacedAddr
  <2> QED
    BY <1>3, <2>1, <2>2
<1>5. CASE ~(Ex!PlaceSection /\ d = i)
  <2>1. secs'[d].addr = secs[d].addr
    BY <1>5, FinishingPlaces
  <2>2. Ex!Placed(d)' => Ex!Placed(d)
    BY <1>2, <1>5
  <2> QED
    BY <1>3, <2>1, <2>2 DEF Addresses
<1> QED
  BY <1>4, <1>5

LEMMA EntryStep ==
  ASSUME Ex!ExecTyped, EntrySet, Ex!ExecNext
  PROVE  EntrySet'
<1>0. opts' = opts /\ syms' = syms
  BY FinishPhaseStep
<1>1. Ex!EntrySymbol' = Ex!EntrySymbol
  BY <1>0 DEF Ex!EntrySymbol, Ex!SymbolFind, Ex!First, Ex!Min
<1>2. Ex!Defined(Ex!EntrySymbol)' <=> Ex!Defined(Ex!EntrySymbol)
  BY <1>0, <1>1 DEF Ex!Defined
<1>3. CASE Ex!SetEntry
  <2>1. Ex!Defined(Ex!EntrySymbol) /\ entry' = Ex!SymbolAddr(secs, syms[Ex!EntrySymbol]) /\ secs' = secs
    BY <1>3 DEF Ex!SetEntry
  <2> QED
    BY <1>0, <1>1, <1>2, <2>1 DEF EntrySet, Ex!SymbolAddr, Ex!Modulus
<1>4. CASE Ex!ApplyReloc
  <2>1. pc = "apply" /\ entry' = entry
    BY <1>4 DEF Ex!ApplyReloc, Ex!AtReloc
  <2>2. /\ Ex!Defined(Ex!EntrySymbol) /\ entry = Ex!SymbolAddr(secs, syms[Ex!EntrySymbol])
    BY <2>1 DEF EntrySet
  <2> DEFINE s == syms[Ex!EntrySymbol].sec
  <2>3. s # 0 /\ s \in DOMAIN secs
    <3>1. [secs |-> secs, syms |-> syms] \in Ex!Object(Names)
      BY DEF Ex!ExecTyped, Ex!ExecTypeOK
    <3>2. /\ secs \in Seq(Ex!Section(Names)) /\ syms \in Seq(Ex!Symbol(Names))
          /\ \A j \in DOMAIN syms : syms[j].sec \in 0..Len(secs)
      BY <3>1 DEF Ex!Object
    <3>3. Ex!EntrySymbol # 0 /\ s # 0
      BY <2>2 DEF Ex!Defined
    <3>4. Ex!EntrySymbol \in DOMAIN syms
      <4>1. Ex!EntrySymbol = SymbolFind(syms, opts.entry)
        BY DEF Ex!EntrySymbol, Ex!SymbolFind, Ex!First, Ex!Min, SymbolFind, First, Min
      <4>2. {j \in DOMAIN syms : syms[j].name = opts.entry} \in SUBSET (Nat \ {0})
        BY <3>2
      <4> DEFINE S == {j \in DOMAIN syms : syms[j].name = opts.entry}
      <4>3. First(S) # 0 => First(S) \in S
        <5> HIDE DEF S
        <5> QED
          BY <4>2, FirstIsLeast DEF S
      <4> QED
        BY <3>3, <4>1, <4>3 DEF SymbolFind
    <3> QED
      BY <3>2, <3>3, <3>4
  <2>4. secs'[s].addr = secs[s].addr
    BY <1>4, <2>3, FinishingPlaces DEF Ex!ApplyReloc, Ex!AtReloc, Ex!PlaceSection
  <2>5. Ex!SymbolAddr(secs, syms[Ex!EntrySymbol]) = (secs[s].addr + syms[Ex!EntrySymbol].value) % ByteBase^8
    BY <2>3 DEF Ex!SymbolAddr, Ex!Modulus
  <2>6. Ex!SymbolAddr(secs, syms[Ex!EntrySymbol])' = (secs'[s].addr + syms[Ex!EntrySymbol].value) % ByteBase^8
    BY <1>0, <1>1, <2>3 DEF Ex!SymbolAddr, Ex!Modulus
  <2> QED
    BY <1>2, <2>1, <2>2, <2>4, <2>5, <2>6 DEF EntrySet
<1>5. CASE Ex!NextApplySection
  <2>1. UNCHANGED <<secs, entry>> /\ pc = "apply"
    BY <1>5 DEF Ex!NextApplySection
  <2> QED
    BY <1>0, <1>1, <1>2, <2>1 DEF EntrySet, Ex!SymbolAddr, Ex!Modulus
<1>6. CASE ~(Ex!SetEntry \/ Ex!ApplyReloc \/ Ex!NextApplySection)
  <2>1. pc' # "apply"
    BY <1>6 DEF Ex!ExecNext, Ex!Abort, Ex!KeepRelocatable, Ex!StartPlacing, Ex!SkipSection,
         Ex!PlaceSection, Ex!PlacingDone, Ex!CheckDefined, Ex!UndefinedSymbol, Ex!UndefinedEntry,
         Ex!UnsupportedReloc, Ex!ApplyDone
  <2> QED
    BY <2>1 DEF EntrySet
<1> QED
  BY <1>3, <1>4, <1>5, <1>6

LEMMA TypesStep ==
  ASSUME Ex!ExecTyped, LaidOut, TypesKnown, Ex!ExecNext
  PROVE  TypesKnown'
<1>0. /\ i \in Nat /\ r \in Nat /\ DOMAIN secs \subseteq Nat \ {0} /\ DOMAIN secs' = DOMAIN secs
      /\ \A d \in DOMAIN secs : secs'[d].relas = secs[d].relas
      /\ \A d \in DOMAIN secs : DOMAIN secs[d].relas = 1..Len(secs[d].relas) /\ Len(secs[d].relas) \in Nat
  <2>1. [secs |-> secs, syms |-> syms] \in Ex!Object(Names) /\ i \in Nat \ {0} /\ r \in Nat \ {0}
    BY DEF Ex!ExecTyped, Ex!ExecTypeOK
  <2>2. secs \in Seq(Ex!Section(Names))
    BY <2>1 DEF Ex!Object
  <2>3. DOMAIN secs \subseteq Nat \ {0}
    BY <2>2
  <2> QED
    BY <2>1, <2>3, FinishingKeeps, LinkedSections
<1>1. Ex!Supported' = Ex!Supported
  BY DEF Ex!Supported, Ex!PcRelative, Ex!Absolute32
<1> SUFFICES ASSUME pc' = "apply", NEW d \in DOMAIN secs, NEW q \in DOMAIN secs[d].relas, Applied(d, q)'
             PROVE  secs[d].relas[q].type \in Ex!Supported
  BY <1>0, <1>1 DEF TypesKnown
<1>2. d \in Nat \ {0} /\ q \in Nat \ {0} /\ q <= Len(secs[d].relas) /\ Len(secs[d].relas) \in Nat
  BY <1>0
<1>3. d < i' \/ (d = i' /\ q < r')
  BY DEF Applied
<1>4. CASE Ex!SetEntry
  <2>1. i' = 1 /\ r' = 1
    BY <1>4 DEF Ex!SetEntry
  <2> QED
    BY <1>2, <1>3, <2>1
<1>5. CASE Ex!ApplyReloc
  <2>1. /\ pc = "apply" /\ i' = i /\ r' = r + 1 /\ secs[i].relas[r].type \in Ex!Supported
    BY <1>5 DEF Ex!ApplyReloc, Ex!AtReloc
  <2>2. d < i \/ (d = i /\ q < r) \/ (d = i /\ q = r)
    BY <1>0, <1>2, <1>3, <2>1
  <2> QED
    BY <2>1, <2>2 DEF TypesKnown, Applied
<1>6. CASE Ex!NextApplySection
  <2>1. /\ pc = "apply" /\ i' = i + 1 /\ r' = 1 /\ r > Len(secs[i].relas)
    BY <1>6 DEF Ex!NextApplySection
  <2>2. d < i \/ (d = i /\ q < r)
    BY <1>0, <1>2, <1>3, <2>1
  <2> QED
    BY <2>1, <2>2 DEF TypesKnown, Applied
<1>7. CASE ~(Ex!SetEntry \/ Ex!ApplyReloc \/ Ex!NextApplySection)
  <2>1. pc' # "apply"
    BY <1>7 DEF Ex!ExecNext, Ex!Abort, Ex!KeepRelocatable, Ex!StartPlacing, Ex!SkipSection,
         Ex!PlaceSection, Ex!PlacingDone, Ex!CheckDefined, Ex!UndefinedSymbol, Ex!UndefinedEntry,
         Ex!UnsupportedReloc, Ex!ApplyDone
  <2> QED
    BY <2>1
<1> QED
  BY <1>4, <1>5, <1>6, <1>7

-----------------------------------------------------------------------------
(* The whole link.                                                         *)

(* Sections merged into the object the link starts from lie where their    *)
(* alignment asks.                                                         *)
Aligned ==
  \A o, s : Mapped(o, s) /\ o # 1 /\ units[o].secs[s].align > 1 =>
    maps[o].base[s] % units[o].secs[s].align = 0

ExecPhases == {"place", "check", "entry", "apply"}

FinishInv ==
  /\ AllMerged /\ Aligned
  /\ Ex!PlacementInv /\ Addresses /\ EntrySet /\ TypesKnown
  /\ pc \in ExecPhases => ~opts.relocatable

RefineInv ==
  /\ LinkInv /\ WellFormed(units)
  /\ pc \in MergePhases => NoAddress
  /\ pc \in MergePhases \union FinishPhases => SymbolsInv /\ LabelsInv /\ SectionsInv
  /\ pc \in FinishPhases => FinishInv

LEMMA RefineInitially == LinkInit /\ WellFormed(units) => RefineInv
<1> SUFFICES ASSUME LinkInit, WellFormed(units) PROVE RefineInv
  OBVIOUS
<1>1. MergeInit /\ pc = "read"
  BY DEF LinkInit, MergeInit
<1>2. LinkInv /\ SymbolsInv /\ LabelsInv /\ SectionsInv /\ NoAddress
  BY <1>1, LinkInvInitially, SymbolsInitially, LabelsInitially, SectionsInitially
<1> QED
  BY <1>1, <1>2 DEF RefineInv, FinishPhases

(* At the end of the merge nothing is placed. *)
LEMMA PlacesWhenMerged ==
  ASSUME pc = "merged", etype = "REL", NoAddress, ContentsInv, AllMerged
  PROVE  FinishInv
<1>1. \A d \in DOMAIN secs : ~Ex!Placed(d)
  BY DEF Ex!Placed
<1>2. Ex!PlacementInv
  BY <1>1 DEF Ex!PlacementInv, Ex!Unplaced, Ex!NextIsFree
<1>3. Addresses
  BY <1>1 DEF Addresses, NoAddress
<1>4. Aligned
  BY DEF Aligned, ContentsInv, PieceAligned
<1> QED
  BY <1>2, <1>3, <1>4 DEF FinishInv, EntrySet, TypesKnown, ExecPhases

MergeEndsPlaced == pc = "merged" /\ etype = "REL" /\ NoAddress /\ ContentsInv /\ AllMerged

LEMMA PlacesWhenMergedNext == MergeEndsPlaced' => FinishInv'
<1>1. MergeEndsPlaced => FinishInv
  BY PlacesWhenMerged DEF MergeEndsPlaced
<1> QED
  BY <1>1, PTL

LEMMA RefineMerging ==
  ASSUME RefineInv, Merging
  PROVE  RefineInv'
<1>1. MergeNext /\ UNCHANGED execOnly
  BY DEF Merging
<1>2. /\ pc \in MergePhases \ {"merged"}
      /\ pc' \in MergePhases \/ pc' = "failed"
      /\ units' = units
  BY <1>1, MergePhaseStep
<1>3. /\ MergeTyped /\ ContentsInv /\ RelocsInv /\ NoAddress
      /\ SymbolsInv /\ LabelsInv /\ SectionsInv /\ WellFormed(units) /\ LinkInv
      /\ etype = "REL"
  BY <1>2 DEF RefineInv, LinkInv, LinkTyped
<1>4. LinkInv'
  BY <1>3, LinkInvStep DEF LinkNext
<1>5. SymbolsInv' /\ LabelsInv' /\ SectionsInv' /\ NoAddress' /\ MergeTyped' /\ ContentsInv'
  BY <1>1, <1>3, SymbolsStep, LabelsStep, SectionsStep, MergeTypedStep, ContentsStep
<1>6. WellFormed(units)'
  BY <1>2, <1>3
<1>7. ASSUME pc' = "merged" PROVE FinishInv'
  <2>1. MergeDone
    BY <1>1, <1>2, <1>7, Zenon DEF MergeNext, MergePhases, ReadObject, CannotRead, MergeSection, SectionsDone,
         AddSymbol, ReferGlobal, DefineGlobal, MultipleDefinition, SymbolsDone, MapSymbol, AtSymbol,
         MergeReloc, CarryReloc, NextRelocSection, RelocsDone, Fail
  <2>2. (k = Len(units))'
    BY <2>1 DEF MergeDone
  <2>3. AllMerged'
    BY <1>5, <1>7, <2>2, MergeEndsWholeNext DEF MergeEnds
  <2>4. etype' = "REL"
    BY <1>1, <1>3 DEF execOnly
  <2> QED
    BY <1>5, <1>7, <2>3, <2>4, PlacesWhenMergedNext DEF MergeEndsPlaced
<1> QED
  BY <1>2, <1>4, <1>5, <1>6, <1>7 DEF RefineInv, FinishPhases, MergePhases

LEMMA RefineFinishing ==
  ASSUME RefineInv, Finishing
  PROVE  RefineInv'
<1>1. Ex!ExecNext /\ UNCHANGED <<units, k, maps>>
  BY FinishingStep
<1>2. /\ pc \in FinishPhases \ {"linked"}
      /\ pc' \in FinishPhases \ {"merged"} \/ pc' = "failed"
      /\ UNCHANGED <<opts, syms>>
  BY <1>1, FinishPhaseStep
<1>3. /\ LinkInv /\ WellFormed(units) /\ LinkTyped /\ Ex!ExecTyped /\ LaidOut
      /\ SymbolsInv /\ LabelsInv /\ SectionsInv /\ FinishInv
      /\ pc = "merged" => etype = "REL"
  BY <1>2 DEF RefineInv, LinkInv, LinkTyped, MergePhases
<1>4. LinkInv'
  BY <1>3, LinkInvStep DEF LinkNext
<1>5. (\A o, s : Mapped(o, s)' <=> Mapped(o, s)) /\ (\A o, q : SymMapped(o, q)' <=> SymMapped(o, q))
  BY <1>1 DEF Mapped, SymMapped
<1>6. SymbolsInv' /\ LabelsInv'
  BY <1>1, <1>2, <1>3, <1>5, SymbolsUntouched, LabelsUntouched
<1>7. /\ DOMAIN secs' = DOMAIN secs
      /\ \A d \in DOMAIN secs : secs'[d].name = secs[d].name /\ secs'[d].alloc = secs[d].alloc
  BY <1>1, <1>3, FinishingPlaces
<1>8. SectionsInv'
  <2>1. \A o, s : Mapped(o, s) =>
          /\ maps[o].sec[s] \in DOMAIN secs
          /\ maps'[o].sec[s] = maps[o].sec[s] /\ maps'[o].base[s] = maps[o].base[s]
    BY <1>1, <1>3 DEF LaidOut
  <2> QED
    BY <1>1, <1>3, <1>5, <1>7, <2>1, SectionsLeftAlone
<1>9. Ex!PlacementInv'
  BY <1>1, <1>3, Ex!PlacementStep, ExAssumptions DEF FinishInv
<1>10. Addresses' /\ EntrySet' /\ TypesKnown'
  BY <1>1, <1>3, AddressesStep, EntryStep, TypesStep DEF FinishInv
<1>11. AllMerged' /\ Aligned'
  BY <1>1, <1>2, <1>3, <1>5 DEF FinishInv, AllMerged, Aligned
<1>12. pc' \in ExecPhases => ~opts'.relocatable
  <2>1. CASE pc \in ExecPhases
    BY <1>2, <1>3, <2>1 DEF FinishInv
  <2>2. CASE pc = "merged"
    BY <1>1, <1>2, <2>2 DEF ExecPhases, Ex!ExecNext, Ex!KeepRelocatable, Ex!StartPlacing, Ex!SkipSection,
         Ex!PlaceSection, Ex!PlacingDone, Ex!CheckDefined, Ex!UndefinedSymbol, Ex!SetEntry,
         Ex!UndefinedEntry, Ex!AtReloc, Ex!ApplyReloc, Ex!UnsupportedReloc, Ex!NextApplySection,
         Ex!ApplyDone
  <2> QED
    BY <1>2, <2>1, <2>2 DEF FinishPhases, ExecPhases
<1>13. WellFormed(units)'
  BY <1>1, <1>3
<1>14. pc' # "failed" => pc' \notin MergePhases
  BY <1>2 DEF MergePhases, FinishPhases
<1> QED
  BY <1>2, <1>4, <1>6, <1>8, <1>9, <1>10, <1>11, <1>12, <1>13, <1>14
  DEF RefineInv, FinishInv, FinishPhases, MergePhases

LEMMA RefineInvStep == RefineInv /\ [LinkNext]_linkVars => RefineInv'
<1> SUFFICES ASSUME RefineInv, [LinkNext]_linkVars PROVE RefineInv'
  OBVIOUS
<1>1. CASE Merging \/ Finishing
  BY <1>1, RefineMerging, RefineFinishing
<1>2. CASE UNCHANGED linkVars
  <2>1. /\ UNCHANGED <<units, k, pc, i, r, secs, syms, maps, err, opts, next, entry, etype>>
        /\ UNCHANGED mergeVars
    BY <1>2 DEF linkVars, mergeVars, execOnly
  <2>2. LinkInv' /\ WellFormed(units)'
    BY <2>1, LinkInvStep DEF RefineInv
  <2>3. (\A o, s : Mapped(o, s)' <=> Mapped(o, s)) /\ (\A o, q : SymMapped(o, q)' <=> SymMapped(o, q))
    BY <2>1 DEF Mapped, SymMapped
  <2>4. NoAddress => NoAddress'
    BY <2>1 DEF NoAddress
  <2>5. SymbolsInv /\ LabelsInv => SymbolsInv' /\ LabelsInv'
    BY <2>1, <2>3, SymbolsUntouched, LabelsUntouched
  <2>6. SectionsInv => SectionsInv'
    BY <2>1, <2>3 DEF SectionsInv, HeadOf
  <2>7. Ex!PlacementInv => Ex!PlacementInv'
    BY <2>1 DEF Ex!PlacementInv, Ex!FitsAddressSpace, Ex!Unplaced, Ex!NextIsFree, Ex!Placed, Ex!EndOf,
                Ex!Requested, Ex!PlaceRequest, Ex!AddrMod
  <2>8. Addresses => Addresses'
    BY <2>1, Zenon DEF Addresses, Ex!Placed, Asked
  <2>9. EntrySet => EntrySet'
    BY <2>1 DEF EntrySet, Ex!Defined, Ex!EntrySymbol, Ex!SymbolAddr, Ex!SymbolFind
  <2>10. TypesKnown => TypesKnown'
    BY <2>1 DEF TypesKnown, Applied
  <2>11. AllMerged /\ Aligned => AllMerged' /\ Aligned'
    BY <2>1, <2>3 DEF AllMerged, Aligned
  <2> QED
    BY <2>1, <2>2, <2>4, <2>5, <2>6, <2>7, <2>8, <2>9, <2>10, <2>11 DEF RefineInv, FinishInv
<1> QED
  BY <1>1, <1>2 DEF LinkNext

LEMMA RefineInvariant == LinkSpec /\ WellFormed(units) => []RefineInv
<1> QED
  BY RefineInitially, RefineInvStep, PTL DEF LinkSpec

-----------------------------------------------------------------------------
(* The reasons LinkAbs gives, seen from the link.                          *)

LEMMA ReadableLabel ==
  ASSUME NEW o \in DOMAIN units, units[o] \in Objects, NEW q \in DOMAIN units[o].syms
  PROVE  <<o, q>> \in Abs!Labels
<1>1. o \in Abs!Readable
  BY UnitSeqsAssumption DEF Abs!Readable
<1> QED
  BY <1>1 DEF Abs!Labels

(* When all is merged the labels of LinkAbs are the symbols mapped, and so *)
(* for its pieces and fields.                                              *)
LEMMA AbsPlaces ==
  ASSUME AllMerged
  PROVE  /\ Abs!Readable = DOMAIN units
         /\ \A l : l \in Abs!Labels <=> l = <<l[1], l[2]>> /\ SymMapped(l[1], l[2])
         /\ \A p : p \in Abs!Pieces <=> p = <<p[1], p[2]>> /\ Mapped(p[1], p[2])
         /\ \A f : f \in Abs!Fields <=> /\ f = <<f[1], f[2], f[3]>> /\ Mapped(f[1], f[2])
                                        /\ f[3] \in DOMAIN units[f[1]].secs[f[2]].relas
<1>1. Abs!Readable = DOMAIN units
  BY UnitSeqsAssumption DEF AllMerged, Abs!Readable
<1>2. /\ DOMAIN maps = DOMAIN units
      /\ \A o \in DOMAIN units :
           DOMAIN maps[o].sec = DOMAIN units[o].secs /\ DOMAIN maps[o].sym = DOMAIN units[o].syms
  BY DEF AllMerged
<1>3. \A l : l \in Abs!Labels <=> l = <<l[1], l[2]>> /\ SymMapped(l[1], l[2])
  BY <1>1, <1>2 DEF Abs!Labels, SymMapped
<1>4. \A p : p \in Abs!Pieces <=> p = <<p[1], p[2]>> /\ Mapped(p[1], p[2])
  BY <1>1, <1>2 DEF Abs!Pieces, Mapped
<1>5. \A f : f \in Abs!Fields <=> /\ f = <<f[1], f[2], f[3]>> /\ Mapped(f[1], f[2])
                                  /\ f[3] \in DOMAIN units[f[1]].secs[f[2]].relas
  <2>1. ASSUME NEW f \in Abs!Fields
        PROVE  /\ f = <<f[1], f[2], f[3]>> /\ Mapped(f[1], f[2])
               /\ f[3] \in DOMAIN units[f[1]].secs[f[2]].relas
    <3>1. PICK p \in Abs!Pieces :
            f \in {<<p[1], p[2], q>> : q \in DOMAIN units[p[1]].secs[p[2]].relas}
      BY DEF Abs!Fields
    <3>2. PICK q \in DOMAIN units[p[1]].secs[p[2]].relas : f = <<p[1], p[2], q>>
      BY <3>1
    <3>3. f[1] = p[1] /\ f[2] = p[2] /\ f[3] = q
      BY <3>2
    <3> QED
      BY <1>4, <3>2, <3>3
  <2>2. ASSUME NEW f, f = <<f[1], f[2], f[3]>>, Mapped(f[1], f[2]),
               f[3] \in DOMAIN units[f[1]].secs[f[2]].relas
        PROVE  f \in Abs!Fields
    <3> DEFINE p == <<f[1], f[2]>>
    <3>1. p[1] = f[1] /\ p[2] = f[2] /\ p = <<p[1], p[2]>>
      OBVIOUS
    <3>2. p \in Abs!Pieces
      BY <1>4, <2>2, <3>1
    <3>3. f \in {<<p[1], p[2], q>> : q \in DOMAIN units[p[1]].secs[p[2]].relas}
      BY <2>2, <3>1
    <3> HIDE DEF p
    <3> QED
      BY <3>2, <3>3 DEF Abs!Fields
  <2> QED
    BY <2>1, <2>2
<1> QED
  BY <1>1, <1>3, <1>4, <1>5

LEMMA UnitsDomain ==
  ASSUME MergeTyped
  PROVE  DOMAIN units = 1..Len(units) /\ Len(units) \in Nat /\ k \in 1..Len(units)
BY ScalarFacts, LenProperties

LEMMA UnreadableIsReason ==
  ASSUME MergeTyped, CannotRead
  PROVE  err' \in Abs!Reasons
<1>1. k + 1 \in DOMAIN units /\ units[k + 1] = Unreadable /\ err' = "cannot read object"
  <2>1. k < Len(units) /\ units[k + 1] = Unreadable /\ err' = "cannot read object"
    BY DEF CannotRead, Fail
  <2>2. k + 1 \in DOMAIN units
    <3>1. PICK n, x : n = Len(units) /\ x = k
      OBVIOUS
    <3>2. DOMAIN units = 1..n /\ n \in Nat /\ x \in 1..n /\ x < n
      BY <2>1, <3>1, UnitsDomain
    <3>3. x + 1 \in DOMAIN units
      BY <3>2
    <3> QED
      BY <3>1, <3>3
  <2> QED
    BY <2>1, <2>2
<1>2. Abs!Readable # DOMAIN units
  BY <1>1 DEF Abs!Readable
<1>3. err' \in Abs!MergeReasons
  BY <1>1, <1>2 DEF Abs!MergeReasons
<1> QED
  BY <1>3 DEF Abs!Reasons

LEMMA MultipleIsReason ==
  ASSUME MergeTyped, SymbolsInv, MultipleDefinition
  PROVE  err' \in Abs!Reasons
<1>1. /\ AtSymbol /\ InSym.bind # "LOCAL" /\ InSym.sec # 0 /\ syms[Existing].sec # 0
      /\ Existing # 0 /\ err' = "multiple definition" /\ pc = "symbols"
  BY DEF MultipleDefinition, Fail, AtSymbol
<1>2. Existing \in DOMAIN syms /\ syms[Existing].name = InSym.name /\ syms[Existing].bind # "LOCAL"
  BY <1>1, ExistingIsGlobal
<1>3. PICK o, q : SymMapped(o, q) /\ maps[o].sym[q] = Existing /\ units[o].syms[q].sec # 0
  BY <1>1, <1>2 DEF SymbolsInv
<1>4. /\ o \in DOMAIN units /\ units[o] \in Objects /\ q \in DOMAIN units[o].syms
      /\ units[o].syms[q].name = InSym.name /\ units[o].syms[q].bind # "LOCAL"
  <2>1. o \in 1..k /\ units[o] \in Objects /\ q \in DOMAIN units[o].syms /\ SymKept(o, q)
    BY <1>3, SymMappedFacts DEF SymbolsInv
  <2>2. o \in DOMAIN units
    BY <2>1, UnitsDomain
  <2>3. units[o].syms[q].name = InSym.name /\ units[o].syms[q].bind # "LOCAL"
    BY <1>2, <1>3, <2>1 DEF SymKept
  <2> QED
    BY <2>1, <2>2, <2>3
<1>5. <<o, q>> # <<k, i>> /\ k # 1
  <2>1. Ahead(o, q, k, i) /\ k \in Nat /\ i \in Nat /\ k > 1
    BY <1>1, <1>3, NewLabelIsLast, ScalarFacts, TypedFacts
  <2> QED
    BY <2>1 DEF Ahead
<1>6. k \in DOMAIN units /\ units[k] \in Objects /\ i \in DOMAIN units[k].syms /\ InSym = units[k].syms[i]
  <2>1. k \in DOMAIN units /\ units[k] \in Objects
    BY TypedFacts, UnitsDomain
  <2>2. units[k].syms \in Seq(Symbol(Names))
    BY <2>1, ObjectFields
  <2>3. i \in Nat /\ i # 0 /\ i <= Len(units[k].syms)
    BY <1>1, ScalarFacts DEF AtSymbol, In
  <2>4. i \in DOMAIN units[k].syms
    BY <2>2, <2>3
  <2> QED
    BY <2>1, <2>4 DEF InSym, In
<1>7. <<o, q>> \in Abs!Labels /\ <<k, i>> \in Abs!Labels
  BY <1>4, <1>6, ReadableLabel
<1>8. PICK l, l2 : l = <<k, i>> /\ l2 = <<o, q>>
  OBVIOUS
<1>9. /\ l \in Abs!Definitions(Abs!Label(l).name) /\ l2 \in Abs!Definitions(Abs!Label(l).name)
      /\ l2 # l /\ l[1] # 1
  BY <1>1, <1>3, <1>4, <1>5, <1>6, <1>7, <1>8 DEF Abs!Definitions, Abs!Label, Abs!IsLocal
<1>10. l \in Abs!Labels
  BY <1>7, <1>8
<1>11. err' \in Abs!MergeReasons
  BY <1>1, <1>9, <1>10 DEF Abs!MergeReasons
<1> QED
  BY <1>11 DEF Abs!Reasons

(* A merge that ends well had no reason to fail. *)
LEMMA NoMergeReasons ==
  ASSUME AllMerged, LabelsInv
  PROVE  Abs!MergeReasons = {}
<1>1. ASSUME NEW l \in Abs!Labels, l \in Abs!Definitions(Abs!Label(l).name)
      PROVE  Abs!Definitions(Abs!Label(l).name) = {l}
  <2>1. \A l2 \in Abs!Definitions(Abs!Label(l).name) :
          /\ l2 = <<l2[1], l2[2]>> /\ Defining(l2[1], l2[2])
          /\ units[l2[1]].syms[l2[2]].name = units[l[1]].syms[l[2]].name
    BY AbsPlaces DEF Abs!Definitions, Abs!Label, Abs!IsLocal, Defining
  <2>2. \A l2 \in Abs!Definitions(Abs!Label(l).name) : l2 = l
    BY <1>1, <2>1 DEF LabelsInv
  <2> QED
    BY <1>1, <2>2
<1>2. Abs!Readable = DOMAIN units
  BY AbsPlaces
<1> QED
  BY <1>1, <1>2 DEF Abs!MergeReasons

(* What the merge hands to Link_Exec. *)
Merged ==
  /\ LaidOut /\ Ex!ExecTyped /\ AllMerged
  /\ SymbolsInv /\ LabelsInv /\ SectionsInv

LEMMA OutputSections ==
  ASSUME Merged
  PROVE  /\ secs \in Seq(Ex!Section(Names)) /\ syms \in Seq(Ex!Symbol(Names))
         /\ DOMAIN secs \subseteq Nat \ {0} /\ DOMAIN syms \subseteq Nat \ {0}
         /\ \A d \in DOMAIN secs : secs[d] \in Ex!Section(Names)
<1>1. [secs |-> secs, syms |-> syms] \in Ex!Object(Names)
  BY DEF Merged, Ex!ExecTyped, Ex!ExecTypeOK
<1>2. secs \in Seq(Ex!Section(Names)) /\ syms \in Seq(Ex!Symbol(Names))
  BY <1>1 DEF Ex!Object
<1> QED
  BY <1>2

(* A symbol that is defined lies in a section, which has its place. *)
LEMMA LabelPlace ==
  ASSUME Merged, NEW o, NEW q, SymMapped(o, q), units[o].syms[q].sec # 0
  PROVE  /\ Mapped(o, units[o].syms[q].sec)
         /\ maps[o].sec[units[o].syms[q].sec] \in DOMAIN secs
         /\ maps[o].sec[units[o].syms[q].sec] # 0
<1>1. o \in DOMAIN units /\ o \in DOMAIN maps /\ units[o] \in Objects /\ q \in DOMAIN units[o].syms
  BY DEF Merged, AllMerged, SymMapped
<1>2. units[o].syms[q].sec \in 0..Len(units[o].secs) /\ units[o].secs \in Seq(Section(Names))
  BY <1>1, ObjectFields
<1>3. units[o].syms[q].sec \in DOMAIN units[o].secs
  BY <1>2
<1>4. Mapped(o, units[o].syms[q].sec)
  BY <1>1, <1>3 DEF Merged, AllMerged, Mapped
<1> QED
  BY <1>4, OutputSections DEF Merged, LaidOut

(* An output symbol is defined just if LinkAbs sees a definition for the   *)
(* label it was made from, and lies where that definition was moved.       *)
LEMMA MeaningIs ==
  ASSUME Merged, NEW o, NEW q, SymMapped(o, q)
  PROVE  /\ Abs!Meaning(<<o, q>>) = {} <=> syms[maps[o].sym[q]].sec = 0
         /\ \A l \in Abs!Meaning(<<o, q>>) :
              /\ SymMapped(l[1], l[2]) /\ units[l[1]].syms[l[2]].sec # 0
              /\ MovedFrom(l, syms[maps[o].sym[q]])
<1> DEFINE old == units[o].syms[q]
           j   == maps[o].sym[q]
           new == syms[j]
<1>1. SymKept(o, q) /\ j \in DOMAIN syms
  BY DEF Merged, SymbolsInv, AllMerged
<1>2. new.name = old.name /\ (new.bind = "LOCAL" <=> old.bind = "LOCAL")
  BY <1>1 DEF SymKept
<1>3. <<o, q>> \in Abs!Labels
  BY AbsPlaces DEF Merged
<1>4. ASSUME NEW l \in Abs!Meaning(<<o, q>>)
      PROVE  SymMapped(l[1], l[2]) /\ units[l[1]].syms[l[2]].sec # 0 /\ MovedFrom(l, new)
  <2>1. CASE old.bind = "LOCAL"
    <3>1. l = <<o, q>> /\ old.sec # 0
      BY <1>4, <2>1 DEF Abs!Meaning, Abs!IsLocal, Abs!Label
    <3> QED
      BY <1>1, <3>1 DEF SymKept
  <2>2. CASE old.bind # "LOCAL"
    <3>1. /\ l \in Abs!Labels /\ units[l[1]].syms[l[2]].bind # "LOCAL"
          /\ units[l[1]].syms[l[2]].name = old.name /\ units[l[1]].syms[l[2]].sec # 0
      BY <1>4, <2>2 DEF Abs!Meaning, Abs!IsLocal, Abs!Label, Abs!Definitions
    <3>2. l = <<l[1], l[2]>> /\ SymMapped(l[1], l[2])
      BY <3>1, AbsPlaces DEF Merged
    <3> DEFINE j2 == maps[l[1]].sym[l[2]]
    <3>3. SymKept(l[1], l[2]) /\ j2 \in DOMAIN syms
      BY <3>2 DEF Merged, SymbolsInv, AllMerged
    <3>4. /\ syms[j2].name = old.name /\ syms[j2].bind # "LOCAL"
          /\ MovedFrom(<<l[1], l[2]>>, syms[j2])
      BY <3>1, <3>3 DEF SymKept
    <3>5. j2 = j
      BY <1>1, <1>2, <2>2, <3>3, <3>4 DEF Merged, LabelsInv, UniqueGlobals
    <3> HIDE DEF j2
    <3> QED
      BY <3>1, <3>2, <3>4, <3>5
  <2> QED
    BY <2>1, <2>2
<1>5. ASSUME new.sec # 0
      PROVE  Abs!Meaning(<<o, q>>) # {}
  <2>1. CASE old.bind = "LOCAL"
    <3>1. old.sec # 0
      BY <1>1, <1>5, <2>1 DEF SymKept
    <3> QED
      BY <2>1, <3>1 DEF Abs!Meaning, Abs!IsLocal, Abs!Label
  <2>2. CASE old.bind # "LOCAL"
    <3>1. PICK o2, q2 : SymMapped(o2, q2) /\ maps[o2].sym[q2] = j /\ units[o2].syms[q2].sec # 0
      BY <1>1, <1>2, <1>5, <2>2 DEF Merged, SymbolsInv
    <3>2. SymKept(o2, q2)
      BY <3>1 DEF Merged, SymbolsInv
    <3>3. units[o2].syms[q2].name = old.name /\ units[o2].syms[q2].bind # "LOCAL"
      BY <1>2, <2>2, <3>1, <3>2 DEF SymKept
    <3>4. PICK l : l = <<o2, q2>>
      OBVIOUS
    <3>5. l \in Abs!Labels
      BY <3>1, <3>4, AbsPlaces DEF Merged
    <3>6. l \in Abs!Definitions(old.name)
      BY <3>1, <3>3, <3>4, <3>5 DEF Abs!Definitions, Abs!IsLocal, Abs!Label
    <3> QED
      BY <2>2, <3>6 DEF Abs!Meaning, Abs!IsLocal, Abs!Label
  <2> QED
    BY <2>1, <2>2
<1>6. ASSUME NEW l \in Abs!Meaning(<<o, q>>)
      PROVE  new.sec # 0
  <2>1. SymMapped(l[1], l[2]) /\ units[l[1]].syms[l[2]].sec # 0 /\ MovedFrom(l, new)
    BY <1>4
  <2>2. maps[l[1]].sec[units[l[1]].syms[l[2]].sec] # 0
    BY <2>1, LabelPlace, Zenon
  <2> QED
    BY <2>1, <2>2 DEF MovedFrom
<1> QED
  BY <1>4, <1>5, <1>6

(* The relocations of the output are LinkAbs's fields that have a symbol.  *)
LEMMA FieldInOutput ==
  ASSUME Merged, NEW f \in Abs!Fields, Abs!Field(f).sym # 0
  PROVE  /\ f \in Carried /\ OutOf(f) \in DOMAIN secs /\ RelaOf(f) = Abs!Field(f)
         /\ Mapped(f[1], f[2]) /\ SymMapped(f[1], RelaOf(f).sym)
         /\ CarriedAs(f).sym = maps[f[1]].sym[RelaOf(f).sym]
         /\ CarriedAs(f).off = BaseOf(f) + RelaOf(f).off
         /\ CarriedAs(f).type = RelaOf(f).type /\ CarriedAs(f).addend = RelaOf(f).addend
         /\ \E q \in DOMAIN secs[OutOf(f)].relas : secs[OutOf(f)].relas[q] = CarriedAs(f)
<1>1. /\ f = <<f[1], f[2], f[3]>> /\ Mapped(f[1], f[2])
      /\ f[3] \in DOMAIN units[f[1]].secs[f[2]].relas
  BY AbsPlaces DEF Merged
<1>2. RelaOf(f) = Abs!Field(f)
  BY DEF RelaOf, Abs!Field
<1>3. f \in Carried
  BY <1>1, <1>2, CarriedMeans DEF Carries
<1>4. OutOf(f) \in DOMAIN secs
  BY <1>1 DEF Merged, LaidOut, OutOf
<1>5. SymMapped(f[1], RelaOf(f).sym)
  <2>1. f[1] \in DOMAIN units /\ units[f[1]] \in Objects /\ f[2] \in DOMAIN units[f[1]].secs
    BY <1>1 DEF Merged, AllMerged, Mapped
  <2>2. RelaOf(f).sym \in 0..Len(units[f[1]].syms) /\ units[f[1]].syms \in Seq(Symbol(Names))
    BY <1>1, <2>1, ObjectFields DEF RelaOf
  <2>3. RelaOf(f).sym \in DOMAIN units[f[1]].syms
    BY <1>2, <2>2
  <2> QED
    BY <2>1, <2>3 DEF Merged, AllMerged, SymMapped
<1>6. /\ CarriedAs(f).sym = maps[f[1]].sym[RelaOf(f).sym]
      /\ CarriedAs(f).off = BaseOf(f) + RelaOf(f).off
      /\ CarriedAs(f).type = RelaOf(f).type /\ CarriedAs(f).addend = RelaOf(f).addend
  <2>1. RelaOf(f) \in Rela /\ RelaOf(f).sym # 0
    BY <1>2, <1>3, CarriedMeans DEF Merged, LaidOut
  <2> QED
    BY <2>1, Zenon DEF CarriedAs, RelaOf, Rela
<1>7. \E q \in DOMAIN secs[OutOf(f)].relas : secs[OutOf(f)].relas[q] = CarriedAs(f)
  BY <1>3, <1>4 DEF Merged, LaidOut
<1> QED
  BY <1>1, <1>2, <1>3, <1>4, <1>5, <1>6, <1>7

LEMMA OutputIsField ==
  ASSUME Merged, WellFormed(units), NEW d \in DOMAIN secs, NEW q \in DOMAIN secs[d].relas
  PROVE  \E f \in Abs!Fields :
           Abs!Field(f).sym # 0 /\ OutOf(f) = d /\ secs[d].relas[q] = CarriedAs(f)
<1>1. PICK f \in Carried : OutOf(f) = d /\ secs[d].relas[q] = CarriedAs(f)
  BY OutputRela DEF Merged
<1>2. Carries(f)
  BY CarriedMeans
<1>3. f \in Abs!Fields
  BY <1>2, AbsPlaces DEF Merged, Carries
<1>4. RelaOf(f).sym # 0
  <2>1. CASE f[1] = 1
    <3>1. f[2] \in DOMAIN units[1].secs /\ f[3] \in DOMAIN units[1].secs[f[2]].relas
      BY <1>2, <2>1 DEF Carries, Merged, AllMerged, Mapped
    <3> QED
      BY <2>1, <3>1 DEF WellFormed, Exec!FreshlyEncoded, RelaOf
  <2> QED
    BY <1>2, <2>1 DEF Carries
<1> QED
  BY <1>1, <1>3, <1>4, Zenon DEF RelaOf, Abs!Field

(* Link_CheckDefined lets the object through just if every symbol that a   *)
(* relocation refers to has a meaning.                                     *)
LEMMA UndefinedReason ==
  ASSUME Merged, WellFormed(units)
  PROVE  Ex!AllDefined <=>
           ~ \E f \in Abs!Fields : Abs!Field(f).sym # 0 /\ Abs!Meaning(<<f[1], Abs!Field(f).sym>>) = {}
<1>1. ASSUME Ex!AllDefined, NEW f \in Abs!Fields, Abs!Field(f).sym # 0
      PROVE  Abs!Meaning(<<f[1], Abs!Field(f).sym>>) # {}
  <2>1. PICK q \in DOMAIN secs[OutOf(f)].relas : secs[OutOf(f)].relas[q] = CarriedAs(f)
    BY <1>1, FieldInOutput
  <2>2. /\ OutOf(f) \in DOMAIN secs /\ RelaOf(f) = Abs!Field(f) /\ SymMapped(f[1], RelaOf(f).sym)
        /\ CarriedAs(f).sym = maps[f[1]].sym[RelaOf(f).sym]
    BY <1>1, FieldInOutput
  <2>3. syms[maps[f[1]].sym[RelaOf(f).sym]].sec # 0
    BY <1>1, <2>1, <2>2 DEF Ex!AllDefined, Ex!Defined
  <2> QED
    BY <2>2, <2>3, MeaningIs
<1>2. ASSUME ~Ex!AllDefined
      PROVE  \E f \in Abs!Fields : Abs!Field(f).sym # 0 /\ Abs!Meaning(<<f[1], Abs!Field(f).sym>>) = {}
  <2>0. PICK d \in DOMAIN secs : \E q \in DOMAIN secs[d].relas : ~Ex!Defined(secs[d].relas[q].sym)
    BY <1>2 DEF Ex!AllDefined
  <2>1. PICK q \in DOMAIN secs[d].relas : ~Ex!Defined(secs[d].relas[q].sym)
    BY <2>0
  <2>2. PICK f \in Abs!Fields : Abs!Field(f).sym # 0 /\ secs[d].relas[q] = CarriedAs(f)
    BY OutputIsField
  <2>3. /\ RelaOf(f) = Abs!Field(f) /\ SymMapped(f[1], RelaOf(f).sym)
        /\ CarriedAs(f).sym = maps[f[1]].sym[RelaOf(f).sym]
    BY <2>2, FieldInOutput
  <2>4. maps[f[1]].sym[RelaOf(f).sym] \in DOMAIN syms
    BY <2>3 DEF Merged, AllMerged
  <2>5. syms[maps[f[1]].sym[RelaOf(f).sym]].sec = 0
    BY <2>1, <2>2, <2>3, <2>4, OutputSections DEF Ex!Defined
  <2> QED
    BY <2>2, <2>3, <2>5, MeaningIs
<1> QED
  BY <1>1, <1>2

(* The least in link order. *)
LEMMA EarliestIs ==
  ASSUME NEW S, NEW x \in S, \A y \in S : x = y \/ Abs!Before(x, y),
         \A y \in S : y[1] \in Nat /\ y[2] \in Nat
  PROVE  Abs!Earliest(S) = x
<1>1. PICK z : z = Abs!Earliest(S)
  OBVIOUS
<1>2. z \in S /\ \A y \in S : z = y \/ Abs!Before(z, y)
  BY <1>1 DEF Abs!Earliest
<1>3. ~ (Abs!Before(x, z) /\ Abs!Before(z, x))
  BY <1>2 DEF Abs!Before
<1> QED
  BY <1>1, <1>2, <1>3

LEMMA LabelNumbers ==
  ASSUME Merged, NEW o, NEW q, SymMapped(o, q)
  PROVE  o \in Nat /\ q \in Nat
<1>1. o \in DOMAIN units /\ DOMAIN units \subseteq Nat /\ units[o] \in Objects /\ q \in DOMAIN units[o].syms
  BY DEF Merged, AllMerged, SymMapped
<1>2. units[o].syms \in Seq(Symbol(Names))
  BY <1>1, ObjectFields
<1> QED
  BY <1>1, <1>2

(* The entry symbol Elf_SymbolFind finds is the one the first label of     *)
(* that name in link order was made into.                                  *)
LEMMA EntryIs ==
  ASSUME Merged
  PROVE  /\ Ex!EntrySymbol = 0 => Abs!EntryLabels = {}
         /\ Ex!EntrySymbol # 0 =>
              /\ Abs!EntryLabels # {} /\ Ex!EntrySymbol \in DOMAIN syms
              /\ \E o, q : /\ SymMapped(o, q) /\ maps[o].sym[q] = Ex!EntrySymbol
                           /\ Abs!Earliest(Abs!EntryLabels) = <<o, q>>
<1> DEFINE named == {n \in DOMAIN syms : syms[n].name = opts.entry}
<1>1. Ex!EntrySymbol = First(named)
  BY DEF Ex!EntrySymbol, Ex!SymbolFind, Ex!First, First, Ex!Min, Min
<1>2. named \in SUBSET (Nat \ {0})
  BY OutputSections
<1>3. \A l \in Abs!EntryLabels :
        /\ l = <<l[1], l[2]>> /\ SymMapped(l[1], l[2]) /\ l[1] \in Nat /\ l[2] \in Nat
        /\ units[l[1]].syms[l[2]].name = opts.entry
        /\ maps[l[1]].sym[l[2]] \in named
  <2> SUFFICES ASSUME NEW l \in Abs!EntryLabels
               PROVE  /\ l = <<l[1], l[2]>> /\ SymMapped(l[1], l[2]) /\ l[1] \in Nat /\ l[2] \in Nat
                      /\ units[l[1]].syms[l[2]].name = opts.entry
                      /\ maps[l[1]].sym[l[2]] \in named
    OBVIOUS
  <2>1. l \in Abs!Labels /\ units[l[1]].syms[l[2]].name = opts.entry
    BY DEF Abs!EntryLabels, Abs!Label
  <2>2. l = <<l[1], l[2]>> /\ SymMapped(l[1], l[2])
    BY <2>1, AbsPlaces DEF Merged
  <2>3. maps[l[1]].sym[l[2]] \in DOMAIN syms /\ SymKept(l[1], l[2])
    BY <2>2 DEF Merged, AllMerged, SymbolsInv
  <2> QED
    BY <2>1, <2>2, <2>3, LabelNumbers DEF SymKept
<1>4. ASSUME First(named) = 0 PROVE Abs!EntryLabels = {}
  <2>1. named = {}
    <3> HIDE DEF named
    <3> QED
      BY <1>2, <1>4, FirstIsLeast
  <2> QED
    BY <1>3, <2>1
<1>5. ASSUME First(named) # 0
      PROVE  /\ Abs!EntryLabels # {} /\ First(named) \in DOMAIN syms
             /\ \E o, q : /\ SymMapped(o, q) /\ maps[o].sym[q] = First(named)
                          /\ Abs!Earliest(Abs!EntryLabels) = <<o, q>>
  <2>1. PICK j : j = First(named)
    OBVIOUS
  <2>2. j \in named /\ \A e \in named : j <= e
    <3> HIDE DEF named
    <3> QED
      BY <1>2, <1>5, <2>1, FirstIsLeast
  <2>3. PICK o, q : LeadOf(j, o, q)
    BY <2>2 DEF Merged, LabelsInv
  <2>4. /\ SymMapped(o, q) /\ units[o].syms[q].name = opts.entry
        /\ maps[o].sym[q] <= j
    BY <2>2, <2>3 DEF LeadOf
  <2>5. <<o, q>> \in Abs!Labels
    BY <2>4, AbsPlaces DEF Merged
  <2>6. <<o, q>> \in Abs!EntryLabels
    BY <2>4, <2>5 DEF Abs!EntryLabels, Abs!Label
  <2>7. maps[o].sym[q] \in named
    BY <1>3, <2>6
  <2>8. maps[o].sym[q] = j
    <3>1. PICK x : x = maps[o].sym[q]
      OBVIOUS
    <3>2. x \in Nat /\ j \in Nat /\ x <= j /\ j <= x
      BY <1>2, <2>2, <2>4, <2>7, <3>1
    <3> QED
      BY <3>1, <3>2
  <2>9. ASSUME NEW l \in Abs!EntryLabels
        PROVE  <<o, q>> = l \/ Abs!Before(<<o, q>>, l)
    <3>1. l = <<l[1], l[2]>> /\ SymMapped(l[1], l[2]) /\ units[l[1]].syms[l[2]].name = syms[j].name
      BY <1>3, <2>2, <2>9
    <3>2. (l[1] = o /\ l[2] = q) \/ Ahead(o, q, l[1], l[2])
      BY <2>3, <3>1 DEF LeadOf
    <3> QED
      BY <3>1, <3>2 DEF Ahead, Abs!Before
  <2>10. PICK x : x = <<o, q>>
    OBVIOUS
  <2>11. x \in Abs!EntryLabels /\ \A y \in Abs!EntryLabels : x = y \/ Abs!Before(x, y)
    BY <2>6, <2>9, <2>10
  <2>12. Abs!Earliest(Abs!EntryLabels) = x
    BY <1>3, <2>11, EarliestIs
  <2> QED
    BY <2>1, <2>2, <2>4, <2>6, <2>8, <2>10, <2>12
<1> QED
  BY <1>1, <1>4, <1>5

LEMMA EntryReason ==
  ASSUME Merged
  PROVE  Ex!Defined(Ex!EntrySymbol) <=>
           ~ (Abs!EntryLabels = {} \/ Abs!Meaning(Abs!Earliest(Abs!EntryLabels)) = {})
<1>1. CASE Ex!EntrySymbol = 0
  BY <1>1, EntryIs DEF Ex!Defined
<1>2. CASE Ex!EntrySymbol # 0
  <2>1. PICK o, q : /\ SymMapped(o, q) /\ maps[o].sym[q] = Ex!EntrySymbol
                    /\ Abs!Earliest(Abs!EntryLabels) = <<o, q>>
    BY <1>2, EntryIs
  <2>2. Abs!Meaning(<<o, q>>) = {} <=> syms[Ex!EntrySymbol].sec = 0
    BY <2>1, MeaningIs
  <2>3. Abs!EntryLabels # {}
    BY <1>2, EntryIs
  <2> QED
    BY <1>2, <2>1, <2>2, <2>3 DEF Ex!Defined
<1> QED
  BY <1>1, <1>2

LEMMA TypeReason ==
  ASSUME Merged, WellFormed(units)
  PROVE  (\A d \in DOMAIN secs : \A q \in DOMAIN secs[d].relas : secs[d].relas[q].type \in Ex!Supported)
           <=> ~ \E f \in Abs!Fields : Abs!Field(f).sym # 0 /\ Abs!Field(f).type \notin Abs!Supported
<1>1. Abs!Supported = Ex!Supported
  BY DEF Abs!Supported, Ex!Supported, Abs!PcRelative, Ex!PcRelative, Abs!Absolute32, Ex!Absolute32
<1>2. ASSUME NEW f \in Abs!Fields, Abs!Field(f).sym # 0
      PROVE  \E d \in DOMAIN secs : \E q \in DOMAIN secs[d].relas : secs[d].relas[q].type = Abs!Field(f).type
  <2>1. PICK q \in DOMAIN secs[OutOf(f)].relas : secs[OutOf(f)].relas[q] = CarriedAs(f)
    BY <1>2, FieldInOutput
  <2> QED
    BY <1>2, <2>1, FieldInOutput
<1>3. ASSUME NEW d \in DOMAIN secs, NEW q \in DOMAIN secs[d].relas
      PROVE  \E f \in Abs!Fields : Abs!Field(f).sym # 0 /\ Abs!Field(f).type = secs[d].relas[q].type
  <2>1. PICK f \in Abs!Fields : Abs!Field(f).sym # 0 /\ secs[d].relas[q] = CarriedAs(f)
    BY OutputIsField
  <2> QED
    BY <2>1, FieldInOutput
<1> QED
  BY <1>1, <1>2, <1>3

LEMMA ReasonsAre ==
  ASSUME Merged
  PROVE  Abs!Reasons = IF opts.relocatable THEN {} ELSE Abs!ExecReasons
BY NoMergeReasons DEF Merged, Abs!Reasons

(* Each error of Link_Exec is one that LinkAbs gives a reason for.         *)
LEMMA AbortIsReason ==
  ASSUME Merged, WellFormed(units), ~opts.relocatable,
         Ex!UndefinedSymbol \/ Ex!UndefinedEntry \/ Ex!UnsupportedReloc
  PROVE  err' \in Abs!Reasons
<1>1. CASE Ex!UndefinedSymbol
  <2>1. ~Ex!AllDefined /\ err' = "undefined symbol"
    BY <1>1 DEF Ex!UndefinedSymbol, Ex!Abort
  <2>2. err' \in Abs!ExecReasons
    BY <2>1, UndefinedReason DEF Abs!ExecReasons
  <2> QED
    BY <2>2, ReasonsAre
<1>2. CASE Ex!UndefinedEntry
  <2>1. ~Ex!Defined(Ex!EntrySymbol) /\ err' = "undefined entry symbol"
    BY <1>2 DEF Ex!UndefinedEntry, Ex!Abort
  <2>2. err' \in Abs!ExecReasons
    BY <2>1, EntryReason DEF Abs!ExecReasons
  <2> QED
    BY <2>2, ReasonsAre
<1>3. CASE Ex!UnsupportedReloc
  <2>1. /\ i <= Len(secs) /\ r <= Len(secs[i].relas) /\ secs[i].relas[r].type \notin Ex!Supported
        /\ err' = "unsupported relocation type" /\ i \in Nat \ {0} /\ r \in Nat \ {0}
    BY <1>3 DEF Ex!UnsupportedReloc, Ex!Abort, Ex!AtReloc, Merged, Ex!ExecTyped, Ex!ExecTypeOK
  <2>2. i \in DOMAIN secs
    <3>1. PICK n : n = Len(secs) /\ DOMAIN secs = 1..n /\ n \in Nat
      BY OutputSections
    <3>2. i <= n /\ i \in Nat /\ i # 0
      BY <2>1, <3>1
    <3>3. i \in 1..n
      BY <3>1, <3>2
    <3> QED
      BY <3>1, <3>3
  <2>3. r \in DOMAIN secs[i].relas
    <3>1. PICK n : n = Len(secs[i].relas) /\ DOMAIN secs[i].relas = 1..n /\ n \in Nat
      BY <2>2, LinkedSections DEF Merged
    <3>2. r <= n /\ r \in Nat /\ r # 0
      BY <2>1, <3>1
    <3>3. r \in 1..n
      BY <3>1, <3>2
    <3> QED
      BY <3>1, <3>3
  <2>4. err' \in Abs!ExecReasons
    BY <2>1, <2>2, <2>3, TypeReason DEF Abs!ExecReasons
  <2> QED
    BY <2>4, ReasonsAre
<1> QED
  BY <1>1, <1>2, <1>3

(* A link that comes through has no reason to fail.                        *)
LEMMA NoReasons ==
  ASSUME Merged, WellFormed(units), Ex!ApplyDone, EntrySet, TypesKnown
  PROVE  Abs!Reasons = {}
<1>1. pc = "apply" /\ i > Len(secs) /\ i \in Nat /\ Len(secs) \in Nat /\ DOMAIN secs = 1..Len(secs)
  BY OutputSections DEF Ex!ApplyDone, Merged, Ex!ExecTyped, Ex!ExecTypeOK
<1>2. Ex!AllDefined /\ Ex!Defined(Ex!EntrySymbol)
  BY <1>1 DEF Merged, Ex!ExecTyped, Ex!Checked, EntrySet
<1>3. \A d \in DOMAIN secs : \A q \in DOMAIN secs[d].relas : Applied(d, q)
  BY <1>1 DEF Applied
<1>4. \A d \in DOMAIN secs : \A q \in DOMAIN secs[d].relas : secs[d].relas[q].type \in Ex!Supported
  BY <1>1, <1>3 DEF TypesKnown
<1>5. Abs!ExecReasons = {}
  BY <1>2, <1>4, UndefinedReason, EntryReason, TypeReason DEF Abs!ExecReasons
<1> QED
  BY <1>5, ReasonsAre

-----------------------------------------------------------------------------
(* The image.                                                              *)

(* Where the image has the first byte of section s of object o.            *)
At(o, s) == secs[maps[o].sec[s]].addr + maps[o].base[s]

LEMMA PieceFacts ==
  ASSUME Merged, NEW p \in Abs!Pieces
  PROVE  /\ p = <<p[1], p[2]>> /\ Mapped(p[1], p[2]) /\ p[1] \in Nat /\ p[2] \in Nat
         /\ OutOf(p) = maps[p[1]].sec[p[2]] /\ BaseOf(p) = maps[p[1]].base[p[2]]
         /\ OutOf(p) \in DOMAIN secs /\ BaseOf(p) \in Nat
         /\ secs[OutOf(p)].addr \in Nat /\ At(p[1], p[2]) \in Nat
         /\ Abs!Size(p) \in Nat /\ Abs!Size(p) = Len(units[p[1]].secs[p[2]].data)
         /\ Len(secs[OutOf(p)].data) \in Nat
         /\ BaseOf(p) + Abs!Size(p) <= Len(secs[OutOf(p)].data)
         /\ secs[OutOf(p)].name = Abs!Piece(p).name
<1>1. p = <<p[1], p[2]>> /\ Mapped(p[1], p[2])
  BY AbsPlaces DEF Merged
<1>2. /\ p[1] \in DOMAIN units /\ DOMAIN units \subseteq Nat /\ units[p[1]] \in Objects
      /\ p[2] \in DOMAIN units[p[1]].secs
  BY <1>1 DEF Merged, AllMerged, Mapped
<1>3. units[p[1]].secs \in Seq(Section(Names))
  BY <1>2, ObjectFields
<1>4. p[1] \in Nat /\ p[2] \in Nat
  BY <1>2, <1>3
<1>5. OutOf(p) = maps[p[1]].sec[p[2]] /\ BaseOf(p) = maps[p[1]].base[p[2]]
  BY DEF OutOf, BaseOf
<1>6. /\ OutOf(p) \in DOMAIN secs /\ BaseOf(p) \in Nat
      /\ units[p[1]].secs[p[2]].data \in Seq(Seq(Nat))
      /\ BaseOf(p) + Len(units[p[1]].secs[p[2]].data) <= Len(secs[OutOf(p)].data)
  BY <1>1, <1>5 DEF Merged, LaidOut
<1>7. secs[OutOf(p)].addr \in Nat
  <2>1. secs[OutOf(p)] \in Ex!Section(Names)
    BY <1>6, OutputSections
  <2> QED
    BY <2>1 DEF Ex!Section
<1>8. Abs!Size(p) = Len(units[p[1]].secs[p[2]].data)
  BY DEF Abs!Size, Abs!Piece
<1>9. Abs!Size(p) \in Nat /\ Len(secs[OutOf(p)].data) \in Nat
  <2>1. Len(secs[OutOf(p)].data) \in Nat
    BY <1>6, LinkedSections DEF Merged
  <2>2. Len(units[p[1]].secs[p[2]].data) \in Nat
    BY <1>6, LenProperties
  <2> QED
    BY <1>8, <2>1, <2>2
<1>10. At(p[1], p[2]) \in Nat
  <2>1. At(p[1], p[2]) = secs[OutOf(p)].addr + BaseOf(p)
    BY <1>5 DEF At
  <2> QED
    BY <1>6, <1>7, <2>1
<1>11. secs[OutOf(p)].name = Abs!Piece(p).name
  BY <1>1, <1>5 DEF Merged, SectionsInv, Abs!Piece
<1> QED
  BY <1>1, <1>4, <1>5, <1>6, <1>7, <1>8, <1>9, <1>10, <1>11

(* Pieces of one name are those of one output section, which was made for  *)
(* the earliest of them.                                                   *)
LEMMA HeadIs ==
  ASSUME Merged, NEW p \in Abs!Pieces
  PROVE  /\ \A x : x \in Abs!Namesakes(p) <=> x \in Abs!Pieces /\ OutOf(x) = OutOf(p)
         /\ \E o, s : HeadOf(OutOf(p), o, s) /\ Abs!Earliest(Abs!Namesakes(p)) = <<o, s>>
<1>1. ASSUME NEW x \in Abs!Pieces
      PROVE  Abs!Piece(x).name = Abs!Piece(p).name <=> OutOf(x) = OutOf(p)
  <2>1. /\ secs[OutOf(x)].name = Abs!Piece(x).name /\ OutOf(x) \in DOMAIN secs
        /\ secs[OutOf(p)].name = Abs!Piece(p).name /\ OutOf(p) \in DOMAIN secs
    BY PieceFacts
  <2> QED
    BY <2>1 DEF Merged, SectionsInv
<1>2. \A x : x \in Abs!Namesakes(p) <=> x \in Abs!Pieces /\ OutOf(x) = OutOf(p)
  BY <1>1 DEF Abs!Namesakes
<1>3. PICK o, s : HeadOf(OutOf(p), o, s)
  BY PieceFacts DEF Merged, SectionsInv
<1>4. PICK x : x = <<o, s>>
  OBVIOUS
<1>5. x[1] = o /\ x[2] = s /\ x = <<x[1], x[2]>> /\ Mapped(x[1], x[2])
  BY <1>3, <1>4 DEF HeadOf
<1>6. x \in Abs!Pieces
  BY <1>5, AbsPlaces DEF Merged
<1>7. x \in Abs!Namesakes(p)
  BY <1>2, <1>3, <1>5, <1>6 DEF HeadOf, OutOf
<1>8. ASSUME NEW y \in Abs!Namesakes(p)
      PROVE  x = y \/ Abs!Before(x, y)
  <2>1. y \in Abs!Pieces /\ OutOf(y) = OutOf(p)
    BY <1>2
  <2>2. y = <<y[1], y[2]>> /\ Mapped(y[1], y[2]) /\ maps[y[1]].sec[y[2]] = OutOf(p)
    BY <2>1, PieceFacts
  <2>3. (y[1] = o /\ y[2] = s) \/ Ahead(o, s, y[1], y[2])
    BY <1>3, <2>2 DEF HeadOf
  <2> QED
    BY <1>4, <1>5, <2>2, <2>3 DEF Ahead, Abs!Before
<1>9. \A y \in Abs!Namesakes(p) : y[1] \in Nat /\ y[2] \in Nat
  BY <1>2, PieceFacts
<1>10. Abs!Earliest(Abs!Namesakes(p)) = x
  BY <1>7, <1>8, <1>9, EarliestIs
<1> QED
  BY <1>2, <1>3, <1>4, <1>10

(* The address of a label's definition is that of the symbol the label was *)
(* made into.                                                              *)
LEMMA AddressIs ==
  ASSUME Merged, NEW addr, \A p \in Abs!Pieces : addr[p] = At(p[1], p[2]),
         NEW o, NEW q, SymMapped(o, q), NEW l \in Abs!Meaning(<<o, q>>)
  PROVE  Abs!AddressOf(addr, l) = SymAt(syms[maps[o].sym[q]])
<1> DEFINE old == units[l[1]].syms[l[2]]
           new == syms[maps[o].sym[q]]
<1>1. SymMapped(l[1], l[2]) /\ old.sec # 0 /\ MovedFrom(l, new)
  BY MeaningIs
<1>2. /\ new.sec = maps[l[1]].sec[old.sec]
      /\ new.value = maps[l[1]].base[old.sec] + old.value
  BY <1>1 DEF MovedFrom
<1>3. Mapped(l[1], old.sec) /\ new.sec # 0
  BY <1>1, <1>2, LabelPlace, Zenon
<1>4. PICK p : p = <<l[1], old.sec>>
  OBVIOUS
<1>5. p[1] = l[1] /\ p[2] = old.sec /\ p \in Abs!Pieces
  <2>1. p[1] = l[1] /\ p[2] = old.sec /\ p = <<p[1], p[2]>>
    BY <1>4
  <2> QED
    BY <1>3, <2>1, AbsPlaces DEF Merged
<1>6. addr[p] = secs[new.sec].addr + maps[l[1]].base[old.sec]
  BY <1>2, <1>5, Zenon DEF At
<1>7. /\ secs[new.sec].addr \in Nat /\ maps[l[1]].base[old.sec] \in Nat
  BY <1>2, <1>5, PieceFacts, Zenon
<1>8. old.value \in Nat
  <2>1. l[1] \in DOMAIN units /\ units[l[1]] \in Objects /\ l[2] \in DOMAIN units[l[1]].syms
    BY <1>1 DEF Merged, AllMerged, SymMapped
  <2>2. units[l[1]].syms \in Seq(Symbol(Names))
    BY <2>1, ObjectFields
  <2>3. old \in Symbol(Names)
    BY <2>1, <2>2
  <2> QED
    BY <2>3 DEF Symbol
<1>9. addr[p] + old.value = secs[new.sec].addr + new.value
  <2> HIDE DEF old, new
  <2>1. PICK a \in Nat, b \in Nat, c \in Nat :
          a = secs[new.sec].addr /\ b = maps[l[1]].base[old.sec] /\ c = old.value
    BY <1>7, <1>8
  <2>2. (a + b) + c = a + (b + c)
    OBVIOUS
  <2>3. addr[p] = a + b
    BY <1>6, <2>1
  <2>4. new.value = b + c
    BY <1>2, <2>1
  <2>5. addr[p] + old.value = (a + b) + c
    BY <2>1, <2>3
  <2>6. secs[new.sec].addr + new.value = a + (b + c)
    BY <2>1, <2>4
  <2> QED
    BY <2>2, <2>5, <2>6
<1>10. Abs!AddressOf(addr, l) = (addr[p] + old.value) % ByteBase^8
  BY <1>4 DEF Abs!AddressOf, Abs!Label, Abs!Modulus
<1>11. SymAt(new) = (secs[new.sec].addr + new.value) % ByteBase^8
  BY <1>3 DEF SymAt
<1> QED
  BY <1>9, <1>10, <1>11

LEMMA HeadPlace ==
  ASSUME Merged, NEW addr, \A p \in Abs!Pieces : addr[p] = At(p[1], p[2]), NEW p \in Abs!Pieces
  PROVE  /\ addr[Abs!Earliest(Abs!Namesakes(p))] = secs[OutOf(p)].addr
         /\ Abs!Loaded(p) = secs[OutOf(p)].alloc
<1>1. PICK o, s : HeadOf(OutOf(p), o, s) /\ Abs!Earliest(Abs!Namesakes(p)) = <<o, s>>
  BY HeadIs
<1>2. PICK x : x = <<o, s>>
  OBVIOUS
<1>3. x[1] = o /\ x[2] = s /\ x = <<x[1], x[2]>> /\ Mapped(x[1], x[2])
  BY <1>1, <1>2 DEF HeadOf
<1>4. x \in Abs!Pieces
  BY <1>3, AbsPlaces DEF Merged
<1>5. maps[o].sec[s] = OutOf(p) /\ maps[o].base[s] = 0 /\ secs[OutOf(p)].alloc = units[o].secs[s].alloc
  BY <1>1 DEF HeadOf
<1>6. addr[x] = secs[OutOf(p)].addr + 0
  BY <1>3, <1>4, <1>5 DEF At
<1>7. addr[x] = secs[OutOf(p)].addr
  <2>1. PICK n \in Nat : n = secs[OutOf(p)].addr
    BY PieceFacts
  <2> QED
    BY <1>6, <2>1
<1>8. Abs!Loaded(p) = units[o].secs[s].alloc
  BY <1>1, <1>2, <1>3 DEF Abs!Loaded, Abs!Piece
<1> QED
  BY <1>1, <1>2, <1>5, <1>7, <1>8

(* Where a piece lies in its output section, LinkAbs's way of saying it.   *)
LEMMA PieceInSection ==
  ASSUME Merged, Aligned, NEW addr, \A p \in Abs!Pieces : addr[p] = At(p[1], p[2]),
         NEW p \in Abs!Pieces
  PROVE  LET head == Abs!Earliest(Abs!Namesakes(p)) IN
         /\ Abs!Piece(p).align > 1 /\ p[1] # 1 => (addr[p] - addr[head]) % Abs!Piece(p).align = 0
         /\ \A q \in Abs!Namesakes(p) : Abs!Before(p, q) => addr[p] + Abs!Size(p) <= addr[q]
<1>1. addr[Abs!Earliest(Abs!Namesakes(p))] = secs[OutOf(p)].addr
  BY HeadPlace
<1>2. /\ Mapped(p[1], p[2]) /\ BaseOf(p) = maps[p[1]].base[p[2]] /\ OutOf(p) = maps[p[1]].sec[p[2]]
      /\ secs[OutOf(p)].addr \in Nat /\ BaseOf(p) \in Nat /\ Abs!Size(p) \in Nat
      /\ Abs!Size(p) = Len(units[p[1]].secs[p[2]].data)
  BY PieceFacts
<1>3. addr[p] = secs[OutOf(p)].addr + BaseOf(p)
  BY <1>2 DEF At
<1>4. PICK a \in Nat, b \in Nat, n \in Nat : a = secs[OutOf(p)].addr /\ b = BaseOf(p) /\ n = Abs!Size(p)
  BY <1>2
<1>5. addr[p] - addr[Abs!Earliest(Abs!Namesakes(p))] = b
  <2>1. (a + b) - a = b
    OBVIOUS
  <2> QED
    BY <1>1, <1>3, <1>4, <2>1
<1>6. ASSUME Abs!Piece(p).align > 1, p[1] # 1
      PROVE  b % Abs!Piece(p).align = 0
  BY <1>2, <1>4, <1>6 DEF Aligned, Abs!Piece
<1>7. ASSUME NEW q \in Abs!Namesakes(p), Abs!Before(p, q)
      PROVE  addr[p] + Abs!Size(p) <= addr[q]
  <2>1. q \in Abs!Pieces /\ OutOf(q) = OutOf(p)
    BY HeadIs
  <2>2. /\ Mapped(q[1], q[2]) /\ BaseOf(q) = maps[q[1]].base[q[2]] /\ OutOf(q) = maps[q[1]].sec[q[2]]
        /\ BaseOf(q) \in Nat
    BY <2>1, PieceFacts
  <2>3. addr[q] = secs[OutOf(p)].addr + BaseOf(q)
    BY <2>1, <2>2 DEF At
  <2>4. Ahead(p[1], p[2], q[1], q[2])
    BY <1>7 DEF Abs!Before, Ahead
  <2>5. BaseOf(p) + Abs!Size(p) <= BaseOf(q)
    <3>1. Mapped(p[1], p[2]) /\ Mapped(q[1], q[2]) /\ maps[p[1]].sec[p[2]] = maps[q[1]].sec[q[2]]
      BY <1>2, <2>1, <2>2
    <3>2. maps[p[1]].base[p[2]] + Len(units[p[1]].secs[p[2]].data) <= maps[q[1]].base[q[2]]
      BY <2>4, <3>1 DEF Merged, SectionsInv
    <3> QED
      BY <1>2, <2>2, <3>2
  <2>6. PICK c \in Nat : c = BaseOf(q) /\ b + n <= c
    BY <1>4, <2>2, <2>5
  <2>7. (a + b) + n <= a + c
    BY <2>6
  <2> QED
    BY <1>3, <1>4, <2>3, <2>6, <2>7
<1> QED
  BY <1>5, <1>6, <1>7

LEMMA NoRequest ==
  ASSUME NEW name
  PROVE  /\ Abs!Requests(name) = {} => ~(Asked(opts.places, name) # 0)
         /\ opts.places \in Seq(Ex!Requests) /\ Abs!Requests(name) # {} => Asked(opts.places, name) # 0
         /\ Asked(opts.places, name) = Abs!First(Abs!Requests(name))
<1> DEFINE S == {n \in DOMAIN opts.places : opts.places[n].name = name}
<1>1. Abs!Requests(name) = S
  BY DEF Abs!Requests
<1>2. Asked(opts.places, name) = First(S)
  BY DEF Asked
<1>3. Abs!First(S) = First(S)
  BY DEF Abs!First, First, Abs!Min, Min
<1>4. S = {} => First(S) = 0
  BY DEF First
<1>5. ASSUME opts.places \in Seq(Ex!Requests), S # {}
      PROVE  First(S) # 0
  <2>1. S \in SUBSET (Nat \ {0})
    BY <1>5
  <2> HIDE DEF S
  <2>2. First(S) \in S
    BY <1>5, <2>1, FirstIsLeast
  <2> QED
    BY <2>1, <2>2
<1> HIDE DEF S
<1> QED
  BY <1>1, <1>2, <1>3, <1>4, <1>5

(* Where Link_PlaceSections has put a section, LinkAbs's way of saying it. *)
LEMMA SectionInImage ==
  ASSUME Merged, Addresses, Ex!PlacementInv, Ex!FitsAddressSpace, pc = "apply",
         NEW addr, \A p \in Abs!Pieces : addr[p] = At(p[1], p[2]), NEW p \in Abs!Pieces
  PROVE  LET head == Abs!Earliest(Abs!Namesakes(p)) IN
         /\ ~Abs!Loaded(p) => addr[head] = 0
         /\ Abs!Loaded(p) /\ Abs!Requests(Abs!Piece(p).name) = {} => addr[head] % LinkPage = 0
         /\ Abs!Loaded(p) /\ Abs!Requests(Abs!Piece(p).name) # {} =>
              addr[head] = opts.places[Abs!First(Abs!Requests(Abs!Piece(p).name))].addr
<1> DEFINE d == OutOf(p)
<1>1. /\ addr[Abs!Earliest(Abs!Namesakes(p))] = secs[d].addr
      /\ Abs!Loaded(p) = secs[d].alloc
  BY HeadPlace
<1>2. d \in DOMAIN secs /\ secs[d].name = Abs!Piece(p).name
  BY PieceFacts
<1>3. secs[d].alloc => Ex!Placed(d)
  BY DEF Ex!Placed
<1>4. opts.places \in Seq(Ex!Requests)
  BY LinkAssumption, ExAssumptions DEF Merged, Ex!ExecTyped, Ex!ExecTypeOK, Ex!LinkOptionsAssumption
<1>5. ~Ex!Requested(d) <=> Asked(opts.places, secs[d].name) = 0
  BY AskedIsRequest DEF Ex!Requested
<1>6. secs[d].alloc /\ Asked(opts.places, secs[d].name) = 0 => secs[d].addr % LinkPage = 0
  BY <1>2, <1>3, <1>5 DEF Ex!PlacementInv, Ex!Unplaced
<1>7. /\ ~secs[d].alloc => secs[d].addr = 0
      /\ secs[d].alloc /\ Asked(opts.places, secs[d].name) # 0 =>
           secs[d].addr = opts.places[Asked(opts.places, secs[d].name)].addr
  BY <1>2, <1>3 DEF Addresses
<1> HIDE DEF d
<1> QED
  BY <1>1, <1>2, <1>4, <1>6, <1>7, NoRequest

(* Without -place every two loaded pieces are apart: in one section by the *)
(* merge, in two because the later section starts past the earlier.        *)
LEMMA PiecesDisjoint ==
  ASSUME Merged, Ex!PlacementInv, Ex!FitsAddressSpace, pc = "apply", opts.places = << >>,
         NEW addr, \A p \in Abs!Pieces : addr[p] = At(p[1], p[2]),
         NEW p \in Abs!Pieces, NEW q \in Abs!Pieces, p # q, Abs!Loaded(p), Abs!Loaded(q)
  PROVE  Abs!Disjoint(addr, p, q)
<1>1. \A x \in Abs!Pieces : addr[x] = secs[OutOf(x)].addr + BaseOf(x)
  BY PieceFacts DEF At
<1>2. CASE OutOf(p) = OutOf(q)
  <2>1. /\ Mapped(p[1], p[2]) /\ Mapped(q[1], q[2]) /\ (p[1] # q[1] \/ p[2] # q[2])
        /\ maps[p[1]].sec[p[2]] = maps[q[1]].sec[q[2]]
    BY <1>2, PieceFacts
  <2>2. BaseOf(p) + Abs!Size(p) <= BaseOf(q) \/ BaseOf(q) + Abs!Size(q) <= BaseOf(p)
    <3>1. PiecesApart(p[1], p[2], q[1], q[2])
      BY <2>1 DEF Merged, LaidOut
    <3>2. \/ maps[p[1]].base[p[2]] + Len(units[p[1]].secs[p[2]].data) <= maps[q[1]].base[q[2]]
          \/ maps[q[1]].base[q[2]] + Len(units[q[1]].secs[q[2]].data) <= maps[p[1]].base[p[2]]
      BY <2>1, <3>1 DEF PiecesApart
    <3>3. /\ BaseOf(p) = maps[p[1]].base[p[2]] /\ BaseOf(q) = maps[q[1]].base[q[2]]
          /\ Abs!Size(p) = Len(units[p[1]].secs[p[2]].data)
          /\ Abs!Size(q) = Len(units[q[1]].secs[q[2]].data)
      BY PieceFacts
    <3> QED
      BY <3>2, <3>3
  <2>3. PICK a \in Nat, b \in Nat, c \in Nat, n \in Nat, m \in Nat :
          /\ a = secs[OutOf(p)].addr /\ b = BaseOf(p) /\ c = BaseOf(q)
          /\ n = Abs!Size(p) /\ m = Abs!Size(q)
    BY PieceFacts
  <2>4. (a + b) + n <= a + c \/ (a + c) + m <= a + b
    <3>1. b + n <= c \/ c + m <= b
      BY <2>2, <2>3, Zenon
    <3> QED
      BY <3>1
  <2>5. addr[p] = a + b /\ addr[q] = a + c
    BY <1>1, <1>2, <2>3
  <2> QED
    BY <2>3, <2>4, <2>5 DEF Abs!Disjoint
<1>3. ASSUME NEW x \in Abs!Pieces, NEW y \in Abs!Pieces, OutOf(x) < OutOf(y),
             Abs!Loaded(x), Abs!Loaded(y)
      PROVE  addr[x] + Abs!Size(x) <= addr[y]
  <2>1. /\ OutOf(x) \in DOMAIN secs /\ OutOf(y) \in DOMAIN secs
        /\ DOMAIN secs \subseteq Nat \ {0}
    BY PieceFacts, OutputSections
  <2>2. Ex!Placed(OutOf(x)) /\ Ex!Placed(OutOf(y))
    BY <1>3, HeadPlace DEF Ex!Placed
  <2>3. ~Ex!Requested(OutOf(y))
    <3>1. Abs!Requests(secs[OutOf(y)].name) = {}
      BY DEF Abs!Requests
    <3> QED
      BY <3>1, NoRequest, AskedIsRequest DEF Ex!Requested
  <2>4. OutOf(x) \in 1..(OutOf(y) - 1)
    BY <1>3, <2>1
  <2>5. Ex!EndOf(OutOf(x)) <= secs[OutOf(y)].addr
    BY <2>1, <2>2, <2>3, <2>4 DEF Ex!PlacementInv, Ex!Unplaced
  <2>6. PICK a \in Nat, b \in Nat, n \in Nat, len \in Nat, a2 \in Nat, b2 \in Nat :
          /\ a = secs[OutOf(x)].addr /\ b = BaseOf(x) /\ n = Abs!Size(x)
          /\ len = Len(secs[OutOf(x)].data) /\ a2 = secs[OutOf(y)].addr /\ b2 = BaseOf(y)
    BY PieceFacts
  <2>7. b + n <= len
    BY <2>6, PieceFacts
  <2>8. a + len <= a2
    BY <2>5, <2>6 DEF Ex!EndOf
  <2>9. (a + b) + n <= a2 + b2
    BY <2>7, <2>8
  <2> QED
    BY <1>1, <2>6, <2>9
<1>4. CASE OutOf(p) # OutOf(q)
  <2>1. OutOf(p) \in Nat /\ OutOf(q) \in Nat
    BY PieceFacts, OutputSections
  <2>2. OutOf(p) < OutOf(q) \/ OutOf(q) < OutOf(p)
    BY <1>4, <2>1
  <2> QED
    BY <1>3, <2>2 DEF Abs!Disjoint
<1> QED
  BY <1>2, <1>4

LEMMA LayoutIsOK ==
  ASSUME Merged, Aligned, Addresses, Ex!PlacementInv, Ex!FitsAddressSpace, pc = "apply",
         NEW addr, \A p \in Abs!Pieces : addr[p] = At(p[1], p[2])
  PROVE  Abs!LayoutOK(addr)
<1>1. ASSUME NEW p \in Abs!Pieces
      PROVE  LET head == Abs!Earliest(Abs!Namesakes(p)) IN
             /\ Abs!Piece(p).align > 1 /\ p[1] # 1 => (addr[p] - addr[head]) % Abs!Piece(p).align = 0
             /\ \A q \in Abs!Namesakes(p) : Abs!Before(p, q) => addr[p] + Abs!Size(p) <= addr[q]
             /\ ~Abs!Loaded(p) => addr[head] = 0
             /\ Abs!Loaded(p) /\ Abs!Requests(Abs!Piece(p).name) = {} => addr[head] % LinkPage = 0
             /\ Abs!Loaded(p) /\ Abs!Requests(Abs!Piece(p).name) # {} =>
                  addr[head] = opts.places[Abs!First(Abs!Requests(Abs!Piece(p).name))].addr
  <2>1. PICK head : head = Abs!Earliest(Abs!Namesakes(p))
    OBVIOUS
  <2> QED
    BY PieceInSection, SectionInImage
<1>2. opts.places = << >> =>
        \A p, q \in Abs!Pieces : p # q /\ Abs!Loaded(p) /\ Abs!Loaded(q) => Abs!Disjoint(addr, p, q)
  BY PiecesDisjoint
<1> QED
  BY <1>1, <1>2 DEF Abs!LayoutOK

LEMMA CarriedHasSymbol ==
  ASSUME Merged, WellFormed(units), NEW f \in Carried
  PROVE  /\ RelaOf(f).sym # 0 /\ f = <<f[1], f[2], f[3]>>
         /\ f[1] \in DOMAIN units /\ units[f[1]] \in Objects /\ f[2] \in DOMAIN units[f[1]].secs
         /\ f[3] \in DOMAIN units[f[1]].secs[f[2]].relas
<1>1. Carries(f)
  BY CarriedMeans
<1>2. /\ f = <<f[1], f[2], f[3]>> /\ f[1] \in DOMAIN units /\ units[f[1]] \in Objects
      /\ f[2] \in DOMAIN units[f[1]].secs
      /\ f[3] \in DOMAIN units[f[1]].secs[f[2]].relas
  BY <1>1 DEF Carries, Merged, AllMerged, Mapped
<1>3. RelaOf(f).sym # 0
  <2>1. CASE f[1] = 1
    BY <1>2, <2>1 DEF WellFormed, Exec!FreshlyEncoded, RelaOf
  <2> QED
    BY <1>1, <2>1 DEF Carries
<1> QED
  BY <1>2, <1>3

(* The fields of an assembler's relocations are apart. *)
LEMMA WellFormedApart ==
  ASSUME Merged, WellFormed(units)
  PROVE  Apart
<1> DEFINE Reach(u, s, q) == (u.secs[s].relas[q].off + 1)..(u.secs[s].relas[q].off + Exec!Width(u.secs[s].relas[q].type))
<1>1. \A o \in DOMAIN units : units[o] \in Objects => Exec!FieldsWithin(units[o])
  BY UnitSeqsAssumption DEF WellFormed
<1>2. \A f : Field(f) = Reach(units[f[1]], f[2], f[3])
  BY DEF Field, RelaOf, FieldWidth, Exec!Width
<1>3. ASSUME NEW u, Exec!FieldsWithin(u), NEW s \in DOMAIN u.secs,
             NEW q \in DOMAIN u.secs[s].relas, u.secs[s].relas[q].sym # 0
      PROVE  /\ Reach(u, s, q) \subseteq DOMAIN u.secs[s].data
             /\ \A x \in DOMAIN u.secs[s].relas : u.secs[s].relas[x].sym # 0 /\ x # q =>
                  Reach(u, s, q) \intersect Reach(u, s, x) = {}
  BY <1>3 DEF Exec!FieldsWithin
<1> HIDE DEF Reach
<1>4. ASSUME NEW f \in Carried
      PROVE  Field(f) \subseteq DOMAIN DataOf(f)
  <2>1. PICK u, s, q : u = units[f[1]] /\ s = f[2] /\ q = f[3]
    OBVIOUS
  <2>2. /\ Exec!FieldsWithin(u) /\ s \in DOMAIN u.secs /\ q \in DOMAIN u.secs[s].relas
        /\ u.secs[s].relas[q].sym # 0
    BY <1>1, <2>1, CarriedHasSymbol DEF RelaOf
  <2>3. Reach(u, s, q) \subseteq DOMAIN u.secs[s].data
    BY <1>3, <2>2
  <2> QED
    BY <1>2, <2>1, <2>3 DEF DataOf
<1>5. ASSUME NEW f \in Carried, NEW g \in Carried, f # g, f[1] = g[1], f[2] = g[2]
      PROVE  Field(f) \intersect Field(g) = {}
  <2>1. PICK u, s, q, x : u = units[f[1]] /\ s = f[2] /\ q = f[3] /\ x = g[3]
    OBVIOUS
  <2>2. /\ Exec!FieldsWithin(u) /\ s \in DOMAIN u.secs
        /\ q \in DOMAIN u.secs[s].relas /\ u.secs[s].relas[q].sym # 0
        /\ x \in DOMAIN u.secs[s].relas /\ u.secs[s].relas[x].sym # 0
    BY <1>1, <1>5, <2>1, CarriedHasSymbol, Zenon DEF RelaOf
  <2>3. x # q
    BY <1>5, <2>1, CarriedHasSymbol
  <2>4. Reach(u, s, q) \intersect Reach(u, s, x) = {}
    BY <1>3, <2>2, <2>3
  <2> QED
    BY <1>2, <1>5, <2>1, <2>4
<1> QED
  BY <1>4, <1>5 DEF Apart

(* When all is applied each field holds what LinkAbs asks of it. *)
LEMMA FieldIsResolved ==
  ASSUME Merged, WellFormed(units), FieldsInv, pc = "apply", i > Len(secs),
         NEW addr, \A p \in Abs!Pieces : addr[p] = At(p[1], p[2]),
         NEW f \in Abs!Fields, Abs!Field(f).sym # 0
  PROVE  FieldIn(f) = Abs!Resolved(addr, f)
<1> DEFINE rela == RelaOf(f)
           S == SymAt(syms[maps[f[1]].sym[rela.sym]])
<1>1. /\ OutOf(f) \in DOMAIN secs /\ rela = Abs!Field(f)
      /\ Mapped(f[1], f[2]) /\ SymMapped(f[1], rela.sym)
      /\ CarriedAs(f).sym = maps[f[1]].sym[rela.sym]
      /\ CarriedAs(f).off = BaseOf(f) + rela.off
      /\ CarriedAs(f).type = rela.type /\ CarriedAs(f).addend = rela.addend
  BY FieldInOutput
<1>2. PICK d, p : d = OutOf(f) /\ p = <<f[1], f[2]>>
  OBVIOUS
<1>3. d \in DOMAIN secs
  BY <1>1, <1>2
<1>4. PICK q \in DOMAIN secs[d].relas : secs[d].relas[q] = CarriedAs(f)
  BY <1>2, FieldInOutput
<1>5. Ex!AllDefined
  BY DEF Merged, Ex!ExecTyped, Ex!Checked
<1>6. Decode(secs[d].data, CarriedAs(f).off, FieldWidth(rela.type)) = Written(d, CarriedAs(f))
  <2>1. Applied(d, q)
    <3>1. d < i
      <4>1. DOMAIN secs = 1..Len(secs) /\ Len(secs) \in Nat
        BY OutputSections
      <4>2. i \in Nat
        BY DEF Merged, Ex!ExecTyped, Ex!ExecTypeOK
      <4> QED
        BY <1>3, <4>1, <4>2
    <3> QED
      BY <3>1 DEF Applied
  <2>2. FieldHolds(d, secs[d].relas[q])
    BY <1>3, <2>1, WellFormedApart DEF FieldsInv
  <2>3. Exact(d, secs[d].relas[q]) \in Int
    BY <1>3, <1>5, ExactIsNumber DEF Merged
  <2>4. LET x == secs[d].relas[q]
        IN Decode(secs[d].data, x.off, FieldWidth(x.type)) = Written(d, x)
    BY <1>3, <2>2, <2>3, FieldReadsBack DEF Merged
  <2> QED
    BY <1>1, <1>4, <2>4
<1>7. FieldIn(f) = Decode(secs[d].data, CarriedAs(f).off, FieldWidth(rela.type))
  BY <1>1, <1>2 DEF FieldIn, OutSection, OutOf, BaseOf, RelaOf, Exec!Width, FieldWidth
<1>8. p \in Abs!Pieces /\ p[1] = f[1] /\ p[2] = f[2]
  <2>1. p[1] = f[1] /\ p[2] = f[2] /\ p = <<p[1], p[2]>>
    BY <1>2
  <2> QED
    BY <1>1, <2>1, AbsPlaces DEF Merged
<1>9. addr[p] = secs[d].addr + BaseOf(f)
  BY <1>2, <1>8 DEF At, OutOf, BaseOf
<1>10. addr[p] + rela.off = secs[d].addr + CarriedAs(f).off
  <2>1. rela.off \in Nat
    <3>1. rela \in Rela
      BY FieldInOutput, CarriedMeans DEF Merged, LaidOut
    <3> QED
      BY <3>1 DEF Rela
  <2>2. secs[d].addr \in Nat /\ BaseOf(f) \in Nat
    BY <1>2, <1>8, PieceFacts DEF OutOf, BaseOf
  <2> HIDE DEF rela
  <2>3. PICK a \in Nat, b \in Nat, c \in Nat : a = secs[d].addr /\ b = BaseOf(f) /\ c = rela.off
    BY <2>1, <2>2
  <2>4. (a + b) + c = a + (b + c)
    OBVIOUS
  <2>5. addr[p] + rela.off = (a + b) + c
    BY <1>9, <2>3
  <2>6. secs[d].addr + CarriedAs(f).off = a + (b + c)
    BY <1>1, <2>3
  <2> QED
    BY <2>4, <2>5, <2>6
<1>11. PICK def : def = CHOOSE l \in Abs!Meaning(<<f[1], rela.sym>>) : TRUE
  OBVIOUS
<1>12. Abs!AddressOf(addr, def) = S
  <2>1. syms[maps[f[1]].sym[rela.sym]].sec # 0
    BY <1>1, <1>3, <1>4, <1>5 DEF Ex!AllDefined, Ex!Defined
  <2>2. Abs!Meaning(<<f[1], rela.sym>>) # {}
    BY <1>1, <2>1, MeaningIs
  <2>3. def \in Abs!Meaning(<<f[1], rela.sym>>)
    BY <1>11, <2>2
  <2> QED
    BY <1>1, <2>3, AddressIs
<1>13. Abs!Resolved(addr, f) = Abs!FieldValue(rela.type, S, rela.addend, secs[d].addr + CarriedAs(f).off)
  BY <1>1, <1>2, <1>10, <1>11, <1>12 DEF Abs!Resolved
<1>14. Written(d, CarriedAs(f)) = Abs!FieldValue(rela.type, S, rela.addend, secs[d].addr + CarriedAs(f).off)
  <2> HIDE DEF rela
  <2> QED
    BY <1>1 DEF Written, Exact, Abs!FieldValue, Abs!PcRelative, Abs!Modulus, Abs!Width, FieldWidth
<1> QED
  BY <1>6, <1>7, <1>13, <1>14

(* The heart of it: the image of a finished link is one LinkAbs calls      *)
(* correct.                                                                *)
LEMMA ImageIsCorrect ==
  ASSUME Merged, WellFormed(units), Aligned, Addresses, EntrySet, FieldsInv,
         Ex!PlacementInv, Ex!FitsAddressSpace, pc = "apply", i > Len(secs)
  PROVE  Abs!Correct(Image)
<1> DEFINE addr == [p \in InputPieces |-> OutSection(p).addr + maps[p[1]].base[p[2]]]
           withSymbol == {g \in InputFields : units[g[1]].secs[g[2]].relas[g[3]].sym # 0}
           field == [f \in withSymbol |-> FieldIn(f)]
<1>1. Image.addr = addr /\ Image.field = field /\ Image.entry = entry
  BY DEF Image
<1>2. InputPieces = Abs!Pieces
  BY AbsPlaces DEF InputPieces, Abs!Pieces, Merged, AllMerged
<1>3. InputFields = Abs!Fields
  BY <1>2 DEF InputFields, Abs!Fields
<1>4. \A p \in Abs!Pieces : addr[p] = At(p[1], p[2])
  BY <1>2 DEF OutSection, At
<1>5. DOMAIN addr = Abs!Pieces
  BY <1>2
<1>6. \A f \in Abs!Fields : Abs!Field(f).sym # 0 => field[f] = FieldIn(f)
  BY <1>3, Zenon DEF Abs!Field
<1> HIDE DEF addr, field, withSymbol
<1>7. Abs!LayoutOK(addr)
  BY <1>4, LayoutIsOK
<1>8. \A f \in Abs!Fields : Abs!Field(f).sym # 0 => field[f] = Abs!Resolved(addr, f)
  BY <1>4, <1>6, FieldIsResolved
<1>9. entry \in {Abs!AddressOf(addr, l) : l \in Abs!Meaning(Abs!Earliest(Abs!EntryLabels))}
  <2>1. /\ Ex!Defined(Ex!EntrySymbol) /\ Ex!EntrySymbol # 0
        /\ entry = Ex!SymbolAddr(secs, syms[Ex!EntrySymbol])
    BY DEF EntrySet, Ex!Defined
  <2>2. PICK o, q : /\ SymMapped(o, q) /\ maps[o].sym[q] = Ex!EntrySymbol
                    /\ Abs!Earliest(Abs!EntryLabels) = <<o, q>>
    BY <2>1, EntryIs
  <2>3. PICK l : l \in Abs!Meaning(<<o, q>>)
    BY <2>1, <2>2, EntryReason
  <2>4. Abs!AddressOf(addr, l) = SymAt(syms[maps[o].sym[q]])
    BY <1>4, <2>2, <2>3, AddressIs
  <2>5. SymAt(syms[Ex!EntrySymbol]) = entry
    BY <2>1 DEF SymAt, Ex!SymbolAddr, Ex!Modulus
  <2> QED
    BY <2>2, <2>3, <2>4, <2>5
<1> QED
  BY <1>1, <1>5, <1>7, <1>8, <1>9 DEF Abs!Correct

-----------------------------------------------------------------------------
(* The refinement.                                                         *)

(* Until the link is done LinkAbs sees nothing of it. *)
LEMMA UnseenStep ==
  ASSUME UNCHANGED <<units, opts, err>>, pc \notin {"linked", "failed"}, pc' \notin {"linked", "failed"}
  PROVE  UNCHANGED Abs!absVars
BY DEF Abs!absVars, Finished

LEMMA FailingStep ==
  ASSUME UNCHANGED <<units, opts>>, pc \notin {"linked", "failed"}, pc' = "failed", err' \in Abs!Reasons
  PROVE  Abs!AbsNext
BY DEF Abs!AbsNext, Abs!AbsFail, Finished

LEMMA MergingRefines ==
  ASSUME RefineInv, Merging
  PROVE  [Abs!AbsNext]_Abs!absVars
<1>1. MergeNext /\ UNCHANGED opts
  BY DEF Merging, execOnly
<1>2. /\ pc \in MergePhases \ {"merged"} /\ pc' \in MergePhases \union {"failed"}
      /\ pc' # "failed" => err' = err
      /\ units' = units
  BY <1>1, MergePhaseStep
<1>3. pc \notin {"linked", "failed"} /\ (pc' # "failed" => pc' \notin {"linked", "failed"})
  BY <1>2 DEF MergePhases
<1>4. MergeTyped /\ SymbolsInv
  BY <1>2 DEF RefineInv, LinkInv, LinkTyped
<1>5. CASE pc' # "failed"
  BY <1>1, <1>2, <1>3, <1>5, UnseenStep
<1>6. CASE pc' = "failed"
  <2>1. CannotRead \/ MultipleDefinition
    BY <1>1, <1>2, <1>6 DEF MergeNext, MergePhases, ReadObject, MergeDone, MergeSection, SectionsDone,
         AddSymbol, ReferGlobal, DefineGlobal, SymbolsDone, MapSymbol, AtSymbol,
         MergeReloc, CarryReloc, NextRelocSection, RelocsDone
  <2>2. err' \in Abs!Reasons
    BY <1>4, <2>1, UnreadableIsReason, MultipleIsReason
  <2> QED
    BY <1>1, <1>2, <1>3, <1>6, <2>2, FailingStep
<1> QED
  BY <1>5, <1>6

LEMMA FinishingRefines ==
  ASSUME RefineInv, Ex!FitsAddressSpace, Finishing
  PROVE  [Abs!AbsNext]_Abs!absVars
<1>1. Ex!ExecNext /\ UNCHANGED <<units, k, maps>>
  BY FinishingStep
<1>2. /\ pc \in FinishPhases \ {"linked"}
      /\ pc' \in FinishPhases \ {"merged"} \/ pc' = "failed"
      /\ pc' # "failed" => err' = err
      /\ UNCHANGED <<opts, syms>>
  BY <1>1, FinishPhaseStep
<1>3. /\ WellFormed(units) /\ FinishInv /\ FieldsInv
      /\ pc = "merged" => etype = "REL"
      /\ Merged
  <2>1. LinkInv /\ WellFormed(units) /\ FinishInv /\ SymbolsInv /\ LabelsInv /\ SectionsInv
    BY <1>2 DEF RefineInv
  <2>2. LinkTyped /\ LaidOut /\ FieldsInv /\ Ex!ExecTyped
    BY <1>2, <2>1 DEF LinkInv, LinkTyped
  <2> QED
    BY <2>1, <2>2 DEF Merged, FinishInv, LinkTyped, MergePhases
<1>4. pc \notin {"linked", "failed"}
  BY <1>2 DEF FinishPhases
<1>5. CASE pc' \notin {"linked", "failed"}
  BY <1>1, <1>2, <1>4, <1>5, UnseenStep
<1>6. CASE pc' = "failed"
  <2>1. Ex!UndefinedSymbol \/ Ex!UndefinedEntry \/ Ex!UnsupportedReloc
    BY <1>1, <1>4, <1>6 DEF Ex!ExecNext, Ex!KeepRelocatable, Ex!StartPlacing, Ex!SkipSection, Ex!PlaceSection,
         Ex!PlacingDone, Ex!CheckDefined, Ex!SetEntry, Ex!AtReloc, Ex!ApplyReloc, Ex!NextApplySection,
         Ex!ApplyDone
  <2>2. pc \in ExecPhases
    BY <2>1 DEF ExecPhases, Ex!UndefinedSymbol, Ex!UndefinedEntry, Ex!UnsupportedReloc, Ex!AtReloc
  <2>3. err' \in Abs!Reasons
    BY <1>3, <2>1, <2>2, AbortIsReason DEF FinishInv
  <2> QED
    BY <1>1, <1>2, <1>4, <1>6, <2>3, FailingStep
<1>7. CASE Ex!KeepRelocatable
  <2>1. /\ pc = "merged" /\ opts.relocatable /\ pc' = "linked" /\ etype' = etype
        /\ UNCHANGED <<opts, err>>
    BY <1>7 DEF Ex!KeepRelocatable
  <2>2. Abs!Reasons = {}
    BY <1>3, <2>1, ReasonsAre
  <2>3. etype' # "EXEC"
    BY <1>3, <2>1
  <2>4. Abs!AbsLink
    BY <1>1, <2>1, <2>2, <2>3 DEF Abs!AbsLink, Finished, Abs!NoImage
  <2> QED
    BY <2>4 DEF Abs!AbsNext
<1>8. CASE Ex!ApplyDone
  <2>1. /\ pc = "apply" /\ i > Len(secs) /\ pc' = "linked" /\ etype' = "EXEC"
        /\ UNCHANGED <<opts, secs, syms, err, entry>>
    BY <1>8 DEF Ex!ApplyDone
  <2>2. Abs!Reasons = {}
    BY <1>3, <1>8, NoReasons DEF FinishInv
  <2>3. Abs!Correct(Image)
    BY <1>3, <2>1, ImageIsCorrect DEF FinishInv
  <2>4. Image' = Image
    BY <1>1, <2>1 DEF Image, InputPieces, InputFields, OutSection, FieldIn
  <2>5. ~opts.relocatable
    BY <1>3, <2>1 DEF FinishInv, ExecPhases
  <2>6. Abs!Correct(IF pc' = "linked" /\ etype' = "EXEC" THEN Image'
                    ELSE [addr |-> << >>, field |-> << >>, entry |-> 0])
    BY <2>1, <2>3, <2>4
  <2>7. Abs!AbsLink
    BY <1>1, <2>1, <2>2, <2>5, <2>6 DEF Abs!AbsLink, Finished
  <2> QED
    BY <2>7 DEF Abs!AbsNext
<1>9. pc' = "linked" => Ex!KeepRelocatable \/ Ex!ApplyDone
  BY <1>1, <1>4 DEF Ex!ExecNext, Ex!StartPlacing, Ex!SkipSection, Ex!PlaceSection,
       Ex!PlacingDone, Ex!CheckDefined, Ex!SetEntry, Ex!AtReloc, Ex!ApplyReloc, Ex!NextApplySection,
       Ex!UndefinedSymbol, Ex!UndefinedEntry, Ex!UnsupportedReloc, Ex!Abort
<1> QED
  BY <1>5, <1>6, <1>7, <1>8, <1>9

(* Theorem: Link_Run fails for the reasons the inputs give and for no      *)
(* other, and otherwise yields an image in which each input section has a  *)
(* place of its own, each relocation field the address of its symbol's     *)
(* definition, and the entry the entry symbol's (link.c:347-365).  It      *)
(* holds of inputs as the assembler encodes them, as long as the image     *)
(* stays clear of the last page of the address space.                      *)
THEOREM LinkIsCorrect ==
  LinkSpec /\ WellFormed(units) /\ []Exec!FitsAddressSpace => ImplementsLink
<1>1. LinkInit => Abs!AbsInit
  BY DEF LinkInit, MergeInit, Abs!AbsInit, Abs!NoImage, Finished
<1>2. RefineInv /\ Exec!FitsAddressSpace /\ [LinkNext]_linkVars => [Abs!AbsNext]_Abs!absVars
  <2> SUFFICES ASSUME RefineInv, Exec!FitsAddressSpace, [LinkNext]_linkVars
               PROVE  [Abs!AbsNext]_Abs!absVars
    OBVIOUS
  <2>1. CASE Merging
    BY <2>1, MergingRefines
  <2>2. CASE Finishing
    <3>1. Ex!FitsAddressSpace
      BY DEF Exec!FitsAddressSpace, Ex!FitsAddressSpace, Exec!Placed, Ex!Placed, Exec!EndOf, Ex!EndOf,
             Exec!AddrMod, Ex!AddrMod, Exec!Modulus, Ex!Modulus
    <3> QED
      BY <2>2, <3>1, FinishingRefines
  <2>3. CASE UNCHANGED linkVars
    <3>1. UNCHANGED <<units, pc, secs, syms, maps, err, opts, entry, etype>>
      BY <2>3 DEF linkVars, mergeVars, execOnly
    <3>2. Image' = Image
      BY <3>1 DEF Image, InputPieces, InputFields, OutSection, FieldIn
    <3>3. UNCHANGED Abs!absVars
      BY <3>1, <3>2 DEF Abs!absVars, Finished
    <3> QED
      BY <3>3
  <2> QED
    BY <2>1, <2>2, <2>3 DEF LinkNext
<1> QED
  BY <1>1, <1>2, RefineInvariant, PTL DEF LinkSpec, ImplementsLink, Abs!AbsSpec

-----------------------------------------------------------------------------
(* The tools.                                                              *)

Emptied == file.content = "empty" /\ file.runnable = before.runnable

(* The output is untouched until it is opened, and empty from then on.     *)
(* Only ivan-cc has anything left to do in between that can fail.          *)
OutputInv ==
  /\ job.tool = "cc" /\ step \in {"front", "open"} => file = before
  /\ job.tool # "cc" /\ step \in {"front", "open", "link"} => file = before
  /\ job.tool = "cc" /\ step \in {"emit", "link"} => Emptied
  /\ step = "emit" => job.tool = "cc"
  /\ FailureKeepsOutput

LEMMA OutputStep == OutputInv /\ [Next]_vars => OutputInv'
<1> SUFFICES ASSUME OutputInv, [Next]_vars PROVE OutputInv'
  OBVIOUS
<1> USE DEF OutputInv, FailureKeepsOutput, Exited, Emptied, Exit
<1>1. CASE InputRefused
  BY <1>1 DEF InputRefused
<1>2. CASE InputAccepted
  BY <1>2 DEF InputAccepted
<1>3. CASE TooManyPlaces
  BY <1>3 DEF TooManyPlaces
<1>4. CASE OptionsRead
  BY <1>4 DEF OptionsRead
<1>5. CASE CannotOpen
  BY <1>5 DEF CannotOpen
<1>6. CASE OpenOutput
  <2>1. file'.content = "empty" /\ file'.runnable = file.runnable
    BY <1>6 DEF OpenOutput
  <2> QED
    BY <1>6, <2>1 DEF OpenOutput
<1>7. CASE CannotGenerate
  BY <1>7 DEF CannotGenerate
<1>8. CASE Generate
  BY <1>8 DEF Generate
<1>9. CASE Linking
  BY <1>9 DEF Linking, driverVars
<1>10. CASE LinkFailed
  BY <1>10 DEF LinkFailed
<1>11. CASE Linked
  BY <1>11 DEF Linked
<1>12. CASE WriteOutput
  BY <1>12 DEF WriteOutput
<1>13. CASE MakeRunnable
  BY <1>13 DEF MakeRunnable
<1>14. CASE UNCHANGED vars
  BY <1>14 DEF vars, driverVars
<1> QED
  BY <1>1, <1>2, <1>3, <1>4, <1>5, <1>6, <1>7, <1>8, <1>9, <1>10, <1>11, <1>12, <1>13, <1>14 DEF Next

(* Whatever fails, and whenever, the output is what it was before, or      *)
(* empty if ivan-cc had opened it (cc.c:209, as.c:35, ld.c:97).            *)
THEOREM FailuresKeepOutput == Spec => []FailureKeepsOutput
<1>1. Init => OutputInv
  BY DEF Init, OutputInv, FailureKeepsOutput, Exited
<1>2. OutputInv => FailureKeepsOutput
  BY DEF OutputInv
<1> QED
  BY <1>1, <1>2, OutputStep, PTL DEF Spec

-----------------------------------------------------------------------------
(* What a link makes of the object's type.                                 *)

(* The object becomes an executable when, and only when, a link without -r *)
(* ends well.                                                              *)
TypeInv ==
  /\ opts.relocatable \in BOOLEAN
  /\ pc \in ExecPhases => ~opts.relocatable
  /\ etype \in {"REL", "EXEC"}
  /\ etype = "EXEC" => ~opts.relocatable
  /\ pc = "linked" /\ ~opts.relocatable => etype = "EXEC"

(* No step of the merge touches the options or the type, or ends the link. *)
LEMMA MergeEndsNothing == Merging => UNCHANGED <<opts, etype>> /\ (pc' = pc \/ pc' \notin ExecPhases \union {"linked"})
<1> SUFFICES ASSUME Merging
             PROVE  UNCHANGED <<opts, etype>> /\ (pc' = pc \/ pc' \notin ExecPhases \union {"linked"})
  OBVIOUS
<1>1. UNCHANGED <<opts, etype>> /\ MergeNext
  BY DEF Merging, execOnly
<1> HIDE DEF Merging
<1>2. CASE ReadObject \/ CannotRead \/ MergeDone
  BY <1>1, <1>2 DEF ReadObject, CannotRead, MergeDone, Fail, ExecPhases
<1>3. CASE MergeSection \/ SectionsDone
  BY <1>1, <1>3 DEF MergeSection, SectionsDone, ExecPhases
<1>4. CASE AddSymbol \/ ReferGlobal \/ DefineGlobal
  BY <1>1, <1>4 DEF AddSymbol, ReferGlobal, DefineGlobal, MapSymbol
<1>5. CASE MultipleDefinition \/ SymbolsDone
  BY <1>1, <1>5 DEF MultipleDefinition, SymbolsDone, Fail, ExecPhases
<1>6. CASE MergeReloc \/ NextRelocSection \/ RelocsDone
  BY <1>1, <1>6 DEF MergeReloc, CarryReloc, NextRelocSection, RelocsDone, ExecPhases
<1> QED
  BY <1>1, <1>2, <1>3, <1>4, <1>5, <1>6 DEF MergeNext

LEMMA TypeStep == TypeInv /\ LinkNext => TypeInv' /\ UNCHANGED opts
<1> SUFFICES ASSUME TypeInv, LinkNext PROVE TypeInv' /\ UNCHANGED opts
  OBVIOUS
<1>1. CASE Merging
  BY <1>1, MergeEndsNothing DEF TypeInv
<1>2. CASE Finishing
  <2> USE DEF TypeInv, ExecPhases
  <2>1. CASE Exec!KeepRelocatable \/ Exec!StartPlacing
    BY <2>1 DEF Exec!KeepRelocatable, Exec!StartPlacing
  <2>2. CASE Exec!SkipSection \/ Exec!PlaceSection \/ Exec!PlacingDone
    BY <2>2 DEF Exec!SkipSection, Exec!PlaceSection, Exec!PlacingDone
  <2>3. CASE Exec!CheckDefined \/ Exec!UndefinedSymbol
    BY <2>3 DEF Exec!CheckDefined, Exec!UndefinedSymbol, Exec!Abort
  <2>4. CASE Exec!SetEntry \/ Exec!UndefinedEntry
    BY <2>4 DEF Exec!SetEntry, Exec!UndefinedEntry, Exec!Abort
  <2>5. CASE Exec!ApplyReloc \/ Exec!UnsupportedReloc
    BY <2>5 DEF Exec!ApplyReloc, Exec!UnsupportedReloc, Exec!Abort
  <2>6. CASE Exec!NextApplySection \/ Exec!ApplyDone
    BY <2>6 DEF Exec!NextApplySection, Exec!ApplyDone
  <2> QED
    BY <1>2, <2>1, <2>2, <2>3, <2>4, <2>5, <2>6 DEF Finishing, Exec!ExecNext
<1> QED
  BY <1>1, <1>2 DEF LinkNext

-----------------------------------------------------------------------------
(* From the link to the file.                                              *)

LinkedIfNeeded == Links => pc = "linked"

DeliveryInv ==
  /\ TypeInv
  /\ job \in Jobs /\ opts.relocatable = (Emits # "executable")
  /\ step \in {"front", "open", "emit", "link", "write", "chmod", "exited"}
  /\ file \in Files /\ before \in Files
  /\ step # "exited" => file.runnable = before.runnable
  /\ step = "emit" => job.tool = "cc"
  /\ step = "open" /\ job.tool # "cc" => LinkedIfNeeded
  /\ step \in {"write", "chmod"} => LinkedIfNeeded
  /\ step = "chmod" => file.kind = Emits
  /\ SuccessDelivers

(* A job without a link has an object that no link made: it is still of    *)
(* type REL, or what it is to write is text.                               *)
LEMMA KindIsAsked ==
  ASSUME TypeInv, LinkedIfNeeded, job \in Jobs, opts.relocatable = (Emits # "executable")
  PROVE  Kind = Emits
<1>1. Emits \in {"text", "object", "executable"}
  BY DEF Emits
<1>2. CASE Emits = "executable"
  BY <1>2 DEF Kind, Links, LinkedIfNeeded, TypeInv
<1>3. CASE Emits = "object"
  BY <1>3 DEF Kind, TypeInv
<1>4. CASE Emits = "text"
  BY <1>4 DEF Kind
<1> QED
  BY <1>1, <1>2, <1>3, <1>4

(* ivan-as never links. *)
LEMMA AsNeverLinks == job \in Jobs /\ job.tool \notin {"cc", "ld"} => ~Links
  BY DEF Jobs, Links, Emits

LEMMA DeliveryStep == DeliveryInv /\ [Next]_vars => DeliveryInv'
<1> SUFFICES ASSUME DeliveryInv, [Next]_vars PROVE DeliveryInv'
  OBVIOUS
<1> USE DEF DeliveryInv, LinkedIfNeeded, SuccessDelivers, Exited
<1>a. ASSUME UNCHANGED <<linkVars, job>>
      PROVE  TypeInv' /\ Emits' = Emits /\ (Links' <=> Links) /\ pc' = pc /\ opts' = opts
  BY <1>a DEF linkVars, mergeVars, execOnly, TypeInv, Emits, Links
<1>1. CASE InputRefused \/ TooManyPlaces \/ CannotOpen \/ CannotGenerate \/ LinkFailed
  <2>1. UNCHANGED <<linkVars, job, file, before>> /\ step' = "exited" /\ status' = 1
    BY <1>1 DEF InputRefused, TooManyPlaces, CannotOpen, CannotGenerate, LinkFailed, Exit
  <2> QED
    BY <2>1, <1>a
<1>2. CASE InputAccepted
  <2>1. UNCHANGED <<linkVars, job, file, before, status>> /\ step' = "open" /\ step = "front"
        /\ job.tool \in {"cc", "as"}
    BY <1>2 DEF InputAccepted
  <2> QED
    BY <2>1, <1>a, AsNeverLinks
<1>3. CASE OptionsRead
  <2>1. UNCHANGED <<linkVars, job, file, before, status>> /\ step' = "link" /\ step = "front"
    BY <1>3 DEF OptionsRead
  <2> QED
    BY <2>1, <1>a
<1>4. CASE OpenOutput
  <2>1. /\ UNCHANGED <<linkVars, job, before, status>> /\ step = "open"
        /\ step' = IF job.tool = "cc" THEN "emit" ELSE "write"
        /\ file' \in Files /\ file'.runnable = file.runnable
    BY <1>4 DEF OpenOutput, Files
  <2> QED
    BY <2>1, <1>a
<1>5. CASE Generate
  <2>1. UNCHANGED <<linkVars, job, file, before, status>> /\ step = "emit"
        /\ step' = IF Links THEN "link" ELSE "write"
    BY <1>5 DEF Generate
  <2> QED
    BY <2>1, <1>a
<1>6. CASE Linking
  <2>1. LinkNext /\ UNCHANGED <<job, step, file, before, status>> /\ step = "link"
    BY <1>6 DEF Linking, driverVars
  <2>2. TypeInv' /\ opts' = opts
    BY <2>1, TypeStep
  <2>3. Emits' = Emits
    BY <2>1 DEF Emits
  <2> QED
    BY <2>1, <2>2, <2>3
<1>7. CASE Linked
  <2>1. UNCHANGED <<linkVars, job, file, before, status>> /\ step = "link" /\ pc = "linked"
        /\ step' = IF job.tool = "cc" THEN "write" ELSE "open"
    BY <1>7 DEF Linked
  <2> QED
    BY <2>1, <1>a
<1>8. CASE WriteOutput
  <2>1. UNCHANGED <<linkVars, job, before, status>> /\ step = "write" /\ step' = "chmod"
    BY <1>8 DEF WriteOutput
  <2>2. Kind = Emits
    BY <2>1, KindIsAsked
  <2>3. Emits \in {"text", "object", "executable"}
    BY DEF Emits
  <2>4. file' \in Files /\ file'.runnable = file.runnable /\ file'.kind = Emits
    BY <1>8, <2>2, <2>3 DEF WriteOutput, Files
  <2> QED
    BY <2>1, <2>4, <1>a
<1>9. CASE MakeRunnable
  <2>1. UNCHANGED <<linkVars, job, before>> /\ step = "chmod" /\ step' = "exited" /\ status' = 0
    BY <1>9 DEF MakeRunnable, Exit
  <2>2. file' = [file EXCEPT !.runnable = file.runnable \/ Emits = "executable"]
    BY <1>9 DEF MakeRunnable
  <2>3. file' \in Files /\ file'.kind = file.kind
        /\ file'.runnable = (Emits = "executable" \/ before.runnable)
    BY <2>1, <2>2 DEF Files
  <2> QED
    BY <2>1, <2>3, <1>a
<1>10. CASE UNCHANGED vars
  <2>1. UNCHANGED <<linkVars, job, step, file, before, status>>
    BY <1>10 DEF vars, driverVars
  <2> QED
    BY <2>1, <1>a
<1> QED
  BY <1>1, <1>2, <1>3, <1>4, <1>5, <1>6, <1>7, <1>8, <1>9, <1>10 DEF Next

(* What exits with 0 has written what its flags asked for, of a link that  *)
(* ended well, and made it runnable exactly if it is an executable.        *)
THEOREM SuccessesDeliver == Spec => []SuccessDelivers
<1>1. Init => DeliveryInv
  <2> SUFFICES ASSUME Init PROVE DeliveryInv
    OBVIOUS
  <2>1. pc = "read" /\ etype = "REL"
    BY DEF Init, LinkInit, MergeInit, Exec!ExecVarsInit
  <2>2. job \in Jobs /\ opts.relocatable = (Emits # "executable")
    BY DEF Init, Suits
  <2>3. TypeInv
    BY <2>1, <2>2 DEF TypeInv, ExecPhases
  <2>4. step = "front" /\ file \in Files /\ before \in Files /\ file = before
    BY OldFilesAssumption DEF Init
  <2> QED
    BY <2>2, <2>3, <2>4 DEF DeliveryInv, SuccessDelivers, Exited
<1>2. DeliveryInv => SuccessDelivers
  BY DEF DeliveryInv
<1> QED
  BY <1>1, <1>2, DeliveryStep, PTL DEF Spec

(* Theorem: a tool runs Link_Run as LinkSpec says, whatever it does before *)
(* and after (cc.c:121, ld.c:96): what is proved of links holds of tools.  *)
THEOREM ToolsLink == Spec => LinkSpec
<1>1. Init => LinkInit
  BY DEF Init
<1>2. [Next]_vars => [LinkNext]_linkVars
  BY DEF Next, vars, Linking, InputRefused, InputAccepted, TooManyPlaces, OptionsRead, CannotOpen,
         OpenOutput, CannotGenerate, Generate, LinkFailed, Linked, WriteOutput, MakeRunnable
<1> QED
  BY <1>1, <1>2, PTL DEF Spec, LinkSpec

(* Whatever is asked of a tool, its link keeps the bytes of its inputs     *)
(* and leads every field to its symbol; of inputs as the assembler makes   *)
(* them, it fails for a reason in them or yields a correct image.          *)
COROLLARY ToolsLinkCorrectly ==
  Spec => /\ []BytesSurvive /\ []FieldsReach
          /\ WellFormed(units) /\ []Exec!FitsAddressSpace => ImplementsLink
BY ToolsLink, BytesKept, FieldsArrive, LinkIsCorrect, PTL

=============================================================================
