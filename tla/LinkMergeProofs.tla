-------------------------- MODULE LinkMergeProofs --------------------------
(***************************************************************************)
(* Proofs about Link_Merge: its type invariant, and that bytes, symbols    *)
(* and relocations keep their meaning.                                     *)
(***************************************************************************)
EXTENDS LinkMerge, ElfObjectProofs, FiniteSetTheorems, FunctionTheorems

Maps == [sec : Seq(Nat), base : Seq(Nat), sym : Seq(Nat)]

(* Every section and symbol of object o has been mapped. *)
Whole(o) ==
  /\ Len(maps[o].sec) = Len(units[o].secs)
  /\ Len(maps[o].sym) = Len(units[o].syms)

(* The maps of the objects merged so far point into the output. *)
MapsSound ==
  \A o \in DOMAIN maps :
    /\ units[o] \in Objects
    /\ Len(maps[o].base) = Len(maps[o].sec)
    /\ Len(maps[o].sec) <= Len(units[o].secs)
    /\ Len(maps[o].sym) <= Len(units[o].syms)
    /\ \A s \in DOMAIN maps[o].sec : maps[o].sec[s] \in DOMAIN secs
    /\ \A q \in DOMAIN maps[o].sym : maps[o].sym[q] \in DOMAIN syms
    /\ o < k => Whole(o)

(* What each loop has done to the maps of its object. *)
PhaseSound ==
  /\ pc \in {"read", "merged", "relocs"} => Whole(k)
  /\ pc \in {"sections", "symbols", "relocs"} => k > 1
  /\ pc = "sections" => Len(maps[k].sec) = i - 1 /\ maps[k].sym = << >>
  /\ pc = "symbols" =>
       /\ Len(maps[k].sec) = Len(units[k].secs)
       /\ Len(maps[k].sym) = i - 1

MergeTyped == MergeTypeOK /\ MapsSound /\ PhaseSound

(* The parts of an object are those of the object model. *)
LEMMA ObjectFields ==
  ASSUME NEW u \in Objects
  PROVE  /\ u = [secs |-> u.secs, syms |-> u.syms]
         /\ u.secs \in Seq(Section(Names)) /\ u.syms \in Seq(Symbol(Names))
         /\ \A j \in DOMAIN u.syms : u.syms[j].sec \in 0..Len(u.secs)
         /\ \A d \in DOMAIN u.secs : \A q \in DOMAIN u.secs[d].relas :
               u.secs[d].relas[q].sym \in 0..Len(u.syms)
BY DEF Objects, Object

(* A list of objects starts with one that could be read. *)
LEMMA UnitsAre ==
  ASSUME NEW us \in UnitSeqs
  PROVE  us \in Seq(Objects \union {Unreadable}) /\ Len(us) \in Nat \ {0} /\ us[1] \in Objects
<1>1. us \in Seq(Objects \union {Unreadable}) /\ us # << >> /\ us[1] # Unreadable
  BY UnitSeqsAssumption
<1>2. Len(us) \in Nat \ {0}
  BY <1>1, EmptySeq
<1> QED
  BY <1>1, <1>2, ElementOfSeq

LEMMA MergeInitTyped == MergeInit => MergeTyped
<1> SUFFICES ASSUME MergeInit PROVE MergeTyped
  OBVIOUS
<1> DEFINE u == units[1]
<1>1. units \in Seq(Objects \union {Unreadable}) /\ Len(units) \in Nat \ {0} /\ u \in Objects
  BY UnitsAre DEF MergeInit
<1>2. /\ k = 1 /\ i = 1 /\ r = 1 /\ pc = "read" /\ err = "none"
      /\ secs = u.secs /\ syms = u.syms /\ maps = <<Identity(u)>>
  BY DEF MergeInit
<1> HIDE DEF u
<1>3. [secs |-> secs, syms |-> syms] \in Objects
  BY <1>1, <1>2, ObjectFields
<1>4. /\ secs \in Seq(Section(Names)) /\ syms \in Seq(Symbol(Names))
      /\ DOMAIN secs = 1..Len(secs) /\ DOMAIN syms = 1..Len(syms)
      /\ Len(secs) \in Nat /\ Len(syms) \in Nat
  BY <1>1, <1>2, ObjectFields
<1>5. /\ maps[1].sec = [s \in 1..Len(secs) |-> s]
      /\ maps[1].base = [s \in 1..Len(secs) |-> 0]
      /\ maps[1].sym = [s \in 1..Len(syms) |-> s]
      /\ Len(maps) = 1 /\ DOMAIN maps = {1}
  <2>1. maps[1] = Identity(u) /\ Len(maps) = 1 /\ DOMAIN maps = {1}
    BY <1>2
  <2>2. DOMAIN u.secs = 1..Len(secs) /\ DOMAIN u.syms = 1..Len(syms)
    BY <1>2, <1>4
  <2> QED
    BY <2>1, <2>2 DEF Identity
<1>6. /\ maps[1].sec \in Seq(Nat) /\ Len(maps[1].sec) = Len(secs)
      /\ maps[1].base \in Seq(Nat) /\ Len(maps[1].base) = Len(secs)
      /\ maps[1].sym \in Seq(Nat) /\ Len(maps[1].sym) = Len(syms)
  <2>1. /\ maps[1].sec \in [1..Len(secs) -> Nat] /\ maps[1].base \in [1..Len(secs) -> Nat]
        /\ maps[1].sym \in [1..Len(syms) -> Nat]
    BY <1>4, <1>5
  <2> QED
    BY <1>4, <2>1, FunctionIsSeq
<1>7. maps \in Seq(Maps)
  <2>1. Identity(u) \in Maps
    BY <1>2, <1>6 DEF Maps, Identity
  <2> QED
    BY <1>2, <2>1
<1>8. MergeTypeOK
  <2>1. err \in {"none", "cannot read object", "multiple definition"}
    BY <1>2
  <2>2. k \in 1..Len(units) /\ i \in Nat \ {0} /\ r \in Nat \ {0} /\ Len(maps) = k
    BY <1>1, <1>2, <1>5
  <2>3. pc \in {"read", "sections", "symbols", "relocs", "merged", "failed"}
    BY <1>2
  <2> QED
    BY <1>1, <1>3, <1>7, <2>1, <2>2, <2>3 DEF MergeTypeOK, Maps, u
<1>9. MapsSound
  <2> SUFFICES ASSUME NEW o \in DOMAIN maps
               PROVE  /\ units[o] \in Objects
                      /\ Len(maps[o].base) = Len(maps[o].sec)
                      /\ Len(maps[o].sec) <= Len(units[o].secs)
                      /\ Len(maps[o].sym) <= Len(units[o].syms)
                      /\ \A s \in DOMAIN maps[o].sec : maps[o].sec[s] \in DOMAIN secs
                      /\ \A q \in DOMAIN maps[o].sym : maps[o].sym[q] \in DOMAIN syms
                      /\ ~ (o < k)
    BY DEF MapsSound
  <2>1. o = 1 /\ units[o] = u
    BY <1>5 DEF u
  <2>2. units[o] \in Objects /\ Len(units[o].secs) = Len(secs) /\ Len(units[o].syms) = Len(syms)
    BY <1>1, <1>2, <2>1
  <2>3. /\ DOMAIN maps[o].sec = DOMAIN secs /\ DOMAIN maps[o].sym = DOMAIN syms
        /\ \A s \in DOMAIN maps[o].sec : maps[o].sec[s] \in DOMAIN secs
        /\ \A q \in DOMAIN maps[o].sym : maps[o].sym[q] \in DOMAIN syms
    BY <1>4, <1>5, <2>1
  <2>4. /\ Len(maps[o].base) = Len(maps[o].sec)
        /\ Len(maps[o].sec) <= Len(units[o].secs)
        /\ Len(maps[o].sym) <= Len(units[o].syms)
    <3>1. Len(secs) <= Len(units[o].secs) /\ Len(syms) <= Len(units[o].syms)
      BY <1>4, <2>2
    <3> QED
      BY <1>6, <2>1, <3>1
  <2> QED
    BY <1>2, <2>1, <2>2, <2>3, <2>4
<1>10. PhaseSound
  BY <1>2, <1>6 DEF PhaseSound, Whole, u
<1> QED
  BY <1>8, <1>9, <1>10 DEF MergeTyped

(* What holds of the variables whenever the type invariant does. *)
LEMMA TypedFacts ==
  ASSUME MergeTyped
  PROVE  /\ k \in Nat \ {0} /\ Len(maps) = k /\ DOMAIN maps = 1..k
         /\ units[k] \in Objects
         /\ maps \in Seq(Maps) /\ \A o \in 1..k : maps[o] \in Maps
         /\ secs \in Seq(Section(Names)) /\ syms \in Seq(Symbol(Names))
         /\ Len(secs) \in Nat /\ Len(syms) \in Nat
<1>1. /\ units \in Seq(Objects \union {Unreadable}) /\ k \in 1..Len(units)
      /\ maps \in Seq(Maps) /\ Len(maps) = k
  BY DEF MergeTyped, MergeTypeOK, Maps
<1>2. /\ k \in Nat \ {0} /\ DOMAIN maps = 1..k
      /\ \A o \in 1..k : maps[o] \in Maps
  BY <1>1
<1>3. units[k] \in Objects
  BY <1>2 DEF MergeTyped, MapsSound
<1>4. secs \in Seq(Section(Names)) /\ syms \in Seq(Symbol(Names))
  BY ObjectParts DEF MergeTyped, MergeTypeOK, Objects
<1> QED
  BY <1>1, <1>2, <1>3, <1>4

LEMMA ScalarFacts ==
  ASSUME MergeTyped
  PROVE  /\ units \in Seq(Objects \union {Unreadable}) /\ Len(units) \in Nat
         /\ k \in 1..Len(units) /\ i \in Nat \ {0} /\ r \in Nat \ {0}
         /\ pc = "sections" => Len(maps[k].sec) = i - 1 /\ maps[k].sym = << >> /\ k > 1
         /\ pc = "symbols" =>
              /\ Len(maps[k].sec) = Len(units[k].secs) /\ Len(maps[k].sym) = i - 1 /\ k > 1
         /\ Len(maps[k].sec) <= Len(units[k].secs) /\ Len(maps[k].sym) <= Len(units[k].syms)
<1>1. /\ units \in Seq(Objects \union {Unreadable})
      /\ k \in 1..Len(units) /\ i \in Nat \ {0} /\ r \in Nat \ {0}
  BY DEF MergeTyped, MergeTypeOK
<1>2. /\ pc = "sections" => Len(maps[k].sec) = i - 1 /\ maps[k].sym = << >> /\ k > 1
      /\ pc = "symbols" =>
           /\ Len(maps[k].sec) = Len(units[k].secs) /\ Len(maps[k].sym) = i - 1 /\ k > 1
  BY DEF MergeTyped, PhaseSound
<1>3. Len(maps[k].sec) <= Len(units[k].secs) /\ Len(maps[k].sym) <= Len(units[k].syms)
  BY TypedFacts DEF MergeTyped, MapsSound
<1> QED
  BY <1>1, <1>2, <1>3

(* A step changes the maps of the object at work only. *)
LEMMA LastMapChanges ==
  ASSUME MergeTyped, NEW m \in Maps, maps' = [maps EXCEPT ![k] = m]
  PROVE  /\ maps' \in Seq(Maps) /\ Len(maps') = k /\ DOMAIN maps' = 1..k
         /\ maps'[k] = m
         /\ \A o \in 1..k : o # k => maps'[o] = maps[o]
BY TypedFacts

LEMMA MapsExcept ==
  ASSUME NEW x \in Maps, NEW a, NEW b
  PROVE  /\ [x EXCEPT !.sec = a, !.base = b] = [sec |-> a, base |-> b, sym |-> x.sym]
         /\ [x EXCEPT !.sym = a] = [sec |-> x.sec, base |-> x.base, sym |-> a]
<1>1. DOMAIN x = {"sec", "base", "sym"} /\ x = [f \in DOMAIN x |-> x[f]]
  BY DEF Maps
<1> DEFINE w == [x EXCEPT !.sec = a]
<1>2. w = [sec |-> a, base |-> x.base, sym |-> x.sym]
  BY <1>1
<1>3. [x EXCEPT !.sec = a, !.base = b] = [w EXCEPT !.base = b]
  OBVIOUS
<1>4. [w EXCEPT !.base = b] = [sec |-> a, base |-> b, sym |-> x.sym]
  <2> HIDE DEF w
  <2> QED
    BY <1>2
<1>5. [x EXCEPT !.sym = a] = [sec |-> x.sec, base |-> x.base, sym |-> a]
  BY <1>1
<1> QED
  BY <1>3, <1>4, <1>5

(* The section of the output that the current section goes to. *)
Got  == SectionGet(secs, InSec.name, InSec.alloc)
Into == SectionFind(Got, InSec.name)
Room == BufAlign(Got[Into].data, InSec.align)

(* What MergeSection does, in terms of the sections there were before. *)
LEMMA MergeSectionEffect ==
  ASSUME MergeTyped, MergeSection
  PROVE  /\ InSec \in Section(Names) /\ Room \in Seq(Seq(Nat))
         /\ Into \in DOMAIN secs' /\ DOMAIN secs \subseteq DOMAIN secs'
         /\ secs' \in Seq(Section(Names))
         /\ maps' \in Seq(Maps) /\ Len(maps') = k /\ DOMAIN maps' = 1..k
         /\ \A o \in 1..k : o # k => maps'[o] = maps[o]
         /\ maps'[k] = [sec  |-> Append(maps[k].sec, Into),
                        base |-> Append(maps[k].base, Len(Room)),
                        sym  |-> maps[k].sym]
         /\ \A e \in DOMAIN secs : secs'[e].relas = secs[e].relas /\ (e # Into => secs'[e] = secs[e])
         /\ \A e \in DOMAIN secs' : e \notin DOMAIN secs => e = Into /\ secs'[e].relas = << >>
         /\ secs'[Into].data = Room \o InSec.data
         /\ Into \in DOMAIN secs =>
              /\ Len(Room) >= Len(secs[Into].data)
              /\ \A j \in 1..Len(secs[Into].data) : Room[j] = secs[Into].data[j]
              /\ secs'[Into].align >= secs[Into].align
         /\ secs'[Into].align >= InSec.align
         /\ InSec.align > 1 => Len(Room) % InSec.align = 0
<1>1. In \in Objects
  BY TypedFacts DEF In
<1>2. In.secs \in Seq(Section(Names)) /\ i \in 1..Len(In.secs)
  <2>1. In.secs \in Seq(Section(Names))
    BY <1>1, ObjectFields
  <2>2. i \in Nat \ {0} /\ i <= Len(In.secs)
    BY DEF MergeSection, MergeTyped, MergeTypeOK
  <2> QED
    BY <2>1, <2>2
<1>3. InSec \in Section(Names)
  BY <1>2, ElementOfSeq DEF InSec
<1>4. /\ InSec.name \in Names /\ InSec.alloc \in BOOLEAN /\ InSec.align \in Nat
      /\ InSec.data \in Seq(Seq(Nat))
  BY <1>3 DEF Section
<1>5. /\ Got \in Seq(Section(Names)) /\ Into \in 1..Len(Got)
      /\ Len(secs) <= Len(Got)
      /\ \A e \in 1..Len(secs) : Got[e] = secs[e]
      /\ \A e \in 1..Len(Got) : e \notin 1..Len(secs) =>
            Got[e].data = << >> /\ Got[e].relas = << >> /\ e = Into
  BY <1>4, TypedFacts, SectionGetExtends DEF Got, Into
<1>6. /\ Got[Into] \in Section(Names)
      /\ Got[Into].data \in Seq(Seq(Nat)) /\ Got[Into].align \in Nat
  <2>1. Got[Into] \in Section(Names)
    BY <1>5, ElementOfSeq
  <2> QED
    BY <2>1 DEF Section
<1>7. /\ Room \in Seq(Seq(Nat)) /\ Len(Room) >= Len(Got[Into].data)
      /\ \A j \in 1..Len(Got[Into].data) : Room[j] = Got[Into].data[j]
      /\ InSec.align > 1 => Len(Room) % InSec.align = 0
  BY <1>4, <1>6, BufAlignExtends, SMTT(30) DEF Room
<1> DEFINE align == IF InSec.align > Got[Into].align THEN InSec.align ELSE Got[Into].align
           data == Room \o InSec.data
           new == [Got[Into] EXCEPT !.align = align, !.data = data]
<1>8. /\ secs' = [Got EXCEPT ![Into].align = IF InSec.align > @ THEN InSec.align ELSE @,
                              ![Into].data = Room \o InSec.data]
      /\ maps' = [maps EXCEPT ![k].sec  = Append(@, Into),
                              ![k].base = Append(@, Len(Room))]
  BY DEF MergeSection, Got, Into, Room
<1>9. secs' = [Got EXCEPT ![Into] = new]
  BY <1>5, <1>8
<1>10. data \in Seq(Seq(Nat)) /\ align \in Nat /\ align >= InSec.align /\ align >= Got[Into].align
  BY <1>4, <1>6, <1>7
<1>11. /\ new \in Section(Names) /\ new.relas = Got[Into].relas /\ new.data = data /\ new.align = align
  BY <1>6, <1>10 DEF Section
<1> HIDE DEF align, data, new
<1>12. /\ secs' \in Seq(Section(Names)) /\ DOMAIN secs' = 1..Len(Got)
       /\ secs'[Into] = new
       /\ \A e \in 1..Len(Got) : e # Into => secs'[e] = Got[e]
  BY <1>5, <1>9, <1>11
<1> DEFINE m == [sec  |-> Append(maps[k].sec, Into), base |-> Append(maps[k].base, Len(Room)),
                 sym  |-> maps[k].sym]
<1>13. m \in Maps /\ maps' = [maps EXCEPT ![k] = m]
  <2>1. maps[k] \in Maps /\ k \in DOMAIN maps
    BY TypedFacts
  <2>2. Len(Room) \in Nat /\ Into \in Nat
    BY <1>5, <1>7
  <2>3. Append(maps[k].sec, Into) \in Seq(Nat) /\ Append(maps[k].base, Len(Room)) \in Seq(Nat)
    BY <2>1, <2>2 DEF Maps
  <2>4. m \in Maps
    BY <2>1, <2>3 DEF Maps
  <2>5. m = [maps[k] EXCEPT !.sec = Append(@, Into), !.base = Append(@, Len(Room))]
    BY <2>1, MapsExcept
  <2> HIDE DEF m
  <2>6. maps' = [maps EXCEPT ![k] = m]
    BY <1>8, <2>1, <2>5
  <2> QED
    BY <2>4, <2>6
<1>14. /\ maps' \in Seq(Maps) /\ Len(maps') = k /\ DOMAIN maps' = 1..k
       /\ maps'[k] = m
       /\ \A o \in 1..k : o # k => maps'[o] = maps[o]
  <2> HIDE DEF m
  <2> QED
    BY <1>13, LastMapChanges
<1>15. DOMAIN secs = 1..Len(secs) /\ Len(secs) \in Nat /\ Len(Got) \in Nat
  BY <1>5, TypedFacts
<1>16. /\ Into \in DOMAIN secs' /\ DOMAIN secs \subseteq DOMAIN secs'
       /\ \A e \in DOMAIN secs : secs'[e].relas = secs[e].relas /\ (e # Into => secs'[e] = secs[e])
       /\ \A e \in DOMAIN secs' : e \notin DOMAIN secs => e = Into /\ secs'[e].relas = << >>
  BY <1>5, <1>11, <1>12, <1>15
<1>17. Into \in DOMAIN secs =>
         /\ Len(Room) >= Len(secs[Into].data)
         /\ \A j \in 1..Len(secs[Into].data) : Room[j] = secs[Into].data[j]
         /\ secs'[Into].align >= secs[Into].align
  BY <1>5, <1>7, <1>10, <1>11, <1>12, <1>15
<1> QED
  BY <1>3, <1>7, <1>10, <1>11, <1>12, <1>14, <1>16, <1>17 DEF data

(* The object at work, and how far its maps go in each loop. *)
LEMMA AtWork ==
  ASSUME MergeTyped
  PROVE  /\ In \in Objects /\ In.secs \in Seq(Section(Names)) /\ In.syms \in Seq(Symbol(Names))
         /\ maps[k].sec \in Seq(Nat) /\ maps[k].base \in Seq(Nat) /\ maps[k].sym \in Seq(Nat)
         /\ Len(maps[k].base) = Len(maps[k].sec)
         /\ \A s \in 1..Len(maps[k].sec) : maps[k].sec[s] \in 1..Len(secs)
         /\ \A q \in 1..Len(maps[k].sym) : maps[k].sym[q] \in 1..Len(syms)
         /\ pc \in {"symbols", "relocs"} => Len(maps[k].sec) = Len(In.secs)
         /\ pc = "relocs" => Len(maps[k].sym) = Len(In.syms)
<1>1. In \in Objects /\ maps[k] \in Maps /\ k \in DOMAIN maps
  BY TypedFacts DEF In
<1>2. In.secs \in Seq(Section(Names)) /\ In.syms \in Seq(Symbol(Names))
  BY <1>1, ObjectFields
<1>3. maps[k].sec \in Seq(Nat) /\ maps[k].base \in Seq(Nat) /\ maps[k].sym \in Seq(Nat)
  BY <1>1 DEF Maps
<1>4. /\ Len(maps[k].base) = Len(maps[k].sec)
      /\ \A s \in DOMAIN maps[k].sec : maps[k].sec[s] \in DOMAIN secs
      /\ \A q \in DOMAIN maps[k].sym : maps[k].sym[q] \in DOMAIN syms
  BY <1>1 DEF MergeTyped, MapsSound
<1>5. /\ pc \in {"symbols", "relocs"} => Len(maps[k].sec) = Len(In.secs)
      /\ pc = "relocs" => Len(maps[k].sym) = Len(In.syms)
  BY DEF MergeTyped, PhaseSound, Whole, In
<1>6. DOMAIN secs = 1..Len(secs) /\ DOMAIN syms = 1..Len(syms)
  BY TypedFacts
<1> QED
  BY <1>1, <1>2, <1>3, <1>4, <1>5, <1>6

(* The global symbol of the current name, if the output has one. *)
LEMMA ExistingIsGlobal ==
  ASSUME MergeTyped
  PROVE  /\ Existing \in 0..Len(syms)
         /\ Existing # 0 =>
              /\ Existing \in DOMAIN syms
              /\ syms[Existing].bind # "LOCAL" /\ syms[Existing].name = InSym.name
         /\ Existing = 0 =>
              \A j \in DOMAIN syms : ~ (syms[j].bind # "LOCAL" /\ syms[j].name = InSym.name)
<1> DEFINE hits == {j \in DOMAIN syms : syms[j].bind # "LOCAL" /\ syms[j].name = InSym.name}
<1>1. DOMAIN syms = 1..Len(syms) /\ Len(syms) \in Nat
  BY TypedFacts
<1>2. hits \in SUBSET (Nat \ {0}) /\ hits \subseteq 1..Len(syms)
  BY <1>1
<1>3. Existing = First(hits)
  BY DEF Existing, FindGlobal
<1>4. /\ \A j \in hits : syms[j].bind # "LOCAL" /\ syms[j].name = InSym.name
      /\ \A j \in DOMAIN syms : syms[j].bind # "LOCAL" /\ syms[j].name = InSym.name => j \in hits
  OBVIOUS
<1> HIDE DEF hits
<1>5. /\ hits = {} => Existing = 0
      /\ hits # {} => Existing \in hits
  BY <1>2, <1>3, FirstIsLeast
<1> QED
  <2>1. Existing \in 0..Len(syms)
    <3>1. CASE hits = {}
      BY <1>1, <1>5, <3>1
    <3>2. CASE hits # {}
      <4>1. Existing \in 1..Len(syms)
        BY <1>2, <1>5, <3>2, Zenon
      <4> QED
        BY <1>1, <4>1
    <3> QED
      BY <3>1, <3>2
  <2>2. Existing # 0 => Existing \in hits /\ Existing \in DOMAIN syms
    BY <1>1, <1>2, <1>5, Zenon
  <2>3. Existing = 0 => hits = {}
    BY <1>2, <1>5
  <2> QED
    BY <1>4, <2>1, <2>2, <2>3, Zenon

LEMMA SymbolExcept ==
  ASSUME NEW x \in Symbol(Names), NEW a, NEW b
  PROVE  [x EXCEPT !.sec = a, !.value = b] =
           [name |-> x.name, sec |-> a, value |-> b, bind |-> x.bind, type |-> x.type]
<1>1. DOMAIN x = {"name", "sec", "value", "bind", "type"} /\ x = [f \in DOMAIN x |-> x[f]]
  BY DEF Symbol
<1> DEFINE w1 == [x EXCEPT !.sec = a]
           w2 == [w1 EXCEPT !.value = b]
<1>2. w1 = [name |-> x.name, sec |-> a, value |-> x.value, bind |-> x.bind, type |-> x.type]
  BY <1>1
<1>3. [x EXCEPT !.sec = a, !.value = b] = w2
  OBVIOUS
<1> HIDE DEF w1
<1>4. w2 = [name |-> x.name, sec |-> a, value |-> b, bind |-> x.bind, type |-> x.type]
  BY <1>2
<1> QED
  BY <1>3, <1>4

LEMMA SymbolExceptType ==
  ASSUME NEW x \in Symbol(Names), NEW a, NEW b, NEW c
  PROVE  [x EXCEPT !.sec = a, !.value = b, !.type = c] =
           [name |-> x.name, sec |-> a, value |-> b, bind |-> x.bind, type |-> c]
<1> DEFINE w == [x EXCEPT !.sec = a, !.value = b]
<1>1. w = [name |-> x.name, sec |-> a, value |-> b, bind |-> x.bind, type |-> x.type]
  BY SymbolExcept
<1>2. [x EXCEPT !.sec = a, !.value = b, !.type = c] = [w EXCEPT !.type = c]
  OBVIOUS
<1> HIDE DEF w
<1>3. [w EXCEPT !.type = c] = [name |-> x.name, sec |-> a, value |-> b, bind |-> x.bind, type |-> c]
  BY <1>1
<1> QED
  BY <1>2, <1>3

(* The current symbol, moved to its section of the output. *)
LEMMA MovedIsSymbol ==
  ASSUME MergeTyped, AtSymbol
  PROVE  /\ i \in 1..Len(In.syms) /\ InSym \in Symbol(Names) /\ Moved(InSym) \in Symbol(Names)
         /\ InSym.sec \in 0..Len(maps[k].sec)
         /\ Moved(InSym).name = InSym.name /\ Moved(InSym).bind = InSym.bind
         /\ Moved(InSym).type = InSym.type
         /\ Moved(InSym).sec \in 0..Len(secs)
         /\ InSym.sec = 0 => Moved(InSym).sec = 0 /\ Moved(InSym).value = 0
         /\ InSym.sec # 0 =>
              /\ Moved(InSym).sec # 0
              /\ Moved(InSym).sec = maps[k].sec[InSym.sec]
              /\ Moved(InSym).value = maps[k].base[InSym.sec] + InSym.value
<1>1. i \in 1..Len(In.syms)
  <2>1. i \in Nat \ {0} /\ i <= Len(In.syms)
    BY DEF AtSymbol, MergeTyped, MergeTypeOK
  <2>2. Len(In.syms) \in Nat
    BY AtWork
  <2> QED
    BY <2>1, <2>2
<1>2. InSym \in Symbol(Names)
  BY <1>1, AtWork, ElementOfSeq DEF InSym
<1>3. InSym.sec \in 0..Len(maps[k].sec)
  <2>1. In.syms[i].sec \in 0..Len(In.secs)
    BY <1>1, AtWork, ObjectFields
  <2>2. Len(maps[k].sec) = Len(In.secs)
    BY AtWork DEF AtSymbol
  <2> QED
    BY <2>1, <2>2 DEF InSym
<1> DEFINE a == IF InSym.sec # 0 THEN maps[k].sec[InSym.sec] ELSE 0
           b == IF InSym.sec # 0 THEN maps[k].base[InSym.sec] + InSym.value ELSE 0
<1>4. Moved(InSym) = [name |-> InSym.name, sec |-> a, value |-> b, bind |-> InSym.bind, type |-> InSym.type]
  <2>1. Moved(InSym) = [InSym EXCEPT !.sec = a, !.value = b]
    BY DEF Moved
  <2> HIDE DEF a, b
  <2> QED
    BY <1>2, <2>1, SymbolExcept
<1>5. /\ InSym.name \in Names /\ InSym.bind \in Binds /\ InSym.type \in STRING /\ InSym.value \in Nat
  BY <1>2 DEF Symbol
<1>6. a \in 0..Len(secs) /\ b \in Nat /\ (InSym.sec # 0 => a # 0)
  <2>1. CASE InSym.sec = 0
    BY <2>1, TypedFacts
  <2>2. CASE InSym.sec # 0
    <3>1. InSym.sec \in 1..Len(maps[k].sec)
      BY <1>3, <2>2
    <3>2. maps[k].sec[InSym.sec] \in 1..Len(secs)
      BY <3>1, AtWork
    <3>3. maps[k].base[InSym.sec] \in Nat
      <4>1. maps[k].base \in Seq(Nat) /\ InSym.sec \in 1..Len(maps[k].base)
        BY <3>1, AtWork
      <4> QED
        BY <4>1, ElementOfSeq
    <3> QED
      BY <1>5, <2>2, <3>2, <3>3
  <2> QED
    BY <2>1, <2>2
<1>7. Moved(InSym) \in Symbol(Names)
  <2>1. a \in Nat
    BY <1>6, TypedFacts
  <2> HIDE DEF a, b
  <2> QED
    BY <1>4, <1>5, <1>6, <2>1 DEF Symbol
<1> QED
  BY <1>1, <1>2, <1>3, <1>4, <1>6, <1>7

LEMMA MapSymbolEffect ==
  ASSUME MergeTyped, NEW j \in Nat, MapSymbol(j)
  PROVE  /\ maps' \in Seq(Maps) /\ Len(maps') = k /\ DOMAIN maps' = 1..k
         /\ \A o \in 1..k : o # k => maps'[o] = maps[o]
         /\ maps'[k].sec = maps[k].sec /\ maps'[k].base = maps[k].base
         /\ maps'[k].sym = Append(maps[k].sym, j)
         /\ i' = i + 1 /\ UNCHANGED <<units, k, pc, r, secs, err>>
<1> DEFINE m == [sec |-> maps[k].sec, base |-> maps[k].base, sym |-> Append(maps[k].sym, j)]
<1>1. maps[k] \in Maps /\ k \in DOMAIN maps
  BY TypedFacts
<1>2. m \in Maps
  BY <1>1 DEF Maps
<1>3. m = [maps[k] EXCEPT !.sym = Append(@, j)]
  BY <1>1, MapsExcept
<1> HIDE DEF m
<1>4. maps' = [maps EXCEPT ![k] = m]
  BY <1>1, <1>3 DEF MapSymbol
<1>5. /\ maps' \in Seq(Maps) /\ Len(maps') = k /\ DOMAIN maps' = 1..k
      /\ \A o \in 1..k : o # k => maps'[o] = maps[o]
      /\ maps'[k] = m
  BY <1>2, <1>4, LastMapChanges
<1> QED
  BY <1>5 DEF m, MapSymbol

(* The output's symbols when a new one is added, or one gets its place. *)
LEMMA AddSymbolEffect ==
  ASSUME MergeTyped, AddSymbol
  PROVE  /\ MapSymbol(Len(syms) + 1) /\ Len(syms) + 1 \in Nat
         /\ syms' \in Seq(Symbol(Names)) /\ Len(syms') = Len(syms) + 1
         /\ \A j \in 1..Len(syms) : syms'[j] = syms[j]
         /\ syms'[Len(syms) + 1] = Moved(InSym)
<1>1. Moved(InSym) \in Symbol(Names)
  BY MovedIsSymbol DEF AddSymbol
<1>2. syms' = Append(syms, Moved(InSym)) /\ MapSymbol(Len(syms) + 1)
  BY DEF AddSymbol
<1> QED
  BY <1>1, <1>2, TypedFacts, AppendProperties

LEMMA DefineGlobalEffect ==
  ASSUME MergeTyped, DefineGlobal
  PROVE  /\ MapSymbol(Existing) /\ Existing \in 1..Len(syms)
         /\ syms[Existing].sec = 0 /\ InSym.sec # 0
         /\ syms' \in Seq(Symbol(Names)) /\ Len(syms') = Len(syms)
         /\ \A j \in 1..Len(syms) : j # Existing => syms'[j] = syms[j]
         /\ syms'[Existing] =
              [name |-> syms[Existing].name, sec |-> Moved(InSym).sec, value |-> Moved(InSym).value,
               bind |-> syms[Existing].bind, type |-> InSym.type]
<1> DEFINE old == syms[Existing]
           new == [name |-> old.name, sec |-> Moved(InSym).sec, value |-> Moved(InSym).value,
                   bind |-> old.bind, type |-> InSym.type]
<1>1. /\ MapSymbol(Existing) /\ AtSymbol /\ Existing # 0
      /\ syms[Existing].sec = 0 /\ InSym.sec # 0
      /\ syms' = [syms EXCEPT ![Existing].sec   = Moved(InSym).sec,
                              ![Existing].value = Moved(InSym).value,
                              ![Existing].type  = InSym.type]
  BY DEF DefineGlobal
<1>2. Existing \in DOMAIN syms /\ Existing \in 1..Len(syms)
  BY <1>1, ExistingIsGlobal, TypedFacts
<1>3. old \in Symbol(Names)
  BY <1>2, TypedFacts, ElementOfSeq
<1>4. Moved(InSym) \in Symbol(Names) /\ InSym \in Symbol(Names)
  BY <1>1, MovedIsSymbol
<1>5. new \in Symbol(Names)
  BY <1>3, <1>4 DEF Symbol
<1>6. new = [old EXCEPT !.sec = Moved(InSym).sec, !.value = Moved(InSym).value, !.type = InSym.type]
  <2> DEFINE a == Moved(InSym).sec
             b == Moved(InSym).value
             c == InSym.type
  <2>1. [old EXCEPT !.sec = a, !.value = b, !.type = c] =
          [name |-> old.name, sec |-> a, value |-> b, bind |-> old.bind, type |-> c]
    <3> HIDE DEF old, a, b, c
    <3> QED
      BY <1>3, SymbolExceptType
  <2> QED
    BY <2>1
<1> HIDE DEF new
<1>7. syms' = [syms EXCEPT ![Existing] = new]
  BY <1>1, <1>2, <1>6
<1>8. /\ syms' \in Seq(Symbol(Names)) /\ Len(syms') = Len(syms)
      /\ \A j \in 1..Len(syms) : syms'[j] = IF j = Existing THEN new ELSE syms[j]
  BY <1>2, <1>5, <1>7, TypedFacts, ExceptSeq
<1> QED
  BY <1>1, <1>2, <1>8 DEF new

(* Mapping a symbol keeps the types, if the output's symbols still are.    *)
LEMMA MapSymbolTyped ==
  ASSUME MergeTyped, AtSymbol, NEW j \in Nat, MapSymbol(j),
         syms' \in Seq(Symbol(Names)), Len(syms') >= Len(syms), j \in 1..Len(syms'),
         \A x \in 1..Len(syms') : syms'[x].sec \in 0..Len(secs)
  PROVE  MergeTyped'
<1>0. /\ maps' \in Seq(Maps) /\ Len(maps') = k /\ DOMAIN maps' = 1..k
      /\ \A o \in 1..k : o # k => maps'[o] = maps[o]
      /\ maps'[k].sec = maps[k].sec /\ maps'[k].base = maps[k].base
      /\ maps'[k].sym = Append(maps[k].sym, j)
      /\ i' = i + 1 /\ UNCHANGED <<units, k, pc, r, secs, err>>
  BY MapSymbolEffect
<1>1. /\ Len(syms') \in Nat /\ DOMAIN syms' = 1..Len(syms') /\ DOMAIN syms = 1..Len(syms)
      /\ DOMAIN syms \subseteq DOMAIN syms'
  BY TypedFacts
<1>2. [secs |-> secs, syms |-> syms] \in Object(Names)
  BY DEF MergeTyped, MergeTypeOK, Objects
<1>3. [secs |-> secs', syms |-> syms'] \in Objects
  <2>1. \A d \in DOMAIN secs : \A q \in DOMAIN secs[d].relas : secs[d].relas[q].sym \in 0..Len(syms)
    BY <1>2, ObjectParts
  <2>2. \A d \in DOMAIN secs : \A q \in DOMAIN secs[d].relas : secs[d].relas[q].sym \in 0..Len(syms')
    BY <1>1, <2>1
  <2>3. secs' = secs
    BY <1>0
  <2> QED
    BY <1>1, <2>2, <2>3, TypedFacts, ObjectParts DEF Objects
<1>4. MergeTypeOK'
  <2>1. i' \in Nat \ {0}
    <3>1. i \in Nat
      BY DEF MergeTyped, MergeTypeOK
    <3> QED
      BY <1>0, <3>1
  <2>2. /\ units' \in Seq(Objects \union {Unreadable}) /\ units'[1] \in Objects
        /\ k' \in 1..Len(units') /\ r' \in Nat \ {0}
        /\ pc' \in {"read", "sections", "symbols", "relocs", "merged", "failed"}
        /\ err' \in {"none", "cannot read object", "multiple definition"}
    BY <1>0 DEF MergeTyped, MergeTypeOK
  <2> QED
    BY <1>0, <1>3, <2>1, <2>2 DEF MergeTypeOK, Maps
<1>5. MapsSound'
  <2> SUFFICES ASSUME NEW o \in 1..k
               PROVE  /\ units[o] \in Objects
                      /\ Len(maps'[o].base) = Len(maps'[o].sec)
                      /\ Len(maps'[o].sec) <= Len(units[o].secs)
                      /\ Len(maps'[o].sym) <= Len(units[o].syms)
                      /\ \A s \in DOMAIN maps'[o].sec : maps'[o].sec[s] \in DOMAIN secs
                      /\ \A q \in DOMAIN maps'[o].sym : maps'[o].sym[q] \in DOMAIN syms'
                      /\ o < k => /\ Len(maps'[o].sec) = Len(units[o].secs)
                                  /\ Len(maps'[o].sym) = Len(units[o].syms)
    BY <1>0 DEF MapsSound, Whole
  <2>1. /\ units[o] \in Objects
        /\ Len(maps[o].base) = Len(maps[o].sec)
        /\ Len(maps[o].sec) <= Len(units[o].secs)
        /\ Len(maps[o].sym) <= Len(units[o].syms)
        /\ \A s \in DOMAIN maps[o].sec : maps[o].sec[s] \in DOMAIN secs
        /\ \A q \in DOMAIN maps[o].sym : maps[o].sym[q] \in DOMAIN syms
        /\ o < k => /\ Len(maps[o].sec) = Len(units[o].secs)
                    /\ Len(maps[o].sym) = Len(units[o].syms)
    BY TypedFacts DEF MergeTyped, MapsSound, Whole
  <2>2. CASE o # k
    BY <1>0, <1>1, <2>1, <2>2
  <2>3. CASE o = k
    <3>2. maps[k].sym \in Seq(Nat) /\ Len(maps[k].sym) = i - 1 /\ i \in 1..Len(In.syms)
      BY AtWork, MovedIsSymbol DEF AtSymbol, MergeTyped, PhaseSound
    <3>3. /\ Len(maps'[k].sym) = i /\ DOMAIN maps'[k].sym = 1..i
          /\ \A q \in 1..(i - 1) : maps'[k].sym[q] = maps[k].sym[q]
          /\ maps'[k].sym[i] = j
      BY <1>0, <3>2, AppendProperties
    <3>4. DOMAIN maps[k].sym = 1..(i - 1)
      BY <3>2
    <3>5. \A q \in 1..i : maps'[k].sym[q] \in DOMAIN syms'
      <4>1. \A q \in 1..(i - 1) : maps'[k].sym[q] \in DOMAIN syms'
        BY <1>1, <2>1, <2>3, <3>3, <3>4
      <4>2. \A q \in 1..i : q \in 1..(i - 1) \/ q = i
        BY <3>2, AtWork
      <4> QED
        BY <1>1, <3>3, <4>1, <4>2
    <3> QED
      <4>1. Len(maps'[k].sym) <= Len(units[k].syms)
        BY <3>2, <3>3 DEF In
      <4>2. k \in Nat
        BY TypedFacts
      <4>3. ~ (o < k)
        BY <2>3, <4>2
      <4>4. \A q \in DOMAIN maps'[k].sym : maps'[k].sym[q] \in DOMAIN syms'
        BY <3>3, <3>5
      <4>5. /\ Len(maps'[k].base) = Len(maps'[k].sec)
            /\ Len(maps'[k].sec) <= Len(units[k].secs)
            /\ \A s \in DOMAIN maps'[k].sec : maps'[k].sec[s] \in DOMAIN secs
        BY <1>0, <2>1, <2>3
      <4> QED
        BY <2>1, <2>3, <4>1, <4>3, <4>4, <4>5
  <2> QED
    BY <2>2, <2>3
<1>6. PhaseSound'
  <2>1. pc = "symbols" /\ pc' = "symbols" /\ k' = k /\ k > 1 /\ units' = units
    BY <1>0 DEF AtSymbol, MergeTyped, PhaseSound
  <2>2. /\ maps[k].sym \in Seq(Nat) /\ Len(maps[k].sym) = i - 1 /\ i \in Nat
        /\ Len(maps[k].sec) = Len(units[k].secs)
    BY <2>1, AtWork DEF MergeTyped, PhaseSound, MergeTypeOK
  <2>3. Len(maps'[k].sym) = i /\ Len(maps'[k].sec) = Len(units[k].secs) /\ i' = i + 1
    <3>1. Len(maps'[k].sym) = Len(maps[k].sym) + 1
      BY <1>0, <2>2, AppendProperties
    <3> QED
      BY <1>0, <2>2, <3>1
  <2> QED
    BY <2>1, <2>2, <2>3 DEF PhaseSound
<1> QED
  BY <1>4, <1>5, <1>6 DEF MergeTyped

(* The current relocation as the output has it. *)
Rebased == [InRel EXCEPT !.off = maps[k].base[i] + InRel.off, !.sym = maps[k].sym[InRel.sym]]

LEMMA RelaExcept ==
  ASSUME NEW x \in Rela, NEW a, NEW b
  PROVE  [x EXCEPT !.off = a, !.sym = b] =
           [off |-> a, sym |-> b, type |-> x.type, addend |-> x.addend]
<1>1. DOMAIN x = {"off", "sym", "type", "addend"} /\ x = [f \in DOMAIN x |-> x[f]]
  BY DEF Rela
<1> DEFINE w == [x EXCEPT !.off = a]
<1>2. w = [off |-> a, sym |-> x.sym, type |-> x.type, addend |-> x.addend]
  BY <1>1
<1>3. [x EXCEPT !.off = a, !.sym = b] = [w EXCEPT !.sym = b]
  OBVIOUS
<1> HIDE DEF w
<1>4. [w EXCEPT !.sym = b] = [off |-> a, sym |-> b, type |-> x.type, addend |-> x.addend]
  BY <1>2
<1> QED
  BY <1>3, <1>4

(* A section that gets one more relocation. *)
LEMMA MoreRelas ==
  ASSUME NEW ss \in Seq(Section(Names)), NEW d \in 1..Len(ss), NEW rela \in Rela
  PROVE  LET new == [ss EXCEPT ![d].relas = Append(@, rela)] IN
         /\ new \in Seq(Section(Names)) /\ Len(new) = Len(ss)
         /\ \A e \in 1..Len(ss) :
              /\ new[e].data = ss[e].data /\ new[e].align = ss[e].align
              /\ new[e].relas = IF e = d THEN Append(ss[e].relas, rela) ELSE ss[e].relas
<1> DEFINE new == [ss EXCEPT ![d].relas = Append(@, rela)]
           sec == [ss[d] EXCEPT !.relas = Append(@, rela)]
<1>1. ss[d] \in Section(Names)
  BY ElementOfSeq
<1>2. ss[d].relas \in Seq(Rela)
  BY <1>1 DEF Section
<1>3. Append(ss[d].relas, rela) \in Seq(Rela)
  BY <1>2, AppendProperties
<1>4. /\ sec \in Section(Names) /\ sec.data = ss[d].data /\ sec.align = ss[d].align
      /\ sec.relas = Append(ss[d].relas, rela)
  BY <1>1, <1>3 DEF Section
<1>5. new = [ss EXCEPT ![d] = sec]
  OBVIOUS
<1> HIDE DEF sec, new
<1>6. /\ new \in Seq(Section(Names)) /\ Len(new) = Len(ss)
      /\ \A e \in 1..Len(ss) : new[e] = IF e = d THEN sec ELSE ss[e]
  BY <1>4, <1>5, ExceptSeq
<1>7. ASSUME NEW e \in 1..Len(ss)
      PROVE  /\ new[e].data = ss[e].data /\ new[e].align = ss[e].align
             /\ new[e].relas = IF e = d THEN Append(ss[e].relas, rela) ELSE ss[e].relas
  BY <1>4, <1>6
<1> QED
  BY <1>6, <1>7 DEF new

(* What MergeReloc does to the sections. *)
LEMMA MergeRelocEffect ==
  ASSUME MergeTyped, MergeReloc
  PROVE  /\ i \in 1..Len(In.secs) /\ r \in 1..Len(InSec.relas)
         /\ InRel \in Rela /\ InRel.sym \in 0..Len(In.syms)
         /\ maps[k].sec[i] \in 1..Len(secs)
         /\ secs' \in Seq(Section(Names)) /\ Len(secs') = Len(secs)
         /\ InRel.sym = 0 => secs' = secs
         /\ InRel.sym # 0 =>
              /\ Rebased \in Rela /\ Rebased.sym \in 1..Len(syms)
              /\ \A e \in 1..Len(secs) :
                   /\ secs'[e].data = secs[e].data /\ secs'[e].align = secs[e].align
                   /\ secs'[e].relas = IF e = maps[k].sec[i] THEN Append(secs[e].relas, Rebased)
                                       ELSE secs[e].relas
<1>1. /\ pc = "relocs" /\ i <= Len(In.secs) /\ r <= Len(InSec.relas)
      /\ i \in Nat \ {0} /\ r \in Nat \ {0}
      /\ secs' = IF InRel.sym = 0 THEN secs
                 ELSE [secs EXCEPT ![maps[k].sec[i]].relas = Append(@, Rebased)]
  BY DEF MergeReloc, CarryReloc, Rebased, MergeTyped, MergeTypeOK
<1>2. /\ In.secs \in Seq(Section(Names)) /\ In \in Objects
      /\ Len(maps[k].sec) = Len(In.secs) /\ Len(maps[k].base) = Len(In.secs)
      /\ Len(maps[k].sym) = Len(In.syms)
      /\ maps[k].base \in Seq(Nat)
  BY <1>1, AtWork
<1>3. i \in 1..Len(In.secs) /\ i \in DOMAIN In.secs
  BY <1>1, <1>2
<1>4. InSec \in Section(Names)
  BY <1>2, <1>3, ElementOfSeq DEF InSec
<1>5. InSec.relas \in Seq(Rela)
  BY <1>4 DEF Section
<1>6. r \in 1..Len(InSec.relas) /\ r \in DOMAIN InSec.relas
  BY <1>1, <1>5
<1>7. InRel \in Rela
  BY <1>5, <1>6, ElementOfSeq DEF InRel
<1>8. InRel.sym \in 0..Len(In.syms)
  BY <1>2, <1>3, <1>6, ObjectFields DEF InRel, InSec
<1>9. maps[k].sec[i] \in 1..Len(secs) /\ maps[k].base[i] \in Nat
  <2>1. maps[k].sec[i] \in 1..Len(secs)
    BY <1>2, <1>3, AtWork
  <2>2. i \in 1..Len(maps[k].base)
    BY <1>2, <1>3
  <2>3. maps[k].base[i] \in Nat
    BY <1>2, <2>2, ElementOfSeq
  <2> QED
    BY <2>1, <2>3
<1>10. ASSUME InRel.sym # 0
       PROVE  Rebased \in Rela /\ Rebased.sym \in 1..Len(syms)
  <2>1. InRel.sym \in 1..Len(maps[k].sym)
    BY <1>2, <1>8, <1>10
  <2>2. maps[k].sym[InRel.sym] \in 1..Len(syms)
    BY <2>1, AtWork
  <2>3. /\ maps[k].base[i] + InRel.off \in Nat /\ maps[k].sym[InRel.sym] \in Nat
        /\ InRel.type \in STRING /\ InRel.addend \in Int
    BY <1>7, <1>9, <2>2, SMTT(30) DEF Rela
  <2> DEFINE a == maps[k].base[i] + InRel.off
             b == maps[k].sym[InRel.sym]
  <2>4. Rebased = [off |-> a, sym |-> b, type |-> InRel.type, addend |-> InRel.addend]
    <3>1. Rebased = [InRel EXCEPT !.off = a, !.sym = b]
      BY DEF Rebased
    <3> HIDE DEF a, b
    <3> QED
      BY <1>7, <3>1, RelaExcept
  <2> QED
    BY <2>2, <2>3, <2>4 DEF Rela
<1>11. CASE InRel.sym = 0
  BY <1>1, <1>3, <1>6, <1>7, <1>8, <1>9, <1>11, TypedFacts
<1>12. CASE InRel.sym # 0
  <2>1. /\ secs' \in Seq(Section(Names)) /\ Len(secs') = Len(secs)
        /\ \A e \in 1..Len(secs) :
             /\ secs'[e].data = secs[e].data /\ secs'[e].align = secs[e].align
             /\ secs'[e].relas = IF e = maps[k].sec[i] THEN Append(secs[e].relas, Rebased)
                                 ELSE secs[e].relas
    <3>1. secs' = [secs EXCEPT ![maps[k].sec[i]].relas = Append(@, Rebased)]
      BY <1>1, <1>12
    <3> DEFINE d == maps[k].sec[i]
               new == [secs EXCEPT ![d].relas = Append(@, Rebased)]
    <3>2. secs \in Seq(Section(Names)) /\ Rebased \in Rela /\ d \in 1..Len(secs)
      BY <1>9, <1>10, <1>12, TypedFacts
    <3>3. /\ new \in Seq(Section(Names)) /\ Len(new) = Len(secs)
          /\ \A e \in 1..Len(secs) :
               /\ new[e].data = secs[e].data /\ new[e].align = secs[e].align
               /\ new[e].relas = IF e = d THEN Append(secs[e].relas, Rebased) ELSE secs[e].relas
      <4> HIDE DEF d
      <4> QED
        BY <3>2, MoreRelas
    <3>4. secs' = new
      BY <3>1
    <3> HIDE DEF new
    <3> QED
      BY <3>3, <3>4
  <2> QED
    BY <1>3, <1>6, <1>7, <1>8, <1>9, <1>10, <1>12, <2>1
<1> QED
  BY <1>11, <1>12

LEMMA SymbolStepsTyped ==
  ASSUME MergeTyped, AddSymbol \/ ReferGlobal \/ DefineGlobal
  PROVE  MergeTyped'
<1>1. \A x \in 1..Len(syms) : syms[x].sec \in 0..Len(secs)
  <2>1. \A x \in DOMAIN syms : syms[x].sec \in 0..Len(secs)
    BY ObjectParts DEF MergeTyped, MergeTypeOK, Objects
  <2> QED
    BY <2>1, TypedFacts
<1>2. CASE AddSymbol
  <2>1. /\ MapSymbol(Len(syms) + 1) /\ Len(syms) + 1 \in Nat /\ Len(syms) \in Nat
        /\ syms' \in Seq(Symbol(Names)) /\ Len(syms') = Len(syms) + 1
        /\ \A j \in 1..Len(syms) : syms'[j] = syms[j]
        /\ syms'[Len(syms) + 1] = Moved(InSym)
    BY <1>2, AddSymbolEffect, TypedFacts
  <2>2. Moved(InSym).sec \in 0..Len(secs) /\ AtSymbol
    BY <1>2, MovedIsSymbol DEF AddSymbol
  <2>3. \A x \in 1..Len(syms') : syms'[x].sec \in 0..Len(secs)
    BY <1>1, <2>1, <2>2
  <2> QED
    BY <2>1, <2>2, <2>3, MapSymbolTyped
<1>3. CASE ReferGlobal
  <2>1. AtSymbol /\ MapSymbol(Existing) /\ syms' = syms /\ Existing \in 1..Len(syms)
    BY <1>3, ExistingIsGlobal, TypedFacts DEF ReferGlobal
  <2>2. Len(syms) \in Nat /\ Existing \in Nat /\ syms' \in Seq(Symbol(Names))
    BY <2>1, TypedFacts
  <2> QED
    BY <1>1, <2>1, <2>2, MapSymbolTyped
<1>4. CASE DefineGlobal
  <2>1. /\ MapSymbol(Existing) /\ Existing \in 1..Len(syms) /\ AtSymbol
        /\ syms' \in Seq(Symbol(Names)) /\ Len(syms') = Len(syms)
        /\ \A j \in 1..Len(syms) : j # Existing => syms'[j] = syms[j]
        /\ syms'[Existing].sec = Moved(InSym).sec
    BY <1>4, DefineGlobalEffect DEF DefineGlobal
  <2>2. Moved(InSym).sec \in 0..Len(secs) /\ Len(syms) \in Nat /\ Existing \in Nat
    BY <2>1, MovedIsSymbol, TypedFacts
  <2>3. \A x \in 1..Len(syms') : syms'[x].sec \in 0..Len(secs)
    BY <1>1, <2>1, <2>2
  <2> QED
    BY <2>1, <2>2, <2>3, MapSymbolTyped
<1> QED
  BY <1>2, <1>3, <1>4

(* Carrying a relocation over keeps the types. *)
LEMMA MergeRelocTyped ==
  ASSUME MergeTyped, MergeReloc
  PROVE  MergeTyped'
<1>1. /\ secs' \in Seq(Section(Names)) /\ Len(secs') = Len(secs) /\ Len(secs) \in Nat
      /\ DOMAIN secs' = 1..Len(secs) /\ DOMAIN secs = 1..Len(secs)
      /\ pc = "relocs" /\ r' = r + 1
      /\ UNCHANGED <<units, k, pc, i, syms, maps, err>>
  BY MergeRelocEffect, TypedFacts DEF MergeReloc, CarryReloc
<1>2. \A e \in DOMAIN secs : \A q \in DOMAIN secs[e].relas : secs[e].relas[q].sym \in 0..Len(syms)
  BY ObjectParts DEF MergeTyped, MergeTypeOK, Objects
<1>3. ASSUME NEW e \in 1..Len(secs), NEW q \in DOMAIN secs'[e].relas
      PROVE  secs'[e].relas[q].sym \in 0..Len(syms)
  <2>1. CASE InRel.sym = 0
    BY <1>1, <1>2, <1>3, <2>1, MergeRelocEffect
  <2>2. CASE InRel.sym # 0
    <3>1. /\ Rebased \in Rela /\ Rebased.sym \in 0..Len(syms)
          /\ secs'[e].relas = IF e = maps[k].sec[i] THEN Append(secs[e].relas, Rebased)
                              ELSE secs[e].relas
      BY <2>2, MergeRelocEffect, TypedFacts
    <3>2. CASE e # maps[k].sec[i]
      BY <1>1, <1>2, <3>1, <3>2
    <3>3. CASE e = maps[k].sec[i]
      <4>1. secs[e] \in Section(Names)
        BY TypedFacts, ElementOfSeq
      <4>2. secs[e].relas \in Seq(Rela)
        BY <4>1 DEF Section
      <4>3. secs'[e].relas = Append(secs[e].relas, Rebased)
        BY <3>1, <3>3
      <4>4. /\ DOMAIN secs'[e].relas = 1..(Len(secs[e].relas) + 1)
            /\ DOMAIN secs[e].relas = 1..Len(secs[e].relas) /\ Len(secs[e].relas) \in Nat
            /\ secs'[e].relas[Len(secs[e].relas) + 1] = Rebased
            /\ \A x \in 1..Len(secs[e].relas) : secs'[e].relas[x] = secs[e].relas[x]
        BY <3>1, <4>2, <4>3, AppendProperties
      <4>5. CASE q = Len(secs[e].relas) + 1
        BY <3>1, <4>4, <4>5
      <4>6. CASE q \in 1..Len(secs[e].relas)
        BY <1>1, <1>2, <4>4, <4>6
      <4> QED
        BY <4>4, <4>5, <4>6
    <3> QED
      BY <3>2, <3>3
  <2> QED
    BY <2>1, <2>2
<1>4. [secs |-> secs', syms |-> syms'] \in Objects
  <2>1. \A x \in DOMAIN syms : syms[x].sec \in 0..Len(secs)
    BY ObjectParts DEF MergeTyped, MergeTypeOK, Objects
  <2> QED
    BY <1>1, <1>3, <2>1, TypedFacts, ObjectParts DEF Objects
<1>5. MergeTypeOK'
  <2>1. r \in Nat \ {0} /\ r' \in Nat \ {0}
    <3>1. r \in Nat \ {0}
      BY DEF MergeTyped, MergeTypeOK
    <3> QED
      BY <1>1, <3>1
  <2> QED
    BY <1>1, <1>4, <2>1 DEF MergeTyped, MergeTypeOK
<1>6. MapsSound'
  BY <1>1 DEF MergeTyped, MapsSound, Whole
<1>7. PhaseSound'
  BY <1>1 DEF MergeTyped, PhaseSound, Whole
<1> QED
  BY <1>5, <1>6, <1>7 DEF MergeTyped

(* Appending the contents of a section keeps the types. *)
LEMMA MergeSectionTyped ==
  ASSUME MergeTyped, MergeSection
  PROVE  MergeTyped'
<1>1. /\ pc = "sections" /\ i \in Nat \ {0} /\ i <= Len(In.secs) /\ i' = i + 1
      /\ UNCHANGED <<units, k, pc, r, syms, err>>
  BY DEF MergeSection, MergeTyped, MergeTypeOK
<1>2. /\ secs' \in Seq(Section(Names)) /\ Len(secs') \in Nat /\ DOMAIN secs' = 1..Len(secs')
      /\ DOMAIN secs = 1..Len(secs) /\ DOMAIN secs \subseteq DOMAIN secs'
      /\ Into \in 1..Len(secs') /\ Room \in Seq(Seq(Nat)) /\ Len(Room) \in Nat
      /\ maps' \in Seq(Maps) /\ Len(maps') = k /\ DOMAIN maps' = 1..k
      /\ \A o \in 1..k : o # k => maps'[o] = maps[o]
      /\ maps'[k].sec = Append(maps[k].sec, Into)
      /\ maps'[k].base = Append(maps[k].base, Len(Room))
      /\ maps'[k].sym = maps[k].sym
  BY MergeSectionEffect, TypedFacts, SMTT(30)
<1>3. \A e \in DOMAIN secs' : \A q \in DOMAIN secs'[e].relas : secs'[e].relas[q].sym \in 0..Len(syms)
  <2>1. \A e \in DOMAIN secs : \A q \in DOMAIN secs[e].relas : secs[e].relas[q].sym \in 0..Len(syms)
    BY ObjectParts DEF MergeTyped, MergeTypeOK, Objects
  <2> SUFFICES ASSUME NEW e \in DOMAIN secs', NEW q \in DOMAIN secs'[e].relas
               PROVE  secs'[e].relas[q].sym \in 0..Len(syms)
    OBVIOUS
  <2>2. CASE e \in DOMAIN secs
    BY <2>1, <2>2, MergeSectionEffect
  <2>3. CASE e \notin DOMAIN secs
    BY <2>3, MergeSectionEffect
  <2> QED
    BY <2>2, <2>3
<1>4. [secs |-> secs', syms |-> syms'] \in Objects
  <2>1. \A x \in DOMAIN syms : syms[x].sec \in 0..Len(secs)
    BY ObjectParts DEF MergeTyped, MergeTypeOK, Objects
  <2>2. Len(secs) \in Nat /\ Len(secs) <= Len(secs')
    <3>1. Len(secs) \in Nat /\ 1..Len(secs) \subseteq 1..Len(secs')
      BY <1>2, TypedFacts
    <3>2. Len(secs) # 0 => Len(secs) \in 1..Len(secs')
      BY <3>1
    <3> QED
      BY <1>2, <3>1, <3>2
  <2>3. \A x \in DOMAIN syms : syms[x].sec \in 0..Len(secs')
    BY <1>2, <2>1, <2>2
  <2> QED
    BY <1>1, <1>2, <1>3, <2>3, TypedFacts, ObjectParts DEF Objects
<1>5. MergeTypeOK'
  <2>1. /\ units' \in Seq(Objects \union {Unreadable}) /\ units'[1] \in Objects
        /\ k' \in 1..Len(units') /\ r' \in Nat \ {0}
        /\ pc' \in {"read", "sections", "symbols", "relocs", "merged", "failed"}
        /\ err' \in {"none", "cannot read object", "multiple definition"}
    BY <1>1 DEF MergeTyped, MergeTypeOK
  <2>2. i' \in Nat \ {0}
    BY <1>1
  <2> QED
    BY <1>1, <1>2, <1>4, <2>1, <2>2 DEF MergeTypeOK, Maps
<1>6. /\ Len(maps[k].sec) = i - 1 /\ maps[k].sym = << >> /\ k > 1
      /\ maps[k].sec \in Seq(Nat) /\ maps[k].base \in Seq(Nat)
      /\ Len(maps[k].base) = Len(maps[k].sec)
  BY <1>1, AtWork DEF MergeTyped, PhaseSound
<1>7. /\ Len(maps'[k].sec) = i /\ DOMAIN maps'[k].sec = 1..i
      /\ Len(maps'[k].base) = i
      /\ \A s \in 1..(i - 1) : maps'[k].sec[s] = maps[k].sec[s]
      /\ maps'[k].sec[i] = Into
  BY <1>1, <1>2, <1>6, AppendProperties
<1>8. MapsSound'
  <2> SUFFICES ASSUME NEW o \in 1..k
               PROVE  /\ units[o] \in Objects
                      /\ Len(maps'[o].base) = Len(maps'[o].sec)
                      /\ Len(maps'[o].sec) <= Len(units[o].secs)
                      /\ Len(maps'[o].sym) <= Len(units[o].syms)
                      /\ \A s \in DOMAIN maps'[o].sec : maps'[o].sec[s] \in DOMAIN secs'
                      /\ \A q \in DOMAIN maps'[o].sym : maps'[o].sym[q] \in DOMAIN syms
                      /\ o < k => /\ Len(maps'[o].sec) = Len(units[o].secs)
                                  /\ Len(maps'[o].sym) = Len(units[o].syms)
    BY <1>1, <1>2 DEF MapsSound, Whole
  <2>1. /\ units[o] \in Objects
        /\ Len(maps[o].base) = Len(maps[o].sec)
        /\ Len(maps[o].sec) <= Len(units[o].secs)
        /\ Len(maps[o].sym) <= Len(units[o].syms)
        /\ \A s \in DOMAIN maps[o].sec : maps[o].sec[s] \in DOMAIN secs
        /\ \A q \in DOMAIN maps[o].sym : maps[o].sym[q] \in DOMAIN syms
        /\ o < k => /\ Len(maps[o].sec) = Len(units[o].secs)
                    /\ Len(maps[o].sym) = Len(units[o].syms)
    BY TypedFacts DEF MergeTyped, MapsSound, Whole
  <2>2. CASE o # k
    BY <1>2, <2>1, <2>2
  <2>3. CASE o = k
    <3>1. DOMAIN maps[k].sec = 1..(i - 1)
      BY <1>6
    <3>2. \A s \in 1..(i - 1) : maps'[k].sec[s] \in DOMAIN secs'
      BY <1>2, <1>7, <2>1, <2>3, <3>1
    <3>3. maps'[k].sec[i] \in DOMAIN secs' /\ \A s \in 1..i : s \in 1..(i - 1) \/ s = i
      BY <1>1, <1>2, <1>7
    <3>4. \A s \in DOMAIN maps'[k].sec : maps'[k].sec[s] \in DOMAIN secs'
      BY <1>7, <3>2, <3>3
    <3>5. Len(maps'[k].sec) <= Len(units[k].secs) /\ ~ (o < k)
      BY <1>1, <1>7, <2>3, TypedFacts DEF In
    <3>6. /\ Len(maps'[k].base) = Len(maps'[k].sec)
          /\ Len(maps'[k].sym) <= Len(units[k].syms)
          /\ \A q \in DOMAIN maps'[k].sym : maps'[k].sym[q] \in DOMAIN syms
      BY <1>2, <1>7, <2>1, <2>3
    <3> QED
      BY <2>1, <2>3, <3>4, <3>5, <3>6
  <2> QED
    BY <2>2, <2>3
<1>9. PhaseSound'
  <2>1. /\ pc' = "sections" /\ k' = k /\ k > 1
        /\ Len(maps'[k].sec) = i' - 1 /\ maps'[k].sym = << >>
    BY <1>1, <1>2, <1>6, <1>7
  <2> QED
    BY <2>1 DEF PhaseSound
<1> QED
  BY <1>5, <1>8, <1>9 DEF MergeTyped

(* The steps from one loop to the next. *)
LEMMA ControlTyped ==
  ASSUME MergeTyped,
         \/ ReadObject \/ CannotRead \/ MergeDone \/ SectionsDone
         \/ MultipleDefinition \/ SymbolsDone \/ NextRelocSection \/ RelocsDone
         \/ UNCHANGED mergeVars
  PROVE  MergeTyped'
<1>1. CASE ReadObject
  <2>1. /\ pc = "read" /\ k < Len(units) /\ units[k + 1] # Unreadable
        /\ k' = k + 1 /\ pc' = "sections" /\ i' = 1
        /\ maps' = Append(maps, [sec |-> << >>, base |-> << >>, sym |-> << >>])
        /\ UNCHANGED <<units, r, secs, syms, err>>
    BY <1>1 DEF ReadObject
  <2>2. /\ units \in Seq(Objects \union {Unreadable}) /\ Len(units) \in Nat
        /\ k \in Nat \ {0} /\ k + 1 \in 1..Len(units)
    <3>1. units \in Seq(Objects \union {Unreadable}) /\ Len(units) \in Nat /\ k \in 1..Len(units)
      BY ScalarFacts
    <3> QED
      BY <2>1, <3>1
  <2>3. units[k + 1] \in Objects
    BY <2>1, <2>2, ElementOfSeq
  <2> DEFINE m == [sec |-> << >>, base |-> << >>, sym |-> << >>]
  <2>4. m \in Maps /\ Len(m.sec) = 0 /\ Len(m.base) = 0 /\ m.sym = << >>
        /\ DOMAIN m.sec = {} /\ DOMAIN m.sym = {} /\ Len(m.sym) = 0
    BY DEF Maps
  <2> HIDE DEF m
  <2>5. /\ maps' \in Seq(Maps) /\ Len(maps') = k + 1 /\ DOMAIN maps' = 1..(k + 1)
        /\ \A o \in 1..k : maps'[o] = maps[o]
        /\ maps'[k + 1] = m
    BY <2>1, <2>4, TypedFacts, AppendProperties DEF m
  <2>6. MergeTypeOK'
    <3>1. /\ units' \in Seq(Objects \union {Unreadable}) /\ units'[1] \in Objects
          /\ r' \in Nat \ {0} /\ [secs |-> secs', syms |-> syms'] \in Objects
          /\ err' \in {"none", "cannot read object", "multiple definition"}
      BY <2>1 DEF MergeTyped, MergeTypeOK
    <3>2. k' \in 1..Len(units') /\ i' \in Nat \ {0} /\ Len(maps') = k'
          /\ pc' \in {"read", "sections", "symbols", "relocs", "merged", "failed"}
      BY <2>1, <2>2, <2>5
    <3> QED
      BY <2>5, <3>1, <3>2 DEF MergeTypeOK, Maps
  <2>7. MapsSound'
    <3> SUFFICES ASSUME NEW o \in 1..(k + 1)
                 PROVE  /\ units[o] \in Objects
                        /\ Len(maps'[o].base) = Len(maps'[o].sec)
                        /\ Len(maps'[o].sec) <= Len(units[o].secs)
                        /\ Len(maps'[o].sym) <= Len(units[o].syms)
                        /\ \A s \in DOMAIN maps'[o].sec : maps'[o].sec[s] \in DOMAIN secs
                        /\ \A q \in DOMAIN maps'[o].sym : maps'[o].sym[q] \in DOMAIN syms
                        /\ o < k + 1 => /\ Len(maps'[o].sec) = Len(units[o].secs)
                                        /\ Len(maps'[o].sym) = Len(units[o].syms)
      BY <2>1, <2>5 DEF MapsSound, Whole
    <3>1. CASE o = k + 1
      <4>1. Len(units[o].secs) \in Nat /\ Len(units[o].syms) \in Nat
        BY <2>3, <3>1, ObjectFields
      <4> QED
        BY <2>2, <2>3, <2>4, <2>5, <3>1, <4>1
    <3>2. CASE o \in 1..k
      <4>1. Whole(o)
        BY <2>1, <2>2, <3>2, TypedFacts, SMTT(30) DEF MergeTyped, MapsSound, PhaseSound
      <4> QED
        BY <2>5, <3>2, <4>1, TypedFacts DEF MergeTyped, MapsSound, Whole
    <3> QED
      BY <2>2, <3>1, <3>2
  <2>8. PhaseSound'
    <3>1. /\ k' > 1 /\ Len(maps'[k'].sec) = i' - 1 /\ maps'[k'].sym = << >>
      BY <2>1, <2>2, <2>4, <2>5
    <3> QED
      BY <2>1, <3>1 DEF PhaseSound
  <2> QED
    BY <2>6, <2>7, <2>8 DEF MergeTyped
<1>2. CASE CannotRead
  BY <1>2 DEF CannotRead, Fail, MergeTyped, MergeTypeOK, MapsSound, PhaseSound, Whole
<1>3. CASE MergeDone
  BY <1>3 DEF MergeDone, MergeTyped, MergeTypeOK, MapsSound, PhaseSound, Whole
<1>4. CASE MultipleDefinition
  BY <1>4 DEF MultipleDefinition, Fail, MergeTyped, MergeTypeOK, MapsSound, PhaseSound, Whole
<1>5. CASE RelocsDone
  BY <1>5 DEF RelocsDone, MergeTyped, MergeTypeOK, MapsSound, PhaseSound, Whole
<1>6. CASE UNCHANGED mergeVars
  BY <1>6 DEF mergeVars, MergeTyped, MergeTypeOK, MapsSound, PhaseSound, Whole
<1>7. CASE SectionsDone
  <2>1. /\ pc = "sections" /\ i > Len(In.secs) /\ pc' = "symbols" /\ i' = 1
        /\ UNCHANGED <<units, k, r, secs, syms, maps, err>>
    BY <1>7 DEF SectionsDone
  <2>2. /\ Len(maps[k].sec) = i - 1 /\ maps[k].sym = << >> /\ i \in Nat
        /\ Len(maps[k].sec) <= Len(units[k].secs) /\ k > 1
    BY <2>1, ScalarFacts
  <2>3. Len(maps[k].sec) = Len(units[k].secs) /\ Len(maps[k].sym) = 0
    BY <2>1, <2>2, AtWork DEF In
  <2>4. PhaseSound'
    BY <2>1, <2>2, <2>3 DEF PhaseSound
  <2>5. MergeTypeOK'
    <3>1. i' \in Nat \ {0} /\ r' \in Nat \ {0}
      BY <2>1, ScalarFacts
    <3> QED
      BY <2>1, <3>1 DEF MergeTyped, MergeTypeOK
  <2>6. MapsSound'
    BY <2>1 DEF MergeTyped, MapsSound, Whole
  <2> QED
    BY <2>4, <2>5, <2>6 DEF MergeTyped
<1>8. CASE SymbolsDone
  <2>1. /\ pc = "symbols" /\ i > Len(In.syms) /\ pc' = "relocs" /\ i' = 1 /\ r' = 1
        /\ UNCHANGED <<units, k, secs, syms, maps, err>>
    BY <1>8 DEF SymbolsDone
  <2>2. /\ Len(maps[k].sec) = Len(units[k].secs) /\ Len(maps[k].sym) = i - 1 /\ i \in Nat
        /\ Len(maps[k].sym) <= Len(units[k].syms) /\ k > 1
    BY <2>1, ScalarFacts
  <2>3. Whole(k)
    BY <2>1, <2>2, AtWork DEF In, Whole
  <2>4. PhaseSound'
    BY <2>1, <2>2, <2>3 DEF PhaseSound, Whole
  <2>5. MergeTypeOK'
    <3>1. i' \in Nat \ {0} /\ r' \in Nat \ {0}
      BY <2>1, ScalarFacts
    <3> QED
      BY <2>1, <3>1 DEF MergeTyped, MergeTypeOK
  <2>6. MapsSound'
    BY <2>1 DEF MergeTyped, MapsSound, Whole
  <2> QED
    BY <2>4, <2>5, <2>6 DEF MergeTyped
<1>9. CASE NextRelocSection
  <2>1. /\ pc = "relocs" /\ i' = i + 1 /\ r' = 1 /\ i \in Nat \ {0}
        /\ UNCHANGED <<units, k, pc, secs, syms, maps, err>>
    BY <1>9 DEF NextRelocSection, MergeTyped, MergeTypeOK
  <2>2. i' \in Nat \ {0} /\ r' \in Nat \ {0}
    BY <2>1
  <2> QED
    BY <2>1, <2>2 DEF MergeTyped, MergeTypeOK, MapsSound, PhaseSound, Whole
<1> QED
  BY <1>1, <1>2, <1>3, <1>4, <1>5, <1>6, <1>7, <1>8, <1>9

LEMMA MergeTypedStep == MergeTyped /\ [MergeNext]_mergeVars => MergeTyped'
BY SymbolStepsTyped, MergeRelocTyped, MergeSectionTyped, ControlTyped DEF MergeNext

(* Link_Merge keeps its types: every pointer of the object being built     *)
(* points into it, whatever is merged in whatever order.                   *)
LEMMA MergeTypedInvariant == MergeSpec => []MergeTyped
BY MergeInitTyped, MergeTypedStep, PTL DEF MergeSpec

(* Theorem: every variable of Link_Merge has its type throughout a merge,  *)
(* and every section, symbol and relocation it holds points into the       *)
(* object being built (link.c:43-119).                                     *)
THEOREM MergeTypeCorrect == MergeSpec => []MergeTypeOK
<1>1. MergeTyped => MergeTypeOK
  BY DEF MergeTyped
<1> QED
  BY <1>1, MergeTypedInvariant, PTL

-----------------------------------------------------------------------------
(* Symbols.                                                                *)

(* Steps that are no concern of the symbols. *)
LEMMA SymbolsLeftAlone ==
  ASSUME [MergeNext]_mergeVars, ~ AddSymbol, ~ DefineGlobal
  PROVE  syms' = syms
BY DEF MergeNext, mergeVars, ReadObject, CannotRead, MergeDone, MergeSection, SectionsDone,
       ReferGlobal, MultipleDefinition, SymbolsDone, MergeReloc, CarryReloc,
       NextRelocSection, RelocsDone

LEMMA UnitsNeverChange == [MergeNext]_mergeVars => units' = units
BY DEF MergeNext, mergeVars, ReadObject, CannotRead, MergeDone, MergeSection, SectionsDone,
       AddSymbol, ReferGlobal, DefineGlobal, MapSymbol, MultipleDefinition, SymbolsDone,
       MergeReloc, CarryReloc, NextRelocSection, RelocsDone

(* What a step may do to the output's symbols, whatever step it is. *)
LEMMA SymbolsGrow ==
  ASSUME MergeTyped, [MergeNext]_mergeVars
  PROVE  /\ Len(syms) \in Nat /\ Len(syms') \in Nat /\ Len(syms) <= Len(syms')
         /\ DOMAIN syms = 1..Len(syms) /\ DOMAIN syms' = 1..Len(syms')
         /\ \A j \in 1..Len(syms) :
              /\ syms'[j].name = syms[j].name /\ syms'[j].bind = syms[j].bind
              /\ syms[j].sec # 0 => syms'[j] = syms[j]
<1>1. CASE AddSymbol
  BY <1>1, AddSymbolEffect, TypedFacts
<1>2. CASE DefineGlobal
  BY <1>2, DefineGlobalEffect, TypedFacts
<1>3. CASE ~ AddSymbol /\ ~ DefineGlobal
  BY <1>3, SymbolsLeftAlone, TypedFacts
<1> QED
  BY <1>1, <1>2, <1>3

(* Theorem: a symbol of the output keeps index, name and binding, and its  *)
(* place once it has one, so that a relocation carried over before still   *)
(* means what it meant (link.c:73-104).                                    *)
THEOREM DefinitionsAreStable == MergeSpec => DefinitionsStable
<1>1. MergeTyped /\ [MergeNext]_mergeVars =>
        [\A j \in DOMAIN syms :
           /\ j \in DOMAIN syms'
           /\ syms'[j].name = syms[j].name /\ syms'[j].bind = syms[j].bind
           /\ syms[j].sec # 0 => syms'[j] = syms[j]]_mergeVars
  <2> SUFFICES ASSUME MergeTyped, [MergeNext]_mergeVars, NEW j \in DOMAIN syms
               PROVE  /\ j \in DOMAIN syms'
                      /\ syms'[j].name = syms[j].name /\ syms'[j].bind = syms[j].bind
                      /\ syms[j].sec # 0 => syms'[j] = syms[j]
    OBVIOUS
  <2> QED
    BY SymbolsGrow
<1> QED
  BY <1>1, MergeTypedInvariant, PTL DEF MergeSpec, DefinitionsStable

LEMMA UniqueStep ==
  ASSUME MergeTyped, [MergeNext]_mergeVars, UniqueGlobals(syms)
  PROVE  UniqueGlobals(syms')
<1>1. CASE AddSymbol
  <2>1. /\ Len(syms) \in Nat /\ DOMAIN syms = 1..Len(syms) /\ DOMAIN syms' = 1..(Len(syms) + 1)
        /\ \A j \in 1..Len(syms) : syms'[j] = syms[j]
        /\ syms'[Len(syms) + 1].name = InSym.name /\ syms'[Len(syms) + 1].bind = InSym.bind
    BY <1>1, AddSymbolEffect, MovedIsSymbol, TypedFacts DEF AddSymbol
  <2>2. InSym.bind # "LOCAL" =>
          \A j \in 1..Len(syms) : ~ (syms[j].bind # "LOCAL" /\ syms[j].name = InSym.name)
    BY <1>1, <2>1, ExistingIsGlobal DEF AddSymbol
  <2> SUFFICES ASSUME NEW a \in 1..(Len(syms) + 1), NEW b \in 1..(Len(syms) + 1),
                      syms'[a].bind # "LOCAL", syms'[b].bind # "LOCAL",
                      syms'[a].name = syms'[b].name
               PROVE  a = b
    BY <2>1 DEF UniqueGlobals
  <2>3. CASE a \in 1..Len(syms) /\ b \in 1..Len(syms)
    BY <2>1, <2>3 DEF UniqueGlobals
  <2>4. CASE a \in 1..Len(syms) /\ b = Len(syms) + 1
    BY <2>1, <2>2, <2>4
  <2>5. CASE a = Len(syms) + 1 /\ b \in 1..Len(syms)
    BY <2>1, <2>2, <2>5
  <2>6. a \in 1..Len(syms) \/ a = Len(syms) + 1
    BY <2>1
  <2>7. b \in 1..Len(syms) \/ b = Len(syms) + 1
    BY <2>1
  <2> QED
    BY <2>3, <2>4, <2>5, <2>6, <2>7
<1>2. CASE DefineGlobal
  <2>1. DOMAIN syms' = DOMAIN syms
    BY <1>2, DefineGlobalEffect, TypedFacts
  <2>2. \A j \in DOMAIN syms : syms'[j].name = syms[j].name /\ syms'[j].bind = syms[j].bind
    BY SymbolsGrow
  <2> QED
    BY <2>1, <2>2 DEF UniqueGlobals
<1>3. CASE ~ AddSymbol /\ ~ DefineGlobal
  BY <1>3, SymbolsLeftAlone
<1> QED
  BY <1>1, <1>2, <1>3

(* Theorem: a global name is one symbol of the output, in whatever order   *)
(* objects define or mention it (Link_FindGlobal, link.c:36).              *)
THEOREM GlobalsAreUnique == MergeSpec => []GlobalsUnique
<1>1. MergeInit => GlobalsUnique
  BY DEF MergeInit, GlobalsUnique
<1>2. MergeTyped /\ GlobalsUnique /\ [MergeNext]_mergeVars => GlobalsUnique'
  <2> SUFFICES ASSUME MergeTyped, GlobalsUnique, [MergeNext]_mergeVars,
                      UniqueGlobals(units'[1].syms)
               PROVE  UniqueGlobals(syms')
    BY DEF GlobalsUnique
  <2>1. UniqueGlobals(syms)
    BY UnitsNeverChange DEF GlobalsUnique
  <2> QED
    BY <2>1, UniqueStep
<1> QED
  BY <1>1, <1>2, MergeTypedInvariant, PTL DEF MergeSpec

-----------------------------------------------------------------------------
(* Contents.                                                               *)

(* Section s of object o stands whole in its section of the output.        *)
PieceKept(o, s) ==
  LET d    == maps[o].sec[s]
      b    == maps[o].base[s]
      data == units[o].secs[s].data
  IN /\ b + Len(data) <= Len(secs[d].data)
     /\ \A j \in 1..Len(data) : secs[d].data[b + j] = data[j]

PieceAligned(o, s) ==
  LET align == units[o].secs[s].align
  IN o # 1 /\ align > 1 =>
       maps[o].base[s] % align = 0 /\ secs[maps[o].sec[s]].align >= align

PiecesApart(o, s, o2, s2) ==
  maps[o].sec[s] = maps[o2].sec[s2] =>
    \/ maps[o].base[s] + Len(units[o].secs[s].data) <= maps[o2].base[s2]
    \/ maps[o2].base[s2] + Len(units[o2].secs[s2].data) <= maps[o].base[s]

Mapped(o, s) == o \in DOMAIN maps /\ s \in DOMAIN maps[o].sec

(* That every piece stands whole is what makes the next one fall behind    *)
(* all those there are.                                                    *)
ContentsInv ==
  /\ \A o, s : Mapped(o, s) => PieceKept(o, s) /\ PieceAligned(o, s)
  /\ \A o, s, o2, s2 :
       Mapped(o, s) /\ Mapped(o2, s2) /\ (o # o2 \/ s # s2) => PiecesApart(o, s, o2, s2)

LEMMA MappedFacts ==
  ASSUME MergeTyped, NEW o, NEW s, Mapped(o, s)
  PROVE  /\ o \in 1..k /\ units[o] \in Objects /\ s \in DOMAIN units[o].secs
         /\ units[o].secs[s] \in Section(Names)
         /\ units[o].secs[s].data \in Seq(Seq(Nat)) /\ Len(units[o].secs[s].data) \in Nat
         /\ units[o].secs[s].align \in Nat
         /\ maps[o].sec[s] \in DOMAIN secs /\ maps[o].base[s] \in Nat
         /\ s \in 1..Len(maps[o].sec)
<1>1. o \in 1..k /\ o \in DOMAIN maps /\ maps[o] \in Maps /\ s \in DOMAIN maps[o].sec
  BY TypedFacts DEF Mapped
<1>2. /\ units[o] \in Objects /\ Len(maps[o].base) = Len(maps[o].sec)
      /\ Len(maps[o].sec) <= Len(units[o].secs)
      /\ maps[o].sec[s] \in DOMAIN secs
  BY <1>1 DEF MergeTyped, MapsSound
<1>3. maps[o].sec \in Seq(Nat) /\ maps[o].base \in Seq(Nat)
  BY <1>1 DEF Maps
<1>4. s \in 1..Len(maps[o].sec) /\ maps[o].base[s] \in Nat
  <2>1. s \in 1..Len(maps[o].sec) /\ s \in 1..Len(maps[o].base)
    BY <1>1, <1>2, <1>3
  <2> QED
    BY <1>3, <2>1, ElementOfSeq
<1>5. units[o].secs \in Seq(Section(Names)) /\ s \in 1..Len(units[o].secs)
  BY <1>2, <1>3, <1>4, ObjectFields
<1>6. units[o].secs[s] \in Section(Names)
  BY <1>5, ElementOfSeq
<1>7. units[o].secs[s].data \in Seq(Seq(Nat)) /\ units[o].secs[s].align \in Nat
  BY <1>6 DEF Section
<1> QED
  BY <1>1, <1>2, <1>4, <1>5, <1>6, <1>7, SMTT(30)

LEMMA ContentsInitially == MergeInit => ContentsInv
<1> SUFFICES ASSUME MergeInit PROVE ContentsInv
  OBVIOUS
<1>1. /\ secs = units[1].secs /\ maps = <<Identity(units[1])>>
  BY DEF MergeInit
<1>2. MergeTyped
  BY MergeInitTyped
<1>3. ASSUME NEW o, NEW s, Mapped(o, s)
      PROVE  o = 1 /\ maps[o].sec[s] = s /\ maps[o].base[s] = 0 /\ s \in DOMAIN units[1].secs
  <2>1. o = 1 /\ s \in DOMAIN maps[1].sec /\ maps[1] = Identity(units[1])
    BY <1>1, <1>3 DEF Mapped
  <2> QED
    BY <2>1 DEF Identity
<1>4. ASSUME NEW o, NEW s, Mapped(o, s)
      PROVE  PieceKept(o, s) /\ PieceAligned(o, s)
  <2>1. o = 1 /\ maps[o].sec[s] = s /\ maps[o].base[s] = 0 /\ secs[s] = units[1].secs[s]
    BY <1>1, <1>3, <1>4
  <2>2. Len(units[1].secs[s].data) \in Nat
    BY <1>2, <1>4, <2>1, MappedFacts
  <2> QED
    BY <2>1, <2>2 DEF PieceKept, PieceAligned
<1>5. ASSUME NEW o, NEW s, NEW o2, NEW s2, Mapped(o, s), Mapped(o2, s2), o # o2 \/ s # s2
      PROVE  PiecesApart(o, s, o2, s2)
  <2>1. o = 1 /\ maps[o].sec[s] = s
    BY <1>3, <1>5
  <2>2. o2 = 1 /\ maps[o2].sec[s2] = s2
    BY <1>3, <1>5
  <2> QED
    BY <1>5, <2>1, <2>2 DEF PiecesApart
<1> QED
  BY <1>4, <1>5 DEF ContentsInv

(* A step that adds no piece and changes no byte. *)
LEMMA ContentsLeftAlone ==
  ASSUME MergeTyped, ContentsInv, units' = units,
         \A e \in DOMAIN secs : secs'[e].data = secs[e].data /\ secs'[e].align = secs[e].align,
         \A o, s : Mapped(o, s)' =>
           Mapped(o, s) /\ maps'[o].sec[s] = maps[o].sec[s] /\ maps'[o].base[s] = maps[o].base[s]
  PROVE  ContentsInv'
<1>1. ASSUME NEW o, NEW s, Mapped(o, s)'
      PROVE  (PieceKept(o, s) /\ PieceAligned(o, s))'
  <2>1. Mapped(o, s) /\ maps'[o].sec[s] = maps[o].sec[s] /\ maps'[o].base[s] = maps[o].base[s]
    BY <1>1
  <2>2. /\ secs'[maps[o].sec[s]].data = secs[maps[o].sec[s]].data
        /\ secs'[maps[o].sec[s]].align = secs[maps[o].sec[s]].align
    BY <2>1, MappedFacts
  <2>3. PieceKept(o, s) /\ PieceAligned(o, s)
    BY <2>1 DEF ContentsInv
  <2> QED
    BY <2>1, <2>2, <2>3 DEF PieceKept, PieceAligned
<1>2. ASSUME NEW o, NEW s, NEW o2, NEW s2, Mapped(o, s)', Mapped(o2, s2)', o # o2 \/ s # s2
      PROVE  PiecesApart(o, s, o2, s2)'
  <2>1. Mapped(o, s) /\ maps'[o].sec[s] = maps[o].sec[s] /\ maps'[o].base[s] = maps[o].base[s]
    BY <1>2
  <2>2. Mapped(o2, s2) /\ maps'[o2].sec[s2] = maps[o2].sec[s2] /\ maps'[o2].base[s2] = maps[o2].base[s2]
    BY <1>2
  <2>3. PiecesApart(o, s, o2, s2)
    BY <1>2, <2>1, <2>2 DEF ContentsInv
  <2> QED
    BY <2>1, <2>2, <2>3 DEF PiecesApart
<1> QED
  BY <1>1, <1>2 DEF ContentsInv

(* The pieces after MergeSection: those there were, and the one appended.  *)
LEMMA OnePieceMore ==
  ASSUME MergeTyped, MergeSection, NEW o, NEW s, Mapped(o, s)'
  PROVE  \/ /\ o = k /\ s = i
            /\ maps'[o].sec[s] = Into /\ maps'[o].base[s] = Len(Room)
         \/ /\ Mapped(o, s) /\ (o # k \/ s # i)
            /\ maps'[o].sec[s] = maps[o].sec[s] /\ maps'[o].base[s] = maps[o].base[s]
<1>1. /\ DOMAIN maps' = 1..k /\ DOMAIN maps = 1..k
      /\ \A x \in 1..k : x # k => maps'[x] = maps[x]
      /\ maps'[k].sec = Append(maps[k].sec, Into)
      /\ maps'[k].base = Append(maps[k].base, Len(Room))
      /\ Into \in Nat /\ Len(Room) \in Nat
  <2>1. Into \in DOMAIN secs' /\ secs' \in Seq(Section(Names)) /\ Room \in Seq(Seq(Nat))
    BY MergeSectionEffect
  <2>2. Into \in Nat /\ Len(Room) \in Nat
    BY <2>1
  <2>3. maps'[k] = [sec  |-> Append(maps[k].sec, Into),
                    base |-> Append(maps[k].base, Len(Room)),
                    sym  |-> maps[k].sym]
    BY MergeSectionEffect
  <2>4. /\ DOMAIN maps' = 1..k /\ DOMAIN maps = 1..k
        /\ \A x \in 1..k : x # k => maps'[x] = maps[x]
    BY MergeSectionEffect, TypedFacts
  <2> QED
    BY <2>2, <2>3, <2>4
<1>2. /\ maps[k].sec \in Seq(Nat) /\ maps[k].base \in Seq(Nat)
      /\ Len(maps[k].sec) = i - 1 /\ Len(maps[k].base) = i - 1 /\ i \in Nat \ {0}
  BY AtWork, ScalarFacts DEF MergeSection
<1>3. /\ DOMAIN maps'[k].sec = 1..i /\ DOMAIN maps[k].sec = 1..(i - 1)
      /\ \A x \in 1..(i - 1) : maps'[k].sec[x] = maps[k].sec[x] /\ maps'[k].base[x] = maps[k].base[x]
      /\ maps'[k].sec[i] = Into /\ maps'[k].base[i] = Len(Room)
  <2> DEFINE a == maps[k].sec
             b == maps[k].base
             x1 == Into
             x2 == Len(Room)
  <2>1. a \in Seq(Nat) /\ b \in Seq(Nat) /\ Len(a) = i - 1 /\ Len(b) = i - 1
        /\ x1 \in Nat /\ x2 \in Nat /\ maps'[k].sec = Append(a, x1) /\ maps'[k].base = Append(b, x2)
    BY <1>1, <1>2
  <2> HIDE DEF a, b, x1, x2
  <2>2. /\ Append(a, x1) \in Seq(Nat) /\ Len(Append(a, x1)) = i /\ DOMAIN a = 1..(i - 1)
        /\ \A x \in 1..(i - 1) : Append(a, x1)[x] = a[x]
        /\ Append(a, x1)[i] = x1
    BY <1>2, <2>1, AppendProperties
  <2>3. /\ \A x \in 1..(i - 1) : Append(b, x2)[x] = b[x]
        /\ Append(b, x2)[i] = x2
    BY <1>2, <2>1, AppendProperties
  <2>4. DOMAIN Append(a, x1) = 1..i
    BY <2>2
  <2> QED
    BY <2>1, <2>2, <2>3, <2>4 DEF a, b, x1, x2
<1>4. CASE o # k
  BY <1>1, <1>4 DEF Mapped
<1>5. CASE o = k
  <2>1. s \in 1..i
    BY <1>3, <1>5 DEF Mapped
  <2>2. CASE s = i
    BY <1>3, <1>5, <2>2
  <2>3. CASE s \in 1..(i - 1)
    <3>1. Mapped(o, s)
      BY <1>1, <1>3, <1>5, <2>3 DEF Mapped
    <3>2. s # i
      BY <1>2, <2>3
    <3> QED
      BY <1>3, <1>5, <2>3, <3>1, <3>2
  <2> QED
    BY <1>2, <2>1, <2>2, <2>3
<1> QED
  BY <1>4, <1>5

(* Appending a section leaves the pieces before it where they are, and     *)
(* puts the new one behind all of them.                                    *)
LEMMA MergeSectionContents ==
  ASSUME MergeTyped, ContentsInv, MergeSection
  PROVE  ContentsInv'
<1>1. /\ units' = units /\ InSec = units[k].secs[i] /\ InSec \in Section(Names)
      /\ InSec.data \in Seq(Seq(Nat)) /\ Len(InSec.data) \in Nat
      /\ Room \in Seq(Seq(Nat)) /\ Len(Room) \in Nat
      /\ InSec.align \in Nat
  <2>1. InSec \in Section(Names) /\ Room \in Seq(Seq(Nat)) /\ units' = units
    BY MergeSectionEffect DEF MergeSection
  <2>2. InSec.data \in Seq(Seq(Nat)) /\ InSec.align \in Nat
    BY <2>1 DEF Section
  <2> QED
    BY <2>1, <2>2 DEF InSec, In
<1>2. /\ Len(Room \o InSec.data) = Len(Room) + Len(InSec.data)
      /\ \A x \in 1..(Len(Room) + Len(InSec.data)) :
           (Room \o InSec.data)[x] = IF x <= Len(Room) THEN Room[x] ELSE InSec.data[x - Len(Room)]
  BY <1>1, ConcatProperties
<1>3. ASSUME NEW o, NEW s, Mapped(o, s)
      PROVE  LET d == maps[o].sec[s] IN
             /\ d \in DOMAIN secs
             /\ Len(secs[d].data) \in Nat /\ Len(secs'[d].data) \in Nat
             /\ Len(secs[d].data) <= Len(secs'[d].data)
             /\ \A x \in 1..Len(secs[d].data) : secs'[d].data[x] = secs[d].data[x]
             /\ secs[d].align \in Nat /\ secs'[d].align \in Nat /\ secs'[d].align >= secs[d].align
             /\ d = Into => Len(secs[d].data) <= Len(Room)
  <2> DEFINE d == maps[o].sec[s]
  <2>1. d \in DOMAIN secs /\ d \in DOMAIN secs'
    BY <1>3, MappedFacts, MergeSectionEffect
  <2>0. secs \in Seq(Section(Names)) /\ secs' \in Seq(Section(Names))
    BY MergeSectionEffect, TypedFacts
  <2>2. secs[d] \in Section(Names) /\ secs'[d] \in Section(Names)
    <3> HIDE DEF d
    <3>1. d \in 1..Len(secs) /\ d \in 1..Len(secs')
      BY <2>0, <2>1
    <3> QED
      BY <2>0, <3>1, ElementOfSeq
  <2>3. /\ secs[d].data \in Seq(Seq(Nat)) /\ Len(secs[d].data) \in Nat
        /\ secs'[d].data \in Seq(Seq(Nat)) /\ Len(secs'[d].data) \in Nat
        /\ secs[d].align \in Nat /\ secs'[d].align \in Nat
    <3> DEFINE x == secs[d]
               y == secs'[d]
    <3>1. x \in Section(Names) /\ y \in Section(Names)
      BY <2>2
    <3> HIDE DEF x, y
    <3>2. /\ x.data \in Seq(Seq(Nat)) /\ x.align \in Nat
          /\ y.data \in Seq(Seq(Nat)) /\ y.align \in Nat
      BY <3>1 DEF Section
    <3>3. Len(x.data) \in Nat /\ Len(y.data) \in Nat
      BY <3>2
    <3> QED
      BY <3>2, <3>3 DEF x, y
  <2> HIDE DEF d
  <2>4. CASE d # Into
    <3>1. secs'[d] = secs[d]
      BY <2>1, <2>4, MergeSectionEffect
    <3> QED
      BY <2>1, <2>3, <2>4, <3>1 DEF d
  <2>5. CASE d = Into
    <3>1. /\ Len(Room) >= Len(secs[d].data)
          /\ \A x \in 1..Len(secs[d].data) : Room[x] = secs[d].data[x]
          /\ secs'[d].align >= secs[d].align
          /\ secs'[d].data = Room \o InSec.data
      BY <2>1, <2>5, MergeSectionEffect
    <3>2. \A x \in 1..Len(secs[d].data) : secs'[d].data[x] = secs[d].data[x]
      BY <1>1, <1>2, <2>3, <3>1
    <3>3. Len(secs[d].data) <= Len(secs'[d].data)
      <4>1. Len(secs'[d].data) = Len(Room) + Len(InSec.data)
        BY <1>2, <3>1
      <4>2. Len(Room) \in Nat /\ Len(InSec.data) \in Nat /\ Len(secs[d].data) \in Nat
        BY <1>1, <2>3
      <4> QED
        BY <3>1, <4>1, <4>2
    <3> QED
      BY <2>1, <2>3, <2>5, <3>1, <3>2, <3>3 DEF d
  <2> QED
    BY <2>4, <2>5
<1>4. ASSUME NEW o, NEW s, Mapped(o, s)'
      PROVE  (PieceKept(o, s) /\ PieceAligned(o, s))'
  <2>1. CASE /\ o = k /\ s = i
             /\ maps'[o].sec[s] = Into /\ maps'[o].base[s] = Len(Room)
    <3>1. units'[o].secs[s] = InSec
      BY <1>1, <2>1
    <3>2. secs'[Into].data = Room \o InSec.data /\ secs'[Into].align >= InSec.align
      BY MergeSectionEffect
    <3>3. \A j \in 1..Len(InSec.data) : (Room \o InSec.data)[Len(Room) + j] = InSec.data[j]
      BY <1>1, <1>2
    <3>4. PieceKept(o, s)'
      BY <1>1, <1>2, <2>1, <3>1, <3>2, <3>3 DEF PieceKept
    <3>5. PieceAligned(o, s)'
      BY <2>1, <3>1, <3>2, MergeSectionEffect DEF PieceAligned
    <3> QED
      BY <3>4, <3>5
  <2>2. CASE /\ Mapped(o, s)
             /\ maps'[o].sec[s] = maps[o].sec[s] /\ maps'[o].base[s] = maps[o].base[s]
    <3> DEFINE d == maps[o].sec[s]
               b == maps[o].base[s]
               data == units[o].secs[s].data
               align == units[o].secs[s].align
    <3>1. /\ b + Len(data) <= Len(secs[d].data)
          /\ \A j \in 1..Len(data) : secs[d].data[b + j] = data[j]
          /\ o # 1 /\ align > 1 => b % align = 0 /\ secs[d].align >= align
      BY <2>2 DEF ContentsInv, PieceKept, PieceAligned
    <3>2. b \in Nat /\ Len(data) \in Nat /\ align \in Nat
      BY <2>2, MappedFacts
    <3>3. /\ Len(secs[d].data) \in Nat /\ Len(secs'[d].data) \in Nat
          /\ Len(secs[d].data) <= Len(secs'[d].data)
          /\ \A x \in 1..Len(secs[d].data) : secs'[d].data[x] = secs[d].data[x]
          /\ secs[d].align \in Nat /\ secs'[d].align \in Nat /\ secs'[d].align >= secs[d].align
      BY <1>3, <2>2
    <3> HIDE DEF d, b, data, align
    <3>4. b + Len(data) <= Len(secs'[d].data)
      BY <3>1, <3>2, <3>3
    <3>5. ASSUME NEW j \in 1..Len(data)
          PROVE  secs'[d].data[b + j] = data[j]
      <4>1. b + j \in 1..Len(secs[d].data)
        BY <3>1, <3>2, <3>3
      <4> QED
        BY <3>1, <3>3, <4>1
    <3>6. o # 1 /\ align > 1 => b % align = 0 /\ secs'[d].align >= align
      BY <3>1, <3>2, <3>3
    <3> QED
      BY <1>1, <2>2, <3>4, <3>5, <3>6 DEF PieceKept, PieceAligned, d, b, data, align
  <2> QED
    BY <1>4, <2>1, <2>2, OnePieceMore
<1>5. ASSUME NEW o, NEW s, Mapped(o, s), maps[o].sec[s] = Into
      PROVE  maps[o].base[s] + Len(units[o].secs[s].data) <= Len(Room)
  <2>1. maps[o].base[s] + Len(units[o].secs[s].data) <= Len(secs[Into].data)
    BY <1>5 DEF ContentsInv, PieceKept
  <2>2. Len(secs[Into].data) <= Len(Room) /\ Len(secs[Into].data) \in Nat
    BY <1>3, <1>5
  <2>3. maps[o].base[s] \in Nat /\ Len(units[o].secs[s].data) \in Nat
    BY <1>5, MappedFacts
  <2>4. Len(Room) \in Nat
    BY <1>1
  <2> DEFINE x == maps[o].base[s]
             y == Len(units[o].secs[s].data)
             z == Len(secs[Into].data)
             w == Len(Room)
  <2>5. x + y <= z /\ z <= w /\ x \in Nat /\ y \in Nat /\ z \in Nat /\ w \in Nat
    BY <2>1, <2>2, <2>3, <2>4
  <2>6. x + y <= w
    <3> HIDE DEF x, y, z, w
    <3> QED
      BY <2>5
  <2> QED
    BY <2>6
<1>6. ASSUME NEW o, NEW s, NEW o2, NEW s2, Mapped(o, s)', Mapped(o2, s2)', o # o2 \/ s # s2
      PROVE  PiecesApart(o, s, o2, s2)'
  <2> DEFINE Added(x, y) == /\ x = k /\ y = i
                            /\ maps'[x].sec[y] = Into /\ maps'[x].base[y] = Len(Room)
             Kept(x, y) == /\ Mapped(x, y)
                           /\ maps'[x].sec[y] = maps[x].sec[y] /\ maps'[x].base[y] = maps[x].base[y]
  <2>1. Added(o, s) \/ Kept(o, s)
    BY <1>6, OnePieceMore
  <2>2. Added(o2, s2) \/ Kept(o2, s2)
    BY <1>6, OnePieceMore
  <2>3. CASE Kept(o, s) /\ Kept(o2, s2)
    <3>1. PiecesApart(o, s, o2, s2)
      BY <1>6, <2>3 DEF ContentsInv
    <3> QED
      BY <1>1, <2>3, <3>1 DEF PiecesApart
  <2>4. CASE Added(o, s) /\ Kept(o2, s2)
    BY <1>1, <1>5, <2>4 DEF PiecesApart
  <2>5. CASE Kept(o, s) /\ Added(o2, s2)
    BY <1>1, <1>5, <2>5 DEF PiecesApart
  <2> QED
    BY <1>6, <2>1, <2>2, <2>3, <2>4, <2>5
<1> QED
  BY <1>4, <1>6 DEF ContentsInv

(* Reading the next object adds empty maps for it, and nothing else.       *)
LEMMA ReadObjectEffect ==
  ASSUME MergeTyped, ReadObject
  PROVE  /\ pc = "read" /\ pc' = "sections" /\ k' = k + 1 /\ i' = 1 /\ k \in Nat \ {0}
         /\ UNCHANGED <<units, r, secs, syms, err>>
         /\ DOMAIN maps = 1..k /\ DOMAIN maps' = 1..(k + 1)
         /\ \A o \in 1..k : maps'[o] = maps[o]
         /\ maps'[k + 1] = [sec |-> << >>, base |-> << >>, sym |-> << >>]
<1> DEFINE m == [sec |-> << >>, base |-> << >>, sym |-> << >>]
<1>1. maps' = Append(maps, m) /\ m \in Maps
  BY DEF ReadObject, Maps
<1> HIDE DEF m
<1>2. maps \in Seq(Maps) /\ Len(maps) = k /\ k \in Nat \ {0} /\ DOMAIN maps = 1..k
  BY TypedFacts
<1>3. /\ Append(maps, m) \in Seq(Maps) /\ Len(Append(maps, m)) = k + 1
      /\ \A o \in 1..k : Append(maps, m)[o] = maps[o]
      /\ Append(maps, m)[k + 1] = m
  BY <1>1, <1>2, AppendProperties
<1>4. DOMAIN maps' = 1..(k + 1)
  BY <1>1, <1>3
<1> QED
  BY <1>1, <1>2, <1>3, <1>4 DEF m, ReadObject

(* Steps that only move the loops on. *)
Moves == \/ CannotRead \/ MergeDone \/ SectionsDone \/ MultipleDefinition
         \/ SymbolsDone \/ NextRelocSection \/ RelocsDone \/ UNCHANGED mergeVars

LEMMA MovesKeep ==
  ASSUME Moves
  PROVE  UNCHANGED <<units, k, secs, syms, maps>>
BY DEF Moves, mergeVars, CannotRead, MergeDone, SectionsDone, MultipleDefinition, SymbolsDone,
       NextRelocSection, RelocsDone

(* Each step is one of these. *)
LEMMA StepKinds ==
  ASSUME [MergeNext]_mergeVars
  PROVE  \/ ReadObject \/ MergeSection \/ AddSymbol \/ ReferGlobal \/ DefineGlobal
         \/ MergeReloc \/ Moves
BY DEF MergeNext, Moves

(* The symbol loop leaves the places of sections alone. *)
LEMMA SymbolStepEffect ==
  ASSUME MergeTyped, AddSymbol \/ ReferGlobal \/ DefineGlobal
  PROVE  /\ AtSymbol /\ k' = k /\ units' = units /\ secs' = secs
         /\ DOMAIN maps = 1..k /\ DOMAIN maps' = 1..k
         /\ \A o \in 1..k : maps'[o].sec = maps[o].sec /\ maps'[o].base = maps[o].base
<1>1. PICK j \in Nat : MapSymbol(j)
  <2>1. CASE AddSymbol
    BY <2>1, AddSymbolEffect
  <2>2. CASE ReferGlobal
    <3>1. MapSymbol(Existing) /\ Existing \in 0..Len(syms) /\ Len(syms) \in Nat
      BY <2>2, ExistingIsGlobal, TypedFacts DEF ReferGlobal
    <3> QED
      BY <3>1
  <2>3. CASE DefineGlobal
    <3>1. MapSymbol(Existing) /\ Existing \in 1..Len(syms)
      BY <2>3, DefineGlobalEffect
    <3> QED
      BY <3>1
  <2> QED
    BY <2>1, <2>2, <2>3
<1>2. AtSymbol
  BY DEF AddSymbol, ReferGlobal, DefineGlobal
<1> QED
  BY <1>1, <1>2, MapSymbolEffect, TypedFacts

LEMMA ContentsStep ==
  ASSUME MergeTyped, ContentsInv, [MergeNext]_mergeVars
  PROVE  ContentsInv'
<1>1. CASE MergeSection
  BY <1>1, MergeSectionContents
<1>2. CASE ReadObject
  <2>1. ASSUME NEW o, NEW s, Mapped(o, s)'
        PROVE  Mapped(o, s) /\ maps'[o].sec[s] = maps[o].sec[s] /\ maps'[o].base[s] = maps[o].base[s]
    <3>1. o \in 1..(k + 1) /\ s \in DOMAIN maps'[o].sec
      BY <1>2, <2>1, ReadObjectEffect DEF Mapped
    <3>2. o # k + 1
      <4>1. maps'[k + 1].sec = << >>
        BY <1>2, ReadObjectEffect
      <4> QED
        BY <3>1, <4>1
    <3>3. o \in 1..k
      BY <1>2, <3>1, <3>2, ReadObjectEffect
    <3>4. maps'[o] = maps[o] /\ o \in DOMAIN maps
      BY <1>2, <3>3, ReadObjectEffect
    <3> QED
      BY <3>1, <3>4 DEF Mapped
  <2> QED
    BY <1>2, <2>1, ReadObjectEffect, ContentsLeftAlone
<1>3. CASE AddSymbol \/ ReferGlobal \/ DefineGlobal
  <2>1. ASSUME NEW o, NEW s, Mapped(o, s)'
        PROVE  Mapped(o, s) /\ maps'[o].sec[s] = maps[o].sec[s] /\ maps'[o].base[s] = maps[o].base[s]
    BY <1>3, <2>1, SymbolStepEffect DEF Mapped
  <2> QED
    BY <1>3, <2>1, SymbolStepEffect, ContentsLeftAlone
<1>4. CASE MergeReloc
  <2>1. units' = units /\ maps' = maps
    BY <1>4 DEF MergeReloc, CarryReloc
  <2>2. \A e \in DOMAIN secs : secs'[e].data = secs[e].data /\ secs'[e].align = secs[e].align
    BY <1>4, MergeRelocEffect, TypedFacts
  <2> QED
    BY <2>1, <2>2, ContentsLeftAlone DEF Mapped
<1>5. CASE Moves
  <2>1. UNCHANGED <<units, secs, maps>>
    BY <1>5, MovesKeep
  <2> QED
    BY <2>1, ContentsLeftAlone DEF Mapped
<1> QED
  BY <1>1, <1>2, <1>3, <1>4, <1>5, StepKinds

LEMMA KeptIsSubSeq ==
  ASSUME NEW a \in Seq(Seq(Nat)), NEW data \in Seq(Seq(Nat)), NEW b \in Nat,
         b + Len(data) <= Len(a), \A j \in 1..Len(data) : a[b + j] = data[j]
  PROVE  SubSeq(a, b + 1, b + Len(data)) = data
<1> DEFINE m == b + 1
           n == b + Len(data)
           w == SubSeq(a, m, n)
<1>1. Len(data) \in Nat /\ Len(a) \in Nat /\ m \in Int /\ n \in Int
  OBVIOUS
<1>2. \A x \in m..n : a[x] \in Seq(Nat)
  BY <1>1
<1> HIDE DEF w
<1>3. /\ w \in Seq(Seq(Nat)) /\ Len(w) = IF m <= n THEN n - m + 1 ELSE 0
      /\ \A x \in 1..(n - m + 1) : w[x] = a[m + x - 1]
  <2> HIDE DEF m, n
  <2> QED
    BY <1>1, <1>2, SubSeqProperties DEF w
<1>4. Len(w) = Len(data) /\ n - m + 1 = Len(data)
  BY <1>1, <1>3
<1>5. \A x \in 1..Len(data) : w[x] = data[x]
  <2> TAKE x \in 1..Len(data)
  <2>1. w[x] = a[m + x - 1]
    BY <1>3, <1>4
  <2>2. m + x - 1 = b + x
    BY <1>1
  <2> QED
    BY <2>1, <2>2
<1>6. w = data
  BY <1>3, <1>4, <1>5, SeqEqual
<1> QED
  BY <1>6 DEF w

(* Theorem: once merged, a section's bytes stand for good at their base in *)
(* the output, aligned as the section asked, and no other section's bytes  *)
(* touch them (Link_Merge's first phase, link.c:59-71).                    *)
THEOREM ContentsAreKept == MergeSpec => []ContentsKept
<1>1. MergeTyped /\ ContentsInv => ContentsKept
  <2> SUFFICES ASSUME MergeTyped, ContentsInv, NEW p \in Settled
               PROVE  /\ SubSeq(secs[OutOf(p)].data, BaseOf(p) + 1, BaseOf(p) + Len(DataOf(p))) = DataOf(p)
                      /\ LET align == units[p[1]].secs[p[2]].align IN
                           p[1] # 1 /\ align > 1 =>
                             BaseOf(p) % align = 0 /\ secs[OutOf(p)].align >= align
                      /\ \A q \in Settled :
                           p # q /\ OutOf(p) = OutOf(q) =>
                             \/ BaseOf(p) + Len(DataOf(p)) <= BaseOf(q)
                             \/ BaseOf(q) + Len(DataOf(q)) <= BaseOf(p)
    BY DEF ContentsKept
  <2>1. \A q \in Settled : Mapped(q[1], q[2]) /\ q = <<q[1], q[2]>>
    BY DEF Settled, Mapped
  <2>2. SubSeq(secs[OutOf(p)].data, BaseOf(p) + 1, BaseOf(p) + Len(DataOf(p))) = DataOf(p)
    <3>1. PieceKept(p[1], p[2])
      BY <2>1 DEF ContentsInv
    <3>2. /\ BaseOf(p) + Len(DataOf(p)) <= Len(secs[OutOf(p)].data)
          /\ \A j \in 1..Len(DataOf(p)) : secs[OutOf(p)].data[BaseOf(p) + j] = DataOf(p)[j]
      BY <3>1 DEF PieceKept, OutOf, BaseOf, DataOf
    <3>3. /\ DataOf(p) \in Seq(Seq(Nat)) /\ BaseOf(p) \in Nat /\ OutOf(p) \in DOMAIN secs
      BY <2>1, MappedFacts DEF OutOf, BaseOf, DataOf
    <3>4. secs[OutOf(p)] \in Section(Names)
      <4>1. secs \in Seq(Section(Names)) /\ OutOf(p) \in 1..Len(secs)
        BY <3>3, TypedFacts
      <4> QED
        BY <4>1, ElementOfSeq
    <3>5. secs[OutOf(p)].data \in Seq(Seq(Nat))
      BY <3>4 DEF Section
    <3> QED
      BY <3>2, <3>3, <3>5, KeptIsSubSeq
  <2>3. LET align == units[p[1]].secs[p[2]].align IN
          p[1] # 1 /\ align > 1 =>
            BaseOf(p) % align = 0 /\ secs[OutOf(p)].align >= align
    BY <2>1 DEF ContentsInv, PieceAligned, OutOf, BaseOf
  <2>4. ASSUME NEW q \in Settled, p # q, OutOf(p) = OutOf(q)
        PROVE  \/ BaseOf(p) + Len(DataOf(p)) <= BaseOf(q)
               \/ BaseOf(q) + Len(DataOf(q)) <= BaseOf(p)
    <3>1. Mapped(p[1], p[2]) /\ Mapped(q[1], q[2]) /\ (p[1] # q[1] \/ p[2] # q[2])
      BY <2>1, <2>4
    <3>2. PiecesApart(p[1], p[2], q[1], q[2])
      BY <3>1 DEF ContentsInv
    <3> QED
      BY <2>4, <3>2 DEF PiecesApart, OutOf, BaseOf, DataOf
  <2> QED
    BY <2>2, <2>3, <2>4
<1>2. MergeTyped /\ ContentsInv /\ [MergeNext]_mergeVars => ContentsInv'
  BY ContentsStep
<1> QED
  BY <1>1, <1>2, ContentsInitially, MergeTypedInvariant, PTL DEF MergeSpec

-----------------------------------------------------------------------------
(* Relocations.                                                            *)

RelaOf(f) == units[f[1]].secs[f[2]].relas[f[3]]

(* Input relocation f is one to be carried over. *)
Carries(f) ==
  /\ f = <<f[1], f[2], f[3]>>
  /\ Mapped(f[1], f[2])
  /\ f[3] \in DOMAIN units[f[1]].secs[f[2]].relas
  /\ f[1] = 1 \/ RelaOf(f).sym # 0

(* The loops have been past relocation f. *)
Past(f) ==
  \/ f[1] < k
  \/ f[1] = k /\ pc \in {"read", "merged"}
  \/ /\ f[1] = k /\ pc = "relocs"
     /\ f[2] < i \/ (f[2] = i /\ f[3] < r)

Done == {f \in Carried : Past(f)}
DoneIn(d) == {f \in Done : OutOf(f) = d}

(* Until the link fails, a section's relocations are those the loops have  *)
(* been past, one each.                                                    *)
RelocsInv ==
  pc # "failed" =>
    \A d \in DOMAIN secs :
      /\ IsFiniteSet(DoneIn(d))
      /\ Len(secs[d].relas) = Cardinality(DoneIn(d))
      /\ \A f \in DoneIn(d) : \E q \in DOMAIN secs[d].relas : secs[d].relas[q] = CarriedAs(f)
      /\ \A q \in DOMAIN secs[d].relas : \E f \in DoneIn(d) : secs[d].relas[q] = CarriedAs(f)

LEMMA CarriedMeans ==
  ASSUME NEW f
  PROVE  (f \in Carried <=> Carries(f)) /\ (f \in Carried' <=> Carries(f)')
<1>1. f \in Carried <=> Carries(f)
  <2>1. ASSUME f \in Carried PROVE Carries(f)
    <3>1. PICK p \in Settled : \E q \in DOMAIN units[p[1]].secs[p[2]].relas : f = <<p[1], p[2], q>>
      BY <2>1 DEF Carried
    <3>2. Mapped(p[1], p[2])
      BY DEF Settled, Mapped
    <3> QED
      BY <2>1, <3>1, <3>2 DEF Carried, Carries, RelaOf
  <2>2. ASSUME Carries(f) PROVE f \in Carried
    <3>1. <<f[1], f[2]>> \in Settled
      BY <2>2 DEF Carries, Mapped, Settled
    <3> DEFINE p == <<f[1], f[2]>>
    <3>2. f = <<p[1], p[2], f[3]>> /\ f[3] \in DOMAIN units[p[1]].secs[p[2]].relas
      BY <2>2 DEF Carries
    <3>3. f \in {<<p[1], p[2], q>> : q \in DOMAIN units[p[1]].secs[p[2]].relas}
      BY <3>2
    <3>4. f \in UNION {{<<x[1], x[2], q>> : q \in DOMAIN units[x[1]].secs[x[2]].relas} : x \in Settled}
      <4> HIDE DEF p
      <4>1. p \in Settled
        BY <3>1 DEF p
      <4> QED
        BY <3>3, <4>1
    <3> QED
      BY <2>2, <3>4 DEF Carried, Carries, RelaOf
  <2> QED
    BY <2>1, <2>2
<1>2. f \in Carried' <=> Carries(f)'
  <2>1. ASSUME f \in Carried' PROVE Carries(f)'
    <3>1. PICK p \in Settled' : \E q \in DOMAIN units'[p[1]].secs[p[2]].relas : f = <<p[1], p[2], q>>
      BY <2>1 DEF Carried
    <3>2. Mapped(p[1], p[2])'
      BY DEF Settled, Mapped
    <3> QED
      BY <2>1, <3>1, <3>2 DEF Carried, Carries, RelaOf
  <2>2. ASSUME Carries(f)' PROVE f \in Carried'
    <3>1. <<f[1], f[2]>> \in Settled'
      BY <2>2 DEF Carries, Mapped, Settled
    <3> DEFINE p == <<f[1], f[2]>>
    <3>2. f = <<p[1], p[2], f[3]>> /\ f[3] \in DOMAIN units'[p[1]].secs[p[2]].relas
      BY <2>2 DEF Carries
    <3>3. f \in {<<p[1], p[2], q>> : q \in DOMAIN units'[p[1]].secs[p[2]].relas}
      BY <3>2
    <3>4. f \in UNION {{<<x[1], x[2], q>> : q \in DOMAIN units'[x[1]].secs[x[2]].relas} : x \in Settled'}
      <4> HIDE DEF p
      <4>1. p \in Settled'
        BY <3>1 DEF p
      <4> QED
        BY <3>3, <4>1
    <3> QED
      BY <2>2, <3>4 DEF Carried, Carries, RelaOf
  <2> QED
    BY <2>1, <2>2
<1> QED
  BY <1>1, <1>2

LEMMA CarriesFacts ==
  ASSUME MergeTyped, NEW f, Carries(f)
  PROVE  /\ f[1] \in 1..k /\ f[2] \in 1..Len(maps[f[1]].sec)
         /\ f[2] \in Nat \ {0} /\ f[2] \in DOMAIN units[f[1]].secs
         /\ f[3] \in Nat \ {0} /\ f[3] \in 1..Len(units[f[1]].secs[f[2]].relas)
         /\ OutOf(f) \in DOMAIN secs /\ BaseOf(f) \in Nat
         /\ units[f[1]] \in Objects
         /\ RelaOf(f) \in Rela /\ RelaOf(f).sym \in 0..Len(units[f[1]].syms)
<1>1. Mapped(f[1], f[2]) /\ f[3] \in DOMAIN units[f[1]].secs[f[2]].relas
  BY DEF Carries
<1>2. /\ f[1] \in 1..k /\ f[2] \in 1..Len(maps[f[1]].sec)
      /\ f[2] \in DOMAIN units[f[1]].secs
      /\ units[f[1]].secs[f[2]] \in Section(Names) /\ units[f[1]] \in Objects
      /\ maps[f[1]].sec[f[2]] \in DOMAIN secs /\ maps[f[1]].base[f[2]] \in Nat
  BY <1>1, MappedFacts
<1>3. units[f[1]].secs[f[2]].relas \in Seq(Rela)
  BY <1>2 DEF Section
<1>4. f[3] \in 1..Len(units[f[1]].secs[f[2]].relas)
  <2> DEFINE x == units[f[1]].secs[f[2]].relas
  <2>1. x \in Seq(Rela) /\ f[3] \in DOMAIN x
    BY <1>1, <1>3
  <2>2. f[3] \in 1..Len(x)
    <3> HIDE DEF x
    <3> QED
      BY <2>1
  <2> QED
    BY <2>2
<1>5. RelaOf(f) \in Rela
  BY <1>3, <1>4, ElementOfSeq DEF RelaOf
<1>6. RelaOf(f).sym \in 0..Len(units[f[1]].syms)
  BY <1>1, <1>2, ObjectFields DEF RelaOf
<1>7. f[2] \in Nat \ {0} /\ f[3] \in Nat \ {0}
  <2>1. f[2] \in 1..Len(maps[f[1]].sec)
    BY <1>2
  <2> QED
    BY <1>4, <2>1
<1> QED
  BY <1>2, <1>4, <1>5, <1>6, <1>7 DEF OutOf, BaseOf

(* A step that finishes no relocation and changes none. *)
LEMMA RelocsLeftAlone ==
  ASSUME RelocsInv, pc # "failed",
         \A f : Carries(f)' /\ Past(f)' <=> Carries(f) /\ Past(f),
         \A f : Carries(f) /\ Past(f) =>
           OutOf(f) \in DOMAIN secs /\ OutOf(f)' = OutOf(f) /\ CarriedAs(f)' = CarriedAs(f),
         \A d \in DOMAIN secs : secs'[d].relas = secs[d].relas,
         \A d \in DOMAIN secs' : d \notin DOMAIN secs => secs'[d].relas = << >>
  PROVE  RelocsInv'
<1>1. Done' = Done
  <2>1. \A f : f \in Done' <=> f \in Done
    BY CarriedMeans DEF Done
  <2> QED
    BY <2>1
<1>2. \A f \in Done :
        OutOf(f) \in DOMAIN secs /\ OutOf(f)' = OutOf(f) /\ CarriedAs(f)' = CarriedAs(f)
  BY CarriedMeans DEF Done
<1>3. \A d : DoneIn(d)' = DoneIn(d)
  BY <1>1, <1>2 DEF DoneIn
<1> SUFFICES ASSUME NEW d \in DOMAIN secs'
             PROVE  /\ IsFiniteSet(DoneIn(d))
                    /\ Len(secs'[d].relas) = Cardinality(DoneIn(d))
                    /\ \A f \in DoneIn(d) : \E q \in DOMAIN secs'[d].relas :
                          secs'[d].relas[q] = CarriedAs(f)'
                    /\ \A q \in DOMAIN secs'[d].relas : \E f \in DoneIn(d) :
                          secs'[d].relas[q] = CarriedAs(f)'
  BY <1>3 DEF RelocsInv
<1>4. CASE d \in DOMAIN secs
  <2>1. \A f \in DoneIn(d) : CarriedAs(f)' = CarriedAs(f)
    BY <1>2 DEF DoneIn
  <2> QED
    BY <1>4, <2>1 DEF RelocsInv
<1>5. CASE d \notin DOMAIN secs
  <2>1. DoneIn(d) = {}
    BY <1>2, <1>5 DEF DoneIn
  <2>2. secs'[d].relas = << >>
    BY <1>5
  <2> QED
    BY <2>1, <2>2, FS_EmptySet
<1> QED
  BY <1>4, <1>5

(* The object the link starts from brings its own relocations as they are. *)
LEMMA RelocsInitially == MergeInit => RelocsInv
<1> SUFFICES ASSUME MergeInit, NEW d \in DOMAIN secs
             PROVE  /\ IsFiniteSet(DoneIn(d))
                    /\ Len(secs[d].relas) = Cardinality(DoneIn(d))
                    /\ \A f \in DoneIn(d) : \E q \in DOMAIN secs[d].relas :
                          secs[d].relas[q] = CarriedAs(f)
                    /\ \A q \in DOMAIN secs[d].relas : \E f \in DoneIn(d) :
                          secs[d].relas[q] = CarriedAs(f)
  BY DEF RelocsInv
<1>1. MergeTyped
  BY MergeInitTyped
<1>2. /\ secs = units[1].secs /\ syms = units[1].syms /\ maps = <<Identity(units[1])>>
      /\ k = 1 /\ pc = "read"
  BY DEF MergeInit
<1>3. ASSUME NEW o, NEW s, Mapped(o, s)
      PROVE  o = 1 /\ s \in DOMAIN secs /\ maps[o].sec[s] = s /\ maps[o].base[s] = 0
  <2>1. o = 1 /\ s \in DOMAIN maps[1].sec /\ maps[1] = Identity(units[1])
    BY <1>2, <1>3 DEF Mapped
  <2> QED
    BY <1>2, <2>1 DEF Identity
<1>4. Mapped(1, d)
  BY <1>2 DEF Mapped, Identity
<1> DEFINE relas == secs[d].relas
           n == Len(relas)
<1>5. relas \in Seq(Rela) /\ n \in Nat /\ DOMAIN relas = 1..n
  <2>1. secs[d] \in Section(Names)
    BY <1>1, <1>2, <1>4, MappedFacts
  <2>2. secs[d].relas \in Seq(Rela)
    BY <2>1 DEF Section
  <2> QED
    BY <2>2
<1>6. \A f : f \in DoneIn(d) <=> \E q \in 1..n : f = <<1, d, q>>
  <2>1. ASSUME NEW f, f \in DoneIn(d) PROVE \E q \in 1..n : f = <<1, d, q>>
    <3>1. Carries(f) /\ OutOf(f) = d
      BY <2>1, CarriedMeans DEF DoneIn, Done
    <3>2. f[1] = 1 /\ f[2] = d
      BY <1>3, <3>1 DEF Carries, OutOf
    <3> QED
      BY <1>2, <1>5, <3>1, <3>2 DEF Carries
  <2>2. ASSUME NEW q \in 1..n PROVE <<1, d, q>> \in DoneIn(d)
    <3> DEFINE f == <<1, d, q>>
    <3>1. f[1] = 1 /\ f[2] = d /\ f[3] = q /\ f = <<f[1], f[2], f[3]>>
      OBVIOUS
    <3> HIDE DEF f
    <3>2. Carries(f)
      BY <1>2, <1>4, <1>5, <3>1 DEF Carries
    <3>3. Past(f)
      BY <1>2, <3>1 DEF Past
    <3>4. OutOf(f) = d
      BY <1>3, <1>4, <3>1 DEF OutOf
    <3>5. f \in DoneIn(d)
      BY <3>2, <3>3, <3>4, CarriedMeans DEF DoneIn, Done
    <3> QED
      BY <3>5 DEF f
  <2> QED
    BY <2>1, <2>2
<1>7. IsFiniteSet(DoneIn(d)) /\ Cardinality(DoneIn(d)) = n
  <2> DEFINE S == DoneIn(d)
             g == [q \in 1..n |-> <<1, d, q>>]
  <2>1. g \in [1..n -> S]
    <3>1. \A q \in 1..n : <<1, d, q>> \in S
      BY <1>6
    <3> QED
      BY <3>1
  <2>2. \A a, b \in 1..n : g[a] = g[b] => a = b
    OBVIOUS
  <2>3. \A t \in S : \E q \in 1..n : g[q] = t
    BY <1>6
  <2>4. g \in Bijection(1..n, S)
    <3> HIDE DEF g, S, n
    <3> QED
      BY <2>1, <2>2, <2>3, Fun_IsBij
  <2>5. IsFiniteSet(1..n) /\ Cardinality(1..n) = n
    <3>1. 1 \in Int /\ n \in Int
      BY <1>5
    <3>2. IsFiniteSet(1..n) /\ Cardinality(1..n) = IF 1 > n THEN 0 ELSE n - 1 + 1
      <4> HIDE DEF n
      <4> QED
        BY <3>1, FS_Interval
    <3>3. (IF 1 > n THEN 0 ELSE n - 1 + 1) = n
      <4> HIDE DEF n
      <4> QED
        BY <1>5
    <3> QED
      BY <3>2, <3>3
  <2>6. ExistsBijection(1..n, S)
    BY <2>4 DEF ExistsBijection
  <2> HIDE DEF S, n
  <2>7. IsFiniteSet(S) /\ Cardinality(S) = Cardinality(1..n)
    BY <2>5, <2>6, FS_Bijection
  <2> QED
    BY <2>5, <2>7 DEF S
<1>8. ASSUME NEW f \in DoneIn(d), NEW q \in 1..n, f = <<1, d, q>>
      PROVE  relas[q] = CarriedAs(f)
  <2>1. f = <<1, d, q>>
    BY <1>8
  <2>2. f[1] = 1 /\ f[2] = d /\ f[3] = q
    BY <2>1
  <2> DEFINE x == relas[q]
  <2>3. RelaOf(f) = x
    BY <1>2, <2>2 DEF RelaOf
  <2>4. x \in Rela
    BY <1>5, ElementOfSeq
  <2>5. BaseOf(f) = 0
    BY <1>3, <1>4, <2>2 DEF BaseOf
  <2>6. x.sym \in 0..Len(syms)
    <3>1. units[1] \in Objects
      BY <1>1, <1>4, MappedFacts
    <3>2. q \in DOMAIN units[1].secs[d].relas /\ d \in DOMAIN units[1].secs
      BY <1>2, <1>5
    <3> QED
      BY <1>2, <3>1, <3>2, ObjectFields
  <2>7. (IF x.sym = 0 THEN 0 ELSE maps[f[1]].sym[x.sym]) = x.sym
    <3>1. maps[1].sym = [s \in DOMAIN syms |-> s]
      BY <1>2 DEF Identity
    <3>2. DOMAIN syms = 1..Len(syms) /\ Len(syms) \in Nat
      BY <1>1, TypedFacts
    <3>3. x.sym # 0 => maps[1].sym[x.sym] = x.sym
      BY <2>6, <3>1, <3>2
    <3> QED
      BY <2>2, <3>3
  <2>8. CarriedAs(f) = [x EXCEPT !.off = 0 + x.off, !.sym = x.sym]
    <3>1. CarriedAs(f) = [RelaOf(f) EXCEPT !.off = BaseOf(f) + RelaOf(f).off,
                             !.sym = IF RelaOf(f).sym = 0 THEN 0 ELSE maps[f[1]].sym[RelaOf(f).sym]]
      BY DEF CarriedAs, RelaOf
    <3> HIDE DEF x
    <3> QED
      BY <2>3, <2>5, <2>7, <3>1
  <2>9. CarriedAs(f) = x
    <3> DEFINE a == 0 + x.off
               b == x.sym
    <3>1. [x EXCEPT !.off = a, !.sym = b] = [off |-> a, sym |-> b, type |-> x.type, addend |-> x.addend]
      <4> HIDE DEF a, b, x
      <4> QED
        BY <2>4, RelaExcept
    <3>2. a = x.off
      BY <2>4 DEF Rela
    <3>3. x = [off |-> x.off, sym |-> x.sym, type |-> x.type, addend |-> x.addend]
      <4> HIDE DEF x
      <4> QED
        BY <2>4 DEF Rela
    <3> HIDE DEF x
    <3> QED
      BY <2>8, <3>1, <3>2, <3>3
  <2> QED
    BY <2>9
<1>9. \A f \in DoneIn(d) : \E q \in DOMAIN relas : relas[q] = CarriedAs(f)
  BY <1>5, <1>6, <1>8
<1>10. \A q \in DOMAIN relas : \E f \in DoneIn(d) : relas[q] = CarriedAs(f)
  BY <1>5, <1>6, <1>8
<1> QED
  BY <1>7, <1>9, <1>10

(* What a step leaves of the maps it does not extend.                      *)
LEMMA SameMapsSameReloc ==
  ASSUME NEW f, Carries(f), units' = units,
         maps'[f[1]].sec[f[2]] = maps[f[1]].sec[f[2]],
         maps'[f[1]].base[f[2]] = maps[f[1]].base[f[2]],
         maps'[f[1]].sym = maps[f[1]].sym
  PROVE  OutOf(f)' = OutOf(f) /\ CarriedAs(f)' = CarriedAs(f)
BY DEF OutOf, CarriedAs, BaseOf, RelaOf

(* Steps of the section and symbol loops: what is finished belongs to      *)
(* earlier objects, whose maps stay.                                       *)
LEMMA RelocsOfEarlier ==
  ASSUME MergeTyped, RelocsInv, pc \in {"sections", "symbols"}, pc' \in {"sections", "symbols"},
         units' = units, k' = k, DOMAIN maps' = 1..k,
         \A o \in 1..k : o # k => maps'[o] = maps[o],
         \A d \in DOMAIN secs : secs'[d].relas = secs[d].relas,
         \A d \in DOMAIN secs' : d \notin DOMAIN secs => secs'[d].relas = << >>
  PROVE  RelocsInv'
<1>1. DOMAIN maps = 1..k /\ k \in Nat
  BY TypedFacts
<1>2. ASSUME NEW f
      PROVE  /\ Past(f) <=> f[1] < k
             /\ Past(f)' <=> f[1] < k
  BY DEF Past
<1>3. ASSUME NEW f, f[1] < k
      PROVE  Carries(f)' <=> Carries(f)
  BY <1>1, <1>3 DEF Carries, Mapped, RelaOf
<1>4. ASSUME NEW f, Carries(f), Past(f)
      PROVE  OutOf(f) \in DOMAIN secs /\ OutOf(f)' = OutOf(f) /\ CarriedAs(f)' = CarriedAs(f)
  <2>1. f[1] \in 1..k /\ f[1] # k
    BY <1>1, <1>2, <1>4, CarriesFacts
  <2>2. maps'[f[1]] = maps[f[1]]
    BY <2>1
  <2> QED
    BY <1>4, <2>2, CarriesFacts, SameMapsSameReloc
<1> QED
  BY <1>2, <1>3, <1>4, RelocsLeftAlone

(* Steps that move the loops on: what is finished stays so, and no more is. *)
LEMMA RelocsWhenMoving ==
  ASSUME MergeTyped, RelocsInv, Moves
  PROVE  RelocsInv'
<1>1. UNCHANGED <<units, k, secs, syms, maps>>
  BY MovesKeep
<1>2. CASE CannotRead \/ MultipleDefinition
  BY <1>2 DEF CannotRead, MultipleDefinition, Fail, RelocsInv
<1>3. CASE ~ (CannotRead \/ MultipleDefinition)
  <2>1. \A f : Carries(f)' <=> Carries(f)
    BY <1>1 DEF Carries, Mapped, RelaOf
  <2>2. \A f : Carries(f) => OutOf(f) \in DOMAIN secs /\ OutOf(f)' = OutOf(f) /\ CarriedAs(f)' = CarriedAs(f)
    BY <1>1, CarriesFacts, SameMapsSameReloc
  <2>3. ASSUME NEW f, Carries(f)
        PROVE  Past(f)' <=> Past(f)
    <3>1. /\ f[2] \in Nat \ {0} /\ f[3] \in Nat \ {0} /\ i \in Nat \ {0} /\ r \in Nat \ {0}
          /\ f[2] \in 1..Len(maps[f[1]].sec)
          /\ f[3] \in 1..Len(units[f[1]].secs[f[2]].relas)
      BY <2>3, CarriesFacts, ScalarFacts
    <3>2. CASE MergeDone
      BY <1>1, <3>2 DEF MergeDone, Past
    <3>3. CASE SectionsDone
      BY <1>1, <3>3 DEF SectionsDone, Past
    <3>4. CASE SymbolsDone
      BY <1>1, <3>1, <3>4 DEF SymbolsDone, Past
    <3>5. CASE NextRelocSection
      <4>1. pc = "relocs" /\ pc' = "relocs" /\ i' = i + 1 /\ r' = 1 /\ r > Len(InSec.relas)
        BY <3>5 DEF NextRelocSection
      <4>2. f[1] = k /\ f[2] = i => f[3] < r
        <5> SUFFICES ASSUME f[1] = k, f[2] = i PROVE f[3] < r
          OBVIOUS
        <5>1. f[3] \in 1..Len(InSec.relas) /\ Len(InSec.relas) < r
          BY <3>1, <4>1 DEF InSec, In
        <5>2. Len(InSec.relas) \in Nat
          <6>1. Mapped(f[1], f[2])
            BY <2>3 DEF Carries
          <6>2. InSec \in Section(Names)
            BY <6>1, MappedFacts DEF InSec, In
          <6> QED
            BY <6>2 DEF Section
        <5> QED
          BY <3>1, <5>1, <5>2
      <4> QED
        BY <1>1, <3>1, <4>1, <4>2 DEF Past
    <3>6. CASE RelocsDone
      <4>1. pc = "relocs" /\ pc' = "read" /\ i > Len(In.secs)
        BY <3>6 DEF RelocsDone
      <4>2. f[1] = k => f[2] < i
        <5>1. Len(maps[k].sec) = Len(In.secs) /\ Len(In.secs) \in Nat
          BY <4>1, AtWork
        <5> QED
          BY <3>1, <4>1, <5>1
      <4> QED
        BY <1>1, <4>1, <4>2 DEF Past
    <3>7. CASE UNCHANGED mergeVars
      BY <3>7 DEF mergeVars, Past
    <3> QED
      BY <1>3, <3>2, <3>3, <3>4, <3>5, <3>6, <3>7 DEF Moves
  <2>4. CASE pc # "failed"
    BY <1>1, <2>1, <2>2, <2>3, <2>4, RelocsLeftAlone
  <2>5. CASE pc = "failed"
    <3>1. UNCHANGED mergeVars
      BY <1>3, <2>5 DEF Moves, MergeDone, SectionsDone, SymbolsDone, NextRelocSection, RelocsDone
    <3> QED
      BY <2>5, <3>1 DEF mergeVars, RelocsInv
  <2> QED
    BY <2>4, <2>5
<1> QED
  BY <1>2, <1>3

LEMMA RelocsWhenReading ==
  ASSUME MergeTyped, RelocsInv, ReadObject
  PROVE  RelocsInv'
<1>1. /\ pc = "read" /\ pc' = "sections" /\ k' = k + 1 /\ k \in Nat \ {0}
      /\ UNCHANGED <<units, r, secs, syms, err>>
      /\ DOMAIN maps = 1..k /\ DOMAIN maps' = 1..(k + 1)
      /\ \A o \in 1..k : maps'[o] = maps[o]
      /\ maps'[k + 1].sec = << >>
  <2>1. maps'[k + 1] = [sec |-> << >>, base |-> << >>, sym |-> << >>]
    BY ReadObjectEffect
  <2>2. maps'[k + 1].sec = << >>
    BY <2>1
  <2> QED
    BY <2>2, ReadObjectEffect
<1>2. ASSUME NEW f, Carries(f)'
      PROVE  Carries(f)
  <2>1. f[1] \in 1..(k + 1) /\ f[2] \in DOMAIN maps'[f[1]].sec
    BY <1>1, <1>2 DEF Carries, Mapped
  <2>2. f[1] # k + 1
    BY <1>1, <2>1
  <2>3. f[1] \in 1..k
    BY <1>1, <2>1, <2>2
  <2> QED
    BY <1>1, <1>2, <2>3 DEF Carries, Mapped, RelaOf
<1>3. ASSUME NEW f, Carries(f)
      PROVE  /\ Carries(f)' /\ Past(f) /\ Past(f)'
             /\ OutOf(f) \in DOMAIN secs /\ OutOf(f)' = OutOf(f) /\ CarriedAs(f)' = CarriedAs(f)
  <2>1. f[1] \in 1..k /\ OutOf(f) \in DOMAIN secs
    BY <1>3, CarriesFacts
  <2>2. maps'[f[1]] = maps[f[1]] /\ f[1] \in DOMAIN maps /\ f[1] \in DOMAIN maps'
    BY <1>1, <2>1
  <2>3. Past(f) /\ Past(f)'
    BY <1>1, <2>1 DEF Past
  <2>4. Carries(f)'
    BY <1>1, <1>3, <2>2 DEF Carries, Mapped, RelaOf
  <2> QED
    BY <1>1, <1>3, <2>1, <2>2, <2>3, <2>4, SameMapsSameReloc
<1> QED
  BY <1>1, <1>2, <1>3, RelocsLeftAlone

(* Carrying a relocation over finishes that one, and no other.             *)
LEMMA RelocsWhenCarried ==
  ASSUME MergeTyped, RelocsInv, MergeReloc
  PROVE  RelocsInv'
<1>1. /\ pc = "relocs" /\ r' = r + 1 /\ UNCHANGED <<units, k, pc, i, syms, maps, err>>
  BY DEF MergeReloc, CarryReloc
<1>2. k \in Nat /\ k > 1 /\ i \in Nat \ {0} /\ r \in Nat \ {0}
  <2>1. k > 1
    BY <1>1 DEF MergeTyped, PhaseSound
  <2> QED
    BY <2>1, ScalarFacts, TypedFacts
<1>3. PICK c : c[1] = k /\ c[2] = i /\ c[3] = r /\ c = <<c[1], c[2], c[3]>>
  <2> DEFINE w == <<k, i, r>>
  <2>1. w[1] = k /\ w[2] = i /\ w[3] = r /\ w = <<w[1], w[2], w[3]>>
    OBVIOUS
  <2> QED
    BY <2>1
<1>4. RelaOf(c) = InRel /\ OutOf(c) = maps[k].sec[i]
  BY <1>3 DEF RelaOf, InRel, InSec, In, OutOf
<1>5. Carries(c) <=> InRel.sym # 0
  <2>1. Mapped(k, i)
    <3>1. i \in 1..Len(In.secs) /\ Len(maps[k].sec) = Len(In.secs) /\ maps[k].sec \in Seq(Nat)
      BY <1>1, MergeRelocEffect, AtWork
    <3>2. i \in DOMAIN maps[k].sec /\ k \in DOMAIN maps
      BY <3>1, TypedFacts
    <3> QED
      BY <3>2 DEF Mapped
  <2>2. r \in DOMAIN InSec.relas
    <3>1. r \in 1..Len(InSec.relas) /\ InSec \in Section(Names)
      BY <2>1, MergeRelocEffect, MappedFacts DEF InSec, In
    <3>2. InSec.relas \in Seq(Rela)
      BY <3>1 DEF Section
    <3> QED
      BY <3>1, <3>2
  <2> QED
    BY <1>2, <1>3, <1>4, <2>1, <2>2 DEF Carries, InSec, In
<1>6. ASSUME NEW f
      PROVE  /\ Carries(f)' <=> Carries(f)
             /\ Carries(f) => (Past(f)' <=> Past(f) \/ f = c)
             /\ ~ Past(c)
  <2>1. Carries(f)' <=> Carries(f)
    BY <1>1 DEF Carries, Mapped, RelaOf
  <2>2. ASSUME Carries(f) PROVE Past(f)' <=> Past(f) \/ f = c
    <3>1. f[1] \in Nat /\ f[2] \in Nat /\ f[3] \in Nat /\ f = <<f[1], f[2], f[3]>>
      <4>1. f[1] \in 1..k /\ f[2] \in Nat /\ f[3] \in Nat
        BY <2>2, CarriesFacts
      <4>2. f = <<f[1], f[2], f[3]>>
        BY <2>2 DEF Carries
      <4> QED
        BY <1>2, <4>1, <4>2
    <3>2. f = c <=> f[1] = k /\ f[2] = i /\ f[3] = r
      BY <1>3, <3>1
    <3>3. Past(f) <=> f[1] < k \/ (f[1] = k /\ (f[2] < i \/ (f[2] = i /\ f[3] < r)))
      BY <1>1 DEF Past
    <3>4. Past(f)' <=> f[1] < k \/ (f[1] = k /\ (f[2] < i \/ (f[2] = i /\ f[3] < r + 1)))
      BY <1>1 DEF Past
    <3> QED
      BY <1>2, <3>1, <3>2, <3>3, <3>4
  <2>3. ~ Past(c)
    BY <1>1, <1>2, <1>3 DEF Past
  <2> QED
    BY <2>1, <2>2, <2>3
<1>7. ASSUME NEW f, Carries(f)
      PROVE  OutOf(f) \in DOMAIN secs /\ OutOf(f)' = OutOf(f) /\ CarriedAs(f)' = CarriedAs(f)
  BY <1>1, <1>7, CarriesFacts, SameMapsSameReloc
<1>8. CASE InRel.sym = 0
  <2>1. secs' = secs
    BY <1>8, MergeRelocEffect
  <2>2. \A f : Carries(f)' /\ Past(f)' <=> Carries(f) /\ Past(f)
    BY <1>5, <1>6, <1>8
  <2> QED
    BY <1>1, <1>7, <2>1, <2>2, RelocsLeftAlone
<1>9. CASE InRel.sym # 0
  <2>1. /\ DOMAIN secs' = DOMAIN secs /\ OutOf(c) \in DOMAIN secs
        /\ \A e \in DOMAIN secs :
             secs'[e].relas = IF e = OutOf(c) THEN Append(secs[e].relas, Rebased) ELSE secs[e].relas
    <3>1. /\ secs' \in Seq(Section(Names)) /\ Len(secs') = Len(secs) /\ secs \in Seq(Section(Names))
          /\ maps[k].sec[i] \in 1..Len(secs)
      BY MergeRelocEffect, TypedFacts
    <3>2. \A e \in 1..Len(secs) :
            secs'[e].relas = IF e = maps[k].sec[i] THEN Append(secs[e].relas, Rebased) ELSE secs[e].relas
      BY <1>9, MergeRelocEffect
    <3> QED
      BY <1>4, <3>1, <3>2
  <2>2. Rebased = CarriedAs(c)
    <3>1. BaseOf(c) = maps[k].base[i]
      BY <1>3 DEF BaseOf
    <3> QED
      BY <1>3, <1>4, <1>9, <3>1 DEF Rebased, CarriedAs, RelaOf
  <2>3. \A f : f \in Done' <=> f \in Done \/ f = c
    BY <1>5, <1>6, <1>9, CarriedMeans DEF Done
  <2>4. \A d : \A f : f \in DoneIn(d)' <=> f \in DoneIn(d) \/ (f = c /\ d = OutOf(c))
    <3>1. \A f \in Done : OutOf(f)' = OutOf(f)
      BY <1>7, CarriedMeans DEF Done
    <3>2. OutOf(c)' = OutOf(c)
      BY <1>5, <1>7, <1>9
    <3> QED
      BY <2>3, <3>1, <3>2 DEF DoneIn
  <2>5. \A d : c \notin DoneIn(d)
    BY <1>6 DEF DoneIn, Done
  <2>6. \A d : \A f \in DoneIn(d) : CarriedAs(f)' = CarriedAs(f)
    BY <1>7, CarriedMeans DEF DoneIn, Done
  <2>7. CarriedAs(c)' = CarriedAs(c)
    BY <1>5, <1>7, <1>9
  <2> SUFFICES ASSUME NEW d \in DOMAIN secs
               PROVE  /\ IsFiniteSet(DoneIn(d)')
                      /\ Len(secs'[d].relas) = Cardinality(DoneIn(d)')
                      /\ \A f \in DoneIn(d)' : \E q \in DOMAIN secs'[d].relas :
                            secs'[d].relas[q] = CarriedAs(f)'
                      /\ \A q \in DOMAIN secs'[d].relas : \E f \in DoneIn(d)' :
                            secs'[d].relas[q] = CarriedAs(f)'
    BY <1>1, <2>1 DEF RelocsInv
  <2>8. /\ IsFiniteSet(DoneIn(d))
        /\ Len(secs[d].relas) = Cardinality(DoneIn(d))
        /\ \A f \in DoneIn(d) : \E q \in DOMAIN secs[d].relas : secs[d].relas[q] = CarriedAs(f)
        /\ \A q \in DOMAIN secs[d].relas : \E f \in DoneIn(d) : secs[d].relas[q] = CarriedAs(f)
    BY <1>1 DEF RelocsInv
  <2>9. secs[d].relas \in Seq(Rela) /\ Rebased \in Rela
    <3>1. secs \in Seq(Section(Names)) /\ d \in 1..Len(secs)
      BY TypedFacts
    <3>2. secs[d] \in Section(Names)
      BY <3>1, ElementOfSeq
    <3>3. secs[d].relas \in Seq(Rela)
      BY <3>2 DEF Section
    <3> QED
      BY <1>9, <3>3, MergeRelocEffect
  <2>10. CASE d # OutOf(c)
    <3>1. DoneIn(d)' = DoneIn(d)
      BY <2>4, <2>10
    <3>2. secs'[d].relas = secs[d].relas
      BY <2>1, <2>10
    <3> QED
      BY <2>6, <2>8, <3>1, <3>2
  <2>11. CASE d = OutOf(c)
    <3> DEFINE S == DoneIn(d)
               a == secs[d].relas
               b == secs'[d].relas
    <3>1. DoneIn(d)' = S \union {c}
      BY <2>4, <2>11
    <3>2. b = Append(a, Rebased)
      BY <2>1, <2>11
    <3>3. a \in Seq(Rela) /\ Len(a) = Cardinality(S) /\ IsFiniteSet(S) /\ c \notin S
      BY <2>5, <2>8, <2>9
    <3>4. /\ \A f \in S : CarriedAs(f)' = CarriedAs(f) /\ \E q \in DOMAIN a : a[q] = CarriedAs(f)
          /\ \A q \in DOMAIN a : \E f \in S : a[q] = CarriedAs(f)
      BY <2>6, <2>8
    <3> HIDE DEF S, a, b
    <3>5. IsFiniteSet(S \union {c}) /\ Cardinality(S \union {c}) = Cardinality(S) + 1
      BY <3>3, FS_AddElement
    <3>6. /\ Len(b) = Len(a) + 1 /\ Len(a) \in Nat /\ DOMAIN a = 1..Len(a) /\ DOMAIN b = 1..(Len(a) + 1)
          /\ \A q \in 1..Len(a) : b[q] = a[q]
          /\ b[Len(a) + 1] = Rebased
      <4>1. Append(a, Rebased) \in Seq(Rela) /\ Len(Append(a, Rebased)) = Len(a) + 1
        BY <2>9, <3>3, AppendProperties
      <4> QED
        BY <2>9, <3>2, <3>3, <4>1, AppendProperties
    <3>7. ASSUME NEW f \in S \union {c} PROVE \E q \in DOMAIN b : b[q] = CarriedAs(f)'
      <4>1. CASE f \in S
        BY <3>4, <3>6, <4>1
      <4>2. CASE f = c
        BY <2>2, <2>7, <3>6, <4>2
      <4> QED
        BY <4>1, <4>2
    <3>8. ASSUME NEW q \in DOMAIN b PROVE \E f \in S \union {c} : b[q] = CarriedAs(f)'
      <4>1. CASE q \in DOMAIN a
        BY <3>4, <3>6, <4>1
      <4>2. CASE q = Len(a) + 1
        BY <2>2, <2>7, <3>6, <4>2
      <4> QED
        BY <3>6, <4>1, <4>2
    <3> QED
      BY <3>1, <3>3, <3>5, <3>6, <3>7, <3>8 DEF b
  <2> QED
    BY <2>10, <2>11
<1> QED
  BY <1>8, <1>9

LEMMA RelocsStep ==
  ASSUME MergeTyped, RelocsInv, [MergeNext]_mergeVars
  PROVE  RelocsInv'
<1>1. CASE ReadObject
  BY <1>1, RelocsWhenReading
<1>2. CASE MergeSection
  <2>1. /\ pc = "sections" /\ pc' = "sections" /\ UNCHANGED <<units, k>>
    BY <1>2 DEF MergeSection
  <2>2. /\ DOMAIN maps' = 1..k /\ \A o \in 1..k : o # k => maps'[o] = maps[o]
        /\ \A e \in DOMAIN secs : secs'[e].relas = secs[e].relas
        /\ \A e \in DOMAIN secs' : e \notin DOMAIN secs => secs'[e].relas = << >>
    BY <1>2, MergeSectionEffect
  <2> QED
    BY <2>1, <2>2, RelocsOfEarlier
<1>3. CASE AddSymbol \/ ReferGlobal \/ DefineGlobal
  <2>1. PICK j \in Nat : MapSymbol(j)
    <3>1. CASE AddSymbol
      BY <3>1, AddSymbolEffect
    <3>2. CASE ReferGlobal
      <4>1. MapSymbol(Existing) /\ Existing \in 0..Len(syms) /\ Len(syms) \in Nat
        BY <3>2, ExistingIsGlobal, TypedFacts DEF ReferGlobal
      <4> QED
        BY <4>1
    <3>3. CASE DefineGlobal
      <4>1. MapSymbol(Existing) /\ Existing \in 1..Len(syms)
        BY <3>3, DefineGlobalEffect
      <4> QED
        BY <4>1
    <3> QED
      BY <1>3, <3>1, <3>2, <3>3
  <2>2. /\ DOMAIN maps' = 1..k /\ \A o \in 1..k : o # k => maps'[o] = maps[o]
        /\ UNCHANGED <<units, k, pc, r, secs, err>>
    BY <2>1, MapSymbolEffect
  <2>3. pc = "symbols"
    BY <1>3 DEF AddSymbol, ReferGlobal, DefineGlobal, AtSymbol
  <2> QED
    BY <2>2, <2>3, RelocsOfEarlier
<1>4. CASE MergeReloc
  BY <1>4, RelocsWhenCarried
<1>5. CASE Moves
  BY <1>5, RelocsWhenMoving
<1> QED
  BY <1>1, <1>2, <1>3, <1>4, <1>5, StepKinds

(* When all is merged, the loops have been past every relocation. *)
LEMMA AllPast ==
  ASSUME MergeTyped, pc = "merged", NEW f \in Carried
  PROVE  Past(f)
<1>1. f[1] \in 1..k /\ k \in Nat
  BY CarriedMeans, CarriesFacts, TypedFacts
<1> QED
  BY <1>1 DEF Past

(* Theorem: each relocation of an input is carried over once, patching the *)
(* same byte of its section and meaning its own symbol, and the output has *)
(* no other (Link_Merge's last phase, link.c:106-118).                     *)
THEOREM RelocsAreKept == MergeSpec => []RelocsKept
<1>1. MergeTyped /\ RelocsInv => RelocsKept
  <2> SUFFICES ASSUME MergeTyped, RelocsInv, pc = "merged", NEW d \in DOMAIN secs
               PROVE  LET inputs == {f \in Carried : OutOf(f) = d}
                          relas  == secs[d].relas
                      IN /\ Len(relas) = Cardinality(inputs)
                         /\ \A f \in inputs : \E q \in DOMAIN relas : relas[q] = CarriedAs(f)
                         /\ \A q \in DOMAIN relas : \E f \in inputs : relas[q] = CarriedAs(f)
    BY DEF RelocsKept
  <2>1. \A f \in Carried : Past(f)
    BY AllPast
  <2>2. DoneIn(d) = {f \in Carried : OutOf(f) = d}
    BY <2>1 DEF DoneIn, Done
  <2> QED
    BY <2>2 DEF RelocsInv
<1>2. MergeTyped /\ RelocsInv /\ [MergeNext]_mergeVars => RelocsInv'
  BY RelocsStep
<1> QED
  BY <1>1, <1>2, RelocsInitially, MergeTypedInvariant, PTL DEF MergeSpec

-----------------------------------------------------------------------------
(* What symbols stand for.                                                 *)

SymMapped(o, q) == o \in DOMAIN maps /\ q \in DOMAIN maps[o].sym

(* The output's symbol that symbol q of object o has become. *)
SymKept(o, q) ==
  LET old == units[o].syms[q]
      new == syms[maps[o].sym[q]]
  IN /\ new.name = old.name
     /\ new.bind = "LOCAL" <=> old.bind = "LOCAL"
     /\ old.sec # 0 => MovedFrom(<<o, q>>, new) /\ new.type = old.type
     /\ old.bind = "LOCAL" /\ old.sec = 0 => new.sec = 0

(* A local symbol is not shared; a global one that has a place has it from *)
(* some definition, which is what the absence of definitions turns on.     *)
SymbolsInv ==
  /\ \A o, q : SymMapped(o, q) => SymKept(o, q)
  /\ \A o, q, o2, q2 :
       SymMapped(o, q) /\ SymMapped(o2, q2) /\ units[o].syms[q].bind = "LOCAL"
         /\ maps[o2].sym[q2] = maps[o].sym[q] => o2 = o /\ q2 = q
  /\ \A j \in DOMAIN syms :
       syms[j].bind # "LOCAL" /\ syms[j].sec # 0 =>
         \E o, q : SymMapped(o, q) /\ maps[o].sym[q] = j /\ units[o].syms[q].sec # 0

LEMMA SymMappedFacts ==
  ASSUME MergeTyped, NEW o, NEW q, SymMapped(o, q)
  PROVE  /\ o \in 1..k /\ o \in DOMAIN maps /\ q \in DOMAIN maps[o].sym
         /\ units[o] \in Objects /\ q \in DOMAIN units[o].syms
         /\ units[o].syms[q] \in Symbol(Names)
         /\ maps[o].sym[q] \in DOMAIN syms
         /\ pc = "symbols" /\ units[o].syms[q].sec # 0 =>
              maps[o].sec[units[o].syms[q].sec] # 0
<1>1. o \in 1..k /\ o \in DOMAIN maps /\ q \in DOMAIN maps[o].sym /\ maps[o] \in Maps /\ k \in Nat
  BY TypedFacts DEF SymMapped
<1>2. /\ units[o] \in Objects /\ Len(maps[o].sym) <= Len(units[o].syms)
      /\ \A s \in DOMAIN maps[o].sec : maps[o].sec[s] \in DOMAIN secs
      /\ maps[o].sym[q] \in DOMAIN syms
      /\ o < k => Whole(o)
  BY <1>1 DEF MergeTyped, MapsSound
<1>3. /\ maps[o].sym \in Seq(Nat) /\ maps[o].sec \in Seq(Nat)
      /\ units[o].syms \in Seq(Symbol(Names)) /\ units[o].secs \in Seq(Section(Names))
  <2>1. maps[o].sym \in Seq(Nat) /\ maps[o].sec \in Seq(Nat)
    BY <1>1 DEF Maps
  <2> QED
    BY <1>2, <2>1, ObjectFields
<1>4. q \in 1..Len(units[o].syms)
  <2> DEFINE a == maps[o].sym
             b == units[o].syms
  <2>1. q \in DOMAIN a /\ a \in Seq(Nat) /\ Len(a) <= Len(b) /\ b \in Seq(Symbol(Names))
    BY <1>1, <1>2, <1>3
  <2>2. q \in 1..Len(b)
    <3> HIDE DEF a, b
    <3> QED
      BY <2>1
  <2> QED
    BY <2>2
<1>5. q \in DOMAIN units[o].syms /\ units[o].syms[q] \in Symbol(Names)
  BY <1>3, <1>4, ElementOfSeq
<1>6. ASSUME pc = "symbols", units[o].syms[q].sec # 0
      PROVE  maps[o].sec[units[o].syms[q].sec] # 0
  <2>1. Len(maps[o].sec) = Len(units[o].secs)
    <3>1. Len(maps[k].sec) = Len(units[k].secs)
      BY <1>6, ScalarFacts
    <3>2. o < k => Len(maps[o].sec) = Len(units[o].secs)
      BY <1>2 DEF Whole
    <3>3. o < k \/ o = k
      BY <1>1
    <3> QED
      BY <3>1, <3>2, <3>3
  <2>2. units[o].syms[q].sec \in 0..Len(units[o].secs)
    BY <1>2, <1>5, ObjectFields
  <2>3. units[o].syms[q].sec \in DOMAIN maps[o].sec
    <3>1. DOMAIN maps[o].sec = 1..Len(units[o].secs) /\ Len(units[o].secs) \in Nat
      BY <1>3, <2>1
    <3> QED
      BY <1>6, <2>2, <3>1
  <2>4. maps[o].sec[units[o].syms[q].sec] \in DOMAIN secs /\ DOMAIN secs = 1..Len(secs)
    BY <1>2, <2>3, TypedFacts
  <2> QED
    BY <2>4
<1> QED
  BY <1>1, <1>2, <1>5, <1>6

LEMMA SymbolsInitially == MergeInit => SymbolsInv
<1> SUFFICES ASSUME MergeInit PROVE SymbolsInv
  OBVIOUS
<1>1. /\ secs = units[1].secs /\ syms = units[1].syms /\ maps = <<Identity(units[1])>>
  BY DEF MergeInit
<1>2. MergeTyped
  BY MergeInitTyped
<1>3. ASSUME NEW o, NEW q
      PROVE  SymMapped(o, q) <=> o = 1 /\ q \in DOMAIN syms
  BY <1>1 DEF SymMapped, Identity
<1>4. ASSUME NEW q \in DOMAIN syms
      PROVE  maps[1].sym[q] = q /\ units[1].syms[q] = syms[q] /\ SymMapped(1, q)
  BY <1>1, <1>3 DEF Identity
<1>5. ASSUME NEW o, NEW q, SymMapped(o, q)
      PROVE  SymKept(o, q)
  <2>1. o = 1 /\ q \in DOMAIN syms /\ maps[1].sym[q] = q /\ units[1].syms[q] = syms[q]
    BY <1>3, <1>4, <1>5
  <2>2. syms[q].sec # 0 => MovedFrom(<<1, q>>, syms[q])
    <3> SUFFICES ASSUME syms[q].sec # 0 PROVE MovedFrom(<<1, q>>, syms[q])
      OBVIOUS
    <3>1. syms[q].sec \in DOMAIN secs
      <4>1. units[1] \in Objects /\ secs \in Seq(Section(Names)) /\ Len(secs) \in Nat
        BY <1>2, <1>4, <2>1, SymMappedFacts, TypedFacts
      <4>2. syms[q].sec \in 0..Len(secs)
        BY <1>1, <2>1, <4>1, ObjectFields
      <4> QED
        BY <4>1, <4>2
    <3>2. maps[1].sec[syms[q].sec] = syms[q].sec /\ maps[1].base[syms[q].sec] = 0
      BY <1>1, <3>1 DEF Identity
    <3>3. syms[q].value \in Nat
      <4>1. syms[q] \in Symbol(Names)
        BY <1>2, <1>4, <2>1, SymMappedFacts
      <4> QED
        BY <4>1 DEF Symbol
    <3> QED
      BY <2>1, <3>2, <3>3 DEF MovedFrom
  <2> QED
    BY <2>1, <2>2 DEF SymKept
<1>6. ASSUME NEW o, NEW q, NEW o2, NEW q2, SymMapped(o, q), SymMapped(o2, q2),
             maps[o2].sym[q2] = maps[o].sym[q]
      PROVE  o2 = o /\ q2 = q
  <2>1. o = 1 /\ o2 = 1 /\ q \in DOMAIN syms /\ q2 \in DOMAIN syms
    BY <1>3, <1>6
  <2>2. maps[1].sym[q] = q /\ maps[1].sym[q2] = q2
    BY <1>4, <2>1
  <2> QED
    BY <1>6, <2>1, <2>2
<1>7. ASSUME NEW j \in DOMAIN syms, syms[j].sec # 0
      PROVE  \E o, q : SymMapped(o, q) /\ maps[o].sym[q] = j /\ units[o].syms[q].sec # 0
  BY <1>4, <1>7
<1> QED
  BY <1>5, <1>6, <1>7 DEF SymbolsInv

(* A step that maps no symbol, changes none, and leaves the places of the  *)
(* sections that mapped symbols lie in.                                    *)
LEMMA SymbolsUntouched ==
  ASSUME SymbolsInv, units' = units, syms' = syms,
         \A o, q : SymMapped(o, q)' <=> SymMapped(o, q),
         \A o, q : SymMapped(o, q) => maps'[o] = maps[o]
  PROVE  SymbolsInv'
<1>1. ASSUME NEW o, NEW q, SymMapped(o, q)'
      PROVE  SymKept(o, q)'
  <2>1. SymKept(o, q) /\ maps'[o] = maps[o]
    BY <1>1 DEF SymbolsInv
  <2> QED
    BY <2>1 DEF SymKept, MovedFrom
<1>2. ASSUME NEW o, NEW q, NEW o2, NEW q2, SymMapped(o, q)', SymMapped(o2, q2)',
             units'[o].syms[q].bind = "LOCAL", maps'[o2].sym[q2] = maps'[o].sym[q]
      PROVE  o2 = o /\ q2 = q
  BY <1>2 DEF SymbolsInv
<1>3. ASSUME NEW j \in DOMAIN syms', syms'[j].bind # "LOCAL", syms'[j].sec # 0
      PROVE  \E o, q : SymMapped(o, q)' /\ maps'[o].sym[q] = j /\ units'[o].syms[q].sec # 0
  <2>1. PICK o, q : SymMapped(o, q) /\ maps[o].sym[q] = j /\ units[o].syms[q].sec # 0
    BY <1>3 DEF SymbolsInv
  <2> QED
    BY <2>1
<1> QED
  BY <1>1, <1>2, <1>3 DEF SymbolsInv

(* The symbols mapped after a step of the symbol loop. *)
LEMMA OneSymbolMore ==
  ASSUME MergeTyped, AtSymbol, NEW j \in Nat, MapSymbol(j)
  PROVE  /\ units' = units /\ k' = k /\ InSym = units[k].syms[i] /\ pc = "symbols"
         /\ \A o, q : SymMapped(o, q)' <=> SymMapped(o, q) \/ (o = k /\ q = i)
         /\ ~ SymMapped(k, i)
         /\ maps'[k].sym[i] = j
         /\ \A o, q : SymMapped(o, q) =>
              /\ maps'[o].sym[q] = maps[o].sym[q]
              /\ maps'[o].sec = maps[o].sec /\ maps'[o].base = maps[o].base
         /\ maps'[k].sec = maps[k].sec /\ maps'[k].base = maps[k].base
<1>1. /\ DOMAIN maps' = 1..k /\ DOMAIN maps = 1..k /\ k \in Nat \ {0}
      /\ \A o \in 1..k : o # k => maps'[o] = maps[o]
      /\ maps'[k].sec = maps[k].sec /\ maps'[k].base = maps[k].base
      /\ maps'[k].sym = Append(maps[k].sym, j)
      /\ units' = units /\ k' = k
  BY MapSymbolEffect, TypedFacts
<1>2. maps[k].sym \in Seq(Nat) /\ Len(maps[k].sym) = i - 1 /\ i \in Nat \ {0}
  BY AtWork, ScalarFacts DEF AtSymbol
<1>3. /\ DOMAIN maps[k].sym = 1..(i - 1) /\ DOMAIN maps'[k].sym = 1..i
      /\ \A q \in 1..(i - 1) : maps'[k].sym[q] = maps[k].sym[q]
      /\ maps'[k].sym[i] = j
  <2> DEFINE a == maps[k].sym
  <2>1. a \in Seq(Nat) /\ Len(a) = i - 1 /\ maps'[k].sym = Append(a, j)
    BY <1>1, <1>2
  <2> HIDE DEF a
  <2>2. /\ Append(a, j) \in Seq(Nat) /\ Len(Append(a, j)) = i /\ DOMAIN a = 1..(i - 1)
        /\ \A q \in 1..(i - 1) : Append(a, j)[q] = a[q]
        /\ Append(a, j)[i] = j
    BY <1>2, <2>1, AppendProperties
  <2>3. DOMAIN Append(a, j) = 1..i
    BY <2>2
  <2> QED
    BY <2>1, <2>2, <2>3 DEF a
<1>4. ASSUME NEW o, NEW q
      PROVE  SymMapped(o, q)' <=> SymMapped(o, q) \/ (o = k /\ q = i)
  <2>1. CASE o = k
    <3>0. k \in DOMAIN maps /\ k \in DOMAIN maps'
      BY <1>1
    <3>1. SymMapped(o, q)' <=> q \in 1..i
      <4>1. SymMapped(o, q)' <=> q \in DOMAIN maps'[k].sym
        BY <2>1, <3>0 DEF SymMapped
      <4> QED
        BY <1>3, <4>1
    <3>2. SymMapped(o, q) <=> q \in 1..(i - 1)
      <4>1. SymMapped(o, q) <=> q \in DOMAIN maps[k].sym
        BY <2>1, <3>0 DEF SymMapped
      <4> QED
        BY <1>3, <4>1
    <3> QED
      BY <1>2, <2>1, <3>1, <3>2
  <2>2. CASE o # k
    BY <1>1, <2>2 DEF SymMapped
  <2> QED
    BY <2>1, <2>2
<1>5. ~ SymMapped(k, i)
  BY <1>2, <1>3 DEF SymMapped
<1>6. ASSUME NEW o, NEW q, SymMapped(o, q)
      PROVE  /\ maps'[o].sym[q] = maps[o].sym[q]
             /\ maps'[o].sec = maps[o].sec /\ maps'[o].base = maps[o].base
  <2>1. CASE o = k
    BY <1>1, <1>3, <1>6, <2>1 DEF SymMapped
  <2>2. CASE o # k
    BY <1>1, <1>6, <2>2 DEF SymMapped
  <2> QED
    BY <2>1, <2>2
<1> QED
  BY <1>1, <1>3, <1>4, <1>5, <1>6 DEF InSym, In, AtSymbol

(* What is left to show for a step that maps the current symbol to j.      *)
LEMMA SymbolMapped ==
  ASSUME MergeTyped, SymbolsInv, AtSymbol, NEW j \in Nat, MapSymbol(j),
         \A o, q : o = k /\ q = i => SymKept(o, q)',
         \A o, q : SymMapped(o, q) => SymKept(o, q)',
         j \in DOMAIN syms => InSym.bind # "LOCAL" /\ syms[j].bind # "LOCAL",
         \A x \in DOMAIN syms' : syms'[x].bind # "LOCAL" /\ syms'[x].sec # 0 =>
           \/ x \in DOMAIN syms /\ syms[x].bind # "LOCAL" /\ syms[x].sec # 0
           \/ x = j /\ InSym.sec # 0
  PROVE  SymbolsInv'
<1>1. /\ units' = units /\ InSym = units[k].syms[i]
      /\ \A o, q : SymMapped(o, q)' <=> SymMapped(o, q) \/ (o = k /\ q = i)
      /\ ~ SymMapped(k, i)
      /\ maps'[k].sym[i] = j
      /\ \A o, q : SymMapped(o, q) => maps'[o].sym[q] = maps[o].sym[q]
  BY OneSymbolMore
<1>2. \A o, q : SymMapped(o, q)' => SymKept(o, q)'
  BY <1>1
<1>3. ASSUME NEW o, NEW q, NEW o2, NEW q2, SymMapped(o, q)', SymMapped(o2, q2)',
             units'[o].syms[q].bind = "LOCAL", maps'[o2].sym[q2] = maps'[o].sym[q]
      PROVE  o2 = o /\ q2 = q
  <2>1. CASE SymMapped(o, q) /\ SymMapped(o2, q2)
    BY <1>1, <1>3, <2>1 DEF SymbolsInv
  <2>2. CASE SymMapped(o, q) /\ ~ SymMapped(o2, q2)
    <3>1. maps[o].sym[q] = j
      BY <1>1, <1>3, <2>2
    <3>2. j \in DOMAIN syms
      BY <2>2, <3>1, SymMappedFacts
    <3>3. syms[j].bind = "LOCAL"
      <4>1. syms[maps[o].sym[q]].bind = "LOCAL" <=> units[o].syms[q].bind = "LOCAL"
        <5>1. SymKept(o, q)
          BY <2>2 DEF SymbolsInv
        <5> QED
          BY <5>1 DEF SymKept
      <4>2. units[o].syms[q].bind = "LOCAL"
        BY <1>1, <1>3
      <4> QED
        BY <3>1, <4>1, <4>2
    <3> QED
      BY <3>2, <3>3
  <2>3. CASE ~ SymMapped(o, q) /\ SymMapped(o2, q2)
    <3>1. o = k /\ q = i /\ maps[o2].sym[q2] = j
      BY <1>1, <1>3, <2>3
    <3>2. j \in DOMAIN syms
      BY <2>3, <3>1, SymMappedFacts
    <3> QED
      BY <1>1, <1>3, <3>1, <3>2
  <2>4. CASE ~ SymMapped(o, q) /\ ~ SymMapped(o2, q2)
    BY <1>1, <1>3, <2>4
  <2> QED
    BY <2>1, <2>2, <2>3, <2>4
<1>4. ASSUME NEW x \in DOMAIN syms', syms'[x].bind # "LOCAL", syms'[x].sec # 0
      PROVE  \E o, q : SymMapped(o, q)' /\ maps'[o].sym[q] = x /\ units'[o].syms[q].sec # 0
  <2>1. CASE x = j /\ InSym.sec # 0
    BY <1>1, <2>1
  <2>2. CASE x \in DOMAIN syms /\ syms[x].bind # "LOCAL" /\ syms[x].sec # 0
    <3>1. PICK o, q : SymMapped(o, q) /\ maps[o].sym[q] = x /\ units[o].syms[q].sec # 0
      BY <2>2 DEF SymbolsInv
    <3> QED
      BY <1>1, <3>1
  <2> QED
    BY <1>4, <2>1, <2>2
<1> QED
  BY <1>2, <1>3, <1>4 DEF SymbolsInv

(* A mapped symbol is kept when the output's symbol is left as it is.      *)
LEMMA KeptWhereUnchanged ==
  ASSUME MergeTyped, SymbolsInv, AtSymbol, NEW j \in Nat, MapSymbol(j),
         NEW o, NEW q, SymMapped(o, q), syms'[maps[o].sym[q]] = syms[maps[o].sym[q]]
  PROVE  SymKept(o, q)'
<1>1. /\ units' = units /\ maps'[o].sym[q] = maps[o].sym[q]
      /\ maps'[o].sec = maps[o].sec /\ maps'[o].base = maps[o].base
  BY OneSymbolMore
<1>2. SymKept(o, q)
  BY DEF SymbolsInv
<1> QED
  BY <1>1, <1>2 DEF SymKept, MovedFrom

(* The current symbol is kept where it, moved, becomes the output's one.   *)
LEMMA KeptWhereMoved ==
  ASSUME MergeTyped, AtSymbol, NEW j \in Nat, MapSymbol(j), NEW o, NEW q, o = k, q = i,
         syms'[j].name = InSym.name, syms'[j].bind = "LOCAL" <=> InSym.bind = "LOCAL",
         InSym.sec # 0 => /\ syms'[j].sec = Moved(InSym).sec
                          /\ syms'[j].value = Moved(InSym).value
                          /\ syms'[j].type = InSym.type,
         InSym.bind = "LOCAL" /\ InSym.sec = 0 => syms'[j].sec = 0
  PROVE  SymKept(o, q)'
<1>1. /\ units' = units /\ InSym = units[k].syms[i] /\ maps'[k].sym[i] = j
      /\ maps'[k].sec = maps[k].sec /\ maps'[k].base = maps[k].base /\ k' = k
  BY OneSymbolMore
<1>2. InSym.sec # 0 =>
        /\ Moved(InSym).sec = maps[k].sec[InSym.sec]
        /\ Moved(InSym).value = maps[k].base[InSym.sec] + InSym.value
  BY MovedIsSymbol
<1> QED
  BY <1>1, <1>2 DEF SymKept, MovedFrom

LEMMA SymbolsWhenAdded ==
  ASSUME MergeTyped, SymbolsInv, AddSymbol
  PROVE  SymbolsInv'
<1> DEFINE n == Len(syms) + 1
<1>1. /\ MapSymbol(n) /\ n \in Nat /\ Len(syms) \in Nat /\ AtSymbol
      /\ DOMAIN syms = 1..Len(syms) /\ DOMAIN syms' = 1..n
      /\ \A j \in DOMAIN syms : syms'[j] = syms[j]
      /\ syms'[n] = Moved(InSym)
  BY AddSymbolEffect, TypedFacts DEF AddSymbol
<1>2. n \notin DOMAIN syms /\ \A x \in DOMAIN syms' : x \in DOMAIN syms \/ x = n
  BY <1>1
<1>3. PICK j \in Nat : j = n
  BY <1>1
<1> HIDE DEF n
<1>4. /\ Moved(InSym).name = InSym.name /\ Moved(InSym).bind = InSym.bind
      /\ Moved(InSym).type = InSym.type
      /\ InSym.sec = 0 => Moved(InSym).sec = 0
  BY <1>1, MovedIsSymbol
<1>5. \A o, q : o = k /\ q = i => SymKept(o, q)'
  BY <1>1, <1>3, <1>4, KeptWhereMoved
<1>6. \A o, q : SymMapped(o, q) => SymKept(o, q)'
  <2> SUFFICES ASSUME NEW o, NEW q, SymMapped(o, q) PROVE SymKept(o, q)'
    OBVIOUS
  <2>1. syms'[maps[o].sym[q]] = syms[maps[o].sym[q]]
    BY <1>1, SymMappedFacts
  <2> QED
    BY <1>1, <1>3, <2>1, KeptWhereUnchanged
<1>7. \A x \in DOMAIN syms' : syms'[x].bind # "LOCAL" /\ syms'[x].sec # 0 =>
        \/ x \in DOMAIN syms /\ syms[x].bind # "LOCAL" /\ syms[x].sec # 0
        \/ x = j /\ InSym.sec # 0
  <2> SUFFICES ASSUME NEW x \in DOMAIN syms', syms'[x].bind # "LOCAL", syms'[x].sec # 0
               PROVE  \/ x \in DOMAIN syms /\ syms[x].bind # "LOCAL" /\ syms[x].sec # 0
                      \/ x = j /\ InSym.sec # 0
    OBVIOUS
  <2>1. CASE x \in DOMAIN syms
    BY <1>1, <2>1
  <2>2. CASE x = n
    BY <1>1, <1>3, <1>4, <2>2
  <2> QED
    BY <1>2, <2>1, <2>2
<1>8. MapSymbol(j) /\ j \notin DOMAIN syms
  BY <1>1, <1>2, <1>3
<1> QED
  BY <1>1, <1>5, <1>6, <1>7, <1>8, SymbolMapped

LEMMA SymbolsWhenReferred ==
  ASSUME MergeTyped, SymbolsInv, ReferGlobal
  PROVE  SymbolsInv'
<1>1. /\ AtSymbol /\ MapSymbol(Existing) /\ syms' = syms
      /\ InSym.bind # "LOCAL" /\ Existing # 0 /\ InSym.sec = 0
  BY DEF ReferGlobal
<1>2. /\ Existing \in DOMAIN syms /\ Existing \in Nat
      /\ syms[Existing].bind # "LOCAL" /\ syms[Existing].name = InSym.name
  <2>1. Existing \in DOMAIN syms /\ DOMAIN syms = 1..Len(syms)
    BY <1>1, ExistingIsGlobal, TypedFacts
  <2> QED
    BY <1>1, <2>1, ExistingIsGlobal
<1>3. PICK j \in Nat : j = Existing
  BY <1>2
<1>4. MapSymbol(j) /\ j \in DOMAIN syms /\ syms[j].bind # "LOCAL" /\ syms[j].name = InSym.name
  BY <1>1, <1>2, <1>3
<1>5. \A o, q : o = k /\ q = i => SymKept(o, q)'
  BY <1>1, <1>4, KeptWhereMoved
<1>6. \A o, q : SymMapped(o, q) => SymKept(o, q)'
  BY <1>1, <1>4, KeptWhereUnchanged
<1> QED
  BY <1>1, <1>4, <1>5, <1>6, SymbolMapped

(* The symbol that gets its place had none, so no definition stands on it. *)
LEMMA SymbolsWhenDefined ==
  ASSUME MergeTyped, SymbolsInv, DefineGlobal
  PROVE  SymbolsInv'
<1>1. /\ AtSymbol /\ MapSymbol(Existing) /\ Existing \in DOMAIN syms /\ Existing \in Nat
      /\ InSym.bind # "LOCAL" /\ InSym.sec # 0
      /\ syms[Existing].bind # "LOCAL" /\ syms[Existing].name = InSym.name
      /\ syms[Existing].sec = 0
  <2>1. /\ AtSymbol /\ MapSymbol(Existing) /\ Existing # 0
        /\ InSym.bind # "LOCAL" /\ InSym.sec # 0 /\ syms[Existing].sec = 0
    BY DEF DefineGlobal
  <2>2. Existing \in DOMAIN syms /\ DOMAIN syms = 1..Len(syms)
    BY <2>1, ExistingIsGlobal, TypedFacts
  <2> QED
    BY <2>1, <2>2, ExistingIsGlobal
<1>2. PICK j \in Nat : j = Existing
  BY <1>1
<1>3. /\ MapSymbol(j) /\ j \in DOMAIN syms
      /\ syms[j].bind # "LOCAL" /\ syms[j].name = InSym.name /\ syms[j].sec = 0
  BY <1>1, <1>2
<1>4. /\ DOMAIN syms' = DOMAIN syms
      /\ \A x \in DOMAIN syms : x # j => syms'[x] = syms[x]
      /\ syms'[j].name = syms[j].name /\ syms'[j].bind = syms[j].bind
      /\ syms'[j].sec = Moved(InSym).sec /\ syms'[j].value = Moved(InSym).value
      /\ syms'[j].type = InSym.type
  <2>1. /\ syms' \in Seq(Symbol(Names)) /\ Len(syms') = Len(syms)
        /\ \A x \in 1..Len(syms) : x # j => syms'[x] = syms[x]
        /\ syms'[j] =
             [name |-> syms[j].name, sec |-> Moved(InSym).sec, value |-> Moved(InSym).value,
              bind |-> syms[j].bind, type |-> InSym.type]
    BY <1>2, DefineGlobalEffect
  <2>2. DOMAIN syms' = DOMAIN syms /\ DOMAIN syms = 1..Len(syms)
    BY <2>1, TypedFacts
  <2> QED
    BY <2>1, <2>2
<1>5. \A o, q : o = k /\ q = i => SymKept(o, q)'
  BY <1>1, <1>3, <1>4, KeptWhereMoved
<1>6. ASSUME NEW o, NEW q, SymMapped(o, q)
      PROVE  SymKept(o, q)'
  <2>1. CASE maps[o].sym[q] # j
    <3>1. syms'[maps[o].sym[q]] = syms[maps[o].sym[q]]
      BY <1>4, <1>6, <2>1, SymMappedFacts
    <3> QED
      BY <1>1, <1>3, <1>6, <3>1, KeptWhereUnchanged
  <2>2. CASE maps[o].sym[q] = j
    <3> DEFINE old == units[o].syms[q]
    <3>1. /\ syms[j].name = old.name /\ (syms[j].bind = "LOCAL" <=> old.bind = "LOCAL")
          /\ old.sec # 0 => MovedFrom(<<o, q>>, syms[j])
      BY <1>6, <2>2 DEF SymbolsInv, SymKept
    <3>2. old.sec = 0
      <4>1. pc = "symbols"
        BY <1>1 DEF AtSymbol
      <4>2. old.sec # 0 => maps[o].sec[old.sec] # 0
        BY <1>6, <4>1, SymMappedFacts
      <4>3. old.sec # 0 => syms[j].sec = maps[o].sec[old.sec]
        BY <3>1 DEF MovedFrom
      <4> QED
        BY <1>3, <4>2, <4>3
    <3>3. units'[o].syms[q] = old /\ maps'[o].sym[q] = j
      BY <1>1, <1>3, <1>6, <2>2, OneSymbolMore
    <3> HIDE DEF old
    <3>4. /\ syms'[j].name = old.name /\ (syms'[j].bind = "LOCAL" <=> old.bind = "LOCAL")
          /\ old.sec = 0 /\ old.bind # "LOCAL"
      BY <1>3, <1>4, <3>1, <3>2
    <3> QED
      BY <3>3, <3>4 DEF SymKept
  <2> QED
    BY <2>1, <2>2
<1>7. \A x \in DOMAIN syms' : syms'[x].bind # "LOCAL" /\ syms'[x].sec # 0 =>
        \/ x \in DOMAIN syms /\ syms[x].bind # "LOCAL" /\ syms[x].sec # 0
        \/ x = j /\ InSym.sec # 0
  BY <1>1, <1>4
<1> QED
  BY <1>1, <1>3, <1>5, <1>6, <1>7, SymbolMapped

LEMMA SymbolsStep ==
  ASSUME MergeTyped, SymbolsInv, [MergeNext]_mergeVars
  PROVE  SymbolsInv'
<1>1. CASE AddSymbol
  BY <1>1, SymbolsWhenAdded
<1>2. CASE ReferGlobal
  BY <1>2, SymbolsWhenReferred
<1>3. CASE DefineGlobal
  BY <1>3, SymbolsWhenDefined
<1>4. CASE ReadObject
  <2>1. /\ units' = units /\ syms' = syms /\ k \in Nat
        /\ DOMAIN maps = 1..k /\ DOMAIN maps' = 1..(k + 1)
        /\ \A o \in 1..k : maps'[o] = maps[o]
    BY <1>4, ReadObjectEffect
  <2>2. DOMAIN maps'[k + 1].sym = {}
    <3>1. maps'[k + 1] = [sec |-> << >>, base |-> << >>, sym |-> << >>]
      BY <1>4, ReadObjectEffect
    <3> QED
      BY <3>1
  <2>3. ASSUME NEW o, NEW q
        PROVE  SymMapped(o, q)' <=> SymMapped(o, q)
    <3>1. CASE o \in 1..k
      BY <2>1, <3>1 DEF SymMapped
    <3>2. CASE o = k + 1
      BY <2>1, <2>2, <3>2 DEF SymMapped
    <3>3. CASE o \notin 1..(k + 1)
      BY <2>1, <3>3 DEF SymMapped
    <3> QED
      BY <2>1, <3>1, <3>2, <3>3
  <2>4. \A o, q : SymMapped(o, q) => maps'[o] = maps[o]
    BY <2>1 DEF SymMapped
  <2> QED
    BY <2>1, <2>3, <2>4, SymbolsUntouched
<1>5. CASE MergeSection
  <2>1. /\ DOMAIN maps' = 1..k /\ DOMAIN maps = 1..k
        /\ \A o \in 1..k : o # k => maps'[o] = maps[o]
        /\ maps'[k].sym = maps[k].sym
    <3>1. maps'[k] = [sec  |-> Append(maps[k].sec, Into),
                      base |-> Append(maps[k].base, Len(Room)),
                      sym  |-> maps[k].sym]
      BY <1>5, MergeSectionEffect
    <3>2. maps'[k].sym = maps[k].sym
      BY <3>1
    <3> QED
      BY <1>5, <3>2, MergeSectionEffect, TypedFacts
  <2>2. units' = units /\ syms' = syms /\ maps[k].sym = << >>
    BY <1>5, ScalarFacts DEF MergeSection
  <2>3. \A o, q : SymMapped(o, q)' <=> SymMapped(o, q)
    BY <2>1 DEF SymMapped
  <2>4. \A o, q : SymMapped(o, q) => maps'[o] = maps[o]
    <3>1. DOMAIN maps[k].sym = {}
      BY <2>2
    <3> QED
      BY <2>1, <3>1 DEF SymMapped
  <2> QED
    BY <2>2, <2>3, <2>4, SymbolsUntouched
<1>6. CASE MergeReloc
  <2>1. UNCHANGED <<units, syms, maps>>
    BY <1>6 DEF MergeReloc, CarryReloc
  <2> QED
    BY <2>1, SymbolsUntouched DEF SymMapped
<1>7. CASE Moves
  <2>1. UNCHANGED <<units, syms, maps>>
    BY <1>7, MovesKeep
  <2> QED
    BY <2>1, SymbolsUntouched DEF SymMapped
<1> QED
  BY <1>1, <1>2, <1>3, <1>4, <1>5, <1>6, <1>7, StepKinds

(* When all is merged, every section and symbol of every object is mapped. *)
LEMMA AllWhole ==
  ASSUME MergeTyped, pc = "merged", NEW o \in DOMAIN maps
  PROVE  /\ DOMAIN maps[o].sec = DOMAIN units[o].secs
         /\ DOMAIN maps[o].sym = DOMAIN units[o].syms
<1>1. o \in 1..k /\ k \in Nat /\ maps[o] \in Maps /\ units[o] \in Objects
  <2>1. o \in 1..k /\ k \in Nat /\ maps[o] \in Maps
    BY TypedFacts
  <2> QED
    BY <2>1 DEF MergeTyped, MapsSound
<1>2. Whole(o)
  <2>1. Whole(k)
    BY DEF MergeTyped, PhaseSound
  <2>2. o < k => Whole(o)
    BY DEF MergeTyped, MapsSound
  <2>3. o < k \/ o = k
    BY <1>1
  <2> QED
    BY <2>1, <2>2, <2>3
<1>3. /\ maps[o].sec \in Seq(Nat) /\ units[o].secs \in Seq(Section(Names))
      /\ maps[o].sym \in Seq(Nat) /\ units[o].syms \in Seq(Symbol(Names))
  <2>1. maps[o].sec \in Seq(Nat) /\ maps[o].sym \in Seq(Nat)
    BY <1>1 DEF Maps
  <2> QED
    BY <1>1, <2>1, ObjectFields
<1> QED
  BY <1>2, <1>3 DEF Whole

LEMMA AllMapped ==
  ASSUME MergeTyped, pc = "merged", NEW o \in DOMAIN maps
  PROVE  \A q \in DOMAIN units[o].syms : SymMapped(o, q)
BY AllWhole DEF SymMapped

(* Theorem: when all is merged each input symbol stands for the right      *)
(* thing: a local one for itself alone, a global one for the definition of *)
(* its name, before or after it in the link, or for nothing if there is    *)
(* none (Link_Merge's second phase, link.c:73-104).                        *)
THEOREM SymbolsAreResolved == MergeSpec => []SymbolsResolve
<1>1. MergeTyped /\ SymbolsInv /\ GlobalsUnique => SymbolsResolve
  <2> SUFFICES ASSUME MergeTyped, SymbolsInv, UniqueGlobals(syms), pc = "merged",
                      NEW o \in DOMAIN maps, NEW q \in DOMAIN units[o].syms
               PROVE  LET old == units[o].syms[q]
                          new == syms[maps[o].sym[q]]
                      IN /\ new.name = old.name
                         /\ new.bind = "LOCAL" <=> old.bind = "LOCAL"
                         /\ old.bind = "LOCAL" =>
                              /\ IF old.sec # 0 THEN MovedFrom(<<o, q>>, new) ELSE new.sec = 0
                              /\ \A o2 \in DOMAIN maps : \A q2 \in DOMAIN units[o2].syms :
                                   maps[o2].sym[q2] = maps[o].sym[q] => o2 = o /\ q2 = q
                         /\ old.bind # "LOCAL" =>
                              IF Defs(old.name) = {} THEN new.sec = 0
                              ELSE \A l \in Defs(old.name) :
                                     MovedFrom(l, new) /\ new.type = units[l[1]].syms[l[2]].type
    BY DEF SymbolsResolve, GlobalsUnique
  <2> DEFINE old == units[o].syms[q]
             j   == maps[o].sym[q]
             new == syms[j]
  <2>1. SymMapped(o, q)
    BY AllMapped
  <2>2. SymKept(o, q)
    BY <2>1 DEF SymbolsInv
  <2>3. j \in DOMAIN syms
    BY <2>1, SymMappedFacts
  <2>4. new.name = old.name /\ (new.bind = "LOCAL" <=> old.bind = "LOCAL")
    BY <2>2 DEF SymKept
  <2>5. ASSUME old.bind = "LOCAL"
        PROVE  /\ IF old.sec # 0 THEN MovedFrom(<<o, q>>, new) ELSE new.sec = 0
               /\ \A o2 \in DOMAIN maps : \A q2 \in DOMAIN units[o2].syms :
                    maps[o2].sym[q2] = j => o2 = o /\ q2 = q
    <3>1. IF old.sec # 0 THEN MovedFrom(<<o, q>>, new) ELSE new.sec = 0
      BY <2>2, <2>5 DEF SymKept
    <3>2. \A o2 \in DOMAIN maps : \A q2 \in DOMAIN units[o2].syms :
            maps[o2].sym[q2] = j => o2 = o /\ q2 = q
      BY <2>1, <2>5, AllMapped DEF SymbolsInv
    <3> QED
      BY <3>1, <3>2
  <2>6. ASSUME old.bind # "LOCAL", new.sec # 0
        PROVE  Defs(old.name) # {}
    <3>1. PICK o2, q2 : SymMapped(o2, q2) /\ maps[o2].sym[q2] = j /\ units[o2].syms[q2].sec # 0
      BY <2>3, <2>4, <2>6 DEF SymbolsInv
    <3>2. SymKept(o2, q2) /\ o2 \in DOMAIN maps /\ q2 \in DOMAIN units[o2].syms
      BY <3>1, SymMappedFacts DEF SymbolsInv
    <3>3. units[o2].syms[q2].name = new.name /\ units[o2].syms[q2].bind # "LOCAL"
      BY <2>4, <2>6, <3>1, <3>2 DEF SymKept
    <3>4. <<o2, q2>> \in UNION {{x} \X DOMAIN units[x].syms : x \in DOMAIN maps}
      BY <3>2
    <3>5. <<o2, q2>> \in Defs(old.name)
      BY <2>4, <3>1, <3>3, <3>4 DEF Defs
    <3> QED
      BY <3>5
  <2>7. ASSUME old.bind # "LOCAL", NEW l \in Defs(old.name)
        PROVE  MovedFrom(l, new) /\ new.type = units[l[1]].syms[l[2]].type
    <3>1. /\ l = <<l[1], l[2]>> /\ l[1] \in DOMAIN maps /\ l[2] \in DOMAIN units[l[1]].syms
          /\ units[l[1]].syms[l[2]].bind # "LOCAL"
          /\ units[l[1]].syms[l[2]].name = old.name
          /\ units[l[1]].syms[l[2]].sec # 0
      BY DEF Defs
    <3>2. SymMapped(l[1], l[2])
      BY <3>1, AllMapped
    <3>3. SymKept(l[1], l[2]) /\ maps[l[1]].sym[l[2]] \in DOMAIN syms
      BY <3>2, SymMappedFacts DEF SymbolsInv
    <3> DEFINE j2 == maps[l[1]].sym[l[2]]
    <3>4. /\ syms[j2].name = old.name /\ syms[j2].bind # "LOCAL"
          /\ MovedFrom(<<l[1], l[2]>>, syms[j2]) /\ syms[j2].type = units[l[1]].syms[l[2]].type
      BY <3>1, <3>3 DEF SymKept
    <3>5. j2 = j
      BY <2>3, <2>4, <2>7, <3>3, <3>4 DEF UniqueGlobals
    <3> HIDE DEF j2
    <3> QED
      BY <3>1, <3>4, <3>5
  <2> QED
    BY <2>4, <2>5, <2>6, <2>7
<1>2. MergeTyped /\ SymbolsInv /\ [MergeNext]_mergeVars => SymbolsInv'
  BY SymbolsStep
<1> QED
  BY <1>1, <1>2, SymbolsInitially, MergeTypedInvariant, GlobalsAreUnique, PTL DEF MergeSpec

=============================================================================
