---------------------------- MODULE FrameProofs ----------------------------
(***************************************************************************)
(* Proofs about the frame of a function: its type invariant, that the      *)
(* locals' slots are sound, and that each argument lands in its slot.      *)
(***************************************************************************)
EXTENDS Frame, SequenceTheorems, TLAPS

(* AlignTo rounds up, to a multiple, by less than the alignment. *)
LEMMA AlignToRounds ==
  ASSUME NEW n \in Nat, NEW a \in Nat \ {0}
  PROVE  /\ AlignTo(n, a) \in Nat
         /\ AlignTo(n, a) >= n
         /\ AlignTo(n, a) % a = 0
         /\ (-AlignTo(n, a)) % a = 0
<1> DEFINE q == (n + a - 1) \div a
           m == (n + a - 1) % a
<1>1. q \in Nat /\ m \in 0..(a - 1) /\ n + a - 1 = q * a + m
  BY SMTT(30)
<1>2. q * a \in Nat
  BY <1>1, SMTT(30)
<1>3. \A z \in Int : (z * a) % a = 0
  BY SMTT(30)
<1>3a. -(q * a) = (-q) * a /\ -q \in Int /\ q \in Int
  BY <1>1, SMTT(30)
<1>4. AlignTo(n, a) = q * a
  BY DEF AlignTo
<1> HIDE DEF q, m
<1> QED
  BY <1>1, <1>2, <1>3, <1>3a, <1>4

(* Changing one element leaves a sequence of the same length. *)
LEMMA ExceptIsSeq ==
  ASSUME NEW S, NEW s \in Seq(S), NEW x \in S, NEW w
  PROVE  /\ [s EXCEPT ![w] = x] \in Seq(S)
         /\ Len([s EXCEPT ![w] = x]) = Len(s)
         /\ \A y \in DOMAIN s : [s EXCEPT ![w] = x][y] = IF y = w THEN x ELSE s[y]
<1>1. s \in [1..Len(s) -> S] /\ Len(s) \in Nat
  BY LenProperties
<1>2. [s EXCEPT ![w] = x] \in [1..Len(s) -> S]
  BY <1>1
<1>3. [s EXCEPT ![w] = x] \in Seq(S)
  BY <1>1, <1>2, SeqDef
<1>4. DOMAIN [s EXCEPT ![w] = x] = 1..Len(s)
  BY <1>1
<1> QED
  BY <1>1, <1>3, <1>4, LenProperties

(* The i-th argument on the stack is the argument the caller put there. *)
LEMMA StackArgIsNext ==
  ASSUME NEW n \in Nat, n >= MaxRegArgs
  PROVE  StackArg(StackArgOffset(n)) = n + 1
<1> DEFINE d == n - MaxRegArgs
<1>1. MaxRegArgs \in Nat /\ WordSize \in Nat \ {0} /\ d \in Nat
  BY LayoutAssumption
<1>2. d * WordSize \in Nat /\ (d * WordSize) \div WordSize = d
  BY <1>1, SMTT(30)
<1>3. StackArgOffset(n) - 2 * WordSize = d * WordSize
  <2>1. \A x \in Nat : (2 * WordSize + x) - 2 * WordSize = x
    BY <1>1
  <2> QED
    BY <1>2, <2>1 DEF StackArgOffset
<1> QED
  BY <1>1, <1>2, <1>3 DEF StackArg

-----------------------------------------------------------------------------
(* Type correctness.                                                       *)

(* A search for a name yields a variable or NULL. *)
LEMMA FindVarInRange ==
  ASSUME NEW name, vars \in Seq(Vars)
  PROVE  FindVar(name) \in 0..Len(vars)
<1>1. DOMAIN vars = 1..Len(vars) /\ Len(vars) \in Nat
  OBVIOUS
<1> QED
  BY <1>1 DEF FindVar

LEMMA DeclareGrows ==
  ASSUME NEW name \in Names, NEW type \in ParamTypes \union LocalTypes,
         vars \in Seq(Vars), Declare(name, type)
  PROVE  /\ vars' \in Seq(Vars)
         /\ Len(vars') = IF FindVar(name) # 0 THEN Len(vars) ELSE Len(vars) + 1
         /\ Declared(name) \in 1..Len(vars')
         /\ \A w \in DOMAIN vars : vars'[w] = vars[w]
<1>1. [name |-> name, type |-> type] \in Vars
  BY DEF Vars
<1>2. Len(vars) \in Nat /\ FindVar(name) \in 0..Len(vars)
  BY FindVarInRange
<1>3. CASE FindVar(name) # 0
  BY <1>2, <1>3 DEF Declare, Declared
<1>4. CASE FindVar(name) = 0
  <2>1. vars' = Append(vars, [name |-> name, type |-> type])
    BY <1>4 DEF Declare
  <2> QED
    BY <1>1, <1>2, <1>4, <2>1 DEF Declared
<1> QED
  BY <1>3, <1>4

LEMMA LinkedGrows ==
  ASSUME NEW ch, NEW n \in Nat, ch \in Seq(0..n), Len(ch) = n, NEW w \in 1..(n + 1)
  PROVE  /\ Linked(ch, w) \in Seq(0..n)
         /\ Len(Linked(ch, w)) = IF w <= n THEN n ELSE n + 1
         /\ Linked(ch, w)[w] = 0
         /\ \A x \in 1..n : x # w => Linked(ch, w)[x] = ch[x]
<1>1. CASE w <= n
  BY <1>1 DEF Linked
<1>2. CASE w = n + 1
  <2>1. Linked(ch, w) = Append(ch, 0)
    BY <1>2 DEF Linked
  <2> QED
    BY <1>2, <2>1
<1> QED
  BY <1>1, <1>2

LEMMA TypeParts ==
  ASSUME vars \in Seq(Vars), NEW w \in DOMAIN vars
  PROVE  /\ vars[w].type.size \in Nat
         /\ vars[w].type.align \in Nat \ {0}
<1>1. vars[w] \in Vars
  OBVIOUS
<1>2. vars[w].type \in ParamTypes \union LocalTypes
  BY <1>1 DEF Vars
<1>3. vars[w].type \in [size : Nat, align : Nat \ {0}]
  BY <1>2, TypesAssumption
<1> QED
  BY <1>3

LEMMA FrameTypeInit == FrameInit => FrameTypeOK
<1> SUFFICES ASSUME FrameInit PROVE FrameTypeOK
  OBVIOUS
<1>1. << >> \in Seq(Vars) /\ << >> \in Seq(0..0) /\ << >> \in Seq(1..0) /\ << >> \in Seq(Int)
  OBVIOUS
<1> QED
  BY <1>1 DEF FrameInit, FrameTypeOK

LEMMA FrameTypeStep == FrameTypeOK /\ [FrameNext]_frameVars => FrameTypeOK'
<1> SUFFICES ASSUME FrameTypeOK, [FrameNext]_frameVars PROVE FrameTypeOK'
  OBVIOUS
<1>0. /\ vars \in Seq(Vars) /\ Len(vars) \in Nat
      /\ chain \in Seq(0..Len(vars)) /\ Len(chain) = Len(vars)
      /\ header \in Seq(1..Len(vars)) /\ slot \in Seq(Int)
  BY DEF FrameTypeOK
<1>1. ASSUME NEW name \in Names, NEW type \in ParamTypes, DeclareParam(name, type)
      PROVE  FrameTypeOK'
  <2> DEFINE w == Declared(name)
             n == Len(vars)
  <2>1. /\ vars' \in Seq(Vars) /\ Len(vars') \in {n, n + 1}
        /\ w \in 1..Len(vars') /\ w \in 1..(n + 1)
        /\ (w = n + 1 <=> Len(vars') = n + 1)
    <3>1. Declare(name, type)
      BY <1>1 DEF DeclareParam
    <3>2. FindVar(name) \in 0..n
      BY <1>0, FindVarInRange
    <3> QED
      BY <1>0, <3>1, <3>2, DeclareGrows DEF Declared
  <2>2. /\ header' = Append(header, w) /\ tail' = w
        /\ IF params = 0
           THEN params' = w /\ chain' = Linked(chain, w)
           ELSE params' = params /\ chain' = [Linked(chain, w) EXCEPT ![tail] = w]
        /\ UNCHANGED <<pc, cursor, offset, slot, frameSize, i>>
        /\ pc = "params"
    BY <1>1 DEF DeclareParam, laidOut
  <2> HIDE DEF w
  <2>3. header' \in Seq(1..Len(vars'))
    <3>1. header \in Seq(1..Len(vars'))
      BY <1>0, <2>1
    <3> QED
      BY <2>1, <2>2, <3>1
  <2>4. Linked(chain, w) \in Seq(0..Len(vars')) /\ Len(Linked(chain, w)) = Len(vars')
    <3>1. /\ Linked(chain, w) \in Seq(0..n)
          /\ Len(Linked(chain, w)) = IF w <= n THEN n ELSE n + 1
      BY <1>0, <2>1, LinkedGrows
    <3> QED
      BY <1>0, <2>1, <3>1
  <2>5. chain' \in Seq(0..Len(vars')) /\ Len(chain') = Len(vars')
    <3>1. CASE params = 0
      BY <2>2, <2>4, <3>1
    <3>2. CASE params # 0
      <4>1. w \in 0..Len(vars')
        BY <2>1
      <4>2. chain' = [Linked(chain, w) EXCEPT ![tail] = w]
        BY <2>2, <3>2
      <4> QED
        BY <2>4, <4>1, <4>2, ExceptIsSeq, SMTT(30)
    <3> QED
      BY <3>1, <3>2
  <2>6. params' \in 0..Len(vars') /\ tail' \in 0..Len(vars') /\ cursor' \in 0..Len(vars')
    BY <1>0, <2>1, <2>2 DEF FrameTypeOK
  <2> QED
    BY <2>1, <2>2, <2>3, <2>5, <2>6 DEF FrameTypeOK
<1>2. CASE ParamsDone
  BY <1>2 DEF FrameTypeOK, ParamsDone, parsed, laidOut
<1>3. ASSUME NEW name \in Names, NEW type \in LocalTypes, DeclareLocal(name, type)
      PROVE  FrameTypeOK'
  <2>1. /\ vars' \in Seq(Vars)
        /\ Len(vars') = IF FindVar(name) # 0 THEN Len(vars) ELSE Len(vars) + 1
    BY <1>0, <1>3, DeclareGrows DEF DeclareLocal
  <2>2. chain' \in Seq(0..Len(vars')) /\ Len(chain') = Len(vars')
    <3>1. chain' = IF FindVar(name) # 0 THEN chain ELSE Append(chain, 0)
      BY <1>3 DEF DeclareLocal
    <3>2. chain \in Seq(0..Len(vars')) /\ 0 \in 0..Len(vars')
      BY <1>0, <2>1
    <3>3. CASE FindVar(name) # 0
      BY <1>0, <2>1, <3>1, <3>2, <3>3
    <3>4. CASE FindVar(name) = 0
      <4>1. chain' = Append(chain, 0) /\ Len(vars') = Len(chain) + 1
        BY <1>0, <2>1, <3>1, <3>4
      <4> QED
        BY <3>2, <4>1
    <3> QED
      BY <3>3, <3>4
  <2>3. /\ UNCHANGED <<pc, params, tail, header, cursor, offset, slot, frameSize, i>>
        /\ pc = "locals"
    BY <1>3 DEF DeclareLocal, laidOut
  <2>4. header' \in Seq(1..Len(vars'))
    BY <1>0, <2>1, <2>3
  <2>5. params' \in 0..Len(vars') /\ tail' \in 0..Len(vars') /\ cursor' \in 0..Len(vars')
    BY <1>0, <2>1, <2>3 DEF FrameTypeOK
  <2> QED
    BY <2>1, <2>2, <2>3, <2>4, <2>5 DEF FrameTypeOK
<1>4. CASE LocalsDone
  <2>1. slot' \in Seq(Int) /\ Len(slot') = Len(vars)
    BY <1>0, <1>4 DEF LocalsDone
  <2> QED
    BY <1>0, <1>4, <2>1 DEF FrameTypeOK, LocalsDone, parsed
<1>5. CASE AssignSlot
  <2>1. cursor \in DOMAIN vars
    BY <1>0, <1>5 DEF AssignSlot, FrameTypeOK
  <2>2. offset' \in Nat
    <3>1. vars[cursor].type.size \in Nat /\ vars[cursor].type.align \in Nat \ {0}
      BY <1>0, <2>1, TypeParts
    <3>2. offset \in Nat
      BY DEF FrameTypeOK
    <3>2a. offset + vars[cursor].type.size \in Nat
      BY <3>1, <3>2
    <3> QED
      BY <1>5, <3>1, <3>2a, AlignToRounds DEF AssignSlot, NextOffset
  <2>3. slot' \in Seq(Int) /\ Len(slot') = Len(slot)
    <3>1. -offset' \in Int /\ slot' = [slot EXCEPT ![cursor] = -offset']
      BY <1>5, <2>2 DEF AssignSlot
    <3> QED
      BY <1>0, <3>1, ExceptIsSeq
  <2>4. cursor' \in 0..Len(vars)
    BY <1>0, <1>5, <2>1 DEF AssignSlot
  <2> QED
    BY <1>5, <2>2, <2>3, <2>4 DEF FrameTypeOK, AssignSlot, parsed
<1>6. CASE SlotsDone
  <2>1. frameSize' \in Nat
    BY <1>6, AlignToRounds, LayoutAssumption DEF SlotsDone, StackSize, FrameTypeOK
  <2> QED
    BY <1>6, <2>1 DEF FrameTypeOK, SlotsDone, parsed
<1>7. ASSUME NEW arg, pc = "spill", cursor # 0, Spill(arg)
      PROVE  FrameTypeOK'
  <2>1. cursor' \in 0..Len(vars) /\ i' \in Nat
    BY <1>0, <1>7 DEF FrameTypeOK, Spill
  <2> QED
    BY <1>7, <2>1 DEF FrameTypeOK, Spill, parsed, laidOut
<1>8. CASE SpillRegister
  BY <1>7, <1>8 DEF SpillRegister
<1>9. CASE SpillStack
  BY <1>7, <1>9 DEF SpillStack
<1>10. CASE SpillDone
  BY <1>10 DEF FrameTypeOK, SpillDone, parsed, laidOut
<1>11. CASE UNCHANGED frameVars
  BY <1>11 DEF FrameTypeOK, frameVars
<1> QED
  BY <1>1, <1>2, <1>3, <1>4, <1>5, <1>6, <1>8, <1>9, <1>10, <1>11 DEF FrameNext

(* Every variable of Frame keeps its type, for headers and locals of any   *)
(* number and type: FrameTypeOK of the compiler's loops.                   *)
THEOREM FrameTypeCorrect == FrameSpec => []FrameTypeOK
<1> QED
  BY FrameTypeInit, FrameTypeStep, PTL DEF FrameSpec

-----------------------------------------------------------------------------
(* Sound slots.                                                            *)

(* The loop over the locals has been at w. *)
Given(w) == LaidOut \/ (pc = "slots" /\ cursor < w)

SlotOK(w) ==
  /\ -offset <= slot[w]
  /\ EndOf(w) <= 0
  /\ slot[w] % vars[w].type.align = 0

(* What the loop keeps true: the slots given so far lie within `offset'    *)
(* bytes of %rbp, older variables below newer ones.                        *)
SlotsInv ==
  /\ \A w \in DOMAIN vars : Given(w) => SlotOK(w)
  /\ \A w, x \in DOMAIN vars : Given(w) /\ Given(x) /\ w < x => EndOf(w) <= slot[x]
  /\ LaidOut => offset <= frameSize /\ frameSize % StackAlign = 0

(* A step that lays nothing out leaves the slots as they are. *)
LEMMA SlotsUntouched ==
  ASSUME SlotsInv, FrameTypeOK,
         UNCHANGED <<vars, offset, slot, frameSize>>,
         LaidOut' => LaidOut,
         pc' # "slots"
  PROVE  SlotsInv'
<1>1. \A w \in DOMAIN vars' : Given(w)' => Given(w)
  BY DEF Given
<1>2. \A w \in DOMAIN vars' : EndOf(w)' = EndOf(w) /\ (SlotOK(w) => SlotOK(w)')
  BY DEF EndOf, SlotOK
<1> QED
  BY <1>1, <1>2 DEF SlotsInv

LEMMA SlotsInvStep ==
  FrameTypeOK /\ FrameTypeOK' /\ SlotsInv /\ [FrameNext]_frameVars => SlotsInv'
<1> SUFFICES ASSUME FrameTypeOK, FrameTypeOK', SlotsInv, [FrameNext]_frameVars
             PROVE  SlotsInv'
  OBVIOUS
<1>0. vars \in Seq(Vars) /\ Len(vars) \in Nat /\ slot \in Seq(Int) /\ offset \in Nat
  BY DEF FrameTypeOK
<1>1. CASE pc' \in {"params", "locals"}
  BY <1>1 DEF SlotsInv, Given, LaidOut
<1>2. CASE LocalsDone
  <2>1. pc' = "slots" /\ vars' = vars /\ cursor' = Len(vars)
    BY <1>2 DEF LocalsDone, parsed
  <2>2. \A w \in DOMAIN vars' : ~Given(w)'
    BY <1>0, <2>1 DEF Given, LaidOut
  <2> QED
    BY <2>1, <2>2 DEF SlotsInv, LaidOut
<1>3. CASE AssignSlot
  <2> DEFINE size == vars[cursor].type.size
             align == vars[cursor].type.align
  <2>1. /\ pc = "slots" /\ pc' = "slots" /\ vars' = vars
        /\ cursor' = cursor - 1 /\ cursor \in DOMAIN vars /\ cursor \in Nat
        /\ offset' = AlignTo(offset + size, align)
        /\ slot' = [slot EXCEPT ![cursor] = -offset']
        /\ DOMAIN slot = DOMAIN vars
    BY <1>0, <1>3 DEF AssignSlot, FrameTypeOK, parsed, NextOffset
  <2>2. size \in Nat /\ align \in Nat \ {0}
    BY <1>0, <2>1, TypeParts
  <2>3. offset' \in Nat /\ offset' >= offset + size /\ (-offset') % align = 0
    <3>1. offset + size \in Nat
      BY <1>0, <2>2
    <3> HIDE DEF size, align
    <3> QED
      BY <2>1, <2>2, <3>1, AlignToRounds
  <2>4. slot'[cursor] = -offset' /\ \A w \in DOMAIN vars : w # cursor => slot'[w] = slot[w]
    BY <2>1
  <2>5. \A w \in DOMAIN vars : Given(w)' <=> (w = cursor \/ Given(w))
    BY <1>0, <2>1 DEF Given, LaidOut
  <2>6. ASSUME NEW w \in DOMAIN vars, Given(w), w # cursor
        PROVE  SlotOK(w)' /\ EndOf(w)' = EndOf(w) /\ slot'[w] = slot[w] /\ slot[w] \in Int
    <3>1. SlotOK(w) /\ slot[w] \in Int /\ slot'[w] = slot[w]
      BY <1>0, <2>1, <2>4, <2>6 DEF SlotsInv
    <3>2. EndOf(w)' = EndOf(w)
      BY <2>1, <3>1 DEF EndOf
    <3>3. -offset' <= -offset /\ -offset' \in Int /\ -offset \in Int
      <4>1. \A a, b, d \in Nat : a >= b + d => -a <= -b
        OBVIOUS
      <4>2. offset' \in Nat /\ offset \in Nat /\ size \in Nat /\ offset' >= offset + size
        BY <1>0, <2>2, <2>3
      <4> HIDE DEF size
      <4>3. -offset' <= -offset
        BY <4>1, <4>2
      <4>4. -offset' \in Int /\ -offset \in Int
        BY <4>2
      <4> QED
        BY <4>3, <4>4
    <3>4. -offset' <= slot[w]
      <4>1. -offset <= slot[w]
        BY <3>1 DEF SlotOK
      <4> QED
        BY <3>1, <3>3, <4>1
    <3>5. SlotOK(w)'
      BY <2>1, <3>1, <3>2, <3>4 DEF SlotOK
    <3> QED
      BY <3>1, <3>2, <3>5
  <2>7. PICK c \in DOMAIN vars : c = cursor
    BY <2>1
  <2>8. /\ slot'[c] = -offset' /\ slot'[c] \in Int
        /\ EndOf(c)' = -offset' + size
        /\ -offset' + size <= -offset
    <3>1. slot'[c] = -offset' /\ slot'[c] \in Int
      BY <2>3, <2>4, <2>7
    <3>2. EndOf(c)' = -offset' + size
      <4>1. vars'[c].type.size = size
        BY <2>1, <2>7
      <4> QED
        BY <3>1, <4>1 DEF EndOf
    <3>3. -offset' + size <= -offset
      <4>1. \A a, m, d \in Nat : a >= m + d => -a + d <= -m
        OBVIOUS
      <4>2. offset' \in Nat /\ offset \in Nat /\ size \in Nat /\ offset' >= offset + size
        BY <1>0, <2>2, <2>3
      <4> HIDE DEF size
      <4> QED
        BY <4>1, <4>2
    <3> QED
      BY <3>1, <3>2, <3>3
  <2>9. SlotOK(c)'
    <3>1. EndOf(c)' <= 0
      BY <1>0, <2>2, <2>3, <2>8
    <3>2. slot'[c] % vars'[c].type.align = 0
      BY <2>1, <2>3, <2>7, <2>8
    <3>3. -offset' <= slot'[c]
      <4>1. \A a \in Int : a <= a
        OBVIOUS
      <4> QED
        BY <2>8, <4>1
    <3> QED
      BY <3>1, <3>2, <3>3 DEF SlotOK
  <2>10. ASSUME NEW w \in DOMAIN vars, NEW x \in DOMAIN vars, Given(w)', Given(x)', w < x
         PROVE  EndOf(w)' <= slot'[x]
    <3>1. CASE w = c
      <4>1. x # cursor /\ Given(x)
        BY <1>0, <2>5, <2>7, <2>10, <3>1
      <4>2. -offset <= slot'[x] /\ slot'[x] \in Int
        BY <2>6, <4>1 DEF SlotsInv, SlotOK
      <4> QED
        BY <1>0, <2>2, <2>3, <2>8, <3>1, <4>2
    <3>2. CASE w # c
      <4>1. Given(w) /\ cursor < w
        BY <1>0, <2>1, <2>5, <2>7, <2>10, <3>2 DEF Given, LaidOut
      <4>2. x # cursor /\ Given(x)
        BY <1>0, <2>1, <2>5, <2>10, <4>1
      <4> QED
        BY <2>6, <2>7, <2>10, <3>2, <4>1, <4>2 DEF SlotsInv
    <3> QED
      BY <3>1, <3>2
  <2>11. \A w \in DOMAIN vars : Given(w)' => SlotOK(w)'
    BY <2>5, <2>6, <2>7, <2>9
  <2> QED
    BY <2>1, <2>10, <2>11 DEF SlotsInv, LaidOut
<1>4. CASE SlotsDone
  <2>1. /\ pc = "slots" /\ cursor = 0 /\ frameSize' = StackSize(offset)
        /\ UNCHANGED <<vars, offset, slot>>
    BY <1>4 DEF SlotsDone, parsed
  <2>2. \A w \in DOMAIN vars : Given(w)
    BY <1>0, <2>1 DEF Given
  <2>3. offset <= frameSize' /\ frameSize' % StackAlign = 0
    BY <1>0, <2>1, AlignToRounds, LayoutAssumption DEF StackSize
  <2>4. \A w \in DOMAIN vars : SlotOK(w)' /\ EndOf(w)' = EndOf(w)
    BY <2>1, <2>2 DEF SlotsInv, SlotOK, EndOf
  <2> QED
    BY <2>1, <2>2, <2>3, <2>4 DEF SlotsInv
<1>5. CASE SpillRegister \/ SpillStack \/ SpillDone
  <2>1. LaidOut /\ pc' # "slots" /\ UNCHANGED <<vars, offset, slot, frameSize>>
    BY <1>5 DEF SpillRegister, SpillStack, SpillDone, Spill, LaidOut, parsed, laidOut
  <2> QED
    BY <2>1, SlotsUntouched
<1>6. CASE UNCHANGED frameVars
  BY <1>6 DEF frameVars, SlotsInv, SlotOK, Given, LaidOut, EndOf
<1> QED
  <2>1. ASSUME NEW name, NEW type, DeclareParam(name, type) \/ DeclareLocal(name, type)
        PROVE  pc' \in {"params", "locals"}
    BY <2>1 DEF DeclareParam, DeclareLocal
  <2>2. ParamsDone => pc' \in {"params", "locals"}
    BY DEF ParamsDone
  <2> QED
    BY <1>1, <1>2, <1>3, <1>4, <1>5, <1>6, <2>1, <2>2 DEF FrameNext

LEMMA SlotsInvImplies == FrameTypeOK /\ SlotsInv => SlotsSound
<1> SUFFICES ASSUME FrameTypeOK, SlotsInv, LaidOut
             PROVE  /\ frameSize % StackAlign = 0
                    /\ \A w \in DOMAIN vars :
                         /\ -frameSize <= slot[w] /\ EndOf(w) <= 0
                         /\ slot[w] % vars[w].type.align = 0
                    /\ \A w, x \in DOMAIN vars :
                         w # x => EndOf(w) <= slot[x] \/ EndOf(x) <= slot[w]
  BY DEF SlotsSound
<1>1. \A w \in DOMAIN vars : Given(w) /\ SlotOK(w) /\ slot[w] \in Int /\ w \in Int
  BY DEF Given, SlotsInv, FrameTypeOK, LaidOut
<1>2. offset <= frameSize /\ offset \in Nat /\ frameSize \in Nat /\ frameSize % StackAlign = 0
  BY DEF SlotsInv, FrameTypeOK
<1>3. \A w \in DOMAIN vars : -frameSize <= slot[w]
  BY <1>1, <1>2 DEF SlotOK
<1>4. \A w, x \in DOMAIN vars : w # x => EndOf(w) <= slot[x] \/ EndOf(x) <= slot[w]
  BY <1>1 DEF SlotsInv
<1> QED
  BY <1>1, <1>2, <1>3, <1>4 DEF SlotOK

LEMMA SlotsInvInit == FrameInit => SlotsInv
BY DEF FrameInit, SlotsInv, Given, LaidOut

(* The slots of a function's locals are aligned, inside the frame and      *)
(* disjoint, for any number of variables of any sizes and alignments:      *)
(* SlotsSound of Gen_x86_64_AssignLvarOffsets.                             *)
THEOREM SlotsAreSound == FrameSpec => []SlotsSound
<1>1. FrameInit => FrameTypeOK /\ SlotsInv
  BY FrameTypeInit, SlotsInvInit
<1>2. FrameTypeOK /\ SlotsInv /\ [FrameNext]_frameVars => FrameTypeOK' /\ SlotsInv'
  BY FrameTypeStep, SlotsInvStep
<1>3. FrameTypeOK /\ SlotsInv => SlotsSound
  BY SlotsInvImplies
<1> QED
  BY <1>1, <1>2, <1>3, PTL DEF FrameSpec

-----------------------------------------------------------------------------
(* Arguments in their slots.                                               *)

NextInHeader(n) == IF n = Len(header) THEN 0 ELSE header[n + 1]

(* The chain of the parameters follows the header. *)
ChainInv ==
  DistinctHeader =>
    /\ params = NextInHeader(0)
    /\ header # << >> => tail = header[Len(header)]
    /\ \A n \in DOMAIN header : chain[header[n]] = NextInHeader(n)

(* The spill loop has dealt with the first i parameters, and is at the     *)
(* next one.                                                               *)
SpillInv ==
  /\ ~LaidOut => i = 0
  /\ LaidOut => DOMAIN held = (-frameSize)..(-1)
  /\ LaidOut /\ DistinctHeader =>
       /\ i <= Len(header) /\ cursor = NextInHeader(i)
       /\ pc = "body" => i = Len(header)
       /\ \A n \in 1..i : \A b \in SlotBytes(header[n]) : held[b] = n

LEMMA ChainInvInit == FrameInit => ChainInv
BY DEF FrameInit, ChainInv, DistinctHeader, NextInHeader

LEMMA SpillInvInit == FrameInit => SpillInv
BY DEF FrameInit, SpillInv, LaidOut

LEMMA ChainInvStep ==
  FrameTypeOK /\ ChainInv /\ [FrameNext]_frameVars => ChainInv'
<1> SUFFICES ASSUME FrameTypeOK, ChainInv, [FrameNext]_frameVars, DistinctHeader'
             PROVE  /\ params' = NextInHeader(0)'
                    /\ header' # << >> => tail' = header'[Len(header')]
                    /\ \A n \in DOMAIN header' : chain'[header'[n]] = NextInHeader(n)'
  BY DEF ChainInv
<1>0. /\ vars \in Seq(Vars) /\ Len(vars) \in Nat
      /\ chain \in Seq(0..Len(vars)) /\ Len(chain) = Len(vars)
      /\ header \in Seq(1..Len(vars)) /\ Len(header) \in Nat
      /\ DOMAIN header = 1..Len(header)
  BY DEF FrameTypeOK
<1>1. ASSUME NEW name \in Names, NEW type \in ParamTypes, DeclareParam(name, type)
      PROVE  /\ params' = NextInHeader(0)'
             /\ header' # << >> => tail' = header'[Len(header')]
             /\ \A n \in DOMAIN header' : chain'[header'[n]] = NextInHeader(n)'
  <2> DEFINE w == Declared(name)
  <2>0. PICK h \in Nat : h = Len(header)
    BY <1>0
  <2>1. w \in 1..(Len(vars) + 1)
    BY <1>0, FindVarInRange DEF Declared
  <2>2. /\ header' = Append(header, w) /\ tail' = w
        /\ params = 0 => params' = w /\ chain' = Linked(chain, w)
        /\ params # 0 => params' = params /\ chain' = [Linked(chain, w) EXCEPT ![tail] = w]
    BY <1>1 DEF DeclareParam
  <2> HIDE DEF w
  <2>3. /\ Len(header') = h + 1 /\ DOMAIN header' = 1..(h + 1)
        /\ header'[h + 1] = w
        /\ \A n \in 1..h : header'[n] = header[n]
        /\ DOMAIN header = 1..h
    BY <1>0, <2>0, <2>1, <2>2
  <2>3a. \A a, b \in 1..(h + 1) : header'[a] = header'[b] => a = b
    BY <2>3 DEF DistinctHeader
  <2>4. DistinctHeader /\ \A n \in 1..h : header[n] # w
    <3>1. \A a, b \in 1..h : header[a] = header[b] => a = b
      BY <2>3, <2>3a
    <3>2. ASSUME NEW n \in 1..h PROVE header[n] # w
      <4>1. n \in 1..(h + 1) /\ h + 1 \in 1..(h + 1) /\ n # h + 1
        OBVIOUS
      <4> QED
        BY <2>3, <2>3a, <4>1
    <3> QED
      BY <2>3, <3>1, <3>2 DEF DistinctHeader
  <2>5. /\ params = NextInHeader(0)
        /\ h # 0 => tail = header[h]
        /\ \A n \in 1..h : chain[header[n]] = NextInHeader(n)
    BY <1>0, <2>0, <2>4 DEF ChainInv
  <2>5a. \A n \in 0..h : NextInHeader(n) = IF n = h THEN 0 ELSE header[n + 1]
    BY <2>0 DEF NextInHeader
  <2>5b. \A n \in 0..(h + 1) : NextInHeader(n)' = IF n = h + 1 THEN 0 ELSE header'[n + 1]
    BY <2>3 DEF NextInHeader
  <2>6. /\ Linked(chain, w)[w] = 0
        /\ \A x \in 1..Len(vars) : x # w => Linked(chain, w)[x] = chain[x]
        /\ DOMAIN Linked(chain, w) = 1..Len(Linked(chain, w))
        /\ Len(Linked(chain, w)) >= Len(vars)
    BY <1>0, <2>1, LinkedGrows
  <2>7. CASE h = 0
    <3>1. params = 0
      BY <2>5, <2>5a, <2>7
    <3> QED
      BY <2>2, <2>3, <2>5b, <2>6, <2>7, <3>1
  <2>8. CASE h # 0
    <3>1. params = header[1] /\ params # 0 /\ header[h] = tail /\ tail \in 1..Len(vars)
      <4>1. params = header[1] /\ tail = header[h]
        BY <2>5, <2>5a, <2>8
      <4>2. header[1] \in 1..Len(vars) /\ header[h] \in 1..Len(vars)
        BY <1>0, <2>0, <2>8
      <4> QED
        BY <4>1, <4>2
    <3>2. params' = header[1] /\ chain' = [Linked(chain, w) EXCEPT ![tail] = w]
      BY <2>2, <3>1
    <3>3. tail # w /\ chain'[tail] = w /\ chain'[w] = 0
      BY <1>0, <2>1, <2>4, <2>6, <2>8, <3>1, <3>2
    <3>4. ASSUME NEW n \in 1..(h - 1)
          PROVE  chain'[header[n]] = header[n + 1]
      <4>1. n \in 1..h /\ n # h /\ h \in 1..h
        BY <2>8
      <4>2. header[n] # tail /\ header[n] \in 1..Len(vars) /\ header[n] # w
        <5>1. header[n] # header[h]
          BY <2>3, <2>4, <4>1 DEF DistinctHeader
        <5>2. header[n] \in 1..Len(vars)
          <6>1. n \in DOMAIN header
            BY <2>3, <4>1
          <6> QED
            BY <1>0, <6>1
        <5> QED
          BY <2>4, <3>1, <4>1, <5>1, <5>2
      <4>3. chain[header[n]] = header[n + 1]
        BY <2>5, <2>5a, <4>1
      <4> QED
        BY <2>6, <3>2, <4>2, <4>3
    <3>5. params' = NextInHeader(0)' /\ tail' = header'[Len(header')]
      BY <2>2, <2>3, <2>5b, <2>8, <3>2
    <3>6. ASSUME NEW n \in 1..(h + 1)
          PROVE  chain'[header'[n]] = NextInHeader(n)'
      <4>1. CASE n = h + 1
        BY <2>3, <2>5b, <3>3, <4>1
      <4>2. CASE n = h
        BY <2>3, <2>5b, <2>8, <3>1, <3>3, <4>2
      <4>3. CASE n \in 1..(h - 1)
        <5>1. n \in 1..h /\ n + 1 \in 1..h /\ n # h + 1
          BY <4>3
        <5> QED
          BY <2>3, <2>5b, <3>4, <4>3, <5>1
      <4> QED
        BY <4>1, <4>2, <4>3
    <3> QED
      BY <2>3, <3>5, <3>6
  <2> QED
    BY <1>0, <2>7, <2>8
<1>2. ASSUME NEW name \in Names, NEW type \in LocalTypes, DeclareLocal(name, type)
      PROVE  /\ params' = NextInHeader(0)'
             /\ header' # << >> => tail' = header'[Len(header')]
             /\ \A n \in DOMAIN header' : chain'[header'[n]] = NextInHeader(n)'
  <2>1. /\ UNCHANGED <<params, tail, header>>
        /\ chain' = chain \/ chain' = Append(chain, 0)
    BY <1>2 DEF DeclareLocal
  <2>2. \A n \in DOMAIN header : header[n] \in 1..Len(chain)
    BY <1>0
  <2>3. \A x \in 1..Len(chain) : chain'[x] = chain[x]
    BY <1>0, <2>1
  <2> QED
    BY <2>1, <2>2, <2>3 DEF ChainInv, DistinctHeader, NextInHeader
<1>3. CASE UNCHANGED <<params, tail, header, chain>>
  BY <1>3 DEF ChainInv, DistinctHeader, NextInHeader
<1>4. CASE \/ ParamsDone \/ LocalsDone \/ AssignSlot \/ SlotsDone
           \/ SpillRegister \/ SpillStack \/ SpillDone \/ UNCHANGED frameVars
  BY <1>3, <1>4 DEF ParamsDone, LocalsDone, AssignSlot, SlotsDone, SpillRegister,
                    SpillStack, SpillDone, Spill, parsed, frameVars
<1> QED
  BY <1>1, <1>2, <1>4 DEF FrameNext

LEMMA SlotsAreInts ==
  ASSUME FrameTypeOK, LaidOut, NEW w \in DOMAIN vars
  PROVE  slot[w] \in Int /\ EndOf(w) \in Int
<1>1. slot[w] \in Int
  BY DEF FrameTypeOK, LaidOut
<1>2. vars[w].type.size \in Nat
  BY TypeParts DEF FrameTypeOK
<1> QED
  BY <1>1, <1>2 DEF EndOf

(* Where the spill loop is when it has a parameter to store. *)
LEMMA SpillingNext ==
  ASSUME FrameTypeOK, SpillInv, LaidOut, DistinctHeader
  PROVE  /\ cursor # 0 => i + 1 \in 1..Len(header) /\ cursor = header[i + 1]
         /\ cursor = 0 => i = Len(header)
<1>1. /\ header \in Seq(1..Len(vars)) /\ i \in Nat /\ Len(header) \in Nat
      /\ i <= Len(header)
      /\ cursor = IF i = Len(header) THEN 0 ELSE header[i + 1]
  BY DEF SpillInv, FrameTypeOK, NextInHeader
<1>2. CASE i = Len(header)
  BY <1>1, <1>2
<1>3. CASE i # Len(header)
  <2>1. i + 1 \in 1..Len(header)
    BY <1>1, <1>3
  <2>2. header[i + 1] \in 1..Len(vars) /\ cursor = header[i + 1]
    BY <1>1, <1>3, <2>1
  <2>3. cursor # 0
    BY <2>2
  <2> QED
    BY <2>1, <2>2, <2>3
<1> QED
  BY <1>2, <1>3

LEMMA SpillInvStep ==
  /\ FrameTypeOK /\ FrameTypeOK' /\ ChainInv /\ SlotsInv /\ SlotsSound /\ SpillInv
  /\ [FrameNext]_frameVars
  => SpillInv'
<1> SUFFICES ASSUME FrameTypeOK, FrameTypeOK', ChainInv, SlotsSound, SpillInv, [FrameNext]_frameVars
             PROVE  SpillInv'
  OBVIOUS
<1>0. /\ vars \in Seq(Vars) /\ Len(vars) \in Nat
      /\ header \in Seq(1..Len(vars)) /\ Len(header) \in Nat
      /\ DOMAIN header = 1..Len(header) /\ DOMAIN vars = 1..Len(vars)
      /\ slot \in Seq(Int) /\ frameSize \in Nat /\ i \in Nat
  BY SMTT(30) DEF FrameTypeOK
<1>1. CASE ~LaidOut' /\ i' = i /\ ~LaidOut
  BY <1>1 DEF SpillInv
<1>2. CASE SlotsDone
  <2>1. /\ ~LaidOut /\ i' = i /\ i = 0 /\ UNCHANGED <<header, slot, vars>>
        /\ pc' = "spill" /\ cursor' = params
        /\ held' = [b \in (-frameSize')..(-1) |-> 0]
    BY <1>2 DEF SlotsDone, parsed, LaidOut, SpillInv
  <2>2. DOMAIN held' = (-frameSize')..(-1)
    BY <2>1
  <2>3. DistinctHeader' => cursor' = NextInHeader(0)'
    BY <2>1 DEF ChainInv, DistinctHeader, NextInHeader
  <2>4. i' <= Len(header') /\ 1..i' = {}
    BY <1>0, <2>1
  <2> QED
    BY <2>1, <2>2, <2>3, <2>4 DEF SpillInv, LaidOut
<1>3. ASSUME pc = "spill", cursor # 0, Spill(i + 1)
      PROVE  SpillInv'
  <2>1. /\ held' = Stored(cursor, i + 1)
        /\ cursor' = chain[cursor] /\ i' = i + 1 /\ pc' = pc
        /\ UNCHANGED <<vars, chain, header, slot, frameSize>>
    BY <1>3 DEF Spill, parsed, laidOut
  <2>2. LaidOut /\ LaidOut' /\ DOMAIN held = (-frameSize)..(-1)
    BY <1>3, <2>1 DEF LaidOut, SpillInv
  <2>3. DOMAIN held' = (-frameSize')..(-1)
    BY <2>1, <2>2 DEF Stored
  <2>4. ASSUME DistinctHeader'
        PROVE  /\ i' <= Len(header') /\ cursor' = NextInHeader(i)'
               /\ \A n \in 1..i' : \A b \in SlotBytes(header[n])' : held'[b] = n
    <3>1. DistinctHeader
      BY <2>1, <2>4 DEF DistinctHeader
    <3>2. i + 1 \in 1..Len(header) /\ cursor = header[i + 1]
      BY <1>3, <2>2, <3>1, SpillingNext
    <3>3. i + 1 \in 1..Len(header) /\ cursor \in 1..Len(vars)
      BY <1>0, <3>2
    <3>4. cursor' = NextInHeader(i + 1)
      BY <1>0, <2>1, <3>1, <3>2, <3>3 DEF ChainInv
    <3>5. \A w : SlotBytes(w)' = SlotBytes(w)
      BY <2>1 DEF SlotBytes, EndOf
    <3>6. ASSUME NEW n \in 1..(i + 1), NEW b \in SlotBytes(header[n])
          PROVE  held'[b] = n
      <4>1. header[n] \in DOMAIN vars
        BY <1>0, <3>3
      <4>2. b \in DOMAIN held
        <5>1. /\ -frameSize <= slot[header[n]] /\ EndOf(header[n]) <= 0
              /\ slot[header[n]] \in Int /\ EndOf(header[n]) \in Int
          BY <2>2, <4>1, SlotsAreInts DEF SlotsSound
        <5> QED
          BY <1>0, <2>2, <5>1 DEF SlotBytes
      <4>3. held'[b] = IF b \in SlotBytes(cursor) THEN i + 1 ELSE held[b]
        BY <2>1, <4>2 DEF Stored
      <4>4. CASE n = i + 1
        BY <3>2, <3>6, <4>3, <4>4
      <4>5. CASE n \in 1..i
        <5>1. held[b] = n
          BY <2>2, <3>1, <3>6, <4>5 DEF SpillInv
        <5>2. header[n] # cursor
          <6>1. n \in DOMAIN header /\ i + 1 \in DOMAIN header /\ n # i + 1
            BY <1>0, <3>3, <4>5
          <6> QED
            BY <3>1, <3>2, <6>1 DEF DistinctHeader
        <5>3. EndOf(header[n]) <= slot[cursor] \/ EndOf(cursor) <= slot[header[n]]
          BY <1>0, <2>2, <3>3, <4>1, <5>2 DEF SlotsSound
        <5>4. /\ slot[cursor] \in Int /\ slot[header[n]] \in Int
              /\ EndOf(cursor) \in Int /\ EndOf(header[n]) \in Int
          BY <1>0, <2>2, <3>3, <4>1, SlotsAreInts
        <5>5. b \notin SlotBytes(cursor)
          BY <3>6, <5>3, <5>4 DEF SlotBytes
        <5> QED
          BY <4>3, <5>1, <5>5
      <4> QED
        BY <1>0, <4>4, <4>5
    <3>7. i' <= Len(header')
      BY <1>0, <2>1, <3>3
    <3>8. cursor' = NextInHeader(i)'
      BY <2>1, <3>4 DEF NextInHeader
    <3> QED
      BY <2>1, <3>5, <3>6, <3>7, <3>8
  <2> QED
    BY <1>3, <2>1, <2>2, <2>3, <2>4 DEF SpillInv
<1>4. CASE SpillRegister
  BY <1>3, <1>4 DEF SpillRegister
<1>5. CASE SpillStack
  <2>1. StackArg(StackArgOffset(i)) = i + 1
    BY <1>0, <1>5, StackArgIsNext DEF SpillStack
  <2> QED
    BY <1>3, <1>5, <2>1 DEF SpillStack
<1>6. CASE SpillDone
  <2>1. /\ pc = "spill" /\ pc' = "body" /\ cursor = 0
        /\ UNCHANGED <<vars, header, slot, frameSize, cursor, i, held>>
    BY <1>6 DEF SpillDone, parsed, laidOut
  <2>2. DistinctHeader => i = Len(header)
    BY <2>1, SpillingNext DEF LaidOut
  <2> QED
    BY <2>1, <2>2 DEF SpillInv, LaidOut, DistinctHeader, NextInHeader, SlotBytes, EndOf
<1>7. CASE UNCHANGED frameVars
  BY <1>7 DEF frameVars, SpillInv, LaidOut, DistinctHeader, NextInHeader, SlotBytes, EndOf
<1> QED
  <2>1. ASSUME NEW name, NEW type, DeclareParam(name, type) \/ DeclareLocal(name, type)
        PROVE  ~LaidOut' /\ i' = i /\ ~LaidOut
    BY <2>1 DEF DeclareParam, DeclareLocal, LaidOut
  <2>2. ParamsDone \/ LocalsDone \/ AssignSlot => ~LaidOut' /\ i' = i /\ ~LaidOut
    BY DEF ParamsDone, LocalsDone, AssignSlot, LaidOut
  <2> QED
    BY <1>1, <1>2, <1>4, <1>5, <1>6, <1>7, <2>1, <2>2 DEF FrameNext

LEMMA SpillInvImplies == SpillInv => ArgumentsLand
BY DEF SpillInv, ArgumentsLand, LaidOut, SlotBytes, DistinctHeader

(* When the body of a function starts, the slot of each parameter holds    *)
(* its argument, for any number of parameters in registers and on the      *)
(* stack, and any locals beside them: ArgumentsLand of the prologue that   *)
(* Gen_x86_64_EmitFunctions emits.                                         *)
THEOREM ArgumentsAllLand == FrameSpec => []ArgumentsLand
<1> DEFINE Inv == FrameTypeOK /\ SlotsInv /\ ChainInv /\ SpillInv
<1>1. FrameInit => Inv
  BY FrameTypeInit, SlotsInvInit, ChainInvInit, SpillInvInit
<1>2. Inv /\ [FrameNext]_frameVars => Inv'
  BY FrameTypeStep, SlotsInvStep, SlotsInvImplies, ChainInvStep, SpillInvStep
<1>3. Inv => ArgumentsLand
  BY SpillInvImplies
<1> HIDE DEF Inv
<1> QED
  BY <1>1, <1>2, <1>3, PTL DEF FrameSpec
=============================================================================
