------------------------------- MODULE Frame -------------------------------
(***************************************************************************)
(* From the header of a function to its frame.  The parser declares the    *)
(* parameters and the locals (Par_AddParam of parser.y, Ast_DeclareVar of  *)
(* ast.c); the code generator gives each a slot below %rbp                 *)
(* (Gen_x86_64_AssignLvarOffsets) and stores each parameter, as it came in *)
(* a register or on the stack, into its slot (Gen_x86_64_EmitFunctions).   *)
(*                                                                         *)
(* A variable is its index in vars, the order of declaration; Ast_Locals   *)
(* and av_next chain them newest first, and 0 is NULL.  Of what the        *)
(* emitted prologue does to memory, `held' keeps which argument, counted   *)
(* from 1, the bytes of the frame hold.                                    *)
(***************************************************************************)
EXTENDS Layout, Sequences

CONSTANTS
  Names,        \* identifiers
  ParamTypes,   \* types a parameter can have; arrays are adjusted to pointers
  LocalTypes,   \* types a local can have
  MaxParams,    \* bound: parameters in a header
  MaxVars,      \* bound: variables of a function
  MaxSpills     \* bound: iterations of the spill loop

ASSUME TypesAssumption ==
  \A t \in ParamTypes \union LocalTypes :
    /\ t \in [size : Nat, align : Nat \ {0}]
    /\ StackAlign % t.align = 0

ASSUME BoundsAssumption ==
  MaxParams \in Nat /\ MaxVars \in Nat /\ MaxSpills \in Nat /\ MaxSpills > MaxParams

VARIABLES
  pc,           \* the loop of the parser or the code generator we are in
  vars,         \* Ast_Locals: name and type of each variable
  chain,        \* av_param_next of each variable
  params,       \* Par_CurParams, then af_params
  tail,         \* Par_CurParamsTail
  header,       \* the variable of each parameter written in the header
  cursor,       \* the variable a loop of the code generator is at
  offset,       \* the bytes AssignLvarOffsets has given out
  slot,         \* av_offset of each variable
  frameSize,    \* af_stack_size
  i,            \* how many parameters the spill loop has stored
  held          \* the argument each byte of the frame holds, 0 for none

frameVars == <<pc, vars, chain, params, tail, header, cursor, offset, slot, frameSize, i, held>>

parsed == <<vars, chain, params, tail, header>>
laidOut == <<offset, slot, frameSize>>

FrameInit ==
  /\ pc = "params"
  /\ vars = << >> /\ chain = << >> /\ header = << >>
  /\ params = 0 /\ tail = 0 /\ cursor = 0
  /\ offset = 0 /\ slot = << >> /\ frameSize = 0
  /\ i = 0 /\ held = << >>

-----------------------------------------------------------------------------
(* The parser.                                                             *)

(* No two variables of a scope share a name, so the order of the search    *)
(* does not matter.                                                        *)
FindVar(name) ==
  IF \E w \in DOMAIN vars : vars[w].name = name
  THEN CHOOSE w \in DOMAIN vars : vars[w].name = name
  ELSE 0

(* The variable Ast_DeclareVar returns, and the list it leaves. *)
Declared(name) == IF FindVar(name) # 0 THEN FindVar(name) ELSE Len(vars) + 1

Declare(name, type) ==
  vars' = IF FindVar(name) # 0 THEN vars ELSE Append(vars, [name |-> name, type |-> type])

(* Par_AddParam: v ends the chain, and then follows the old tail.          *)
Linked(ch, w) == IF w \in DOMAIN ch THEN [ch EXCEPT ![w] = 0] ELSE Append(ch, 0)

(* A parameter that is put before the others. *)
DeclareParamFirst(name, type) ==
  /\ pc = "params" /\ Len(header) < MaxParams
  /\ LET w == Declared(name) IN
       /\ Declare(name, type)
       /\ header' = Append(header, w)
       /\ params' = w
       /\ chain' = [Linked(chain, w) EXCEPT ![w] = params]
       /\ tail' = w
  /\ UNCHANGED <<pc, cursor, laidOut, i, held>>

DeclareParam(name, type) ==
  /\ pc = "params" /\ Len(header) < MaxParams
  /\ LET w == Declared(name) IN
       /\ Declare(name, type)
       /\ header' = Append(header, w)
       /\ IF params = 0
          THEN params' = w /\ chain' = Linked(chain, w)
          ELSE params' = params /\ chain' = [Linked(chain, w) EXCEPT ![tail] = w]
       /\ tail' = w
  /\ UNCHANGED <<pc, cursor, laidOut, i, held>>

ParamsDone ==
  /\ pc = "params"
  /\ pc' = "locals"
  /\ UNCHANGED <<parsed, cursor, laidOut, i, held>>

DeclareLocal(name, type) ==
  /\ pc = "locals" /\ Len(vars) < MaxVars
  /\ Declare(name, type)
  /\ chain' = IF FindVar(name) # 0 THEN chain ELSE Append(chain, 0)
  /\ UNCHANGED <<pc, params, tail, header, cursor, laidOut, i, held>>

-----------------------------------------------------------------------------
(* The code generator.                                                     *)

(* The loop over the locals starts one past the newest. *)
LocalsDonePastEnd ==
  /\ pc = "locals"
  /\ pc' = "slots"
  /\ cursor' = Len(vars) + 1
  /\ slot' = [w \in DOMAIN vars |-> 0]
  /\ UNCHANGED <<parsed, offset, frameSize, i, held>>

LocalsDone ==
  /\ pc = "locals"
  /\ pc' = "slots"
  /\ cursor' = Len(vars)
  /\ slot' = [w \in DOMAIN vars |-> 0]
  /\ UNCHANGED <<parsed, offset, frameSize, i, held>>

AssignSlot ==
  /\ pc = "slots" /\ cursor # 0
  /\ offset' = NextOffset(offset, vars[cursor].type)
  /\ slot' = [slot EXCEPT ![cursor] = -offset']
  /\ cursor' = cursor - 1
  /\ UNCHANGED <<pc, parsed, frameSize, i, held>>

SlotsDone ==
  /\ pc = "slots" /\ cursor = 0
  /\ frameSize' = StackSize(offset)
  /\ held' = [b \in (-frameSize')..(-1) |-> 0]
  /\ pc' = "spill" /\ cursor' = params
  /\ UNCHANGED <<parsed, offset, slot, i>>

(* The bytes of a variable: as many as its type is wide. *)
EndOf(w) == slot[w] + vars[w].type.size
SlotBytes(w) == slot[w]..(EndOf(w) - 1)

Stored(w, arg) == [b \in DOMAIN held |-> IF b \in SlotBytes(w) THEN arg ELSE held[b]]

(* The loop over the parameters does not move on. *)
SpillStays(arg) ==
  /\ held' = Stored(cursor, arg)
  /\ cursor' = cursor
  /\ i' = i + 1
  /\ UNCHANGED <<pc, parsed, laidOut>>

Spill(arg) ==
  /\ held' = Stored(cursor, arg)
  /\ cursor' = chain[cursor]
  /\ i' = i + 1
  /\ UNCHANGED <<pc, parsed, laidOut>>

(* Register i holds argument i + 1. *)
SpillRegister ==
  /\ pc = "spill" /\ cursor # 0 /\ i < MaxSpills
  /\ i < MaxRegArgs
  /\ Spill(i + 1)

(* By the ABI the caller leaves the first argument that has no register    *)
(* right above the return address and the saved %rbp.                      *)
StackArg(off) == MaxRegArgs + 1 + (off - 2 * WordSize) \div WordSize

SpillStack ==
  /\ pc = "spill" /\ cursor # 0 /\ i < MaxSpills
  /\ i >= MaxRegArgs
  /\ Spill(StackArg(StackArgOffset(i)))

SpillDone ==
  /\ pc = "spill" /\ cursor = 0
  /\ pc' = "body"
  /\ UNCHANGED <<parsed, cursor, laidOut, i, held>>

FrameNext ==
  \/ \E name \in Names, type \in ParamTypes : DeclareParam(name, type)
  \/ ParamsDone
  \/ \E name \in Names, type \in LocalTypes : DeclareLocal(name, type)
  \/ LocalsDone \/ AssignSlot \/ SlotsDone
  \/ SpillRegister \/ SpillStack \/ SpillDone

FrameSpec == FrameInit /\ [][FrameNext]_frameVars

(* The source text is finite, and no step of the compiler waits.           *)
FairFrameSpec ==
  /\ FrameSpec
  /\ WF_frameVars(ParamsDone \/ LocalsDone)
  /\ WF_frameVars(AssignSlot \/ SlotsDone \/ SpillRegister \/ SpillStack \/ SpillDone)

-----------------------------------------------------------------------------
(* Properties.                                                             *)

Vars == [name : Names, type : ParamTypes \union LocalTypes]

(* Every variable has its type, and every link stays among the variables.  *)
FrameTypeOK ==
  /\ pc \in {"params", "locals", "slots", "spill", "body"}
  /\ vars \in Seq(Vars)
  /\ chain \in Seq(0..Len(vars)) /\ Len(chain) = Len(vars)
  /\ header \in Seq(1..Len(vars))
  /\ params \in 0..Len(vars) /\ tail \in 0..Len(vars) /\ cursor \in 0..Len(vars)
  /\ offset \in Nat /\ frameSize \in Nat
  /\ slot \in Seq(Int) /\ (pc \in {"slots", "spill", "body"} => Len(slot) = Len(vars))
  /\ i \in Nat

LaidOut == pc \in {"spill", "body"}

(* Each local lies in the frame below the saved %rbp, on the alignment its *)
(* type asks for (%rbp itself is a multiple of StackAlign), and shares no  *)
(* byte with another local, whatever the types and their order.            *)
SlotsSound ==
  LaidOut =>
    /\ frameSize % StackAlign = 0
    /\ \A w \in DOMAIN vars :
         /\ -frameSize <= slot[w] /\ EndOf(w) <= 0
         /\ slot[w] % vars[w].type.align = 0
    /\ \A w, x \in DOMAIN vars : w # x => EndOf(w) <= slot[x] \/ EndOf(x) <= slot[w]

DistinctHeader == \A a, b \in DOMAIN header : header[a] = header[b] => a = b

(* When the body starts, the slot of each parameter holds, in all of its   *)
(* bytes, the argument of its position: none lost, swapped or overwritten, *)
(* from registers or from the stack, whatever else the function declares.  *)
ArgumentsLand ==
  pc = "body" /\ DistinctHeader =>
    \A n \in DOMAIN header :
      \A b \in SlotBytes(header[n]) : held[b] = n

(* A header with distinct parameter names gets its prologue: the spill     *)
(* loop follows a chain that ends.                                         *)
PrologueEnds == (pc = "locals" /\ DistinctHeader) ~> (pc = "body")
=============================================================================
