-------------------------------- MODULE Text --------------------------------
(***************************************************************************)
(* AT&T assembly text, as src/arch/x86_64/txt.c writes it from an          *)
(* instruction list and reads it into one.                                 *)
(*                                                                         *)
(* A line is its labels and then at most one instruction or directive.     *)
(* The name of a register is the pair of the 64-bit register it is part of *)
(* and its width; a mnemonic is an operation and a suffix: no operation's  *)
(* name is another's with a suffix, so the longer match txt.c tries first  *)
(* is the only one.  Only string directives are spelled out, as their      *)
(* character codes after the opening quote.                                *)
(***************************************************************************)
EXTENDS Encode, SequencesExt

OperandText(form, name, val) == [form |-> form, name |-> name, val |-> val]

InstrText(stem, suffix, opnds) == [kind |-> "INSTR", stem |-> stem, suffix |-> suffix, opnds |-> opnds]
SectionText(name) == [kind |-> "SECTION", name |-> name]                      \* .section name, .text, .data, .rodata
SectionFlags(name, flags, nobits) ==
  [kind |-> "FLAGGED", name |-> name, flags |-> flags, nobits |-> nobits]     \* .section name, "aw", @nobits
GloblText(name) == [kind |-> "GLOBL", name |-> name]
Ints(width, vals) == [kind |-> "INTS", width |-> width, vals |-> vals]        \* .byte to .quad
String(chars, nul) == [kind |-> "STRING", chars |-> chars, nul |-> nul]       \* .ascii, .string
Skip(count) == [kind |-> "SKIP", count |-> count]
OtherDirective(text) == [kind |-> "OTHER", text |-> text]
Nothing == [kind |-> "NOTHING"]

Line(names, body) == [names |-> names, body |-> body]

-----------------------------------------------------------------------------
(* The writer.                                                             *)

WriteOperand(opnd) ==
  CASE opnd.kind = "REG" ->
         OperandText("%", <<opnd.reg, IF opnd.width \in {1, 4} THEN opnd.width ELSE 8>>, 0)
    [] opnd.kind = "IMM"   -> OperandText("$", << >>, opnd.val)
    [] opnd.kind = "MEM"   -> OperandText("(%)", <<opnd.reg, 8>>, opnd.val)
    [] opnd.kind = "RIP"   -> OperandText("(%rip)", opnd.val, 0)
    [] opnd.kind = "LABEL" -> OperandText("name", opnd.val, 0)

(* The width of a sign extension left to its source register. *)
WriteInstrUnsized(ins) ==
  LET opnds == SelectSeq(<<ins.src, ins.dst>>, LAMBDA o : o.kind # "NONE")
  IN InstrText(ins.op, "", [j \in DOMAIN opnds |-> WriteOperand(opnds[j])])

WriteInstr(ins) ==
  LET opnds == SelectSeq(<<ins.src, ins.dst>>, LAMBDA o : o.kind # "NONE")
  IN InstrText(ins.op, IF ins.op = "MOVSX" THEN IF ins.src.width = 1 THEN "bq" ELSE "lq" ELSE "",
               [j \in DOMAIN opnds |-> WriteOperand(opnds[j])])

(* The lines of an item: a run of bytes has one for each, and a directive  *)
(* is there as it stands, for the parser to make of it what it will.       *)
WriteItem(it) ==
  CASE it.kind = "INSTR"     -> <<Line(<< >>, WriteInstr(it))>>
    [] it.kind = "LABEL"     -> <<Line(<<it.dst.val>>, Nothing)>>
    [] it.kind = "GLOBL"     -> <<Line(<< >>, GloblText(it.dst.val))>>
    [] it.kind = "SECTION"   -> <<Line(<< >>, SectionText(it.dst.val[1]))>>
    [] it.kind = "BYTES"     -> [j \in DOMAIN it.dst.val |-> Line(<< >>, Ints(1, <<it.dst.val[j]>>))]
    [] it.kind = "DIRECTIVE" -> <<Line(<< >>, IF it.dst.val[1] = ".section"
                                              THEN SectionFlags(it.dst.val[2], {}, FALSE)
                                              ELSE OtherDirective(it.dst.val))>>

Write(its) == FlattenSeq([j \in DOMAIN its |-> WriteItem(its[j])])

-----------------------------------------------------------------------------
(* The parser: what it takes a piece of text for, or Refused.              *)

Refused == Operand("REFUSED", "none", 0, 0)

RegNames == {Registers[n] : n \in DOMAIN Registers} \X {1, 4, 8}

(* The value of an int that n is assigned to. *)
ToInt(n) == ((n + Rel!Modulus(4) \div 2) % Rel!Modulus(4)) - Rel!Modulus(4) \div 2

ParseOperand(text) ==
  CASE text.form \in {"%", "(%)"} /\ text.name \notin RegNames -> Refused
    [] text.form = "%" /\ text.name \in RegNames   -> RegWidth(text.name[1], text.name[2])
    [] text.form = "(%)" /\ text.name \in RegNames -> Mem(text.name[1], ToInt(text.val))
    [] text.form = "$"      -> Imm(text.val)
    [] text.form = "(%rip)" -> Rip(text.name)
    [] text.form = "name"   -> Target(text.name)
    [] OTHER -> Refused

Ops == {"MOV", "MOVSX", "LEA", "PUSH", "POP"} \union DOMAIN OpcodeRR \union DOMAIN OpcodeRM
       \union {"NEG", "IDIV"} \union DOMAIN SetByte \union DOMAIN Branch \union DOMAIN Fixed

(* movsbq and movslq name the width of their source. *)
MovsxWidth(text) ==
  CASE text.stem = "MOVSX" /\ text.suffix = "bq" -> 1
    [] text.stem = "MOVSX" /\ text.suffix = "lq" -> 4
    [] OTHER -> 0

ParseInstr(text) ==
  LET opnds == [j \in DOMAIN text.opnds |-> ParseOperand(text.opnds[j])]
      known == text.stem \in Ops /\ (MovsxWidth(text) # 0 \/ text.suffix \in {"", "b", "w", "l", "q"})
      sized == IF MovsxWidth(text) = 0 THEN opnds[1] ELSE [opnds[1] EXCEPT !.width = MovsxWidth(text)]
  IN IF ~known \/ Len(opnds) > 2 \/ \E j \in DOMAIN opnds : opnds[j].kind = "REFUSED" THEN Refused
     ELSE CASE Len(opnds) = 0 -> Instr(text.stem, NoOperand, NoOperand)
            [] Len(opnds) = 1 -> Instr(text.stem, opnds[1], NoOperand)
            [] Len(opnds) = 2 -> Instr(text.stem, opnds[2], sized)

(* Flags of a section that says none. *)
DefaultFlags(name) ==
  CASE name = ".text" -> {"ALLOC", "EXECINSTR"}
    [] name = ".data" -> {"ALLOC", "WRITE"}
    [] OTHER -> {"ALLOC"}

(* The little-endian bytes of val. *)
LittleEndian(val, width) == [b \in 1..width |-> Emit(val, width)[b][1]]

Quote == 34
Hash == 35
Backslash == 92

(* A string cut at the first # that is seen outside quotes: one quote      *)
(* opened it, and each further one, escaped or not, toggles.               *)
StripComment(chars) ==
  LET outside == {j \in DOMAIN chars :
                    chars[j] = Hash /\ Cardinality({l \in 1..j : chars[l] = Quote}) % 2 = 1}
  IN SubSeq(chars, 1, IF outside = {} THEN Len(chars) ELSE Elf!First(outside) - 1)

Escape == [c \in {110, 116, 114, 48} |-> CASE c = 110 -> 10 [] c = 116 -> 9 [] c = 114 -> 13 [] c = 48 -> 0]

(* An escape is the character after it, whatever that is. *)
UnescapeLiterally(chars) ==
  LET From[j \in 1..(Len(chars) + 2)] ==
        IF j > Len(chars) \/ chars[j] = Quote THEN << >>
        ELSE IF chars[j] # Backslash \/ j = Len(chars) THEN <<chars[j]>> \o From[j + 1]
        ELSE <<chars[j + 1]>> \o From[j + 2]
  IN From[1]

(* The bytes up to the closing quote. *)
Unescape(chars) ==
  LET From[j \in 1..(Len(chars) + 2)] ==
        IF j > Len(chars) \/ chars[j] = Quote THEN << >>
        ELSE IF chars[j] # Backslash \/ j = Len(chars) THEN <<chars[j]>> \o From[j + 1]
        ELSE <<(IF chars[j + 1] \in DOMAIN Escape THEN Escape[chars[j + 1]] ELSE chars[j + 1])>> \o From[j + 2]
  IN From[1]

ParseDirective(text) ==
  CASE text.kind = "SECTION" -> <<Section(text.name, "PROGBITS", DefaultFlags(text.name))>>
    [] text.kind = "FLAGGED" -> <<Section(text.name, IF text.nobits THEN "NOBITS" ELSE "PROGBITS", text.flags)>>
    [] text.kind = "GLOBL"   -> <<Globl(text.name)>>
    [] text.kind = "INTS"    -> [j \in DOMAIN text.vals |-> Bytes(LittleEndian(text.vals[j], text.width))]
    [] text.kind = "STRING"  -> <<Bytes(Unescape(StripComment(text.chars)) \o (IF text.nul THEN <<0>> ELSE << >>))>>
    [] text.kind = "SKIP"    -> <<Bytes([j \in 1..text.count |-> 0])>>
    [] text.kind = "OTHER"   -> <<Directive(text.text)>>
    [] text.kind = "NOTHING" -> << >>

(* The items of a line; one it refuses ends the program. *)
ParseLine(line) ==
  [j \in DOMAIN line.names |-> Label(line.names[j])]
  \o (IF line.body.kind = "INSTR" THEN <<ParseInstr(line.body)>> ELSE ParseDirective(line.body))
=============================================================================
