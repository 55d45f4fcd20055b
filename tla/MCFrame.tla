------------------------------ MODULE MCFrame ------------------------------
(* Headers of up to three parameters, two of them in registers, and up to  *)
(* three variables of every size and alignment the language has.           *)
EXTENDS Frame

CharType  == [size |-> 1, align |-> 1]
IntType   == [size |-> 4, align |-> 4]
PtrType   == [size |-> 8, align |-> 8]
CharArray == [size |-> 3, align |-> 1]
IntArray  == [size |-> 12, align |-> 4]

MCParamTypes == {CharType, IntType, PtrType}
MCLocalTypes == {CharType, IntType, PtrType, CharArray, IntArray}
=============================================================================
