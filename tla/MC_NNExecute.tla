---------------------------- MODULE MC_NNExecute ----------------------------
(* Operands as for_all visits them: [index, size in bytes, element size].  *)
(* exA has float operands 0 and 2 and a quant8 operand 1; exB an input     *)
(* with no value; exC no operand at index 0; exD inputs of 20 bytes.       *)
EXTENDS NNExecute

Op(index, size, elem) == [index |-> index, size |-> size, elem |-> elem]
exA == [inputs |-> <<Op(0, 8, 4), Op(2, 4, 4), Op(1, 2, 1)>>, golden |-> <<Op(0, 8, 4)>>]
exB == [inputs |-> <<Op(0, 0, 4), Op(1, 12, 4)>>, golden |-> <<Op(0, 4, 4), Op(1, 4, 1)>>]
exC == [inputs |-> <<Op(1, 4, 4)>>, golden |-> <<Op(0, 4, 4)>>]
exD == [inputs |-> <<Op(0, 12, 4), Op(1, 8, 4)>>, golden |-> <<Op(0, 20, 4)>>]

MC_Examples == {<<exA, exB>>, <<exC>>, <<exD>>}
=============================================================================
