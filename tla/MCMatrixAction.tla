--------------------------- MODULE MCMatrixAction ---------------------------
(***************************************************************************)
(* Instances of MatrixAction for TLC: a project, run with each extension,  *)
(* and two projects in one program, of which one may be refused.           *)
(***************************************************************************)
EXTENDS Integers, Sequences

CONSTANT Debug

VARIABLES files, arguments, finished

(* Two top and two bottom rows; 4 is not a prime. *)
QuadOf(modulus, above, below) ==
  [modulus |-> modulus, topLeft |-> <<<<1, 2>>, <<0, 1>>>>, topRight |-> above,
   bottomLeft |-> <<<<0, 2>>, <<1, 1>>>>, bottomRight |-> below]

MCQuads ==
  {QuadOf(3, <<x, <<2, 1>>>>, <<<<2, 2>>, y>>) :
     x \in {<<0, 0>>, <<1, 2>>}, y \in {0, 2} \X {0, 1}}
  \cup {QuadOf(4, <<<<0, 1>>, <<2, 1>>>>, <<<<1, 1>>, <<1, 1>>>>)}

MCReferences ==
  {[modulus |-> 3, rows |-> <<<<1, 0>>, <<0, 1>>>>]}

Arg(project, extension) == [project |-> project, extension |-> extension]

MCPrograms(p, q) ==
  {<<<<Arg(p, first), Arg(q, second)>>, <<Arg(p, ".brmat")>>, <<Arg(q, "")>>>> :
     first \in {".qmat", ".brmat"}, second \in {".", ".rbrmat"}}

Action == INSTANCE MatrixAction WITH
  Projects <- {"p", "q"}, P <- 3, RightCols <- 2, Quads <- MCQuads,
  References <- MCReferences, Programs <- MCPrograms("p", "q")

Init == Action!Init
Next == Action!Next
Spec == Action!Spec

(* What the program makes of a stored matrix is its reduced form. *)
ReducedFormIsOfMatrix == Action!ReducedFormIsOfMatrix
=============================================================================
