---------------------------- MODULE FieldElements ----------------------------
(***************************************************************************)
(* What the users of lib/ed25519/fe.c compute with: registers that hold    *)
(* elements of the field of integers modulo FieldPrime, and the operations *)
(* on them.  FieldLimbs implements it.                                     *)
(***************************************************************************)
EXTENDS Integers

CONSTANTS
  FieldPrime,   \* the modulus (2^255 - 19)
  Reg,          \* the registers
  Coefficient   \* the constant of fe_mul121666

VARIABLES
  elem,      \* the element each register holds
  operation  \* what was done last

elementVars == <<elem, operation>>

Element == 0 .. FieldPrime - 1

ElementInit == elem \in [Reg -> Element] /\ operation = "loaded"

Put(h, x) == elem' = [elem EXCEPT ![h] = x % FieldPrime]

Unary(op, h, x) ==
  CASE op = "neg"  -> Put(h, -x)
    [] op = "sq"   -> Put(h, x * x)
    [] op = "sq2"  -> Put(h, 2 * ((x * x) % FieldPrime))
    [] op = "mul121666" -> Put(h, Coefficient * x)
    [] op = "copy" -> Put(h, x)

Binary(op, h, x, y) ==
  CASE op = "add" -> Put(h, x + y)
    [] op = "sub" -> Put(h, x - y)
    [] op = "mul" -> Put(h, x * y)

Exchange(f, g) == elem' = [elem EXCEPT ![f] = elem[g], ![g] = elem[f]]

ElementNext ==
  \E h, f, g \in Reg :
    \/ operation' = "0" /\ Put(h, 0)
    \/ operation' = "1" /\ Put(h, 1)
    \/ /\ operation' \in {"neg", "sq", "sq2", "mul121666", "copy"}
       /\ Unary(operation', h, elem[f])
    \/ /\ operation' \in {"add", "sub", "mul"}
       /\ Binary(operation', h, elem[f], elem[g])
    \/ operation' = "cmov" /\ (Put(f, elem[g]) \/ UNCHANGED elem)
    \/ operation' = "cswap" /\ (Exchange(f, g) \/ UNCHANGED elem)

ElementSpec == ElementInit /\ [][ElementNext]_elementVars
=============================================================================
