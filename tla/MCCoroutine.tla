---------------------------- MODULE MCCoroutine ----------------------------
(***************************************************************************)
(* Instances of Coroutine for TLC: a few coroutine objects that are        *)
(* interchangeable, and a table small enough to fill and to grow.          *)
(***************************************************************************)
EXTENDS Coroutine, TLC

Symmetry == Permutations(Objs)
=============================================================================
