----------------------------- MODULE InferPromise -----------------------------
(***************************************************************************)
(* What hello/hello_inference.c measures, and infer/infer.h promises to a  *)
(* consumer: inputs 1, 2, 3, ... go through the engine one at a time, and  *)
(* once the consumer's tokens have signaled, every output holds the result *)
(* of the current input: none is lost, repeated, torn or late.             *)
(***************************************************************************)
EXTENDS Naturals

CONSTANTS Outs, Total

VARIABLES
  input,      \* the number of the input in progress
  delivered   \* per output: the input whose result the consumer saw last

Init == input = 1 /\ delivered = [o \in Outs |-> 0]

Deliver ==
  /\ delivered # [o \in Outs |-> input]
  /\ delivered' = [o \in Outs |-> input]
  /\ input' = IF input < Total THEN input + 1 ELSE input

PromiseSpec == Init /\ [][Deliver]_<<input, delivered>>
==============================================================================
