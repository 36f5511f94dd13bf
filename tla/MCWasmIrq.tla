------------------------------ MODULE MCWasmIrq ------------------------------
(* WasmIrq for TLC.  The interrupts are interchangeable; only the run that   *)
(* checks nothing temporal may use that.                                     *)
EXTENDS WasmIrq

Symmetry == Permutations(Irq)
=============================================================================
