--------------------------- MODULE MCAcceleratorApp ---------------------------
(* AcceleratorApp for TLC: the workers are interchangeable; the Tk thread is not. *)
EXTENDS AcceleratorApp, TLC

WorkerSymmetry == Permutations(Threads \ {Tk})
===============================================================================
