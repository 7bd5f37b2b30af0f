------------------------------ MODULE MCKernel ------------------------------
(* Model checking of the kernel's memory and of its pipes, which share no      *)
(* state: a behaviour follows one of the three parts, and the other two rest   *)
(* in an initial state.                                                        *)
EXTENDS KernelMemory, Heap, MCPipe

VARIABLE part  (* the one the behaviour follows *)

\* Widely aligned; small enough to split a page of 112 bytes; one that needs a
\* second page only with its header and prefix; and one aligned as the back
\* buffer of graphics/render_backend.cpp is, at the one such address in the heap.
SmallRequests == {<<20, 32>>, <<60, 12>>, <<100, 4>>, <<8, 4096>>}

\* Only the heap has several initial states.
KernelInit ==
  /\ part \in {"frames", "heap", "pipes"}
  /\ Init /\ BlockInit /\ PipeInit
  /\ part # "heap" => blocks # <<>>

KernelNext ==
  /\ part' = part
  /\ \/ part = "frames" /\ Next /\ UNCHANGED <<blockVars, pipeVars>>
     \/ part = "heap" /\ BlockNext /\ UNCHANGED <<vars, pipeVars>>
     \/ part = "pipes" /\ PipeNext /\ UNCHANGED <<vars, blockVars>>

KernelSpec == KernelInit /\ [][KernelNext]_<<vars, blockVars, pipeVars, part>>
=============================================================================
