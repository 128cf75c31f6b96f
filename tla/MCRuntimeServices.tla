-------------------------- MODULE MCRuntimeServices --------------------------
(* Instances of RuntimeServices. *)
EXTENDS RuntimeServices, TLC

CONSTANTS w1, wa, x0, xb, d1, defA, defB, e1, e2

\* Two Wasmtime components, a Docker image and two external services; one component and one
\* external service come from a definition.
Runtimes == [m \in Manifest |-> CASE m \in {x0, xb} -> "external" [] m = d1 -> "docker" [] OTHER -> "wasmtime"]
Definitions == [m \in Manifest |-> CASE m = wa -> defA [] m = xb -> defB
                                     [] OTHER -> NoDefinition]
Exposed == [m \in Manifest |-> IF m \in {w1, x0, xb} THEN {e1} ELSE {e2}]

Interchangeable == Permutations(Proc) \cup Permutations(Id)
=============================================================================
