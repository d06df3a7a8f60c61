----------------------------- MODULE MCRenderer -----------------------------
(* Model values for Renderer: cookies and timers are interchangeable.       *)
EXTENDS Renderer, TLC

Symmetry == Permutations(Cookie) \union Permutations(Timer)
=============================================================================
