------------------------------- MODULE MCMmu -------------------------------
(***************************************************************************)
(* Two page tables and fewer physical pages than both could use.           *)
(***************************************************************************)
EXTENDS Mmu, TLC

CONSTANTS p1, p2

\* p1 has a heap of three pages, a guard page and two pages of stack; p2 three
\* pages of stack only.
MCStackSize == (p1 :> 3) @@ (p2 :> 5)
MCHeapPages == (p1 :> 3) @@ (p2 :> 0)

=============================================================================
