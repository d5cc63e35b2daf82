----------------------------- MODULE MCProdCons -----------------------------
(* The modules TLC checks: ProdCons with its refinement and invariants.    *)
(* Some runs ask what holds as long as the behaviour has a certain form;   *)
(* their specifications take the same steps and leave out those that       *)
(* would end it.                                                           *)
EXTENDS ProdConsInvariants

(* The behaviours that are Undisturbed, without fairness.                  *)
UndisturbedSpec == Init /\ [][Next /\ Apart' /\ Survived]_vars

(* The two constructors come one after the other.                          *)
ConstructorsApart ==
  \A p, q \in Procs : pc[p] \in InConstructor /\ pc[q] \in InConstructor => p = q

AfterConstructorsSpec == Init /\ [][Next /\ ConstructorsApart']_vars
=============================================================================
