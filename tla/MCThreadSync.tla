----------------------------- MODULE MCThreadSync -----------------------------
(***************************************************************************)
(* ThreadSync as TLC checks it, with what the repository's comments and    *)
(* tests say of priorities.                                                *)
(***************************************************************************)
EXTENDS LockRefinement
-----------------------------------------------------------------------------
(* priority-donate-lower.c:3 "The main thread attempts to lower its        *)
(* priority, which should not take effect until the donation is released." *)
LoweringHasNoEffect ==
    [][\A p \in Priorities : thread_set_priority(p) =>
          \A t \in ToSet(list_of_donation[cur]) : priority'[cur] >= priority[t]]_vars
=============================================================================
