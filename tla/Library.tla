------------------------------ MODULE Library ------------------------------
(***************************************************************************)
(* The library below the schedulers, put together: the interval tree, a    *)
(* problem with its schedule, the prescheduler and its cache on disk.  The *)
(* parts share no state, so their steps interleave freely; what is true of *)
(* the behaviours of each part is true of it here.                         *)
(***************************************************************************)
EXTENDS IntervalTree, SchedulingProblem, Prescheduler, PrescheduleCache

libraryVars == <<treeVars, problemVars, preschedulerVars, cacheVars>>

LibraryInit ==
    /\ TreeInit
    /\ ProblemInit
    /\ PreschedulerInit
    /\ CacheInit

TreeMoves == TreeNext /\ UNCHANGED <<problemVars, preschedulerVars, cacheVars>>
ProblemMoves == ProblemNext /\ UNCHANGED <<treeVars, preschedulerVars, cacheVars>>
PreschedulerMoves == PreschedulerNext /\ UNCHANGED <<treeVars, problemVars, cacheVars>>
CacheMoves == CacheNext /\ UNCHANGED <<treeVars, problemVars, preschedulerVars>>

LibraryNext ==
    \/ TreeMoves
    \/ ProblemMoves
    \/ PreschedulerMoves
    \/ CacheMoves

LibrarySpec == LibraryInit /\ [][LibraryNext]_libraryVars
-----------------------------------------------------------------------------
(* Problem, schedule, memo and cache hold values that the code's types     *)
(* allow: blocks with their tasks, placements in their slots, computations *)
(* of what was asked for (problem.rs, prescheduler/mod.rs,                 *)
(* preschedule_cache.rs).                                                  *)
LibraryTypeOK ==
    /\ ProblemTypeOK
    /\ PreschedulerTypeOK
    /\ CacheTypeOK
=============================================================================
