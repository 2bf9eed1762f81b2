----------------------------- MODULE MCNamedObject -----------------------------
(* Finite instances of NamedObject: three wrappers, one of which is copied.    *)
EXTENDS NamedObject, TLC

MCClasses ==
  {"mutexCommon", "shared_mutex", "counting_semaphore", "binary_semaphore",
   "condition_variable", "msgQ", "queue"}

MCModes ==
  {{}, {"OM_CREATE"}, {"OM_CREATE", "OM_EXCL"},
   {"OM_CREATE", "OM_DESTROY_ON_LAST_CALL"}}

MCSymmetry ==
  Permutations(Ids) \cup Permutations(Names) \cup Permutations(Wrappers \ Copiers)
===============================================================================
