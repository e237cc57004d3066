------------------------------ MODULE KllCache ------------------------------
(***************************************************************************)
(* src/Task_13/kll/kll.c: the list of Kll with its identities taken from a *)
(* slab cache, which linked_list_init() creates and linked_list_exit()     *)
(* destroys.  kmem_cache_destroy() is external: a cache from which objects *)
(* are still allocated cannot go.                                          *)
(***************************************************************************)
EXTENDS Kll

VARIABLE kll_cache  \* the cache and with it the life of the module

cacheVars == <<listVars, kll_cache>>

CacheInit == ListInit /\ kll_cache = "none"

(* linked_list_init(): kmem_cache_create(), or -ENOMEM *)
KmemCacheCreate ==
  /\ kll_cache = "none"
  /\ kll_cache' \in {"live", "failed"}
  /\ UNCHANGED listVars

(* linked_list_init(): the calls of identity_create(), which gets its      *)
(* memory from kmem_cache_alloc(), of identity_find() and of               *)
(* identity_destroy(), which gives it back with kmem_cache_free()          *)
LinkedListInit ==
  /\ kll_cache = "live"
  /\ ListNext
  /\ UNCHANGED kll_cache

(* linked_list_exit(): kmem_cache_destroy() *)
LinkedListExit ==
  /\ kll_cache = "live"
  /\ ~undefined
  /\ call = Len(Calls) + 1
  /\ kll_cache' = IF allocated = {} THEN "destroyed" ELSE "objects remaining"
  /\ UNCHANGED listVars

CacheNext == KmemCacheCreate \/ LinkedListInit \/ LinkedListExit
CacheSpec == CacheInit /\ [][CacheNext]_cacheVars

-----------------------------------------------------------------------------
(* The cache goes, and with it all the memory of the module, unless the    *)
(* identity with id 4 was created: linked_list_init() never destroys that  *)
(* one.                                                                    *)
OnlyGenaRemains ==
  /\ kll_cache = "objects remaining" => present = {4} /\ \A e \in allocated : id[e] = 4
  /\ kll_cache = "destroyed" => allocated = {} /\ present = {}
=============================================================================
