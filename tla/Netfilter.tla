------------------------------ MODULE Netfilter ------------------------------
(***************************************************************************)
(* src/Task_19/netfilter.c: a netfilter hook that searches every outgoing  *)
(* packet, composed with the text search registry it gets its              *)
(* configuration from.  The hook runs on several processors at once; the   *)
(* kernel's hook registration and the module's removal are modelled from   *)
(* how the file uses them.  Of a packet only the matches found in it       *)
(* matter.  What a search with a destroyed configuration does is           *)
(* undefined: no step follows and nothing is claimed of it.                *)
(***************************************************************************)
EXTENDS TextSearch

CONSTANTS
  nf,   \* the user of textsearch_prepare() that is this module while it is
        \* loaded, and another caller before
  CPUs  \* the processors that may be in the hook

ASSUME NetfilterAssumption == nf \in Users

VARIABLES
  mod,  \* where init() or fini() is
  hook  \* hook[c]: where eudyptula_hook() is on processor c

netVars == <<mod, hook>>
allVars == <<vars, netVars>>

NetInit ==
  /\ Init
  /\ mod = "unloaded"
  /\ hook = [c \in CPUs |-> "idle"]

(* init(): conf = textsearch_prepare("kmp", "Nishad", 6, GFP_KERNEL, 1) *)
InitPrepare ==
  /\ mod = "unloaded"
  /\ TextsearchPrepare(nf, "kmp", TRUE)
  /\ mod' = "prepare"
  /\ UNCHANGED hook

(* Mutant: the error pointer is not looked at. *)
InitRegisterAnyway ==
  /\ mod = "prepare"
  /\ pc[nf] = "idle"
  /\ mod' \in {"live", "failed"}
  /\ UNCHANGED <<vars, hook>>

(* init(): if (IS_ERR(conf)), and nf_register_net_hook(), which may fail *)
InitRegister ==
  /\ mod = "prepare"
  /\ pc[nf] = "idle"
  /\ \/ conf[nf] = None /\ mod' = "failed"
     \/ conf[nf] # None /\ mod' \in {"live", "failed"}
  /\ UNCHANGED <<vars, hook>>

(* fini(): textsearch_destroy(conf) *)
FiniDestroy ==
  /\ mod = "live"
  /\ TextsearchDestroy(nf)
  /\ mod' = "destroyed"
  /\ UNCHANGED hook

(* fini(): nf_unregister_net_hook() *)
FiniUnregister ==
  /\ mod = "destroyed"
  /\ mod' = "unregistered"
  /\ UNCHANGED <<vars, hook>>

(* nf_unregister_net_hook() returns when no processor is in the hook. *)
FiniReturns ==
  /\ mod = "unregistered"
  /\ \A c \in CPUs : hook[c] = "idle"
  /\ mod' = "gone"
  /\ UNCHANGED <<vars, hook>>

-----------------------------------------------------------------------------
Hook(c, here, there) == hook[c] = here /\ hook' = [hook EXCEPT ![c] = there]

(* A packet enters the hook while it is registered. *)
HookEnter(c) ==
  /\ mod \in {"live", "destroyed"}
  /\ Hook(c, "idle", "find")
  /\ UNCHANGED <<vars, mod>>

(* A search with the global conf, from one place of the hook: it finds a   *)
(* match, or none and the hook returns NF_ACCEPT.                          *)
Search(c, here) ==
  /\ \/ (Hook(c, here, "next") \/ Hook(c, here, "idle")) /\ UNCHANGED mod
     \/ hook[c] = here /\ conf[nf] = None /\ mod' = "undefined" /\ UNCHANGED hook
  /\ UNCHANGED vars

(* eudyptula_hook(): pos = skb_find_text(pskb, 0, INT_MAX, conf), which    *)
(* has a ts_state of its own                                               *)
SkbFindText(c) == Search(c, "find")

(* eudyptula_hook(): pos = textsearch_next(conf, &eustate) *)
TextsearchNext(c) == Search(c, "next")

HookStep(c) == HookEnter(c) \/ SkbFindText(c) \/ TextsearchNext(c)

LibraryStep ==
  /\ \/ \E m \in Mods : ModStep(m)
     \/ \E u \in Users : UserStep(u)
     \/ \E u \in Users : (u # nf \/ mod = "unloaded") /\ UserCall(u)
  /\ UNCHANGED netVars

NetNext ==
  /\ mod # "undefined"
  /\ \/ InitPrepare \/ InitRegister \/ FiniDestroy \/ FiniUnregister \/ FiniReturns
     \/ \E c \in CPUs : HookStep(c)
     \/ LibraryStep

NetSpec == NetInit /\ [][NetNext]_allVars

(* The fairness of TextSearch, for as long as everything is defined; no    *)
(* packet has to arrive and nobody has to load or unload modules.          *)
FairNetSpec ==
  /\ NetSpec
  /\ \A u \in Users : WF_allVars(mod # "undefined" /\ UserStep(u) /\ UNCHANGED netVars)
  /\ \A m \in Complete :
       /\ WF_allVars(mod # "undefined" /\ HolderStep(m) /\ UNCHANGED netVars)
       /\ SF_allVars(mod # "undefined" /\ LockStep(m) /\ UNCHANGED netVars)

-----------------------------------------------------------------------------
(* Until fini() starts, a search in the hook finds a configuration whose   *)
(* algorithm is the one init() asked for, loaded and not on its way out.   *)
HookSearches ==
  mod = "live" => /\ conf[nf] # None
                  /\ NameOf[conf[nf]] = "kmp"
                  /\ mstate[conf[nf]] = "live"

(* textsearch_prepare() returns: the lookup ends although the list it      *)
(* walks keeps changing, and it is repeated at most once.                  *)
PrepareReturns == \A u \in Users : pc[u] # "idle" ~> (pc[u] = "idle" \/ mod = "undefined")

(* A module that has entered textsearch_unregister() gets freed: the lock  *)
(* and the readers it waits for do not keep it for ever.                   *)
UnloadEnds ==
  \A m \in Complete : mstate[m] = "going" ~> (mstate[m] = "unloaded" \/ mod = "undefined")
=============================================================================
