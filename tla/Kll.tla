-------------------------------- MODULE Kll --------------------------------
(***************************************************************************)
(* src/Task_12/kll/kll.c: a kernel linked list of identities, with the     *)
(* pointers that list_add(), __list_del_entry() and list_for_each_entry()  *)
(* read and write.  identity_destroy() goes on from an entry it has just   *)
(* freed: its next pointer is normally intact, but the memory may have     *)
(* been reused, in which case the outcome is undefined: no step follows    *)
(* and nothing is claimed of it.  Of an identity the name is left out.     *)
(* linked_list_exit() changes nothing.                                     *)
(***************************************************************************)
EXTENDS Integers, Sequences

CONSTANTS
  Nodes,       \* the memory for identities
  my_id_list,  \* the list head
  NULL         \* the NULL pointer

ASSUME KllAssumption == my_id_list \notin Nodes /\ NULL \notin Nodes \cup {my_id_list}

VARIABLES
  next, prev,  \* the pointers of mylist in each node, and of the list head
  id,          \* id[e]: the field id of the identity at e
  allocated,   \* the nodes that kmalloc() has returned and kfree() has not got
  call,        \* the call that linked_list_init() is at
  walking,     \* is the current call inside list_for_each_entry()?
  cursor,      \* id_str_ptr of identity_find() and identity_destroy()
  temp,        \* what identity_find() has returned
  undefined,   \* has the behaviour become undefined?
  present      \* the ids created and not destroyed (a history variable)

linkVars == <<next, prev, id, allocated>>
listVars == <<linkVars, call, walking, cursor, temp, undefined, present>>

(* Mutant: the last identity_destroy() is forgotten. *)
CallsShort ==
  << <<"create", 1>>, <<"create", 2>>, <<"create", 3>>, <<"create", 4>>,
     <<"find", 3>>, <<"find", 42>>,
     <<"destroy", 2>>, <<"destroy", 1>>, <<"destroy", 10>>, <<"destroy", 42>> >>

(* The calls of linked_list_init(), in order. *)
Calls ==
  << <<"create", 1>>, <<"create", 2>>, <<"create", 3>>, <<"create", 4>>,
     <<"find", 3>>, <<"find", 42>>,
     <<"destroy", 2>>, <<"destroy", 1>>, <<"destroy", 10>>, <<"destroy", 42>>, <<"destroy", 3>> >>

Entries == Nodes \cup {my_id_list}

ListInit ==
  /\ next = [e \in Entries |-> my_id_list]
  /\ prev = [e \in Entries |-> my_id_list]
  /\ id = [e \in Nodes |-> 0]
  /\ allocated = {}
  /\ call = 1
  /\ walking = FALSE
  /\ cursor = my_id_list
  /\ temp = NULL
  /\ undefined = FALSE
  /\ present = {}

Calling(function) == ~undefined /\ call <= Len(Calls) /\ Calls[call][1] = function
Argument == Calls[call][2]

-----------------------------------------------------------------------------
(* list_add(new, my_id_list) *)
ListAdd(new) ==
  /\ prev' = [prev EXCEPT ![next[my_id_list]] = new, ![new] = my_id_list]
  /\ next' = [next EXCEPT ![new] = next[my_id_list], ![my_id_list] = new]

(* Mutant: the successor keeps its pointer to the entry. *)
ListDelForward(entry) ==
  /\ next' = [next EXCEPT ![prev[entry]] = next[entry]]
  /\ UNCHANGED prev

(* __list_del_entry(entry), which leaves the pointers of the entry itself. *)
ListDelEntry(entry) ==
  /\ prev' = [prev EXCEPT ![next[entry]] = prev[entry]]
  /\ next' = [next EXCEPT ![prev[entry]] = next[entry]]

(* identity_create(): kmalloc() fails, or the identity is put at the front *)
(* of the list.                                                            *)
IdentityCreate ==
  /\ Calling("create")
  /\ \/ UNCHANGED <<linkVars, present>>
     \/ \E new \in Nodes \ allocated :
          /\ allocated' = allocated \cup {new}
          /\ id' = [id EXCEPT ![new] = Argument]
          /\ ListAdd(new)
          /\ present' = present \cup {Argument}
  /\ call' = call + 1
  /\ UNCHANGED <<walking, cursor, temp, undefined>>

(* list_for_each_entry(): the first entry *)
FirstEntry ==
  /\ Calling("find") \/ Calling("destroy")
  /\ ~walking
  /\ walking' = TRUE
  /\ cursor' = next[my_id_list]
  /\ UNCHANGED <<linkVars, call, temp, undefined, present>>

(* Mutant: the search ends one entry early. *)
IdentityFindShort ==
  /\ Calling("find")
  /\ walking
  /\ IF next[cursor] = my_id_list
       THEN temp' = NULL /\ walking' = FALSE /\ call' = call + 1 /\ UNCHANGED cursor
       ELSE /\ cursor \in Nodes
            /\ IF id[cursor] = Argument
                 THEN temp' = cursor /\ walking' = FALSE /\ call' = call + 1 /\ UNCHANGED cursor
                 ELSE cursor' = next[cursor] /\ UNCHANGED <<temp, walking, call>>
  /\ UNCHANGED <<linkVars, undefined, present>>

(* identity_find(): one turn of the loop *)
IdentityFind ==
  /\ Calling("find")
  /\ walking
  /\ \/ /\ cursor = my_id_list
        /\ temp' = NULL
        /\ walking' = FALSE
        /\ call' = call + 1
        /\ UNCHANGED cursor
     \/ /\ cursor # my_id_list /\ id[cursor] = Argument
        /\ temp' = cursor
        /\ walking' = FALSE
        /\ call' = call + 1
        /\ UNCHANGED cursor
     \/ /\ cursor # my_id_list /\ id[cursor] # Argument
        /\ cursor' = next[cursor]
        /\ UNCHANGED <<temp, walking, call>>
  /\ UNCHANGED <<linkVars, undefined, present>>

(* Mutant: the last entry of the list is not looked at. *)
IdentityDestroyShort ==
  /\ Calling("destroy")
  /\ walking
  /\ cursor # my_id_list
  /\ \/ /\ id[cursor] = Argument /\ next[cursor] # my_id_list
        /\ ListDelEntry(cursor)
        /\ allocated' = allocated \ {cursor}
     \/ /\ id[cursor] # Argument \/ next[cursor] = my_id_list
        /\ UNCHANGED <<next, prev, allocated>>
  /\ cursor' = next[cursor]
  /\ UNCHANGED <<id, call, walking, temp, undefined, present>>

(* identity_destroy(): one turn of the loop; the next entry is read from   *)
(* the current one, freed or not.                                          *)
IdentityDestroy ==
  /\ Calling("destroy")
  /\ walking
  /\ cursor # my_id_list
  /\ \/ /\ id[cursor] = Argument
        /\ ListDelEntry(cursor)
        /\ allocated' = allocated \ {cursor}
        /\ undefined' \in BOOLEAN
     \/ /\ id[cursor] # Argument
        /\ UNCHANGED <<next, prev, allocated, undefined>>
  /\ cursor' = next[cursor]
  /\ UNCHANGED <<id, call, walking, temp, present>>

(* identity_destroy() returns. *)
DestroyReturns ==
  /\ Calling("destroy")
  /\ walking
  /\ cursor = my_id_list
  /\ walking' = FALSE
  /\ call' = call + 1
  /\ present' = present \ {Argument}
  /\ UNCHANGED <<linkVars, cursor, temp, undefined>>

ListNext == IdentityCreate \/ FirstEntry \/ IdentityFind \/ IdentityDestroy \/ DestroyReturns

ListSpec == ListInit /\ [][ListNext]_listVars

-----------------------------------------------------------------------------
(* Types; in particular every pointer of the list leads to the list head   *)
(* or to an entry, and a walk stands on one of them.                       *)
ListTypeOK ==
  /\ next \in [Entries -> Entries]
  /\ prev \in [Entries -> Entries]
  /\ id \in [Nodes -> Nat]
  /\ allocated \subseteq Nodes
  /\ call \in 1 .. Len(Calls) + 1
  /\ walking \in BOOLEAN
  /\ cursor \in Entries
  /\ temp \in Nodes \cup {NULL}
  /\ undefined \in BOOLEAN
  /\ present \subseteq Nat

(* The entries that are in use: the identities and the list head. *)
Linked == allocated \cup {my_id_list}

(* next and prev are inverse to each other on the entries in use and never *)
(* lead to freed memory, though entries are deleted under the feet of the  *)
(* loop that walks over them.                                              *)
WellLinked ==
  \A e \in Linked :
    /\ next[e] \in Linked /\ prev[next[e]] = e
    /\ prev[e] \in Linked /\ next[prev[e]] = e

(* Between two calls the memory in use is that of the identities created   *)
(* and not destroyed.                                                      *)
NothingLeaks == ~walking => {id[e] : e \in allocated} = present

(* identity_find() returns an identity with the id it was asked for, and   *)
(* NULL only if there is none.                                             *)
FindExact ==
  [][Calling("find") /\ call' # call =>
       IF Argument \in present THEN temp' \in allocated /\ id[temp'] = Argument
                               ELSE temp' = NULL]_listVars
=============================================================================
