----------------------------- MODULE HandleRegistry ----------------------------
(***************************************************************************)
(* The registry of context handles: a cache in memory in front of the      *)
(* store.  Register writes both, the cache first; lookups and listings     *)
(* fill the cache.  A handle belongs to a run and refers to an artifact.   *)
(* The owner makes one call at a time.                                     *)
(***************************************************************************)
EXTENDS Naturals, Sequences

CONSTANTS
  Handles,
  Runs

(* No record of a handle. *)
Unknown == [run |-> "none", ref |-> 0]

ASSUME RegistryAssumption == Unknown.run \notin Runs

VARIABLES
  cached,      \* LocalHandleRegistry.handles
  stored,      \* the records of the store
  registered,  \* history: the latest registration that returned without an error
  refused      \* history: handles whose latest registration the store refused

registryVars == <<cached, stored, registered, refused>>

RegistryInit ==
  /\ cached = [h \in Handles |-> Unknown]
  /\ stored = [h \in Handles |-> Unknown]
  /\ registered = [h \in Handles |-> Unknown]
  /\ refused = {}

(* Variant: a handle that the cache knows is not written through. *)
RegisterOnce(h, record) ==
  /\ cached' = [cached EXCEPT ![h] = record]
  /\ stored' = [stored EXCEPT ![h] = IF cached[h] = Unknown THEN record ELSE @]
  /\ registered' = [registered EXCEPT ![h] = record]
  /\ refused' = refused \ {h}

Register(h, record) ==
  /\ cached' = [cached EXCEPT ![h] = record]
  /\ stored' = [stored EXCEPT ![h] = record]
  /\ registered' = [registered EXCEPT ![h] = record]
  /\ refused' = refused \ {h}

(* PutContextHandle fails: the caller gets an error, the cache keeps it. *)
RegisterRefused(h, record) ==
  /\ cached' = [cached EXCEPT ![h] = record]
  /\ refused' = refused \cup {h}
  /\ UNCHANGED <<stored, registered>>

(* Get: the cache, else the store, which then fills the cache. *)
Served(h) == IF cached[h] # Unknown THEN cached[h] ELSE stored[h]

Get(h) ==
  /\ cached' = [cached EXCEPT ![h] = Served(h)]
  /\ UNCHANGED <<stored, registered, refused>>

(* ListByRunID: what the cache has under the run, and what the store has    *)
(* under it besides; a record of the store replaces one that the cache has  *)
(* under another run.                                                       *)
Listing(r) ==
  [h \in {x \in Handles : r \in {cached[x].run, stored[x].run}} |->
     IF cached[h].run = r THEN cached[h] ELSE stored[h]]

(* Variant: a listing does not fill the cache. *)
ListWithoutFill(r) == UNCHANGED registryVars

ListByRunID(r) ==
  /\ cached' = [h \in Handles |-> IF h \in DOMAIN Listing(r) THEN Listing(r)[h] ELSE cached[h]]
  /\ UNCHANGED <<stored, registered, refused>>

(* A new process. *)
ForgetHandles ==
  /\ cached' = [h \in Handles |-> Unknown]
  /\ UNCHANGED <<stored, registered, refused>>

RegistryTypeOK ==
  /\ {cached, stored, registered} \subseteq
       [Handles -> [run : Runs, ref : Nat \ {0}] \cup {Unknown}]
  /\ refused \subseteq Handles
================================================================================
