----------------------------- MODULE MCWorldState ------------------------------
(* A small instance of WorldState. *)
EXTENDS WorldState

CONSTANTS asker, mover, custom

(* One provider of the task partition, one that returns another partition  *)
(* than it declares, and one of a partition the snapshot does not have.     *)
SomeProviders ==
  {[name |-> asker, declared |-> "", returned |-> "task"],
   [name |-> mover, declared |-> "task", returned |-> "context"],
   [name |-> custom, declared |-> "my-custom", returned |-> ""]}

(* An event names nothing, another actor or the mode. *)
SomeNamings == {<<>>, [actor |-> "guest"], [mode |-> "yolo"]}
Unnamed == {<<>>}

(* A grant that any run of the session finds, and one of an actor. *)
SomeHolders == {<<>>, [actor |-> "local"]}

(* One read or provider fails, or all of them. *)
SomeOutages ==
  {[reads |-> {read}, providers |-> {}] : read \in Reads}
  \cup {[reads |-> {}, providers |-> {x}] : x \in HostProviders}
  \cup {[reads |-> Reads, providers |-> HostProviders]}

(* Writes to files; events that name nothing, with a change, an outage or a *)
(* restart beside them; or events that name fields of the scope, with a     *)
(* change, or an event with a change and an outage.                        *)
EventsOrFiles ==
  {[events |-> 0, changes |-> 1, artifacts |-> 3, mishaps |-> 1, namings |-> Unnamed],
   [events |-> 0, changes |-> 2, artifacts |-> 2, mishaps |-> 2, namings |-> Unnamed],
   [events |-> 3, changes |-> 1, artifacts |-> 0, mishaps |-> 0, namings |-> Unnamed],
   [events |-> 2, changes |-> 0, artifacts |-> 0, mishaps |-> 1, namings |-> Unnamed],
   [events |-> 2, changes |-> 1, artifacts |-> 0, mishaps |-> 0, namings |-> SomeNamings],
   [events |-> 1, changes |-> 1, artifacts |-> 0, mishaps |-> 1, namings |-> SomeNamings]}
================================================================================
