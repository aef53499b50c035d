----------------------------- MODULE ToolRegistry ------------------------------
(***************************************************************************)
(* The providers of tools behind one registry: the names under which their *)
(* tools are exposed to the model, the packet that fixes those names with  *)
(* the specifications calls are checked against, and the routing of a call *)
(* to a provider, by the names the registry has when it is executed.       *)
(*                                                                         *)
(* A provider lists the same tools each time it is asked.                  *)
(***************************************************************************)
EXTENDS Naturals, Sequences, FiniteSets

CONSTANTS
  Providers,       \* what a host may register
  Tools,           \* Tools[p]: the specs p lists, each with a name and a namespace
  NameParts,       \* what names and namespaces are made of, besides numbers
  Joint,           \* the "__" between a namespace and a name
  MaxProviders     \* bound on registrations

(* A name or a namespace is the sequence of its parts: the namespace "x_2"  *)
(* is <<x, 2>>, the name "x__read" is <<x, Joint, read>>.                   *)
NoNamespace == <<>>

ASSUME ToolRegistryAssumption ==
  /\ \A p \in Providers :
       /\ Len(Tools[p]) \in Nat
       /\ DOMAIN Tools[p] = 1 .. Len(Tools[p])
       /\ \A i \in DOMAIN Tools[p] :
            /\ DOMAIN Tools[p][i] = {"name", "namespace"}
            /\ Tools[p][i].name \in Seq(NameParts)
            /\ Tools[p][i].namespace \in Seq(NameParts \cup Nat)
  /\ MaxProviders \in Nat

VARIABLES
  registry,  \* the providers, in the order of their registration
  packet     \* the tools of the context packet, by the name they were exposed under

registryVars == <<registry, packet>>

(***************************************************************************)
(* registryTools                                                           *)
(***************************************************************************)

(* A tool is the position of its provider and its own in the provider's list. *)
Listed(reg) == UNION {{<<i, j>> : j \in DOMAIN Tools[reg[i]]} : i \in DOMAIN reg}
ToolSpec(reg, t) == Tools[reg[t[1]]][t[2]]
ListedBefore(t, u) == t[1] < u[1] \/ (t[1] = u[1] /\ t[2] < u[2])

Namesakes(reg, t) == {u \in Listed(reg) : ToolSpec(reg, u).name = ToolSpec(reg, t).name}

(* registryToolNamespace: a spec without a namespace gets its provider's. *)
Namespace(reg, t) ==
  IF ToolSpec(reg, t).namespace # NoNamespace THEN ToolSpec(reg, t).namespace
  ELSE <<"provider", t[1]>>

Qualified(namespace, count) == IF count = 1 THEN namespace ELSE Append(namespace, count)

(* A name that only one tool has is exposed as it is; the others get their *)
(* namespace, numbered where it repeats, joined to one name with theirs,   *)
(* which may be the plain name of another tool.                            *)
Exposed(reg, t) ==
  LET name == ToolSpec(reg, t).name
      earlier == {u \in Namesakes(reg, t) :
                    Namespace(reg, u) = Namespace(reg, t) /\ (u = t \/ ListedBefore(u, t))}
  IN IF Namesakes(reg, t) = {t} THEN name
     ELSE Qualified(Namespace(reg, t), Cardinality(earlier)) \o <<Joint>> \o name

ExposedNames(reg) == {Exposed(reg, t) : t \in Listed(reg)}

(* Two tools with one exposed name: an error for the whole registry. *)
Clashes(reg) == Cardinality(ExposedNames(reg)) < Cardinality(Listed(reg))

(* ToolSpecs, and the names the packet keeps. *)
ToolSpecs(reg) ==
  [n \in ExposedNames(reg) |-> CHOOSE t \in Listed(reg) : Exposed(reg, t) = n]

NoTool == <<0, 0>>

(* findToolSpec in the packet, as the tool whose specification it is. *)
CheckedTool(n) == IF n \in DOMAIN packet THEN packet[n] ELSE NoTool

(* Variant: a name that became ambiguous is still routed, to its latest tool. *)
RouteAmbiguous(n) ==
  LET named == {t \in Listed(registry) :
                  Exposed(registry, t) = n \/ ToolSpec(registry, t).name = n} IN
  IF Clashes(registry) \/ named = {} THEN NoTool
  ELSE CHOOSE t \in named : \A u \in named : u = t \/ ListedBefore(u, t)

(* ExecuteTool looks the name up among the names of this moment; a name     *)
(* that is ambiguous by now, or not there, is an error.                     *)
Route(n) ==
  IF Clashes(registry) \/ n \notin ExposedNames(registry) THEN NoTool
  ELSE CHOOSE t \in Listed(registry) : Exposed(registry, t) = n

(* What a model may call: a name it was shown, or one it makes up. *)
Callable(reg) ==
  ExposedNames(reg) \cup {ToolSpec(reg, t).name : t \in Listed(reg)}

(* Does the plain name of a tool read as a joined one? *)
LooksJoined(reg, t) == \E i \in DOMAIN ToolSpec(reg, t).name : ToolSpec(reg, t).name[i] = Joint

(***************************************************************************)
(* Register, at any moment: the registry has a mutex of its own.           *)
(***************************************************************************)
Register(p) ==
  /\ Len(registry) < MaxProviders
  /\ registry' = Append(registry, p)
  /\ UNCHANGED packet

(* buildContextPacket: the specs of this moment. *)
BuildPacket ==
  /\ ~Clashes(registry)
  /\ packet' = ToolSpecs(registry)
  /\ UNCHANGED registry

RegistryTypeOK ==
  /\ registry \in Seq(Providers)
  /\ \A n \in DOMAIN packet : packet[n] \in Listed(registry)
================================================================================
