---------------------------- MODULE ModelTurnsProofs ----------------------------
(***************************************************************************)
(* The routing of calls, the convergence control and the window on the     *)
(* messages, for any providers, any number of rounds, suspensions and      *)
(* registrations, and windows of any size.                                 *)
(***************************************************************************)
EXTENDS ModelTurns, Integers, FiniteSetTheorems, SequenceTheorems, TLAPS

(***************************************************************************)
(* Names                                                                   *)
(***************************************************************************)

(* reg is what the registry was when it had fewer providers. *)
Grown(reg, new) ==
  /\ reg \in Seq(Providers) /\ new \in Seq(Providers)
  /\ Len(reg) <= Len(new)
  /\ \A i \in DOMAIN reg : new[i] = reg[i]

LEMMA ListedTools ==
  ASSUME NEW reg \in Seq(Providers), NEW t
  PROVE  t \in Listed(reg) <=>
           \E i \in 1 .. Len(reg) : \E j \in 1 .. Len(Tools[reg[i]]) : t = <<i, j>>
<1>1. DOMAIN reg = 1 .. Len(reg) /\ \A i \in DOMAIN reg : reg[i] \in Providers
  OBVIOUS
<1>2. \A i \in DOMAIN reg : DOMAIN Tools[reg[i]] = 1 .. Len(Tools[reg[i]])
  BY <1>1, ToolRegistryAssumption
<1> QED BY <1>1, <1>2 DEF Listed

LEMMA ListedPosition ==
  ASSUME NEW reg \in Seq(Providers), NEW t \in Listed(reg)
  PROVE  /\ t = <<t[1], t[2]>> /\ t[1] \in 1 .. Len(reg) /\ t[2] \in Nat \ {0}
         /\ reg[t[1]] \in Providers
         /\ t[2] \in 1 .. Len(Tools[reg[t[1]]])
         /\ ToolSpec(reg, t).name \in Seq(NameParts)
         /\ ToolSpec(reg, t).namespace \in Seq(NameParts \cup Nat)
<1>1. PICK i \in 1 .. Len(reg) : \E j \in 1 .. Len(Tools[reg[i]]) : t = <<i, j>>
  BY ListedTools
<1>2. PICK j \in 1 .. Len(Tools[reg[i]]) : t = <<i, j>>
  BY <1>1
<1>3. reg[i] \in Providers /\ Len(Tools[reg[i]]) \in Nat
  BY ToolRegistryAssumption
<1>4. t[1] = i /\ t[2] = j
  BY <1>2
<1> QED BY <1>2, <1>3, <1>4, ToolRegistryAssumption DEF ToolSpec

LEMMA ListedFinite ==
  ASSUME NEW reg \in Seq(Providers)
  PROVE  IsFiniteSet(Listed(reg))
<1> DEFINE of(i) == {<<i, j>> : j \in DOMAIN Tools[reg[i]]}
           families == {of(i) : i \in DOMAIN reg}
<1>1. IsFiniteSet(DOMAIN reg)
  <2>1. DOMAIN reg = 1 .. Len(reg) /\ Len(reg) \in Nat
    OBVIOUS
  <2>2. IsFiniteSet(1 .. Len(reg))
    BY <2>1, FS_Interval
  <2> QED BY <2>1, <2>2
<1>2. ASSUME NEW i \in DOMAIN reg PROVE IsFiniteSet(of(i))
  <2>1. reg[i] \in Providers
    OBVIOUS
  <2>2. DOMAIN Tools[reg[i]] = 1 .. Len(Tools[reg[i]]) /\ Len(Tools[reg[i]]) \in Nat
    BY <2>1, ToolRegistryAssumption
  <2>3. IsFiniteSet(DOMAIN Tools[reg[i]])
    BY <2>2, FS_Interval
  <2> DEFINE f == [j \in DOMAIN Tools[reg[i]] |-> <<i, j>>]
  <2>4. f \in Surjection(DOMAIN Tools[reg[i]], of(i))
    BY DEF Surjection
  <2> QED BY <2>3, <2>4, FS_Surjection
<1>3. IsFiniteSet(families)
  <2> DEFINE g == [i \in DOMAIN reg |-> of(i)]
  <2>1. g \in Surjection(DOMAIN reg, families)
    BY DEF Surjection
  <2> QED BY <1>1, <2>1, FS_Surjection
<1>4. \A T \in families : IsFiniteSet(T)
  BY <1>2
<1>5. IsFiniteSet(UNION families)
  BY <1>3, <1>4, FS_UNION
<1> QED BY <1>5 DEF Listed

(* Without a clash an exposed name is of one tool only. *)
LEMMA NamesUnique ==
  ASSUME NEW reg \in Seq(Providers), ~Clashes(reg),
         NEW t \in Listed(reg), NEW u \in Listed(reg), Exposed(reg, t) = Exposed(reg, u)
  PROVE  t = u
<1> DEFINE f == [v \in Listed(reg) |-> Exposed(reg, v)]
<1>1. f \in Surjection(Listed(reg), ExposedNames(reg))
  BY DEF Surjection, ExposedNames
<1>2. /\ IsFiniteSet(Listed(reg)) /\ IsFiniteSet(ExposedNames(reg))
      /\ Cardinality(ExposedNames(reg)) <= Cardinality(Listed(reg))
      /\ Cardinality(ExposedNames(reg)) = Cardinality(Listed(reg))
           <=> f \in Injection(Listed(reg), ExposedNames(reg))
  BY <1>1, ListedFinite, FS_Surjection
<1>3. Cardinality(ExposedNames(reg)) \in Nat /\ Cardinality(Listed(reg)) \in Nat
  BY <1>2, FS_CardinalityType
<1>4. Cardinality(ExposedNames(reg)) = Cardinality(Listed(reg))
  BY <1>2, <1>3 DEF Clashes
<1>5. f \in Injection(Listed(reg), ExposedNames(reg))
  BY <1>2, <1>4
<1>6. f[t] = f[u]
  OBVIOUS
<1> HIDE DEF f
<1> QED BY <1>5, <1>6 DEF Injection, IsInjective

(* The tool that has a name. *)
LEMMA SpecOf ==
  ASSUME NEW reg \in Seq(Providers), NEW n \in ExposedNames(reg)
  PROVE  ToolSpecs(reg)[n] \in Listed(reg) /\ Exposed(reg, ToolSpecs(reg)[n]) = n
<1>1. \E t \in Listed(reg) : Exposed(reg, t) = n
  BY DEF ExposedNames
<1>2. ToolSpecs(reg)[n] = CHOOSE t \in Listed(reg) : Exposed(reg, t) = n
  BY DEF ToolSpecs
<1> QED BY <1>1, <1>2, Zenon

(* Tools that were listed stay where they are; new ones come after them. *)
LEMMA GrownTools ==
  ASSUME NEW reg, NEW new, Grown(reg, new)
  PROVE  /\ \A t \in Listed(reg) :
              t \in Listed(new) /\ ToolSpec(new, t) = ToolSpec(reg, t)
         /\ \A t \in Listed(new) \ Listed(reg) : t[1] > Len(reg)
<1>1. /\ reg \in Seq(Providers) /\ new \in Seq(Providers) /\ Len(reg) <= Len(new)
      /\ \A i \in 1 .. Len(reg) : new[i] = reg[i]
  BY DEF Grown
<1>2. ASSUME NEW t \in Listed(reg)
      PROVE  t \in Listed(new) /\ ToolSpec(new, t) = ToolSpec(reg, t)
  <2>1. t = <<t[1], t[2]>> /\ t[1] \in 1 .. Len(reg) /\ t[2] \in 1 .. Len(Tools[reg[t[1]]])
    BY <1>1, ListedPosition
  <2>2. new[t[1]] = reg[t[1]] /\ t[1] \in 1 .. Len(new)
    BY <1>1, <2>1
  <2> QED BY <1>1, <2>1, <2>2, ListedTools DEF ToolSpec
<1>3. ASSUME NEW t \in Listed(new) \ Listed(reg) PROVE t[1] > Len(reg)
  <2>1. t = <<t[1], t[2]>> /\ t[1] \in 1 .. Len(new) /\ t[2] \in 1 .. Len(Tools[new[t[1]]])
    BY <1>1, ListedPosition
  <2>2. SUFFICES ASSUME t[1] \in 1 .. Len(reg) PROVE FALSE
    BY <1>1, <2>1
  <2>3. new[t[1]] = reg[t[1]]
    BY <1>1, <2>2
  <2> QED BY <1>1, <2>1, <2>2, <2>3, ListedTools
<1> QED BY <1>2, <1>3

LEMMA NamespaceKept ==
  ASSUME NEW reg, NEW new, Grown(reg, new), NEW t \in Listed(reg)
  PROVE  Namespace(new, t) = Namespace(reg, t)
BY GrownTools DEF Namespace

HasJoint(name) == \E i \in DOMAIN name : name[i] = Joint

(* A joined name has its joint. *)
LEMMA JoinedName ==
  ASSUME NEW reg \in Seq(Providers), NEW t \in Listed(reg), NEW count \in Nat
  PROVE  HasJoint(Qualified(Namespace(reg, t), count) \o <<Joint>> \o ToolSpec(reg, t).name)
<1> DEFINE Parts == NameParts \cup Nat \cup {"provider", Joint}
           name == ToolSpec(reg, t).name
           space == Qualified(Namespace(reg, t), count)
<1>1. Namespace(reg, t) \in Seq(Parts)
  <2>1. CASE ToolSpec(reg, t).namespace # NoNamespace
    <3>1. Namespace(reg, t) = ToolSpec(reg, t).namespace
      BY <2>1 DEF Namespace
    <3>2. ToolSpec(reg, t).namespace \in Seq(NameParts \cup Nat)
      BY ListedPosition
    <3> QED BY <3>1, <3>2, SeqMonotonic
  <2>2. CASE ToolSpec(reg, t).namespace = NoNamespace
    <3>1. Namespace(reg, t) = <<"provider", t[1]>>
      BY <2>2 DEF Namespace
    <3>2. t[1] \in Nat
      BY ListedPosition
    <3> QED BY <3>1, <3>2
  <2> QED BY <2>1, <2>2
<1>2. name \in Seq(Parts)
  <2>1. ToolSpec(reg, t).name \in Seq(NameParts)
    BY ListedPosition
  <2> QED BY <2>1, SeqMonotonic
<1>3. count \in Parts /\ Joint \in Parts
  OBVIOUS
<1> HIDE DEF Parts, name
<1>4. space \in Seq(Parts)
  BY <1>1, <1>3, AppendProperties DEF Qualified
<1> HIDE DEF space
<1>5. PICK joined : joined = space \o <<Joint>> \o name
  OBVIOUS
<1>6. /\ Len(space) \in Nat /\ Len(name) \in Nat
      /\ joined \in Seq(Parts) /\ Len(joined) = Len(space) + 1 + Len(name)
      /\ joined[Len(space) + 1] = Joint
  BY <1>2, <1>3, <1>4, <1>5
<1>7. Len(space) + 1 \in DOMAIN joined
  BY <1>6
<1> QED BY <1>5, <1>6, <1>7 DEF HasJoint, name, space

Earlier(reg, t) ==
  {u \in Namesakes(reg, t) :
     Namespace(reg, u) = Namespace(reg, t) /\ (u = t \/ ListedBefore(u, t))}

LEMMA ExposedIs ==
  ASSUME NEW reg, NEW t
  PROVE  Exposed(reg, t) =
           IF Namesakes(reg, t) = {t} THEN ToolSpec(reg, t).name
           ELSE Qualified(Namespace(reg, t), Cardinality(Earlier(reg, t)))
                  \o <<Joint>> \o ToolSpec(reg, t).name
BY DEF Exposed, Earlier

LEMMA EarlierCounts ==
  ASSUME NEW reg \in Seq(Providers), NEW t \in Listed(reg)
  PROVE  Cardinality(Earlier(reg, t)) \in Nat
<1>1. Earlier(reg, t) \in SUBSET Listed(reg)
  BY DEF Earlier, Namesakes
<1>2. IsFiniteSet(Earlier(reg, t))
  BY <1>1, ListedFinite, FS_Subset
<1> QED BY <1>2, FS_CardinalityType

(* A name without a joint is of the only tool that has it. *)
LEMMA Unqualified ==
  ASSUME NEW reg \in Seq(Providers), NEW t \in Listed(reg), ~HasJoint(Exposed(reg, t))
  PROVE  Namesakes(reg, t) = {t} /\ Exposed(reg, t) = ToolSpec(reg, t).name
<1>1. HasJoint(Qualified(Namespace(reg, t), Cardinality(Earlier(reg, t)))
                 \o <<Joint>> \o ToolSpec(reg, t).name)
  BY EarlierCounts, JoinedName
<1> QED BY <1>1, ExposedIs, Zenon

LEMMA Looks ==
  ASSUME NEW reg, NEW t
  PROVE  LooksJoined(reg, t) <=> HasJoint(ToolSpec(reg, t).name)
BY DEF LooksJoined, HasJoint

(* A tool that was exposed with its namespace keeps its exposed name. *)
LEMMA QualifiedKept ==
  ASSUME NEW reg, NEW new, Grown(reg, new), NEW t \in Listed(reg), Namesakes(reg, t) # {t}
  PROVE  Exposed(new, t) = Exposed(reg, t)
<1>1. reg \in Seq(Providers) /\ new \in Seq(Providers)
  BY DEF Grown
<1>2. t \in Namesakes(reg, t) /\ Namesakes(reg, t) \subseteq Namesakes(new, t)
  BY GrownTools DEF Namesakes
<1>3. Namesakes(new, t) # {t}
  BY <1>2
<1>4. Earlier(new, t) = Earlier(reg, t)
  <2>1. ASSUME NEW u \in Earlier(new, t) PROVE u \in Earlier(reg, t)
    <3>1. u \in Listed(new) /\ ToolSpec(new, u).name = ToolSpec(new, t).name
          /\ Namespace(new, u) = Namespace(new, t) /\ (u = t \/ ListedBefore(u, t))
      BY <2>1 DEF Earlier, Namesakes
    <3>2. u \in Listed(reg)
      <4>1. SUFFICES ASSUME u \notin Listed(reg) PROVE FALSE
        OBVIOUS
      <4>2. u[1] > Len(reg) /\ t[1] \in 1 .. Len(reg) /\ u[1] \in 1 .. Len(new)
        BY <1>1, <3>1, <4>1, GrownTools, ListedPosition
      <4> QED BY <1>1, <3>1, <4>1, <4>2 DEF ListedBefore
    <3> QED BY <3>1, <3>2, GrownTools, NamespaceKept DEF Earlier, Namesakes
  <2>2. ASSUME NEW u \in Earlier(reg, t) PROVE u \in Earlier(new, t)
    BY <1>2, <2>2, GrownTools, NamespaceKept DEF Earlier, Namesakes
  <2> QED BY <2>1, <2>2
<1>5. ToolSpec(new, t) = ToolSpec(reg, t) /\ Namespace(new, t) = Namespace(reg, t)
  BY GrownTools, NamespaceKept
<1> QED BY <1>3, <1>4, <1>5, ExposedIs

(* A name is exposed of the same tool, however the registry grows, or it    *)
(* clashes, or is exposed no more; unless the plain name of a tool reads as *)
(* the joined name of another.                                             *)
LEMMA NameKept ==
  ASSUME NEW reg, NEW new, Grown(reg, new), ~Clashes(new),
         NEW t \in Listed(reg), NEW u \in Listed(new), Exposed(reg, t) = Exposed(new, u),
         ~LooksJoined(new, t), ~LooksJoined(new, u)
  PROVE  t = u
<1>1. reg \in Seq(Providers) /\ new \in Seq(Providers) /\ t \in Listed(new)
      /\ ToolSpec(new, t) = ToolSpec(reg, t)
  BY GrownTools DEF Grown
<1>2. ~HasJoint(ToolSpec(reg, t).name) /\ ~HasJoint(ToolSpec(new, u).name)
  BY <1>1, Looks
<1>3. CASE Namesakes(reg, t) = {t}
  <2>1. Exposed(reg, t) = ToolSpec(reg, t).name
    BY <1>3, ExposedIs
  <2>2. ~HasJoint(Exposed(new, u))
    BY <1>2, <2>1
  <2>3. Namesakes(new, u) = {u} /\ ToolSpec(new, u).name = ToolSpec(reg, t).name
    BY <1>1, <2>1, <2>2, Unqualified
  <2>4. t \in Namesakes(new, u)
    BY <1>1, <2>3 DEF Namesakes
  <2> QED BY <2>3, <2>4
<1>4. CASE Namesakes(reg, t) # {t}
  <2>1. Exposed(new, t) = Exposed(new, u)
    BY <1>4, QualifiedKept
  <2> QED BY <1>1, <2>1, NamesUnique
<1> QED BY <1>3, <1>4

(***************************************************************************)
(* Windows                                                                 *)
(***************************************************************************)
Roles == {"user", "assistant", "tool"}
MessageSet == [role : Roles, about : Abouts, calls : Seq(Nat)]

LEMMA LeastOf ==
  ASSUME NEW S, S \subseteq Nat, S # {}
  PROVE  \E m \in S : \A n \in S : m <= n
<1>1. IsWellFoundedOn(OpToRel(<, Nat), Nat)
  BY NatLessThanWellFounded
<1>2. PICK m \in S : \A n \in S : ~(<<n, m>> \in OpToRel(<, Nat))
  BY <1>1, WFMin
<1>3. \A n \in S : n < m => <<n, m>> \in OpToRel(<, Nat)
  BY DEF OpToRel
<1>4. \A n \in S : ~(n < m)
  BY <1>2, <1>3, Zenon
<1> QED BY <1>4

FirstUser(m) == SelectInSeq(m, LAMBDA x : x.role = "user")

LEMMA FirstUserIs ==
  ASSUME NEW m \in Seq(MessageSet)
  PROVE  \/ FirstUser(m) = 0 /\ \A i \in 1 .. Len(m) : m[i].role # "user"
         \/ /\ FirstUser(m) \in 1 .. Len(m) /\ m[FirstUser(m)].role = "user"
            /\ \A i \in 1 .. FirstUser(m) - 1 : m[i].role # "user"
<1> DEFINE I == {i \in 1 .. Len(m) : m[i].role = "user"}
<1>1. FirstUser(m) = IF I # {} THEN Min(I) ELSE 0
  BY DEF FirstUser, SelectInSeq
<1>2. I \subseteq Nat
  OBVIOUS
<1>3. CASE I = {}
  BY <1>1, <1>3
<1>4. CASE I # {}
  <2>1. PICK k \in I : \A n \in I : k <= n
    BY <1>2, <1>4, LeastOf
  <2>2. Min(I) = CHOOSE x \in I : \A y \in I : x <= y
    BY DEF Min
  <2> HIDE DEF I
  <2>3. Min(I) \in I /\ \A n \in I : Min(I) <= n
    BY <2>1, <2>2
  <2>4. FirstUser(m) = Min(I)
    BY <1>1, <1>4
  <2> HIDE DEF FirstUser
  <2>5. FirstUser(m) \in 1 .. Len(m) /\ m[FirstUser(m)].role = "user"
    BY <2>3, <2>4 DEF I
  <2>6. ASSUME NEW i \in 1 .. FirstUser(m) - 1 PROVE m[i].role # "user"
    <3>1. i \in 1 .. Len(m) /\ ~(FirstUser(m) <= i)
      BY <2>5
    <3>2. i \notin I
      BY <2>3, <2>4, <3>1
    <3> QED BY <3>1, <3>2 DEF I
  <2> QED BY <2>5, <2>6
<1> QED BY <1>3, <1>4

(* TrimMessagesToWindow, place by place. *)
Anchored(m, max) == FirstUser(m) > 0 /\ FirstUser(m) <= Len(m) - max

LEMMA TrimSmall ==
  ASSUME NEW m, NEW max, max = 0 \/ Len(m) <= max
  PROVE  TrimMessagesToWindow(m, max) = m
BY DEF TrimMessagesToWindow

(* The last messages of a conversation. *)
LEMMA LastOnes ==
  ASSUME NEW S, NEW m \in Seq(S), NEW c \in 1 .. Len(m), NEW s, s = SubSeq(m, Len(m) - c + 1, Len(m))
  PROVE  s \in Seq(S) /\ Len(s) = c /\ \A i \in 1 .. c : s[i] = m[Len(m) - c + i]
OBVIOUS

(* t is the first user message of m and the end of m. *)
TaskAndTail(m, max, t) ==
  /\ t \in Seq(MessageSet) /\ Len(t) \in Nat
  /\ Len(t) = Larger(max - 1, 1) + 1
  /\ Len(t) >= 2 /\ Len(t) >= max /\ Len(t) <= max + 1 /\ Len(t) <= Len(m)
  /\ t[1] = m[FirstUser(m)]
  /\ \A i \in 2 .. Len(t) : t[i] = m[Len(m) - Len(t) + i]

(* t is the end of m. *)
OnlyTail(m, max, t) ==
  /\ t \in Seq(MessageSet) /\ Len(t) = max
  /\ \A i \in 1 .. Len(t) : t[i] = m[Len(m) - Len(t) + i]

LEMMA TrimAnchored ==
  ASSUME NEW m \in Seq(MessageSet), NEW max \in Nat, max # 0, Len(m) > max, Anchored(m, max),
         NEW t, t = TrimMessagesToWindow(m, max)
  PROVE  TaskAndTail(m, max, t)
<1> DEFINE M == MessageSet
           f == m[FirstUser(m)]
           c == Larger(max - 1, 1)
           tail == SubSeq(m, Len(m) - c + 1, Len(m))
<1>1. m \in Seq(M) /\ Len(m) \in Nat /\ FirstUser(m) \in 1 .. Len(m)
  BY FirstUserIs DEF Anchored
<1>2. t = <<f>> \o tail
  <2>1. t = (IF Anchored(m, max) THEN <<f>> ELSE <<>>)
              \o SubSeq(m, Len(m) - (IF Anchored(m, max) THEN c ELSE max) + 1, Len(m))
    <3>1. ~(max = 0 \/ Len(m) <= max)
      BY <1>1
    <3>2. TrimMessagesToWindow(m, max) =
            IF max = 0 \/ Len(m) <= max THEN m
            ELSE (IF Anchored(m, max) THEN <<f>> ELSE <<>>)
              \o SubSeq(m, Len(m) - (IF Anchored(m, max) THEN c ELSE max) + 1, Len(m))
      BY Zenon DEF TrimMessagesToWindow, FirstUser, Anchored
    <3> HIDE DEF f, c
    <3> QED BY <3>1, <3>2, Zenon
  <2> HIDE DEF f, c
  <2> QED BY <2>1
<1>3. f \in M
  BY <1>1
<1>4. c = IF max = 1 THEN 1 ELSE max - 1
  BY DEF Larger
<1>5. c \in 1 .. Len(m) /\ c + 1 <= Len(m) /\ c + 1 <= max + 1 /\ c + 1 >= max
  BY <1>1, <1>4
<1> HIDE DEF M, f, c
<1>6. tail \in Seq(M) /\ Len(tail) = c /\ \A i \in 1 .. c : tail[i] = m[Len(m) - c + i]
  BY <1>1, <1>5, LastOnes
<1> HIDE DEF tail
<1>7. /\ t \in Seq(M) /\ Len(t) = c + 1 /\ t[1] = f
      /\ \A i \in 2 .. c + 1 : t[i] = tail[i - 1]
  BY <1>2, <1>3, <1>5, <1>6
<1>8. ASSUME NEW i \in 2 .. Len(t) PROVE t[i] = m[Len(m) - Len(t) + i]
  <2>1. i \in 2 .. c + 1 /\ i - 1 \in 1 .. c /\ Len(m) - c + (i - 1) = Len(m) - Len(t) + i
    BY <1>1, <1>5, <1>7
  <2> QED BY <1>6, <1>7, <2>1
<1>9. Len(t) \in Nat /\ Len(t) >= 2 /\ Len(t) >= max /\ Len(t) <= max + 1 /\ Len(t) <= Len(m)
  BY <1>5, <1>7
<1> QED BY <1>7, <1>8, <1>9 DEF M, f, c, TaskAndTail

LEMMA TrimUnanchored ==
  ASSUME NEW m \in Seq(MessageSet), NEW max \in Nat, max # 0, Len(m) > max, ~Anchored(m, max),
         NEW t, t = TrimMessagesToWindow(m, max)
  PROVE  OnlyTail(m, max, t)
<1> DEFINE M == MessageSet
           tail == SubSeq(m, Len(m) - max + 1, Len(m))
<1>1. t = <<>> \o tail
  <2> DEFINE c == IF Anchored(m, max) THEN Larger(max - 1, 1) ELSE max
             front == IF Anchored(m, max) THEN <<m[FirstUser(m)]>> ELSE <<>>
  <2>1. ~(max = 0 \/ Len(m) <= max)
    OBVIOUS
  <2>2. TrimMessagesToWindow(m, max) =
          IF max = 0 \/ Len(m) <= max THEN m
          ELSE front \o SubSeq(m, Len(m) - c + 1, Len(m))
    BY Zenon DEF TrimMessagesToWindow, FirstUser, Anchored
  <2>3. c = max /\ front = <<>>
    BY Zenon
  <2> HIDE DEF c, front
  <2> QED BY <2>1, <2>2, <2>3, Zenon
<1>2. m \in Seq(M) /\ max \in 1 .. Len(m)
  OBVIOUS
<1> HIDE DEF M
<1>3. tail \in Seq(M) /\ Len(tail) = max /\ \A i \in 1 .. max : tail[i] = m[Len(m) - max + i]
  BY <1>2, LastOnes
<1> HIDE DEF tail
<1>4. t = tail
  BY <1>1, <1>3
<1> QED BY <1>3, <1>4 DEF M, OnlyTail

LEMMA TrimType ==
  ASSUME NEW m \in Seq(MessageSet), NEW max \in Nat
  PROVE  TrimMessagesToWindow(m, max) \in Seq(MessageSet)
<1>1. CASE max = 0 \/ Len(m) <= max
  BY <1>1, TrimSmall
<1>2. CASE max # 0 /\ Len(m) > max /\ Anchored(m, max)
  BY <1>2, TrimAnchored DEF TaskAndTail
<1>3. CASE max # 0 /\ Len(m) > max /\ ~Anchored(m, max)
  BY <1>3, TrimUnanchored DEF OnlyTail
<1>4. Len(m) \in Nat
  OBVIOUS
<1> QED BY <1>1, <1>2, <1>3, <1>4

(***************************************************************************)
(* Types                                                                   *)
(***************************************************************************)
AnyName == UNION {Callable(reg) : reg \in Seq(Providers)}
Position == Nat \X Nat
CallSet == [name : AnyName, id : Nat]
Signature == AnyName \X Results
Reasons == {"repeated", "no_new_observation"}
Counts == UNION {[S -> Nat] : S \in SUBSET Signature}
ControllerSet == [seen : Counts, streak : Nat, replans : SUBSET Reasons]
HistorySet ==
  [whole : Seq(MessageSet), start : Nat, observed : Seq(Seq(Signature)), known : Nat,
   route : [checked : Position, tool : Position], dropped : SUBSET Nat]
Places == {"start", "request", "turn", "calls", "suspended", "ended"}

(* The packet is what the registry exposed when the run began. *)
PacketInv ==
  at \notin {"start", "ended"} =>
    \E reg : /\ Grown(reg, registry) /\ ~Clashes(reg)
             /\ packet = ToolSpecs(reg) /\ Len(reg) = history.known

LoopType ==
  /\ at \in Places
  /\ messages \in Seq(MessageSet)
  /\ iteration \in Nat
  /\ rounds \in 0 .. MaxToolIterations
  /\ todo # <<>> \/ at = "calls" => rounds < MaxToolIterations
  /\ calls \in Nat /\ approval \in BOOLEAN
  /\ todo \in Seq(CallSet)
  /\ results \in Seq(Signature)
  /\ resumed \in BOOLEAN /\ finalizing \in BOOLEAN
  /\ controller \in ControllerSet
  /\ history \in HistorySet
  /\ at = "calls" => todo # <<>> \/ results # <<>> \/ resumed
  /\ at = "suspended" => results = <<>>
  /\ at \notin {"calls", "suspended"} => todo = <<>> /\ results = <<>> /\ ~resumed

TInv == RegistryTypeOK /\ LoopType /\ PacketInv

LEMMA GrownNames ==
  ASSUME NEW reg \in Seq(Providers)
  PROVE  ExposedNames(reg) \subseteq AnyName /\ Callable(reg) \subseteq AnyName
BY DEF AnyName, Callable

LEMMA GrownStep ==
  ASSUME NEW reg, NEW new, Grown(reg, new), NEW p \in Providers
  PROVE  Grown(reg, Append(new, p))
<1>1. /\ reg \in Seq(Providers) /\ new \in Seq(Providers)
      /\ Len(reg) <= Len(new) /\ \A i \in 1 .. Len(reg) : new[i] = reg[i]
  BY DEF Grown
<1>2. Append(new, p) \in Seq(Providers) /\ Len(Append(new, p)) = Len(new) + 1
  BY <1>1
<1>3. \A i \in 1 .. Len(new) : Append(new, p)[i] = new[i]
  BY <1>1
<1> QED BY <1>1, <1>2, <1>3 DEF Grown

LEMMA ListedIsPosition ==
  ASSUME NEW reg \in Seq(Providers), NEW t \in Listed(reg)
  PROVE  t \in Position /\ t # NoTool
<1>1. t = <<t[1], t[2]>> /\ t[1] \in 1 .. Len(reg) /\ t[2] \in Nat \ {0}
  BY ListedPosition
<1> QED BY <1>1 DEF Position, NoTool

LEMMA CallsOfType ==
  ASSUME TInv, NEW names \in Seq(AnyName)
  PROVE  /\ CallsOf(names) \in Seq(CallSet)
         /\ Len(CallsOf(names)) = Len(names)
         /\ \A i \in 1 .. Len(names) : CallsOf(names)[i].id = calls + i
<1>1. DOMAIN names = 1 .. Len(names) /\ Len(names) \in Nat
  OBVIOUS
<1>2. \A i \in 1 .. Len(names) : [name |-> names[i], id |-> calls + i] \in CallSet
  BY DEF CallSet, TInv, LoopType
<1>3. CallsOf(names) = [i \in 1 .. Len(names) |-> [name |-> names[i], id |-> calls + i]]
  BY <1>1 DEF CallsOf
<1>4. \A i \in 1 .. Len(names) : CallsOf(names)[i].id = calls + i
  BY <1>3
<1> HIDE DEF CallSet
<1>5. CallsOf(names) \in Seq(CallSet) /\ Len(CallsOf(names)) = Len(names)
  BY <1>1, <1>2, <1>3
<1> QED BY <1>4, <1>5

(* A response, with the next ids. *)
LEMMA ResponseType ==
  ASSUME TInv, NEW count \in Nat
  PROVE  /\ NextIds(count) \in Seq(Nat) /\ Len(NextIds(count)) = count
         /\ \A i \in 1 .. count : NextIds(count)[i] = calls + i
         /\ Range(NextIds(count)) \in SUBSET Nat
         /\ Range(NextIds(count)) = {calls + i : i \in 1 .. count}
         /\ Assistant(NextIds(count)) \in MessageSet
         /\ Assistant(NextIds(count)).role = "assistant"
         /\ Assistant(NextIds(count)).calls = NextIds(count)
<1>1. calls \in Nat
  BY DEF TInv, LoopType
<1>2. PICK ids : ids = NextIds(count)
  OBVIOUS
<1>3. /\ ids \in Seq(Nat) /\ Len(ids) = count /\ DOMAIN ids = 1 .. count
      /\ \A i \in 1 .. count : ids[i] = calls + i
  BY <1>1, <1>2 DEF NextIds
<1>4. Range(ids) = {calls + i : i \in 1 .. count} /\ Range(ids) \in SUBSET Nat
  <2>1. Range(ids) = {ids[i] : i \in 1 .. count}
    BY <1>3 DEF Range
  <2>2. Range(ids) = {calls + i : i \in 1 .. count}
    BY <1>3, <2>1
  <2>3. \A i \in 1 .. count : calls + i \in Nat
    BY <1>1
  <2> QED BY <2>2, <2>3
<1>5. "calls" \in Abouts /\ "assistant" \in Roles
  BY DEF Roles, Abouts
<1>6. /\ Assistant(ids) \in MessageSet /\ Assistant(ids).role = "assistant"
      /\ Assistant(ids).calls = ids
  BY <1>3, <1>5 DEF Assistant, Message, MessageSet
<1> QED BY <1>2, <1>3, <1>4, <1>6

LEMMA BoundedNames ==
  ASSUME NEW S, NEW n \in Nat, NEW names \in BoundedSeq(S, n)
  PROVE  names \in Seq(S)
BY DEF BoundedSeq, SeqOf

LEMMA RangeOf ==
  ASSUME NEW S, NEW s \in Seq(S), NEW x
  PROVE  /\ x \in Range(s) <=> \E i \in 1 .. Len(s) : s[i] = x
         /\ Range(s) \subseteq S
BY DEF Range

LEMMA OccurrencesType ==
  ASSUME NEW S, NEW sigs \in Seq(S), NEW sig
  PROVE  /\ Occurrences(sigs, sig) \in Nat
         /\ Occurrences(sigs, sig) = 0 <=> sig \notin Range(sigs)
<1> DEFINE I == {i \in DOMAIN sigs : sigs[i] = sig}
<1>1. I \subseteq 1 .. Len(sigs) /\ Len(sigs) \in Nat
  OBVIOUS
<1>2. IsFiniteSet(1 .. Len(sigs))
  BY <1>1, FS_Interval
<1>3. IsFiniteSet(I)
  BY <1>1, <1>2, FS_Subset
<1>4. I = {} <=> sig \notin Range(sigs)
  BY DEF Range
<1> HIDE DEF I
<1>5. Cardinality(I) \in Nat /\ (Cardinality(I) = 0 <=> I = {})
  BY <1>3, FS_CardinalityType, FS_EmptySet
<1> QED BY <1>4, <1>5 DEF Occurrences, I

LEMMA SeenType ==
  ASSUME controller \in ControllerSet, NEW sigs \in Seq(Signature)
  PROVE  /\ \A sig : SeenBefore(sig) \in Nat
         /\ Seen(sigs) \in Counts
         /\ Streak(sigs) \in Nat
<1>1. PICK S \in SUBSET Signature : controller.seen \in [S -> Nat]
  BY DEF ControllerSet, Counts
<1>2. \A sig : SeenBefore(sig) \in Nat
  BY <1>1 DEF SeenBefore
<1>3. \A sig : SeenBefore(sig) + Occurrences(sigs, sig) \in Nat
  BY <1>2, OccurrencesType
<1>4. Range(sigs) \subseteq Signature
  BY RangeOf
<1> DEFINE D == DOMAIN controller.seen \cup Range(sigs)
<1>5. D \in SUBSET Signature
  BY <1>1, <1>4
<1>6. Seen(sigs) \in [D -> Nat]
  BY <1>3 DEF Seen
<1> HIDE DEF D
<1>7. Seen(sigs) \in Counts
  BY <1>5, <1>6 DEF Counts
<1>8. controller.streak \in Nat
  BY DEF ControllerSet
<1> QED BY <1>2, <1>7, <1>8 DEF Streak

LEMMA DecisionType ==
  ASSUME NEW sigs
  PROVE  Decision(sigs) \in {"none", "finalize", "repeated", "no_new_observation"}
BY DEF Decision, Replan

LEMMA MessageTypes ==
  /\ Task \in MessageSet
  /\ \A reason \in Abouts : Steering(reason) \in MessageSet
  /\ \A c \in CallSet : Observation(c) \in MessageSet
  /\ InitialModelMessages \in Seq(MessageSet)
  /\ Granted \in MessageSet
<1>1. <<>> \in Seq(Nat)
  OBVIOUS
<1>2. Task \in MessageSet
  <2>1. "task" \in Abouts /\ "user" \in Roles
    BY DEF Roles, Abouts
  <2> QED BY <1>1, <2>1 DEF Task, Message, MessageSet
<1>3. \A reason \in Abouts : Steering(reason) \in MessageSet
  BY <1>1 DEF Steering, Message, MessageSet, Roles
<1>4. ASSUME NEW c \in CallSet PROVE Observation(c) \in MessageSet
  <2> DEFINE id == c.id
  <2>1. id \in Nat
    BY DEF CallSet
  <2> HIDE DEF id
  <2>2. <<id>> \in Seq(Nat)
    BY <2>1
  <2>3. "observation" \in Abouts /\ "tool" \in Roles
    BY DEF Roles, Abouts
  <2> QED BY <2>2, <2>3 DEF Observation, Message, MessageSet, id
<1>5. InitialModelMessages \in Seq(MessageSet)
  <2> DEFINE M == MessageSet
             task == Task
  <2>1. task \in M
    BY <1>2
  <2> HIDE DEF M, task
  <2>2. <<task>> \in Seq(M) /\ <<>> \in Seq(M)
    BY <2>1
  <2> QED BY <2>2 DEF InitialModelMessages, M, task
<1>6. Granted \in MessageSet
  <2>1. "approval" \in Abouts /\ "user" \in Roles
    BY DEF Roles, Abouts
  <2> QED BY <1>1, <2>1 DEF Granted, Message, MessageSet
<1> QED BY <1>2, <1>3, <1>4, <1>5, <1>6

LEMMA TypeInit == Init => TInv
<1> SUFFICES ASSUME Init PROVE TInv
  OBVIOUS
<1>1. PICK p \in Providers : registry = <<p>>
  BY DEF Init
<1>2. registry \in Seq(Providers)
  BY <1>1
<1>3. RegistryTypeOK /\ PacketInv
  BY <1>2 DEF Init, RegistryTypeOK, PacketInv
<1>4. NewController \in ControllerSet
  <2>1. <<>> \in [{} -> Nat]
    OBVIOUS
  <2>2. {} \in SUBSET Signature
    OBVIOUS
  <2> HIDE DEF Signature
  <2>3. <<>> \in Counts
    BY <2>1, <2>2 DEF Counts
  <2> QED BY <2>3 DEF NewController, ControllerSet
<1>5. NoHistory \in HistorySet
  BY DEF NoHistory, HistorySet, NoRoute, NoTool, Position
<1>6. 0 \in 0 .. MaxToolIterations
  BY ModelTurnsAssumption
<1>7. <<>> \in Seq(MessageSet) /\ <<>> \in Seq(CallSet) /\ <<>> \in Seq(Signature)
  OBVIOUS
<1>8. LoopType
  <2>1. /\ todo = <<>> /\ results = <<>> /\ at = "start"
        /\ resumed = FALSE /\ finalizing = FALSE /\ approval = FALSE
    BY DEF Init
  <2>2. resumed \in BOOLEAN /\ finalizing \in BOOLEAN /\ approval \in BOOLEAN
    BY <2>1, Zenon
  <2> QED BY <1>4, <1>5, <1>6, <1>7, <2>1, <2>2 DEF Init, LoopType, Places
<1> QED BY <1>3, <1>8 DEF TInv

LEMMA EmptyState ==
  NewController \in ControllerSet /\ NoHistory \in HistorySet /\ NoRoute.tool = NoTool
<1>1. <<>> \in Counts
  <2>1. <<>> \in [{} -> Nat] /\ {} \in SUBSET Signature
    OBVIOUS
  <2> HIDE DEF Signature
  <2> QED BY <2>1 DEF Counts
<1>2. NoHistory \in HistorySet
  BY DEF NoHistory, HistorySet, NoRoute, NoTool, Position
<1> QED BY <1>1, <1>2 DEF NewController, ControllerSet, NoRoute

LEMMA EndRunType ==
  TInv /\ EndRun /\ UNCHANGED registryVars => TInv'
<1> SUFFICES ASSUME TInv, EndRun, UNCHANGED registryVars PROVE TInv'
  OBVIOUS
<1>1. LoopType'
  <2>1. controller' \in ControllerSet /\ history' \in HistorySet
    BY EmptyState DEF EndRun
  <2>2. todo' = <<>> /\ results' = <<>> /\ messages' = <<>> /\ at' = "ended" /\ resumed' = FALSE
        /\ finalizing' = finalizing /\ approval' = approval
    BY DEF EndRun
  <2>3. resumed' \in BOOLEAN /\ finalizing' \in BOOLEAN /\ approval' \in BOOLEAN
    BY <2>2, Zenon DEF TInv, LoopType
  <2>5. <<>> \in Seq(MessageSet) /\ <<>> \in Seq(CallSet) /\ <<>> \in Seq(Signature)
    OBVIOUS
  <2>6. rounds' \in 0 .. MaxToolIterations /\ iteration' \in Nat /\ calls' \in Nat
    BY DEF TInv, LoopType, EndRun
  <2> QED BY <2>1, <2>2, <2>3, <2>5, <2>6 DEF LoopType, Places
<1>2. RegistryTypeOK' /\ PacketInv'
  BY DEF TInv, RegistryTypeOK, PacketInv, EndRun, registryVars
<1> QED BY <1>1, <1>2 DEF TInv

(* What the model may call has a name of some registry. *)
LEMMA ShownNames ==
  ASSUME TInv, at \notin {"start", "ended"},
         NEW names \in BoundedSeq(Callable(registry) \cup DOMAIN packet, MaxCalls)
  PROVE  names \in Seq(AnyName)
<1>1. PICK reg : Grown(reg, registry) /\ packet = ToolSpecs(reg)
  BY DEF TInv, PacketInv
<1>2. DOMAIN packet = ExposedNames(reg)
  BY <1>1 DEF ToolSpecs
<1>3. (Callable(registry) \cup DOMAIN packet) \subseteq AnyName
  BY <1>1, <1>2, GrownNames DEF Grown
<1>4. names \in Seq(Callable(registry) \cup DOMAIN packet)
  BY ModelTurnsAssumption, BoundedNames
<1> QED BY <1>3, <1>4, SeqMonotonic

LEMMA SteeringType ==
  ASSUME NEW sigs
  PROVE  (IF Decision(sigs) = "none" THEN <<>> ELSE <<Steering(Decision(sigs))>>) \in Seq(MessageSet)
<1> DEFINE s == Steering(Decision(sigs))
<1>1. Decision(sigs) # "none" => s \in MessageSet
  BY DecisionType, MessageTypes DEF Abouts
<1> HIDE DEF s
<1>2. Decision(sigs) # "none" => <<s>> \in Seq(MessageSet)
  BY <1>1
<1> QED BY <1>2 DEF s

(* The history stays a record of its fields. *)
LEMMA HistoryFields ==
  ASSUME history \in HistorySet
  PROVE  /\ history.whole \in Seq(MessageSet) /\ history.start \in Nat
         /\ history.observed \in Seq(Seq(Signature)) /\ history.known \in Nat
         /\ history.route \in [checked : Position, tool : Position]
         /\ history.dropped \in SUBSET Nat
BY DEF HistorySet

LEMMA RouteType ==
  ASSUME TInv, NEW n, Route(n) # NoTool
  PROVE  /\ ~Clashes(registry) /\ n \in ExposedNames(registry)
         /\ Route(n) \in Listed(registry) /\ Exposed(registry, Route(n)) = n
<1>1. /\ ~Clashes(registry) /\ n \in ExposedNames(registry)
      /\ Route(n) = CHOOSE t \in Listed(registry) : Exposed(registry, t) = n
  BY DEF Route
<1>2. \E t \in Listed(registry) : Exposed(registry, t) = n
  BY <1>1 DEF ExposedNames
<1> QED BY <1>1, <1>2, Zenon

LEMMA PendingType ==
  ASSUME NEW cs \in Seq(CallSet)
  PROVE  PendingIds(cs) \in SUBSET Nat
<1>1. \A i \in DOMAIN cs : cs[i] \in CallSet
  <2> HIDE DEF CallSet
  <2> QED OBVIOUS
<1>2. \A c \in CallSet : c.id \in Nat
  BY DEF CallSet
<1> QED BY <1>1, <1>2 DEF PendingIds

(* What a checkpoint keeps of the calls still to make. *)
LEMMA CutOffTodo ==
  ASSUME TInv, CutOff
  PROVE  /\ todo' \in Seq(CallSet)
         /\ todo' # <<>> => todo # <<>> \/ at = "calls"
         /\ \/ todo' = todo
            \/ todo' = <<>>
            \/ todo # <<>> /\ todo' = <<Head(todo)>>
<1>1. todo \in Seq(CallSet)
  BY DEF TInv, LoopType
<1>2. \/ todo' = todo
      \/ todo' = <<>>
      \/ todo # <<>> /\ todo' = <<Head(todo)>>
  BY DEF CutOff
<1> HIDE DEF CallSet
<1>3. todo # <<>> => Head(todo) \in CallSet
  BY <1>1
<1>4. todo' \in Seq(CallSet)
  <2>3. <<>> \in Seq(CallSet)
    OBVIOUS
  <2>1. CASE todo' = todo \/ todo' = <<>>
    BY <1>1, <2>1, <2>3, Zenon
  <2>2. CASE todo # <<>> /\ todo' = <<Head(todo)>>
    <3> DEFINE h == Head(todo)
    <3>1. h \in CallSet
      BY <1>3, <2>2
    <3> HIDE DEF h
    <3>2. <<h>> \in Seq(CallSet)
      BY <3>1
    <3> QED BY <2>2, <3>2 DEF h
  <2> QED BY <1>2, <2>1, <2>2
<1> QED BY <1>2, <1>4

(* A response that is kept is appended with the next ids. *)
LEMMA Responded ==
  ASSUME TInv, CallTools \/ AskApproval, ~(messages' = messages /\ history' = history)
  PROVE  \E count \in Nat :
           /\ Respond(count) /\ count <= MaxCalls
           /\ history'.whole = Append(history.whole, Assistant(NextIds(count)))
           /\ history'.start = history.start
           /\ \/ AskApproval /\ history'.dropped = history.dropped \cup Range(NextIds(count))
              \/ /\ CallTools /\ history'.dropped = history.dropped
                 /\ \E names \in Seq(AnyName) : Len(names) = count /\ todo' = CallsOf(names)
<1>1. history \in HistorySet
  BY DEF TInv, LoopType
<1>2. CASE AskApproval
  <2>1. PICK count \in 0 .. MaxCalls :
          /\ Respond(count)
          /\ history' = [history EXCEPT !.whole = Append(@, Assistant(NextIds(count))),
                                        !.dropped = history.dropped \cup Range(NextIds(count))]
    BY <1>2 DEF AskApproval
  <2>2. count \in Nat /\ count <= MaxCalls
    BY ModelTurnsAssumption
  <2>3. /\ history'.whole = Append(history.whole, Assistant(NextIds(count)))
        /\ history'.start = history.start
        /\ history'.dropped = history.dropped \cup Range(NextIds(count))
    BY <1>1, <2>1 DEF HistorySet
  <2> QED BY <1>2, <2>1, <2>2, <2>3
<1>3. CASE CallTools
  <2>1. PICK names \in BoundedSeq(Callable(registry) \cup DOMAIN packet, MaxCalls) \ {<<>>} :
          /\ Respond(Len(names))
          /\ todo' = CallsOf(names)
          /\ history' = [history EXCEPT !.whole = Append(@, Assistant(NextIds(Len(names))))]
    BY <1>3 DEF CallTools
  <2>2. names \in Seq(AnyName) /\ Len(names) \in Nat
    <3>1. at \notin {"start", "ended"}
      BY <1>3 DEF CallTools, At
    <3>2. names \in Seq(AnyName)
      BY <3>1, ShownNames
    <3> QED BY <3>2
  <2>3. Len(names) <= MaxCalls
    <3> DEFINE S == Callable(registry) \cup DOMAIN packet
    <3>1. names \in UNION {[1 .. n -> S] : n \in 0 .. MaxCalls}
      BY DEF BoundedSeq, SeqOf
    <3> HIDE DEF S
    <3>2. PICK n \in 0 .. MaxCalls : names \in [1 .. n -> S]
      BY <3>1
    <3> QED BY <3>2
  <2>4. /\ history'.whole = Append(history.whole, Assistant(NextIds(Len(names))))
        /\ history'.start = history.start /\ history'.dropped = history.dropped
    BY <1>1, <2>1 DEF HistorySet
  <2> QED BY <1>3, <2>1, <2>2, <2>3, <2>4
<1> QED BY <1>2, <1>3

LEMMA ToldType ==
  (IF approval /\ todo = <<>> THEN <<Granted>> ELSE <<>>) \in Seq(MessageSet)
<1> DEFINE g == Granted
<1>1. g \in MessageSet
  BY MessageTypes
<1> HIDE DEF g
<1>2. <<g>> \in Seq(MessageSet)
  BY <1>1
<1> QED BY <1>2 DEF g

(* A response is appended to the messages and to the whole of them. *)
LEMMA RespondType ==
  ASSUME TInv, NEW count \in Nat, Respond(count), NEW dropped \in SUBSET Nat,
         history' = [history EXCEPT !.whole = Append(@, Assistant(NextIds(count))),
                                     !.dropped = dropped]
         \/ history' = [history EXCEPT !.whole = Append(@, Assistant(NextIds(count)))]
  PROVE  /\ messages' \in Seq(MessageSet) /\ calls' \in Nat
         /\ history' \in HistorySet /\ history'.known = history.known
<1> DEFINE a == Assistant(NextIds(count))
<1>1. a \in MessageSet
  BY ResponseType
<1>2. calls' = calls + count /\ messages' = Append(messages, a)
  BY DEF Respond
<1> HIDE DEF a
<1>3. /\ calls \in Nat /\ messages \in Seq(MessageSet) /\ history \in HistorySet
      /\ history.whole \in Seq(MessageSet)
  BY HistoryFields DEF TInv, LoopType
<1>4. Append(messages, a) \in Seq(MessageSet) /\ Append(history.whole, a) \in Seq(MessageSet)
  BY <1>1, <1>3, AppendProperties
<1>5. history' \in HistorySet /\ history'.known = history.known
  BY <1>3, <1>4 DEF HistorySet, a
<1> QED BY <1>2, <1>3, <1>4, <1>5

LEMMA TypeStep == TInv /\ [Next]_vars => TInv'
<1> SUFFICES ASSUME TInv, [Next]_vars PROVE TInv'
  OBVIOUS
<1> USE DEF TInv
<1>0. registry \in Seq(Providers) /\ MaxToolIterations \in Nat \ {0}
  BY ModelTurnsAssumption DEF RegistryTypeOK
<1>1. CASE Run
  <2>1. registry' = registry /\ packet' = ToolSpecs(registry) /\ ~Clashes(registry)
    BY <1>1 DEF Run, BuildPacket
  <2>2. Len(registry) \in Nat
    BY <1>0
  <2>3. history' = [whole |-> InitialModelMessages, start |-> 0, observed |-> <<>>,
                    known |-> Len(registry), route |-> NoRoute, dropped |-> {}]
    BY <1>1 DEF Run, NoHistory
  <2>4. history' \in HistorySet
    BY <2>2, <2>3, MessageTypes DEF HistorySet, NoRoute, NoTool, Position
  <2>5. LoopType'
    BY <1>1, <2>4, MessageTypes DEF Run, At, LoopType, Places
  <2>6. RegistryTypeOK'
    <3>1. DOMAIN ToolSpecs(registry) = ExposedNames(registry)
      BY DEF ToolSpecs
    <3>2. \A n \in DOMAIN packet' : packet'[n] \in Listed(registry)
      BY <1>0, <2>1, <3>1, SpecOf
    <3> QED BY <1>0, <2>1, <3>2 DEF RegistryTypeOK
  <2>7. Grown(registry, registry)
    BY <1>0 DEF Grown
  <2>8. PacketInv'
    BY <2>1, <2>3, <2>7 DEF PacketInv
  <2> QED BY <2>5, <2>6, <2>8
<1>2. CASE RunWithoutPacket \/ Answer \/ ExecuteFails
  BY <1>2, EndRunType DEF RunWithoutPacket, Answer, ExecuteFails
<1>3. CASE RequestTurn
  <2>1. messages \in Seq(MessageSet) /\ MaxMessages \in Nat
    BY ModelTurnsAssumption DEF LoopType
  <2>2. messages' \in Seq(MessageSet)
    BY <1>3, <2>1, TrimType DEF RequestTurn
  <2>3. LoopType'
    BY <1>3, <2>2 DEF RequestTurn, At, LoopType, Places
  <2> QED BY <1>3, <2>3 DEF RequestTurn, RegistryTypeOK, PacketInv, registryVars, At
<1>4. CASE CallTools
  <2>1. PICK names \in BoundedSeq(Callable(registry) \cup DOMAIN packet, MaxCalls) \ {<<>>} :
          /\ Respond(Len(names))
          /\ todo' = CallsOf(names)
          /\ history' = [history EXCEPT !.whole = Append(@, Assistant(NextIds(Len(names))))]
    BY <1>4 DEF CallTools
  <2>2. names \in Seq(AnyName) /\ Len(names) \in Nat
    <3>1. at \notin {"start", "ended"}
      BY <1>4 DEF CallTools, At
    <3>2. names \in Seq(AnyName)
      BY <3>1, ShownNames
    <3> QED BY <3>2
  <2>3. todo' \in Seq(CallSet)
    BY <2>1, <2>2, CallsOfType
  <2>4. /\ messages' \in Seq(MessageSet) /\ calls' \in Nat
        /\ history' \in HistorySet /\ history'.known = history.known
    BY <2>1, <2>2, RespondType
  <2>5. todo' # <<>>
    <3>1. Len(todo') = Len(names) /\ Len(names) # 0
      BY <2>1, <2>2, CallsOfType
    <3> QED BY <3>1
  <2>6. LoopType'
    BY <1>4, <2>3, <2>4, <2>5 DEF CallTools, LoopType, Places, At
  <2> QED BY <1>4, <2>4, <2>6 DEF CallTools, At, RegistryTypeOK, PacketInv, registryVars
<1>5. CASE ExecuteCall
  <2> DEFINE call == Head(todo)
             o == Observation(call)
             checked == CheckedTool(call.name)
             tool == Route(call.name)
  <2>1. /\ at = "calls" /\ todo # <<>> /\ tool # NoTool /\ todo' = Tail(todo)
        /\ messages' = Append(messages, o)
        /\ history' = [history EXCEPT !.whole = Append(@, o),
                         !.route = [checked |-> checked, tool |-> tool]]
        /\ UNCHANGED <<at, iteration, rounds, resumed, approval, controller, finalizing, calls,
                       registry, packet>>
    BY <1>5 DEF ExecuteCall, At, registryVars
  <2>2. PICK result \in Results : results' = Append(results, <<call.name, result>>)
    BY <1>5 DEF ExecuteCall
  <2>3. call \in CallSet /\ todo' \in Seq(CallSet)
    BY <2>1 DEF LoopType
  <2>4. o \in MessageSet /\ <<call.name, result>> \in Signature
    BY <2>3, MessageTypes DEF CallSet, Signature
  <2>5. tool \in Position
    BY <1>0, <2>1, RouteType, ListedIsPosition
  <2>6. checked \in Position
    <3>1. NoTool \in Position
      BY DEF NoTool, Position
    <3> QED BY <1>0, <3>1, ListedIsPosition DEF CheckedTool, RegistryTypeOK
  <2> HIDE DEF call, o, checked, tool
  <2>7. messages' \in Seq(MessageSet) /\ Append(history.whole, o) \in Seq(MessageSet)
        /\ results' \in Seq(Signature) /\ results' # <<>>
    <3>1. /\ messages \in Seq(MessageSet) /\ history.whole \in Seq(MessageSet)
          /\ results \in Seq(Signature)
      BY HistoryFields DEF LoopType
    <3> DEFINE r == <<call.name, result>>
    <3>2. r \in Signature
      BY <2>4
    <3> HIDE DEF r
    <3>3. results' = Append(results, r)
      BY <2>2 DEF r
    <3>4. Append(results, r) \in Seq(Signature) /\ Append(results, r) # <<>>
      BY <3>1, <3>2, AppendProperties
    <3>5. Append(messages, o) \in Seq(MessageSet) /\ Append(history.whole, o) \in Seq(MessageSet)
      BY <2>4, <3>1, AppendProperties
    <3> QED BY <2>1, <3>3, <3>4, <3>5
  <2>8. history' \in HistorySet /\ history'.known = history.known
    BY <2>1, <2>5, <2>6, <2>7 DEF LoopType, HistorySet
  <2>9. LoopType'
    BY <2>1, <2>3, <2>7, <2>8 DEF LoopType, Places
  <2> QED BY <2>1, <2>8, <2>9 DEF RegistryTypeOK, PacketInv
<1>6. CASE Suspend
  <2>1. LoopType'
    BY <1>6, EmptyState DEF Suspend, At, LoopType, Places
  <2> QED BY <1>6, <2>1 DEF Suspend, At, RegistryTypeOK, PacketInv, registryVars
<1>7. CASE Resume
  <2> DEFINE told == IF approval /\ todo = <<>> THEN <<Granted>> ELSE <<>>
  <2>1. /\ Len(history.whole) \in Nat /\ history.whole \in Seq(MessageSet)
        /\ messages \in Seq(MessageSet) /\ <<>> \in Seq(Seq(Signature))
    BY HistoryFields DEF LoopType
  <2>2. told \in Seq(MessageSet)
    BY ToldType
  <2>3. /\ messages' = messages \o told
        /\ history' = [history EXCEPT !.whole = @ \o told,
                                      !.start = Len(history.whole), !.observed = <<>>]
    BY <1>7 DEF Resume
  <2> HIDE DEF told
  <2>4. messages' \in Seq(MessageSet) /\ history.whole \o told \in Seq(MessageSet)
    BY <2>1, <2>2, <2>3
  <2>5. history' \in HistorySet /\ history'.known = history.known
    BY <2>1, <2>3, <2>4 DEF LoopType, HistorySet
  <2>6. iteration' \in Nat
    BY <1>7 DEF Resume, Larger, LoopType
  <2>7. /\ resumed' = (todo # <<>>) /\ todo' = todo /\ results' = results /\ at = "suspended"
        /\ at' = (IF todo # <<>> THEN "calls" ELSE "request")
        /\ UNCHANGED <<rounds, approval, controller, finalizing, calls>>
    BY <1>7 DEF Resume, At
  <2>8. resumed' \in BOOLEAN
    BY <2>7
  <2>9. resumed' <=> todo # <<>>
    BY <2>7
  <2>10. LoopType'
    BY <2>4, <2>5, <2>6, <2>7, <2>8, <2>9 DEF LoopType, Places
  <2> QED BY <1>7, <2>5, <2>7, <2>10 DEF Resume, RegistryTypeOK, PacketInv, registryVars
<1>8. CASE EndRound
  <2> DEFINE d == Decision(results)
             steering == IF d = "none" THEN <<>> ELSE <<Steering(d)>>
  <2>1. /\ at = "calls" /\ todo = <<>> /\ ~resumed
        /\ messages' = messages \o steering
        /\ history' = [history EXCEPT !.whole = @ \o steering, !.observed = Append(@, results)]
        /\ controller' = [seen |-> Seen(results), streak |-> Streak(results),
                          replans |-> controller.replans \cup (({d} \cap Reasons))]
        /\ finalizing' = (d = "finalize")
        /\ iteration' = iteration + 1 /\ rounds' = rounds + 1 /\ results' = <<>>
        /\ at' = "request" /\ UNCHANGED <<todo, resumed, approval, calls, registry, packet>>
    BY <1>8 DEF EndRound, At, registryVars, Reasons
  <2>2. d \in {"none", "finalize", "repeated", "no_new_observation"}
    BY DecisionType
  <2>3. steering \in Seq(MessageSet)
    BY SteeringType
  <2>4. controller' \in ControllerSet
    <3>1. Seen(results) \in Counts /\ Streak(results) \in Nat /\ controller.replans \in SUBSET Reasons
      BY SeenType DEF LoopType, ControllerSet
    <3> HIDE DEF d
    <3>2. controller.replans \cup ({d} \cap Reasons) \in SUBSET Reasons
      BY <3>1
    <3> QED BY <2>1, <3>1, <3>2 DEF ControllerSet
  <2> HIDE DEF d, steering
  <2>5. messages' \in Seq(MessageSet) /\ history.whole \o steering \in Seq(MessageSet)
        /\ Append(history.observed, results) \in Seq(Seq(Signature))
    BY <2>1, <2>3, HistoryFields DEF LoopType
  <2>6. history' \in HistorySet /\ history'.known = history.known
    BY <2>1, <2>5 DEF LoopType, HistorySet
  <2>7. rounds' \in 0 .. MaxToolIterations /\ iteration' \in Nat
    BY <1>0, <2>1 DEF LoopType
  <2>8. finalizing' \in BOOLEAN
    BY <2>1
  <2>9. LoopType'
    BY <2>1, <2>4, <2>5, <2>6, <2>7, <2>8 DEF LoopType, Places
  <2> QED BY <2>1, <2>6, <2>9 DEF RegistryTypeOK, PacketInv
<1>9. CASE EndResumedRound
  <2>1. rounds' \in 0 .. MaxToolIterations
    BY <1>0, <1>9 DEF EndResumedRound, At, LoopType
  <2>2. LoopType'
    <3>1. /\ todo' = <<>> /\ results' = <<>> /\ resumed' = FALSE /\ at' = "request"
          /\ UNCHANGED <<messages, iteration, todo, approval, controller, finalizing, calls, history>>
      BY <1>9 DEF EndResumedRound
    <3>2. resumed' \in BOOLEAN
      BY <3>1, Zenon
    <3>3. <<>> \in Seq(Signature)
      OBVIOUS
    <3> QED BY <2>1, <3>1, <3>2, <3>3 DEF LoopType, Places
  <2> QED BY <1>9, <2>2 DEF EndResumedRound, At, RegistryTypeOK, PacketInv, registryVars
<1>10. CASE RegisterProvider
  <2>1. PICK p \in Providers : registry' = Append(registry, p) /\ packet' = packet
    BY <1>10 DEF RegisterProvider, Register
  <2>2. LoopType'
    BY <1>10 DEF RegisterProvider, turnVars, LoopType
  <2>3. Grown(registry, registry')
    <3>1. Grown(registry, registry)
      BY <1>0 DEF Grown
    <3> QED BY <2>1, <3>1, GrownStep
  <2>4. RegistryTypeOK'
    <3>1. registry' \in Seq(Providers)
      BY <1>0, <2>1
    <3>2. \A t \in Listed(registry) : t \in Listed(registry')
      BY <2>3, GrownTools
    <3> QED BY <2>1, <3>1, <3>2 DEF RegistryTypeOK
  <2>5. PacketInv'
    <3>1. SUFFICES ASSUME at' \notin {"start", "ended"} PROVE PacketInv'
      BY DEF PacketInv
    <3>2. at' = at /\ history' = history
      BY <1>10 DEF RegisterProvider, turnVars
    <3>3. PICK reg : /\ Grown(reg, registry) /\ ~Clashes(reg)
                     /\ packet = ToolSpecs(reg) /\ Len(reg) = history.known
      BY <3>1, <3>2 DEF PacketInv
    <3>4. Grown(reg, registry')
      BY <2>1, <3>3, GrownStep
    <3> QED BY <2>1, <3>2, <3>3, <3>4 DEF PacketInv
  <2> QED BY <2>2, <2>4, <2>5
<1>11. CASE UNCHANGED vars
  BY <1>11 DEF vars, turnVars, registryVars, LoopType, RegistryTypeOK, PacketInv
<1>12. CASE AskApproval
  <2>1. /\ messages' \in Seq(MessageSet) /\ calls' \in Nat
        /\ history' \in HistorySet /\ history'.known = history.known
    <3>1. CASE UNCHANGED <<calls, messages, history>>
      BY <3>1 DEF LoopType
    <3>2. CASE \E count \in 0 .. MaxCalls :
                 /\ Respond(count)
                 /\ history' = [history EXCEPT !.whole = Append(@, Assistant(NextIds(count))),
                                               !.dropped = @ \cup Range(NextIds(count))]
      <4>1. PICK count \in 0 .. MaxCalls :
              /\ Respond(count)
              /\ history' = [history EXCEPT !.whole = Append(@, Assistant(NextIds(count))),
                                            !.dropped = history.dropped \cup Range(NextIds(count))]
        BY <3>2
      <4>2. count \in Nat
        BY ModelTurnsAssumption
      <4>3. history.dropped \cup Range(NextIds(count)) \in SUBSET Nat
        BY <4>2, ResponseType, HistoryFields DEF LoopType
      <4> QED BY <4>1, <4>2, <4>3, RespondType
    <3> QED BY <1>12, <3>1, <3>2 DEF AskApproval
  <2>2. LoopType'
    <3>1. /\ at = "turn" /\ at' = "suspended" /\ approval' = TRUE /\ iteration' = iteration + 1
          /\ controller' \in ControllerSet
          /\ UNCHANGED <<rounds, todo, results, resumed, finalizing>>
      BY <1>12, EmptyState DEF AskApproval, At
    <3>2. approval' \in BOOLEAN
      BY <3>1
    <3> QED BY <2>1, <3>1, <3>2 DEF LoopType, Places
  <2> QED BY <1>12, <2>1, <2>2 DEF AskApproval, At, RegistryTypeOK, PacketInv, registryVars
<1>13. CASE CutOff
  <2>1. /\ at' = "suspended" /\ results' = <<>> /\ resumed' = FALSE /\ finalizing' = FALSE
        /\ controller' = NewController /\ at \in {"turn", "calls"}
        /\ history' = [history EXCEPT !.dropped = @ \cup (PendingIds(todo) \ PendingIds(todo'))]
        /\ UNCHANGED <<messages, rounds, approval, calls, registry, packet>>
    BY <1>13 DEF CutOff, At, registryVars
  <2>2. iteration' \in Nat
    BY <1>13 DEF CutOff, LoopType
  <2>3. /\ todo' \in Seq(CallSet)
        /\ todo' # <<>> => todo # <<>> \/ at = "calls"
    BY <1>13, CutOffTodo
  <2>4. history' \in HistorySet /\ history'.known = history.known
    <3>1. history.dropped \in SUBSET Nat /\ PendingIds(todo) \in SUBSET Nat
      BY PendingType, HistoryFields DEF LoopType
    <3>2. history.dropped \cup (PendingIds(todo) \ PendingIds(todo')) \in SUBSET Nat
      BY <3>1
    <3> QED BY <2>1, <3>2 DEF LoopType, HistorySet
  <2>7. <<>> \in Seq(Signature)
    OBVIOUS
  <2>5. resumed' \in BOOLEAN /\ finalizing' \in BOOLEAN
    BY <2>1
  <2>6. LoopType'
    BY <2>1, <2>2, <2>3, <2>4, <2>5, <2>7, EmptyState DEF LoopType, Places
  <2> QED BY <2>1, <2>4, <2>6 DEF RegistryTypeOK, PacketInv
<1> QED BY <1>1, <1>2, <1>3, <1>4, <1>5, <1>6, <1>7, <1>8, <1>9, <1>10, <1>11, <1>12, <1>13 DEF Next

(* The loop's state and the registry keep their types; calls are only         *)
(* pending while calls are made or the run is suspended.                   *)
THEOREM TurnsTypeCorrect == Spec => []TurnsTypeOK
<1>1. TInv => TurnsTypeOK
  <2> SUFFICES ASSUME TInv PROVE TurnsTypeOK
    OBVIOUS
  <2>1. controller.streak \in Nat /\ controller.replans \subseteq Reasons
    BY DEF TInv, LoopType, ControllerSet
  <2> QED BY <2>1 DEF TInv, LoopType, TurnsTypeOK, Places, MessageSet, Roles, Reasons
<1> QED BY <1>1, TypeInit, TypeStep, PTL DEF Spec

(***************************************************************************)
(* Routes                                                                  *)
(***************************************************************************)

(* A tool that is routed now is the one that was checked, or was not there  *)
(* to be checked, or one of the two has a name that reads as a joined one.  *)
LEMMA RoutedNow ==
  ASSUME TInv, at \notin {"start", "ended"}, NEW n, Route(n) # NoTool, CheckedTool(n) # Route(n)
  PROVE  /\ Len(registry) > history.known
         /\ \/ CheckedTool(n) = NoTool
            \/ CheckedTool(n) \in Listed(registry)
               /\ (LooksJoined(registry, CheckedTool(n)) \/ LooksJoined(registry, Route(n)))
<1>1. PICK reg : /\ Grown(reg, registry) /\ ~Clashes(reg)
                 /\ packet = ToolSpecs(reg) /\ Len(reg) = history.known
  BY DEF TInv, PacketInv
<1>2. reg \in Seq(Providers) /\ registry \in Seq(Providers)
  BY <1>1 DEF Grown
<1>3. /\ ~Clashes(registry) /\ n \in ExposedNames(registry)
      /\ Route(n) \in Listed(registry) /\ Exposed(registry, Route(n)) = n
  BY RouteType
<1>4. DOMAIN packet = ExposedNames(reg)
  BY <1>1 DEF ToolSpecs
<1>5. n \in ExposedNames(reg) =>
        /\ CheckedTool(n) \in Listed(reg) /\ Exposed(reg, CheckedTool(n)) = n
  <2>1. SUFFICES ASSUME n \in ExposedNames(reg)
                 PROVE  CheckedTool(n) \in Listed(reg) /\ Exposed(reg, CheckedTool(n)) = n
    OBVIOUS
  <2>2. CheckedTool(n) = ToolSpecs(reg)[n]
    BY <1>1, <1>4, <2>1 DEF CheckedTool
  <2> QED BY <1>2, <2>1, <2>2, SpecOf
<1>6. Len(registry) > Len(reg)
  <2>1. SUFFICES ASSUME Len(registry) = Len(reg) PROVE FALSE
    BY <1>1, <1>2 DEF Grown
  <2>2. registry = reg
    BY <1>1, <1>2, <2>1 DEF Grown
  <2>3. CheckedTool(n) \in Listed(reg) /\ Exposed(reg, CheckedTool(n)) = n
    BY <1>3, <1>5, <2>2
  <2>4. CheckedTool(n) = Route(n)
    BY <1>2, <1>3, <2>2, <2>3, NamesUnique
  <2> QED BY <2>4
<1>7. CASE n \in ExposedNames(reg)
  <2>1. CheckedTool(n) \in Listed(reg) /\ Exposed(reg, CheckedTool(n)) = n
    BY <1>5, <1>7
  <2>2. CheckedTool(n) \in Listed(registry)
    BY <1>1, <2>1, GrownTools
  <2>3. LooksJoined(registry, CheckedTool(n)) \/ LooksJoined(registry, Route(n))
    BY <1>1, <1>3, <2>1, NameKept
  <2> QED BY <1>1, <1>6, <2>2, <2>3
<1>8. CASE n \notin ExposedNames(reg)
  <2>1. CheckedTool(n) = NoTool
    BY <1>4, <1>8 DEF CheckedTool
  <2> QED BY <1>1, <1>6, <2>1
<1> QED BY <1>7, <1>8

(* The tools of the latest route are listed. *)
RouteInv ==
  /\ history.route.tool \in Listed(registry) \cup {NoTool}
  /\ history.route.checked \in Listed(registry) \cup {NoTool}
  /\ RoutedAsChecked

LEMMA EmptyRoute ==
  ASSUME history.route = NoRoute
  PROVE  RouteInv
BY DEF RouteInv, RoutedAsChecked, NoRoute

LEMMA RoutedStep == TInv /\ RouteInv /\ [Next]_vars => RouteInv'
<1> SUFFICES ASSUME TInv, RouteInv, [Next]_vars PROVE RouteInv'
  OBVIOUS
<1>0. history \in HistorySet
  BY DEF TInv, LoopType
<1>1. CASE Run \/ RunWithoutPacket \/ Answer \/ ExecuteFails
  <2>1. history'.route = NoRoute
    <3>1. CASE Run
      BY <3>1 DEF Run, NoHistory
    <3>2. CASE RunWithoutPacket \/ Answer \/ ExecuteFails
      <4>1. history' = NoHistory
        BY <3>2 DEF RunWithoutPacket, Answer, ExecuteFails, EndRun
      <4> QED BY <4>1 DEF NoHistory
    <3> QED BY <1>1, <3>1, <3>2
  <2> QED BY <2>1 DEF RouteInv, RoutedAsChecked, NoRoute
<1>2. CASE \/ RequestTurn \/ CallTools \/ AskApproval \/ Suspend \/ CutOff \/ Resume
           \/ EndRound \/ EndResumedRound \/ UNCHANGED vars
  <2>1. registry' = registry /\ history'.route = history.route /\ history'.known = history.known
    <3>1. CASE RequestTurn \/ Suspend \/ EndResumedRound \/ UNCHANGED vars
      BY <3>1 DEF RequestTurn, Suspend, EndResumedRound, vars, turnVars, registryVars
    <3>2. CASE CallTools \/ AskApproval
      BY <1>0, <3>2 DEF CallTools, AskApproval, registryVars, HistorySet
    <3>3. CASE CutOff \/ Resume \/ EndRound
      BY <1>0, <3>3 DEF CutOff, Resume, EndRound, registryVars, HistorySet
    <3> QED BY <1>2, <3>1, <3>2, <3>3
  <2> QED BY <2>1 DEF RouteInv, RoutedAsChecked
<1>3. CASE ExecuteCall
  <2> DEFINE n == Head(todo).name
  <2>1. /\ registry' = registry /\ history'.known = history.known
        /\ history'.route = [checked |-> CheckedTool(n), tool |-> Route(n)]
        /\ at = "calls" /\ Route(n) # NoTool
    BY <1>0, <1>3 DEF ExecuteCall, At, HistorySet, registryVars
  <2> HIDE DEF n
  <2>2. Route(n) \in Listed(registry)
    BY <2>1, RouteType
  <2>3. CASE CheckedTool(n) = Route(n)
    BY <2>1, <2>2, <2>3 DEF RouteInv, RoutedAsChecked
  <2>4. CASE CheckedTool(n) # Route(n)
    <3>1. /\ Len(registry) > history.known
          /\ \/ CheckedTool(n) = NoTool
             \/ CheckedTool(n) \in Listed(registry)
                /\ (LooksJoined(registry, CheckedTool(n)) \/ LooksJoined(registry, Route(n)))
      BY <2>1, <2>4, RoutedNow
    <3>2. RoutedAsChecked'
      <4>1. /\ history'.route.tool = Route(n) /\ history'.route.checked = CheckedTool(n)
            /\ registry' = registry /\ history'.known = history.known
        BY <2>1
      <4> QED BY <3>1, <4>1 DEF RoutedAsChecked, LooksJoined, ToolSpec
    <3> QED BY <2>1, <2>2, <3>1, <3>2 DEF RouteInv
  <2> QED BY <2>3, <2>4
<1>4. CASE RegisterProvider
  <2>1. PICK p \in Providers : registry' = Append(registry, p) /\ history' = history
    BY <1>4 DEF RegisterProvider, Register, turnVars
  <2>2. /\ registry \in Seq(Providers) /\ registry' \in Seq(Providers)
        /\ Len(registry') = Len(registry) + 1
    BY <2>1 DEF TInv, RegistryTypeOK
  <2>3. Len(registry) \in Nat /\ history.known \in Nat
    BY <1>0, <2>2 DEF HistorySet
  <2>4. Grown(registry, registry')
    <3>1. Grown(registry, registry)
      BY <2>2 DEF Grown
    <3> QED BY <2>1, <3>1, GrownStep
  <2>5. \A t \in Listed(registry) : t \in Listed(registry') /\ ToolSpec(registry', t) = ToolSpec(registry, t)
    BY <2>4, GrownTools
  <2>6. \A t \in Listed(registry) : LooksJoined(registry, t) => LooksJoined(registry', t)
    BY <2>5 DEF LooksJoined
  <2> DEFINE route == history.route
  <2>7. /\ route.tool \in Listed(registry) \cup {NoTool}
        /\ route.checked \in Listed(registry) \cup {NoTool}
        /\ route.tool # NoTool /\ route.checked # route.tool =>
             /\ Len(registry) > history.known
             /\ \/ route.checked = NoTool
                \/ LooksJoined(registry, route.checked) \/ LooksJoined(registry, route.tool)
    BY DEF RouteInv, RoutedAsChecked
  <2> HIDE DEF route
  <2>8. route.tool # NoTool /\ route.checked # route.tool =>
          /\ Len(registry') > history.known
          /\ \/ route.checked = NoTool
             \/ LooksJoined(registry', route.checked) \/ LooksJoined(registry', route.tool)
    BY <2>2, <2>3, <2>6, <2>7
  <2>9. RoutedAsChecked'
    BY <2>1, <2>8 DEF RoutedAsChecked, route
  <2> QED BY <2>1, <2>5, <2>7, <2>9 DEF RouteInv, route
<1> QED BY <1>1, <1>2, <1>3, <1>4 DEF Next

(* Whatever is registered in between, a checked call goes to the tool it    *)
(* was checked against, or fails; but for tools whose plain names read as   *)
(* joined ones.                                                            *)
THEOREM CallsRoutedAsChecked == Spec => []RoutedAsChecked
<1>1. Init => RouteInv
  BY EmptyRoute DEF Init, NoHistory
<1>2. RouteInv => RoutedAsChecked
  BY DEF RouteInv
<1> QED BY <1>1, <1>2, TypeInit, TypeStep, RoutedStep, PTL DEF Spec

(***************************************************************************)
(* The window is of the whole                                              *)
(***************************************************************************)
LEMMA FirstUserAt ==
  ASSUME NEW m \in Seq(MessageSet), NEW k \in 1 .. Len(m), m[k].role = "user",
         \A i \in 1 .. k - 1 : m[i].role # "user"
  PROVE  FirstUser(m) = k
<1>1. FirstUser(m) # 0 /\ FirstUser(m) \in 1 .. Len(m) /\ m[FirstUser(m)].role = "user"
      /\ \A i \in 1 .. FirstUser(m) - 1 : m[i].role # "user"
  BY FirstUserIs
<1>2. ~(FirstUser(m) < k) /\ ~(k < FirstUser(m))
  BY <1>1
<1> QED BY <1>1, <1>2

(* m is the end of w, but for its first message. *)
EndOf(m, w, d) == Len(w) = Len(m) + d /\ \A i \in 2 .. Len(m) : m[i] = w[i + d]

(* Two conversations with one tail and one first user message. *)
LEMMA SameTrim ==
  ASSUME NEW m \in Seq(MessageSet), NEW w \in Seq(MessageSet), NEW max \in Nat, NEW d \in Nat,
         max # 0, Len(m) > max, EndOf(m, w, d),
         Anchored(m, max) <=> Anchored(w, max),
         Anchored(m, max) => m[FirstUser(m)] = w[FirstUser(w)],
         NEW t, t = TrimMessagesToWindow(m, max), NEW u, u = TrimMessagesToWindow(w, max)
  PROVE  t = u
<1>1. Len(m) \in Nat /\ Len(w) \in Nat /\ Len(w) > max /\ Len(w) = Len(m) + d
  BY DEF EndOf
<1>2. CASE Anchored(m, max)
  <2>1. TaskAndTail(m, max, t)
    BY <1>2, TrimAnchored
  <2>2. TaskAndTail(w, max, u)
    BY <1>1, <1>2, TrimAnchored
  <2>3. Len(t) = Len(u)
    BY <2>1, <2>2 DEF TaskAndTail
  <2>4. ASSUME NEW i \in 1 .. Len(t) PROVE t[i] = u[i]
    <3>1. CASE i = 1
      BY <1>2, <2>1, <2>2, <3>1 DEF TaskAndTail
    <3>2. CASE i # 1
      <4>1. i \in 2 .. Len(t) /\ Len(m) - Len(t) + i \in 2 .. Len(m)
            /\ Len(w) - Len(u) + i = (Len(m) - Len(t) + i) + d
        <5>1. Len(t) \in Nat /\ Len(t) <= Len(m) /\ Len(t) = Len(u)
          BY <2>1, <2>3 DEF TaskAndTail
        <5> QED BY <1>1, <3>2, <5>1
      <4>2. t[i] = m[Len(m) - Len(t) + i] /\ u[i] = w[Len(w) - Len(u) + i]
        BY <2>1, <2>2, <2>3, <4>1 DEF TaskAndTail
      <4> QED BY <4>1, <4>2 DEF EndOf
    <3> QED BY <3>1, <3>2
  <2> QED BY <2>1, <2>2, <2>3, <2>4 DEF TaskAndTail
<1>3. CASE ~Anchored(m, max)
  <2>1. OnlyTail(m, max, t)
    BY <1>3, TrimUnanchored
  <2>2. OnlyTail(w, max, u)
    BY <1>1, <1>3, TrimUnanchored
  <2>3. ASSUME NEW i \in 1 .. Len(t) PROVE t[i] = u[i]
    <3>1. Len(m) - Len(t) + i \in 2 .. Len(m)
          /\ Len(w) - Len(u) + i = (Len(m) - Len(t) + i) + d
      BY <1>1, <2>1, <2>2 DEF OnlyTail
    <3>2. t[i] = m[Len(m) - Len(t) + i] /\ u[i] = w[Len(w) - Len(u) + i]
      BY <2>1, <2>2 DEF OnlyTail
    <3> QED BY <3>1, <3>2 DEF EndOf
  <2>4. t \in Seq(MessageSet) /\ u \in Seq(MessageSet) /\ Len(t) = Len(u)
    BY <2>1, <2>2 DEF OnlyTail
  <2> QED BY <2>3, <2>4, SeqEqual
<1> QED BY <1>2, <1>3

LEMMA Joined ==
  ASSUME NEW S, NEW s \in Seq(S), NEW t \in Seq(S)
  PROVE  /\ s \o t \in Seq(S) /\ Len(s \o t) = Len(s) + Len(t)
         /\ \A i \in 1 .. Len(s) : (s \o t)[i] = s[i]
         /\ \A i \in 1 .. Len(t) : (s \o t)[i + Len(s)] = t[i]
         /\ \A i \in 1 .. Len(s \o t) : i > Len(s) => i - Len(s) \in 1 .. Len(t) /\ (s \o t)[i] = t[i - Len(s)]
OBVIOUS

(* A window on what an earlier window left is a window on the whole. *)
THEOREM TrimJoined ==
  ASSUME NEW w0 \in Seq(MessageSet), NEW rest \in Seq(MessageSet), NEW max \in Nat
  PROVE  TrimMessagesToWindow(TrimMessagesToWindow(w0, max) \o rest, max)
           = TrimMessagesToWindow(w0 \o rest, max)
<1> DEFINE t0 == TrimMessagesToWindow(w0, max)
           m == t0 \o rest
           w == w0 \o rest
           d == Len(w0) - Len(t0)
<1>1. t0 \in Seq(MessageSet)
  BY TrimType
<1>2. CASE max = 0 \/ Len(w0) <= max
  BY <1>2, TrimSmall
<1>3. CASE max # 0 /\ Len(w0) > max
  <2>1. /\ Len(m) = Len(t0) + Len(rest) /\ Len(w) = Len(w0) + Len(rest)
        /\ m \in Seq(MessageSet) /\ w \in Seq(MessageSet)
        /\ \A i \in 1 .. Len(t0) : m[i] = t0[i]
        /\ \A i \in 1 .. Len(w0) : w[i] = w0[i]
        /\ \A i \in 1 .. Len(m) : i > Len(t0) => i - Len(t0) \in 1 .. Len(rest) /\ m[i] = rest[i - Len(t0)]
        /\ \A i \in 1 .. Len(rest) : w[i + Len(w0)] = rest[i]
        /\ Len(rest) \in Nat /\ Len(t0) \in Nat /\ Len(w0) \in Nat
    BY <1>1, Joined
  <2>2. /\ Anchored(w0, max) =>
             /\ Len(t0) >= 2 /\ Len(t0) >= max /\ Len(t0) <= Len(w0)
             /\ t0[1] = w0[FirstUser(w0)]
             /\ \A i \in 2 .. Len(t0) : t0[i] = w0[Len(w0) - Len(t0) + i]
        /\ ~Anchored(w0, max) =>
             /\ Len(t0) = max
             /\ \A i \in 1 .. Len(t0) : t0[i] = w0[Len(w0) - Len(t0) + i]
    BY <1>3, TrimAnchored, TrimUnanchored DEF TaskAndTail, OnlyTail
  <2>3. Len(t0) >= max /\ (Anchored(w0, max) => Len(t0) >= 2) /\ Len(t0) <= Len(w0)
    BY <1>3, <2>1, <2>2
  <2>4. CASE Len(m) <= max
    <3>1. rest = <<>> /\ Len(t0) <= max
      BY <2>1, <2>3, <2>4
    <3>2. m = t0 /\ w = w0
      BY <1>1, <3>1, ConcatEmptySeq
    <3>3. TrimMessagesToWindow(t0, max) = t0
      BY <1>1, <3>1, TrimSmall
    <3> QED BY <3>2, <3>3
  <2>5. CASE Len(m) > max
    <3> HIDE DEF t0, m, w
    <3>1. d \in Nat /\ Len(w) = Len(m) + d
      BY <2>1, <2>3
    <3>2. ASSUME NEW i \in 2 .. Len(m) PROVE m[i] = w[i + d]
      <4>1. CASE i <= Len(t0)
        <5>1. i \in 1 .. Len(t0) /\ i \in 2 .. Len(t0) /\ i + d \in 1 .. Len(w0)
              /\ i + d = Len(w0) - Len(t0) + i
          BY <2>1, <2>3, <4>1
        <5>2. t0[i] = w0[i + d]
          BY <2>2, <5>1
        <5> QED BY <2>1, <5>1, <5>2
      <4>2. CASE i > Len(t0)
        <5>1. i \in 1 .. Len(m) /\ i + d = (i - Len(t0)) + Len(w0)
          BY <2>1
        <5>2. i - Len(t0) \in 1 .. Len(rest) /\ m[i] = rest[i - Len(t0)]
          BY <2>1, <4>2, <5>1
        <5> QED BY <2>1, <5>1, <5>2
      <4> QED BY <2>1, <4>1, <4>2
    <3>0. m \in Seq(MessageSet) /\ w \in Seq(MessageSet) /\ Len(t0) \in Nat /\ Len(w0) \in Nat
      BY <2>1
    <3>5. EndOf(m, w, d)
      BY <3>1, <3>2 DEF EndOf
    <3>3. CASE Anchored(w0, max)
      <4> DEFINE F == FirstUser(w0)
      <4>1. F \in 1 .. Len(w0) /\ w0[F].role = "user" /\ F <= Len(w0) - max
            /\ \A i \in 1 .. F - 1 : w0[i].role # "user"
        BY <3>3, FirstUserIs DEF Anchored
      <4> HIDE DEF F
      <4>2. F \in 1 .. Len(w) /\ w[F] = w0[F] /\ \A i \in 1 .. F - 1 : w[i] = w0[i]
        BY <2>1, <4>1
      <4>3. FirstUser(w) = F
        <5>1. \A i \in 1 .. F - 1 : w[i].role # "user"
          BY <4>1, <4>2
        <5> QED BY <3>0, <4>1, <4>2, <5>1, FirstUserAt
      <4>4. m[1] = w0[F] /\ 1 \in 1 .. Len(m)
        BY <2>1, <2>2, <2>3, <3>3 DEF F
      <4>5. FirstUser(m) = 1
        <5>1. m[1].role = "user" /\ \A i \in 1 .. 1 - 1 : m[i].role # "user"
          BY <4>1, <4>4
        <5> QED BY <3>0, <4>4, <5>1, FirstUserAt
      <4>6. Anchored(m, max) /\ Anchored(w, max)
        BY <2>1, <2>5, <4>1, <4>3, <4>5 DEF Anchored
      <4>7. m[FirstUser(m)] = w[FirstUser(w)]
        BY <4>2, <4>3, <4>4, <4>5
      <4>8. TrimMessagesToWindow(m, max) = TrimMessagesToWindow(w, max)
        BY <1>3, <3>0, <2>5, <3>1, <3>5, <4>6, <4>7, SameTrim
      <4> QED BY <4>8 DEF m, w, t0
    <3>4. CASE ~Anchored(w0, max)
      <4>1. m[1] = w[1 + d]
        <5>1. 1 \in 1 .. Len(t0) /\ 1 + d \in 1 .. Len(w0) /\ 1 + d = Len(w0) - Len(t0) + 1
          BY <1>3, <2>1, <2>3
        <5>2. t0[1] = w0[1 + d]
          BY <2>2, <3>4, <5>1
        <5>3. \A i \in 1 .. Len(t0) : m[i] = t0[i]
          BY <2>1
        <5>4. m[1] = t0[1]
          BY <5>1, <5>3, Zenon
        <5>5. \A i \in 1 .. Len(w0) : w[i] = w0[i]
          BY <2>1
        <5>6. w[1 + d] = w0[1 + d]
          BY <5>1, <5>5, Zenon
        <5> QED BY <5>2, <5>4, <5>6
      <4>2. \A i \in 1 .. Len(m) : m[i] = w[i + d]
        <5>1. \A i \in 1 .. Len(m) : i = 1 \/ i \in 2 .. Len(m)
          BY <2>1
        <5> QED BY <3>2, <4>1, <5>1
      <4>3. \A i \in 1 .. d : w[i].role # "user"
        <5>1. FirstUser(w0) = 0 \/ FirstUser(w0) > d
          BY <2>1, <2>2, <3>4, FirstUserIs DEF Anchored
        <5>2. \A i \in 1 .. d : w0[i].role # "user"
          BY <2>1, <3>1, <5>1, FirstUserIs
        <5>3. \A i \in 1 .. d : i \in 1 .. Len(w0)
          BY <2>1, <2>3
        <5> QED BY <2>1, <5>2, <5>3
      <4>4. \/ FirstUser(m) = 0 /\ FirstUser(w) = 0
            \/ FirstUser(m) \in 1 .. Len(m) /\ FirstUser(w) = FirstUser(m) + d
        <5>1. CASE FirstUser(m) = 0
          <6>1. \A i \in 1 .. Len(m) : m[i].role # "user"
            BY <3>0, <5>1, FirstUserIs
          <6>2. ASSUME NEW i \in 1 .. Len(w) PROVE w[i].role # "user"
            <7>1. i \in 1 .. d \/ (i - d \in 1 .. Len(m) /\ i = (i - d) + d)
              BY <2>1, <3>1
            <7> QED BY <4>2, <4>3, <6>1, <7>1
          <6>3. FirstUser(w) = 0
            BY <2>1, <6>2, FirstUserIs
          <6> QED BY <5>1, <6>3
        <5>2. CASE FirstUser(m) # 0
          <6> DEFINE f == FirstUser(m)
          <6>1. f \in 1 .. Len(m) /\ m[f].role = "user" /\ \A i \in 1 .. f - 1 : m[i].role # "user"
            BY <2>1, <5>2, FirstUserIs
          <6> HIDE DEF f
          <6>2. f + d \in 1 .. Len(w) /\ w[f + d].role = "user"
            BY <2>1, <3>1, <4>2, <6>1
          <6>3. ASSUME NEW i \in 1 .. (f + d) - 1 PROVE w[i].role # "user"
            <7>1. \/ i \in 1 .. d
                  \/ i - d \in 1 .. Len(m) /\ i - d \in 1 .. f - 1 /\ i = (i - d) + d
              BY <2>1, <3>1, <6>1
            <7> QED BY <4>2, <4>3, <6>1, <7>1
          <6>4. FirstUser(w) = f + d
            BY <2>1, <6>2, <6>3, FirstUserAt
          <6> QED BY <6>1, <6>4 DEF f
        <5> QED BY <5>1, <5>2
      <4>5. Anchored(m, max) <=> Anchored(w, max)
        BY <2>1, <3>1, <4>4 DEF Anchored
      <4>6. Anchored(m, max) => m[FirstUser(m)] = w[FirstUser(w)]
        BY <4>2, <4>4 DEF Anchored
      <4>7. TrimMessagesToWindow(m, max) = TrimMessagesToWindow(w, max)
        BY <1>3, <3>0, <2>5, <3>1, <3>5, <4>5, <4>6, SameTrim
      <4> QED BY <4>7 DEF m, w, t0
    <3> QED BY <3>3, <3>4
  <2> QED BY <2>1, <2>4, <2>5
<1> QED BY <1>2, <1>3

(* The messages are a window on a part of the conversation and all that     *)
(* came after it; before a turn there is nothing after it.                 *)
WindowInv ==
  /\ at \notin {"start", "ended"} =>
       \E w0 \in Seq(MessageSet) : \E rest \in Seq(MessageSet) :
         /\ history.whole = w0 \o rest
         /\ messages = TrimMessagesToWindow(w0, MaxMessages) \o rest
  /\ WindowIsOfTheWhole

LEMMA WindowGrows ==
  ASSUME TInv, WindowInv, at \notin {"start", "ended"}, at' # "turn", NEW new \in Seq(MessageSet),
         messages' = messages \o new, history'.whole = history.whole \o new
  PROVE  WindowInv'
<1>1. PICK w0 \in Seq(MessageSet) : \E rest \in Seq(MessageSet) :
        /\ history.whole = w0 \o rest
        /\ messages = TrimMessagesToWindow(w0, MaxMessages) \o rest
  BY DEF WindowInv
<1>2. PICK rest \in Seq(MessageSet) :
        /\ history.whole = w0 \o rest
        /\ messages = TrimMessagesToWindow(w0, MaxMessages) \o rest
  BY <1>1
<1> DEFINE t0 == TrimMessagesToWindow(w0, MaxMessages)
<1>3. t0 \in Seq(MessageSet)
  BY TrimType, ModelTurnsAssumption
<1> HIDE DEF t0
<1>4. rest \o new \in Seq(MessageSet)
  BY ConcatProperties
<1>5. history'.whole = w0 \o (rest \o new)
  <2>1. (w0 \o rest) \o new = w0 \o (rest \o new)
    BY ConcatAssociative
  <2> QED BY <1>2, <2>1
<1>6. messages' = t0 \o (rest \o new)
  BY <1>2, <1>3, ConcatAssociative DEF t0
<1> QED BY <1>4, <1>5, <1>6 DEF WindowInv, WindowIsOfTheWhole, At, t0

LEMMA WindowStep == TInv /\ WindowInv /\ [Next]_vars => WindowInv'
<1> SUFFICES ASSUME TInv, WindowInv, [Next]_vars PROVE WindowInv'
  OBVIOUS
<1>0. /\ history \in HistorySet /\ history.whole \in Seq(MessageSet)
      /\ messages \in Seq(MessageSet) /\ MaxMessages \in Nat
  BY HistoryFields, ModelTurnsAssumption DEF TInv, LoopType
<1>1. CASE Run
  <2>1. messages' = InitialModelMessages /\ history'.whole = InitialModelMessages /\ at' = "request"
    BY <1>1 DEF Run, NoHistory
  <2>2. InitialModelMessages \in Seq(MessageSet) /\ <<>> \in Seq(MessageSet)
    BY MessageTypes
  <2>3. TrimMessagesToWindow(<<>>, MaxMessages) = <<>>
    <3>1. Len(<<>>) <= MaxMessages
      BY <1>0
    <3> QED BY <3>1, TrimSmall
  <2>4. InitialModelMessages = <<>> \o InitialModelMessages
    BY <2>2, ConcatEmptySeq
  <2> QED BY <2>1, <2>2, <2>3, <2>4 DEF WindowInv, WindowIsOfTheWhole, At
<1>2. CASE RunWithoutPacket \/ Answer \/ ExecuteFails
  <2>1. at' = "ended"
    BY <1>2 DEF RunWithoutPacket, Answer, ExecuteFails, EndRun
  <2> QED BY <2>1 DEF WindowInv, WindowIsOfTheWhole, At
<1>3. CASE RequestTurn
  <2>1. messages' = TrimMessagesToWindow(messages, MaxMessages) /\ history' = history /\ at' = "turn"
        /\ at = "request"
    BY <1>3 DEF RequestTurn, At
  <2>2. PICK w0 \in Seq(MessageSet) : \E rest \in Seq(MessageSet) :
          /\ history.whole = w0 \o rest
          /\ messages = TrimMessagesToWindow(w0, MaxMessages) \o rest
    BY <2>1 DEF WindowInv
  <2>3. messages' = TrimMessagesToWindow(history.whole, MaxMessages)
    BY <1>0, <2>1, <2>2, TrimJoined
  <2>4. messages' \in Seq(MessageSet)
    BY <1>0, <2>3, TrimType
  <2>5. history.whole = history.whole \o <<>> /\ messages' = messages' \o <<>> /\ <<>> \in Seq(MessageSet)
    BY <1>0, <2>4, ConcatEmptySeq
  <2> QED BY <1>0, <2>1, <2>3, <2>5 DEF WindowInv, WindowIsOfTheWhole, At
<1>4. CASE CallTools \/ AskApproval
  <2>1. at = "turn" /\ at' # "turn"
    BY <1>4 DEF CallTools, AskApproval, At
  <2>2. CASE messages' = messages /\ history' = history
    <3>1. messages' = messages \o <<>> /\ history'.whole = history.whole \o <<>> /\ <<>> \in Seq(MessageSet)
      BY <1>0, <2>2, ConcatEmptySeq
    <3> QED BY <2>1, <3>1, WindowGrows
  <2>3. CASE ~(messages' = messages /\ history' = history)
    <3>1. PICK count \in Nat :
            /\ Respond(count)
            /\ history'.whole = Append(history.whole, Assistant(NextIds(count)))
            /\ history'.start = history.start
      BY <1>4, <2>3, Responded
    <3> DEFINE m == Assistant(NextIds(count))
    <3>2. m \in MessageSet
      BY ResponseType
    <3>3. messages' = Append(messages, m) /\ history'.whole = Append(history.whole, m)
      BY <3>1 DEF Respond
    <3> HIDE DEF m
    <3>4. /\ <<m>> \in Seq(MessageSet) /\ messages' = messages \o <<m>>
          /\ history'.whole = history.whole \o <<m>>
      BY <1>0, <3>2, <3>3, AppendIsConcat
    <3> QED BY <2>1, <3>4, WindowGrows
  <2> QED BY <2>2, <2>3
<1>5. CASE ExecuteCall
  <2> DEFINE o == Observation(Head(todo))
  <2>1. messages' = Append(messages, o) /\ history'.whole = Append(history.whole, o)
        /\ at = "calls" /\ at' = "calls" /\ todo # <<>>
    BY <1>0, <1>5 DEF ExecuteCall, At, HistorySet
  <2>2. o \in MessageSet
    BY <2>1, MessageTypes DEF TInv, LoopType
  <2> HIDE DEF o
  <2>3. <<o>> \in Seq(MessageSet) /\ messages' = messages \o <<o>> /\ history'.whole = history.whole \o <<o>>
    BY <1>0, <2>1, <2>2, AppendIsConcat
  <2> QED BY <2>1, <2>3, WindowGrows
<1>6. CASE EndRound
  <2> DEFINE d == Decision(results)
             steering == IF d = "none" THEN <<>> ELSE <<Steering(d)>>
  <2>1. messages' = messages \o steering /\ history'.whole = history.whole \o steering
        /\ at = "calls" /\ at' = "request"
    BY <1>0, <1>6 DEF EndRound, At, HistorySet
  <2>2. steering \in Seq(MessageSet)
    BY SteeringType
  <2> HIDE DEF steering
  <2> QED BY <2>1, <2>2, WindowGrows
<1>7. CASE Suspend \/ CutOff \/ EndResumedRound
  <2>1. messages' = messages /\ history'.whole = history.whole /\ at' # "turn"
        /\ at \notin {"start", "ended"}
    BY <1>0, <1>7 DEF Suspend, CutOff, EndResumedRound, At, HistorySet
  <2>2. messages' = messages \o <<>> /\ history'.whole = history.whole \o <<>> /\ <<>> \in Seq(MessageSet)
    BY <1>0, <2>1, ConcatEmptySeq
  <2> QED BY <2>1, <2>2, WindowGrows
<1>9. CASE Resume
  <2> DEFINE told == IF approval /\ todo = <<>> THEN <<Granted>> ELSE <<>>
  <2>1. /\ messages' = messages \o told /\ history'.whole = history.whole \o told
        /\ at = "suspended" /\ at' # "turn"
    BY <1>0, <1>9 DEF Resume, At, HistorySet
  <2>2. told \in Seq(MessageSet)
    BY ToldType
  <2> HIDE DEF told
  <2> QED BY <2>1, <2>2, WindowGrows
<1>8. CASE RegisterProvider \/ UNCHANGED vars
  <2>1. UNCHANGED <<at, messages, history>>
    BY <1>8 DEF RegisterProvider, vars, turnVars
  <2> QED BY <2>1 DEF WindowInv, WindowIsOfTheWhole, At
<1> QED BY <1>1, <1>2, <1>3, <1>4, <1>5, <1>6, <1>7, <1>8, <1>9 DEF Next

(* Windows on windows, in every turn and across suspensions, show the model *)
(* what one window on the whole conversation would.                        *)
THEOREM OneWindow == Spec => []WindowIsOfTheWhole
<1>1. Init => WindowInv
  BY DEF Init, WindowInv, WindowIsOfTheWhole, At
<1>2. WindowInv => WindowIsOfTheWhole
  BY DEF WindowInv
<1> QED BY <1>1, <1>2, TypeInit, TypeStep, WindowStep, PTL DEF Spec

(***************************************************************************)
(* What is kept of a conversation is bounded                               *)
(***************************************************************************)
Window == Larger(MaxMessages, 2)

(* The calls still to make are counted as the observations they lead to. *)
BoundInv ==
  MaxMessages # 0 =>
    /\ At("turn") => Len(messages) <= Window
    /\ at \in {"calls", "suspended"} => Len(messages) + Len(todo) <= Window + MaxCalls + 1
    /\ Len(messages) <= Window + MaxCalls + 2

LEMMA TrimBounds ==
  ASSUME NEW m \in Seq(MessageSet), MaxMessages # 0
  PROVE  Len(TrimMessagesToWindow(m, MaxMessages)) <= Window
<1> DEFINE t == TrimMessagesToWindow(m, MaxMessages)
<1>1. MaxMessages \in Nat /\ Len(m) \in Nat
  BY ModelTurnsAssumption
<1>2. CASE Len(m) <= MaxMessages
  BY <1>1, <1>2, TrimSmall DEF Window, Larger
<1>3. CASE Len(m) > MaxMessages /\ Anchored(m, MaxMessages)
  <2>1. TaskAndTail(m, MaxMessages, t)
    BY <1>1, <1>3, TrimAnchored
  <2> HIDE DEF t
  <2>2. Len(t) = Larger(MaxMessages - 1, 1) + 1
    BY <2>1 DEF TaskAndTail
  <2>3. Len(t) <= Window
    BY <1>1, <2>2 DEF Window, Larger
  <2> QED BY <2>3 DEF t
<1>4. CASE Len(m) > MaxMessages /\ ~Anchored(m, MaxMessages)
  <2>1. OnlyTail(m, MaxMessages, t)
    BY <1>1, <1>4, TrimUnanchored
  <2> HIDE DEF t
  <2>2. Len(t) <= Window
    BY <1>1, <2>1 DEF OnlyTail, Window, Larger
  <2> QED BY <2>2 DEF t
<1> QED BY <1>1, <1>2, <1>3, <1>4

LEMMA BoundStep == TInv /\ BoundInv /\ [Next]_vars => BoundInv'
<1> SUFFICES ASSUME TInv, BoundInv, [Next]_vars, MaxMessages # 0
             PROVE  /\ at' = "turn" => Len(messages') <= Window
                    /\ at' \in {"calls", "suspended"} =>
                         Len(messages') + Len(todo') <= Window + MaxCalls + 1
                    /\ Len(messages') <= Window + MaxCalls + 2
  BY DEF BoundInv, At, Window
<1>1. /\ messages \in Seq(MessageSet) /\ Len(messages) \in Nat
      /\ todo \in Seq(CallSet) /\ Len(todo) \in Nat
      /\ MaxMessages \in Nat /\ MaxCalls \in Nat \ {0} /\ Window \in Nat /\ Window >= 2
  BY ModelTurnsAssumption DEF TInv, LoopType, Window, Larger
<1>2. /\ at = "turn" => Len(messages) <= Window
      /\ at \in {"calls", "suspended"} => Len(messages) + Len(todo) <= Window + MaxCalls + 1
      /\ Len(messages) <= Window + MaxCalls + 2
  BY DEF BoundInv, At
<1>3. CASE Run
  <2>1. Len(messages') <= 1 /\ at' = "request"
    BY <1>3 DEF Run, InitialModelMessages
  <2>2. Len(messages') \in Nat
    BY <1>3, MessageTypes DEF Run
  <2> QED BY <1>1, <2>1, <2>2
<1>4. CASE RunWithoutPacket \/ Answer \/ ExecuteFails
  <2>1. messages' = <<>> /\ at' = "ended"
    BY <1>4 DEF RunWithoutPacket, Answer, ExecuteFails, EndRun
  <2>2. Len(messages') = 0
    BY <2>1
  <2> QED BY <1>1, <2>1, <2>2
<1>5. CASE RequestTurn
  <2>1. messages' = TrimMessagesToWindow(messages, MaxMessages) /\ at' = "turn"
    BY <1>5 DEF RequestTurn
  <2>2. messages' \in Seq(MessageSet) /\ Len(messages') \in Nat
    BY <1>1, <2>1, TrimType
  <2> QED BY <1>1, <2>1, <2>2, TrimBounds
<1>6. CASE CallTools \/ AskApproval
  <2>1. /\ at = "turn" /\ at' \in {"calls", "suspended"} /\ todo = <<>>
        /\ AskApproval => todo' = todo
    BY <1>6 DEF CallTools, AskApproval, At, TInv, LoopType
  <2>2. CASE messages' = messages /\ history' = history
    <3>1. AskApproval
      <4>1. SUFFICES ASSUME CallTools PROVE FALSE
        BY <1>6
      <4>2. PICK count : messages' = Append(messages, Assistant(NextIds(count)))
        BY <4>1 DEF CallTools, Respond
      <4>3. Len(messages') = Len(messages) + 1
        BY <1>1, <4>2
      <4> QED BY <1>1, <2>2, <4>3
    <3>2. Len(todo') = 0
      BY <2>1, <3>1
    <3> QED BY <1>1, <1>2, <2>1, <2>2, <3>2
  <2>3. CASE ~(messages' = messages /\ history' = history)
    <3>1. PICK count \in Nat :
            /\ Respond(count) /\ count <= MaxCalls
            /\ \/ AskApproval
               \/ \E names \in Seq(AnyName) : Len(names) = count /\ todo' = CallsOf(names)
      BY <1>6, <2>3, Responded
    <3>2. Len(messages') = Len(messages) + 1
      BY <1>1, <3>1 DEF Respond
    <3>3. CASE AskApproval
      <4>1. Len(todo') = 0
        BY <2>1, <3>3
      <4> QED BY <1>1, <1>2, <2>1, <3>2, <4>1
    <3>4. CASE \E names \in Seq(AnyName) : Len(names) = count /\ todo' = CallsOf(names)
      <4>1. Len(todo') = count
        BY <3>4, CallsOfType
      <4> QED BY <1>1, <1>2, <2>1, <3>1, <3>2, <4>1
    <3> QED BY <3>1, <3>3, <3>4
  <2> QED BY <2>2, <2>3
<1>7. CASE ExecuteCall
  <2>1. Len(messages') = Len(messages) + 1 /\ Len(todo') = Len(todo) - 1
    BY <1>1, <1>7 DEF ExecuteCall
  <2> QED BY <1>1, <1>2, <1>7, <2>1 DEF ExecuteCall, At
<1>8. CASE EndRound
  <2> DEFINE d == Decision(results)
             steering == IF d = "none" THEN <<>> ELSE <<Steering(d)>>
  <2>1. messages' = messages \o steering /\ at = "calls" /\ at' = "request"
    BY <1>8 DEF EndRound, At
  <2>2. Len(steering) <= 1 /\ Len(steering) \in Nat
    OBVIOUS
  <2>3. steering \in Seq(MessageSet)
    BY SteeringType
  <2> HIDE DEF steering
  <2>4. Len(messages') = Len(messages) + Len(steering)
    BY <1>1, <2>1, <2>3
  <2> QED BY <1>1, <1>2, <2>1, <2>2, <2>4
<1>9. CASE Suspend \/ EndResumedRound
  <2>1. messages' = messages /\ todo' = todo /\ at \in {"calls", "suspended"} /\ at' # "turn"
    BY <1>9 DEF Suspend, EndResumedRound, At
  <2> QED BY <1>1, <1>2, <2>1
<1>11. CASE CutOff
  <2>1. messages' = messages /\ at' = "suspended" /\ at \in {"turn", "calls"}
        /\ (at = "turn" => todo' = todo /\ todo = <<>>)
    BY <1>11 DEF CutOff, At, TInv, LoopType
  <2>2. Len(todo') \in Nat /\ Len(todo') <= Len(todo)
    <3>1. CASE todo' = todo
      BY <1>1, <3>1
    <3>2. CASE todo' = <<>>
      <4>1. Len(todo') = 0
        BY <3>2
      <4> QED BY <1>1, <4>1
    <3>3. CASE todo # <<>> /\ todo' = <<Head(todo)>>
      <4>1. Len(todo') = 1 /\ Len(todo) >= 1
        BY <1>1, <3>3
      <4> QED BY <1>1, <4>1
    <3> QED BY <1>11, <3>1, <3>2, <3>3, CutOffTodo
  <2>3. at = "turn" => Len(todo') = 0
    BY <2>1
  <2> QED BY <1>1, <1>2, <2>1, <2>2, <2>3
<1>12. CASE Resume
  <2> DEFINE told == IF approval /\ todo = <<>> THEN <<Granted>> ELSE <<>>
  <2>1. /\ messages' = messages \o told /\ todo' = todo /\ at = "suspended"
        /\ at' = (IF todo # <<>> THEN "calls" ELSE "request")
    BY <1>12 DEF Resume, At
  <2>2. told \in Seq(MessageSet)
    BY ToldType
  <2>3. Len(told) \in Nat /\ Len(told) <= 1 /\ (todo # <<>> => Len(told) = 0)
    BY <2>2
  <2> HIDE DEF told
  <2>4. Len(messages') = Len(messages) + Len(told)
    BY <1>1, <2>1, <2>2
  <2> QED BY <1>1, <1>2, <2>1, <2>3, <2>4
<1>10. CASE RegisterProvider \/ UNCHANGED vars
  <2>1. UNCHANGED <<at, messages, todo>>
    BY <1>10 DEF RegisterProvider, vars, turnVars
  <2> QED BY <1>2, <2>1
<1> QED BY <1>3, <1>4, <1>5, <1>6, <1>7, <1>8, <1>9, <1>10, <1>11, <1>12 DEF Next

(* What is kept of the conversation stays within the window and one round,  *)
(* in every turn and in every continuation, for each size of the window.    *)
THEOREM KeptMessagesBounded == Spec => []MessagesBounded
<1>1. Init => BoundInv
  <2> SUFFICES ASSUME Init, MaxMessages # 0
               PROVE  BoundInv
    BY DEF BoundInv
  <2>1. messages = <<>> /\ at = "start" /\ Len(messages) = 0
    BY DEF Init
  <2>2. MaxCalls \in Nat /\ Window \in Nat
    BY ModelTurnsAssumption DEF Window, Larger
  <2> QED BY <2>1, <2>2 DEF BoundInv, At
<1>2. BoundInv => MessagesBounded
  BY ModelTurnsAssumption DEF BoundInv, MessagesBounded, Window, Larger
<1> QED BY <1>1, <1>2, TypeInit, TypeStep, BoundStep, PTL DEF Spec

(***************************************************************************)
(* The task and whole rounds are kept                                      *)
(***************************************************************************)
ObservationOf(id) == Message("tool", "observation", <<id>>)

(* Each call of w is answered later on, but for those of ids, and each      *)
(* observation belongs to the call before it, with nothing but other        *)
(* observations in between.                                                *)
CallsAnswered(w, ids) ==
  \A i \in 1 .. Len(w) : w[i].role = "assistant" =>
    \A id \in Range(w[i].calls) :
      id \in ids \/ \E j \in 1 .. Len(w) : j > i /\ w[j] = ObservationOf(id)

CallOf(w, i, j) ==
  /\ j \in 1 .. i - 1 /\ w[j].role = "assistant" /\ w[i].calls[1] \in Range(w[j].calls)
  /\ \A k \in 1 .. i - 1 : k > j => w[k].role = "tool"

ObservationsCalled(w) ==
  \A i \in 1 .. Len(w) : w[i].role = "tool" => \E j : CallOf(w, i, j)

(* What is pending was called by the last message that is no observation. *)
CalledLast(w, ids, j) ==
  /\ j \in 1 .. Len(w) /\ w[j].role = "assistant" /\ ids \subseteq Range(w[j].calls)
  /\ \A k \in 1 .. Len(w) : k > j => w[k].role = "tool"

(* None of the calls of ids is answered. *)
NoneAnswered(w, ids) == \A j \in 1 .. Len(w) : \A id \in ids : w[j] # ObservationOf(id)

(* The calls that w speaks of were numbered already. *)
Numbered(w, n) == \A i \in 1 .. Len(w) : \A k \in 1 .. Len(w[i].calls) : w[i].calls[k] <= n

TaskFirst(w) == HasInput => Len(w) >= 1 /\ w[1] = Task

Unanswered == PendingIds(todo) \cup history.dropped

(* A call is answered unless it is pending or was dropped, and no call is   *)
(* two of these; the next calls have numbers that no call has.             *)
ConversationInv ==
  at \notin {"start", "ended"} =>
    /\ TaskFirst(history.whole)
    /\ CallsAnswered(history.whole, Unanswered)
    /\ NoneAnswered(history.whole, Unanswered)
    /\ ObservationsCalled(history.whole)
    /\ todo # <<>> => \E j : CalledLast(history.whole, PendingIds(todo), j)
    /\ Numbered(history.whole, calls)
    /\ \A id \in Unanswered : id <= calls
    /\ PendingIds(todo) \cap history.dropped = {}
    /\ \A i, k \in 1 .. Len(todo) : todo[i].id = todo[k].id => i = k

LEMMA Appending ==
  ASSUME NEW S, NEW w \in Seq(S), NEW m \in S, NEW v, v = Append(w, m)
  PROVE  /\ v \in Seq(S) /\ Len(v) = Len(w) + 1 /\ Len(w) \in Nat /\ v[Len(v)] = m
         /\ \A i \in 1 .. Len(w) : v[i] = w[i]
OBVIOUS

LEMMA AnsweredGrows ==
  ASSUME NEW w \in Seq(MessageSet), NEW m \in MessageSet, NEW v, v = Append(w, m),
         NEW ids, NEW rest, CallsAnswered(w, ids),
         m.role = "assistant" => Range(m.calls) \subseteq rest,
         \A id \in ids : id \in rest \/ m = ObservationOf(id)
  PROVE  CallsAnswered(v, rest)
<1>1. /\ v \in Seq(MessageSet) /\ Len(v) = Len(w) + 1 /\ Len(w) \in Nat /\ v[Len(v)] = m
      /\ \A i \in 1 .. Len(w) : v[i] = w[i]
  BY Appending
<1>2. ASSUME NEW i \in 1 .. Len(v), v[i].role = "assistant", NEW id \in Range(v[i].calls)
      PROVE  id \in rest \/ \E j \in 1 .. Len(v) : j > i /\ v[j] = ObservationOf(id)
  <2>1. CASE i = Len(v)
    BY <1>1, <1>2, <2>1
  <2>2. CASE i # Len(v)
    <3>1. i \in 1 .. Len(w) /\ Len(v) \in 1 .. Len(v) /\ Len(v) > i
      BY <1>1, <2>2
    <3>2. v[i] = w[i]
      BY <1>1, <3>1
    <3>3. CASE id \in ids
      BY <1>1, <3>1, <3>3
    <3>4. CASE \E j \in 1 .. Len(w) : j > i /\ w[j] = ObservationOf(id)
      <4>1. PICK j \in 1 .. Len(w) : j > i /\ w[j] = ObservationOf(id)
        BY <3>4
      <4>2. j \in 1 .. Len(v) /\ v[j] = w[j]
        BY <1>1
      <4> QED BY <4>1, <4>2
    <3> QED BY <1>2, <3>1, <3>2, <3>3, <3>4 DEF CallsAnswered
  <2> QED BY <2>1, <2>2
<1> QED BY <1>2 DEF CallsAnswered

LEMMA CalledGrows ==
  ASSUME NEW w \in Seq(MessageSet), NEW m \in MessageSet, NEW v, v = Append(w, m),
         ObservationsCalled(w),
         m.role = "tool" => \E j : CalledLast(w, {m.calls[1]}, j)
  PROVE  ObservationsCalled(v)
<1>1. /\ v \in Seq(MessageSet) /\ Len(v) = Len(w) + 1 /\ Len(w) \in Nat /\ v[Len(v)] = m
      /\ \A i \in 1 .. Len(w) : v[i] = w[i]
  BY Appending
<1>2. ASSUME NEW i \in 1 .. Len(v), v[i].role = "tool"
      PROVE  \E j : CallOf(v, i, j)
  <2>1. CASE i = Len(v)
    <3>1. PICK j : CalledLast(w, {m.calls[1]}, j)
      BY <1>1, <1>2, <2>1
    <3>2. /\ j \in 1 .. Len(w) /\ w[j].role = "assistant" /\ m.calls[1] \in Range(w[j].calls)
          /\ \A k \in 1 .. Len(w) : k > j => w[k].role = "tool"
      BY <3>1 DEF CalledLast
    <3>3. Len(w) = i - 1 /\ v[i] = m
      BY <1>1, <2>1
    <3>4. CallOf(v, i, j)
      BY <1>1, <3>2, <3>3 DEF CallOf
    <3> QED BY <3>4
  <2>2. CASE i # Len(v)
    <3>1. i \in 1 .. Len(w) /\ v[i] = w[i]
      BY <1>1, <2>2
    <3>2. PICK j : CallOf(w, i, j)
      BY <1>2, <3>1 DEF ObservationsCalled
    <3>3. \A k \in 1 .. i - 1 : v[k] = w[k]
      BY <1>1, <3>1
    <3>4. CallOf(v, i, j)
      BY <3>1, <3>2, <3>3 DEF CallOf
    <3> QED BY <3>4
  <2> QED BY <2>1, <2>2
<1> QED BY <1>2 DEF ObservationsCalled

LEMMA LastGrows ==
  ASSUME NEW w \in Seq(MessageSet), NEW m \in MessageSet, NEW v, v = Append(w, m),
         NEW ids, NEW rest, rest \subseteq ids, NEW j, CalledLast(w, ids, j), m.role = "tool"
  PROVE  CalledLast(v, rest, j)
<1>1. /\ v \in Seq(MessageSet) /\ Len(v) = Len(w) + 1 /\ Len(w) \in Nat /\ v[Len(v)] = m
      /\ \A i \in 1 .. Len(w) : v[i] = w[i]
  BY Appending
<1>2. /\ j \in 1 .. Len(w) /\ w[j].role = "assistant" /\ ids \subseteq Range(w[j].calls)
      /\ \A k \in 1 .. Len(w) : k > j => w[k].role = "tool"
  BY DEF CalledLast
<1>3. ASSUME NEW k \in 1 .. Len(v), k > j PROVE v[k].role = "tool"
  <2>1. k = Len(v) \/ k \in 1 .. Len(w)
    BY <1>1
  <2> QED BY <1>1, <1>2, <1>3, <2>1
<1>4. j \in 1 .. Len(v) /\ v[j] = w[j]
  BY <1>1, <1>2
<1> QED BY <1>2, <1>3, <1>4 DEF CalledLast

LEMMA NoneGrows ==
  ASSUME NEW w \in Seq(MessageSet), NEW m \in MessageSet, NEW v, v = Append(w, m),
         NEW ids, NoneAnswered(w, ids), \A id \in ids : m # ObservationOf(id)
  PROVE  NoneAnswered(v, ids)
<1>1. /\ Len(v) = Len(w) + 1 /\ Len(w) \in Nat /\ v[Len(v)] = m
      /\ \A i \in 1 .. Len(w) : v[i] = w[i]
  BY Appending
<1>2. ASSUME NEW j \in 1 .. Len(v), NEW id \in ids PROVE v[j] # ObservationOf(id)
  <2>1. j = Len(v) \/ j \in 1 .. Len(w)
    BY <1>1
  <2> QED BY <1>1, <2>1 DEF NoneAnswered
<1> QED BY <1>2 DEF NoneAnswered

LEMMA NumberedGrows ==
  ASSUME NEW w \in Seq(MessageSet), NEW m \in MessageSet, NEW v, v = Append(w, m),
         NEW n \in Nat, NEW more \in Nat, n <= more, Numbered(w, n),
         \A k \in 1 .. Len(m.calls) : m.calls[k] <= more
  PROVE  Numbered(v, more)
<1>1. /\ Len(v) = Len(w) + 1 /\ Len(w) \in Nat /\ v[Len(v)] = m
      /\ \A i \in 1 .. Len(w) : v[i] = w[i]
  BY Appending
<1>2. ASSUME NEW i \in 1 .. Len(v), NEW k \in 1 .. Len(v[i].calls) PROVE v[i].calls[k] <= more
  <2>1. CASE i = Len(v)
    BY <1>1, <2>1
  <2>2. CASE i # Len(v)
    <3>1. i \in 1 .. Len(w) /\ v[i] = w[i]
      BY <1>1, <2>2
    <3>2. w[i].calls[k] <= n
      BY <3>1 DEF Numbered
    <3>3. w[i] \in MessageSet
      BY <3>1
    <3>4. w[i].calls \in Seq(Nat)
      BY <3>3 DEF MessageSet
    <3>5. w[i].calls[k] \in Nat
      BY <3>1, <3>4
    <3> QED BY <3>1, <3>2, <3>5
  <2> QED BY <2>1, <2>2
<1> QED BY <1>2 DEF Numbered

(* A new number has no observation. *)
LEMMA NewNumber ==
  ASSUME NEW w \in Seq(MessageSet), NEW n \in Nat, Numbered(w, n), NEW id \in Nat, id > n
  PROVE  NoneAnswered(w, {id})
<1>1. SUFFICES ASSUME NEW j \in 1 .. Len(w), w[j] = ObservationOf(id) PROVE FALSE
  BY DEF NoneAnswered
<1>2. w[j].calls = <<id>>
  BY <1>1 DEF ObservationOf, Message
<1>3. 1 \in 1 .. Len(w[j].calls) /\ w[j].calls[1] = id
  BY <1>2
<1>4. id <= n
  BY <1>3 DEF Numbered
<1> QED BY <1>4

(* A place of the conversation and the same place in its end. *)
LEMMA PlaceInEnd ==
  ASSUME NEW i \in Int, NEW j \in Int, NEW d \in Int, NEW n \in Int,
         j - d >= 2, j <= (i + d) - 1, 1 <= i, i <= n
  PROVE  j - d \in 1 .. i - 1 /\ j - d \in 2 .. n /\ (j - d) + d = j
OBVIOUS

(* The window keeps whole rounds, but for the one it cuts through. *)
LEMMA RoundsInWindow ==
  ASSUME NEW w \in Seq(MessageSet), NEW t \in Seq(MessageSet), NEW d \in Nat,
         EndOf(t, w, d), Len(t) >= 1 => t[1] = w[1 + d] \/ t[1].role = "user",
         NEW ids, CallsAnswered(w, ids), NoneAnswered(w, ids),
         ObservationsCalled(w), NEW i \in 1 .. Len(t)
  PROVE  /\ \A id \in Range(t[i].calls) : t[i].role = "assistant" =>
              (id \in ids <=> ~\E j \in 1 .. Len(t) : j > i /\ t[j] = ObservationOf(id))
         /\ t[i].role = "tool" =>
              \/ \E j \in 1 .. i - 1 : t[j].role = "assistant" /\ t[i].calls[1] \in Range(t[j].calls)
              \/ \A j \in 1 .. i - 1 : t[j].role = "tool" \/ j = 1
<1>1. Len(w) = Len(t) + d /\ Len(t) \in Nat /\ i + d \in 1 .. Len(w)
  BY DEF EndOf
<1>2. t[i] = w[i + d] \/ t[i].role = "user"
  <2>1. i = 1 \/ i \in 2 .. Len(t)
    BY <1>1
  <2> QED BY <1>1, <2>1 DEF EndOf
<1>3. ASSUME NEW j \in 1 .. Len(w), j > i + d PROVE j - d \in 1 .. Len(t) /\ j - d > i /\ t[j - d] = w[j]
  <2>1. j - d \in 2 .. Len(t) /\ j - d \in 1 .. Len(t) /\ j - d > i /\ (j - d) + d = j
    BY <1>1, <1>3
  <2> QED BY <2>1 DEF EndOf
<1>4. ASSUME NEW id \in Range(t[i].calls), t[i].role = "assistant", id \notin ids
      PROVE  \E j \in 1 .. Len(t) : j > i /\ t[j] = ObservationOf(id)
  <2>1. t[i] = w[i + d]
    BY <1>2, <1>4
  <2>2. PICK j \in 1 .. Len(w) : j > i + d /\ w[j] = ObservationOf(id)
    BY <1>1, <1>4, <2>1 DEF CallsAnswered
  <2> QED BY <1>3, <2>2
<1>5. ASSUME t[i].role = "tool"
      PROVE  \/ \E j \in 1 .. i - 1 : t[j].role = "assistant" /\ t[i].calls[1] \in Range(t[j].calls)
             \/ \A j \in 1 .. i - 1 : t[j].role = "tool" \/ j = 1
  <2>1. t[i] = w[i + d]
    BY <1>2, <1>5
  <2>2. PICK j : CallOf(w, i + d, j)
    BY <1>1, <1>5, <2>1 DEF ObservationsCalled
  <2>3. /\ j \in 1 .. (i + d) - 1 /\ w[j].role = "assistant" /\ t[i].calls[1] \in Range(w[j].calls)
        /\ \A k \in 1 .. (i + d) - 1 : k > j => w[k].role = "tool"
    BY <2>1, <2>2 DEF CallOf
  <2>4. CASE j - d >= 2
    <3>1. j - d \in 1 .. i - 1 /\ j - d \in 2 .. Len(t) /\ (j - d) + d = j
      <4>1. /\ i \in Int /\ j \in Int /\ d \in Int /\ Len(t) \in Int
            /\ j <= (i + d) - 1 /\ 1 <= i /\ i <= Len(t)
        BY <1>1, <2>3
      <4> QED BY <2>4, <4>1, PlaceInEnd
    <3>2. t[j - d] = w[j]
      BY <3>1 DEF EndOf
    <3> QED BY <2>3, <3>1, <3>2
  <2>5. CASE ~(j - d >= 2)
    <3>1. ASSUME NEW k \in 1 .. i - 1, k # 1 PROVE t[k].role = "tool"
      <4>1. k \in 2 .. Len(t) /\ k + d \in 1 .. (i + d) - 1 /\ k + d > j
        BY <1>1, <2>3, <2>5, <3>1
      <4>2. t[k] = w[k + d]
        BY <4>1 DEF EndOf
      <4> QED BY <2>3, <4>1, <4>2
    <3> QED BY <3>1
  <2> QED BY <2>4, <2>5
<1>6. ASSUME NEW id \in ids, NEW j \in 1 .. Len(t), j > i, t[j] = ObservationOf(id)
      PROVE  FALSE
  <2>1. j \in 2 .. Len(t) /\ j + d \in 1 .. Len(w)
    BY <1>1, <1>6
  <2>2. w[j + d] = ObservationOf(id)
    BY <1>6, <2>1 DEF EndOf
  <2> QED BY <2>1, <2>2 DEF NoneAnswered
<1> QED BY <1>4, <1>5, <1>6

(* A window is the end of the conversation, its first message apart. *)
LEMMA WindowEnds ==
  ASSUME NEW w \in Seq(MessageSet), NEW max \in Nat, NEW t, t = TrimMessagesToWindow(w, max)
  PROVE  /\ t \in Seq(MessageSet)
         /\ \E d \in Nat : EndOf(t, w, d) /\ (Len(t) >= 1 => t[1] = w[1 + d] \/ t[1].role = "user")
         /\ Len(w) >= 1 /\ w[1] = Task => t[1] = Task
<1>1. Len(w) \in Nat /\ t \in Seq(MessageSet)
  BY TrimType
<1>2. CASE max = 0 \/ Len(w) <= max
  <2>1. t = w
    BY <1>2, TrimSmall
  <2>2. EndOf(t, w, 0) /\ t[1] = w[1 + 0]
    BY <1>1, <2>1 DEF EndOf
  <2> QED BY <1>1, <2>1, <2>2
<1>3. CASE max # 0 /\ Len(w) > max /\ Anchored(w, max)
  <2>1. TaskAndTail(w, max, t)
    BY <1>3, TrimAnchored
  <2>2. Len(t) \in Nat /\ Len(t) <= Len(w) /\ t[1] = w[FirstUser(w)]
        /\ \A i \in 2 .. Len(t) : t[i] = w[Len(w) - Len(t) + i]
    BY <2>1 DEF TaskAndTail
  <2>3. w[FirstUser(w)].role = "user"
    BY <1>3, FirstUserIs DEF Anchored
  <2>4. EndOf(t, w, Len(w) - Len(t)) /\ Len(w) - Len(t) \in Nat
    BY <1>1, <2>2 DEF EndOf
  <2>5. ASSUME Len(w) >= 1, w[1] = Task PROVE FirstUser(w) = 1
    <3>1. 1 \in 1 .. Len(w) /\ w[1].role = "user"
      BY <1>1, <2>5 DEF Task, Message
    <3> QED BY <3>1, FirstUserAt
  <2> QED BY <1>1, <2>2, <2>3, <2>4, <2>5
<1>4. CASE max # 0 /\ Len(w) > max /\ ~Anchored(w, max)
  <2>1. OnlyTail(w, max, t)
    BY <1>4, TrimUnanchored
  <2>2. Len(t) = max /\ \A i \in 1 .. Len(t) : t[i] = w[Len(w) - Len(t) + i]
    BY <2>1 DEF OnlyTail
  <2>3. EndOf(t, w, Len(w) - Len(t)) /\ Len(w) - Len(t) \in Nat
    BY <1>1, <1>4, <2>2 DEF EndOf
  <2>4. Len(t) >= 1 => t[1] = w[1 + (Len(w) - Len(t))]
    BY <1>1, <2>2
  <2>5. ASSUME Len(w) >= 1, w[1] = Task PROVE FALSE
    <3>1. 1 \in 1 .. Len(w) /\ w[1].role = "user"
      BY <1>1, <2>5 DEF Task, Message
    <3>2. FirstUser(w) = 1
      BY <3>1, FirstUserAt
    <3> QED BY <1>1, <1>4, <3>2 DEF Anchored
  <2> QED BY <1>1, <2>3, <2>4, <2>5
<1> QED BY <1>1, <1>2, <1>3, <1>4

LEMMA ToolMessage ==
  ASSUME NEW id
  PROVE  /\ ObservationOf(id).role = "tool" /\ ObservationOf(id).calls[1] = id
         /\ \A c \in CallSet : Observation(c) = ObservationOf(c.id)
BY DEF ObservationOf, Observation, Message

LEMMA PendingAre ==
  ASSUME NEW cs \in Seq(CallSet), cs # <<>>,
         \A i, k \in 1 .. Len(cs) : cs[i].id = cs[k].id => i = k
  PROVE  /\ Head(cs) \in CallSet /\ Head(cs).id \in PendingIds(cs)
         /\ PendingIds(Tail(cs)) = PendingIds(cs) \ {Head(cs).id}
         /\ PendingIds(<<Head(cs)>>) = {Head(cs).id}
         /\ \A i, k \in 1 .. Len(Tail(cs)) : Tail(cs)[i].id = Tail(cs)[k].id => i = k
<1>1. Len(cs) \in Nat /\ Len(cs) >= 1 /\ DOMAIN cs = 1 .. Len(cs)
  OBVIOUS
<1> HIDE DEF CallSet
<1>2. /\ Head(cs) = cs[1] /\ Head(cs) \in CallSet /\ 1 \in 1 .. Len(cs)
      /\ Len(Tail(cs)) = Len(cs) - 1 /\ DOMAIN Tail(cs) = 1 .. Len(cs) - 1
      /\ \A k \in 1 .. Len(cs) - 1 : Tail(cs)[k] = cs[k + 1]
  BY <1>1
<1>3. ASSUME NEW id \in PendingIds(cs), id # Head(cs).id PROVE id \in PendingIds(Tail(cs))
  <2>1. PICK k \in 1 .. Len(cs) : id = cs[k].id
    BY <1>1 DEF PendingIds
  <2>2. k - 1 \in 1 .. Len(cs) - 1 /\ (k - 1) + 1 = k
    BY <1>1, <1>2, <1>3, <2>1
  <2>3. Tail(cs)[k - 1].id = id
    BY <1>2, <2>1, <2>2
  <2> QED BY <1>2, <2>2, <2>3 DEF PendingIds
<1>4. ASSUME NEW id \in PendingIds(Tail(cs)) PROVE id \in PendingIds(cs) /\ id # Head(cs).id
  <2>1. PICK k \in 1 .. Len(cs) - 1 : id = Tail(cs)[k].id
    BY <1>2 DEF PendingIds
  <2>2. k + 1 \in 1 .. Len(cs) /\ k + 1 # 1 /\ id = cs[k + 1].id
    BY <1>1, <1>2, <2>1
  <2>3. id # cs[1].id
    BY <1>2, <2>2
  <2> QED BY <1>1, <1>2, <2>2, <2>3 DEF PendingIds
<1>5. PendingIds(<<Head(cs)>>) = {Head(cs).id}
  <2> DEFINE h == Head(cs)
  <2>1. DOMAIN <<h>> = {1} /\ <<h>>[1] = h
    OBVIOUS
  <2> HIDE DEF h
  <2>2. PendingIds(<<h>>) = {h.id}
    BY <2>1 DEF PendingIds
  <2> QED BY <2>2 DEF h
<1>6. ASSUME NEW i \in 1 .. Len(Tail(cs)), NEW k \in 1 .. Len(Tail(cs)), Tail(cs)[i].id = Tail(cs)[k].id
      PROVE  i = k
  <2>1. i + 1 \in 1 .. Len(cs) /\ k + 1 \in 1 .. Len(cs)
    BY <1>1, <1>2
  <2>2. cs[i + 1].id = cs[k + 1].id
    BY <1>2, <1>6
  <2>3. i + 1 = k + 1
    BY <2>1, <2>2
  <2> QED BY <1>2, <2>3
<1>7. Head(cs).id \in PendingIds(cs)
  BY <1>1, <1>2 DEF PendingIds
<1> QED BY <1>2, <1>3, <1>4, <1>5, <1>6, <1>7

LEMMA NothingPending == PendingIds(<<>>) = {}
BY DEF PendingIds

(* Nothing changes in the conversation, and no call is pending that was not. *)
LEMMA ConversationSame ==
  ASSUME ConversationInv, at \notin {"start", "ended"},
         history'.whole = history.whole, history'.dropped = history.dropped,
         todo' = todo, calls' = calls
  PROVE  ConversationInv'
<1>1. PendingIds(todo)' = PendingIds(todo)
  BY DEF PendingIds
<1>2. Unanswered' = Unanswered
  BY <1>1 DEF Unanswered
<1> QED BY <1>1, <1>2 DEF ConversationInv

(* A message that neither calls nor answers. *)
LEMMA ConversationTold ==
  ASSUME TInv, ConversationInv, at \notin {"start", "ended"}, todo = <<>>, todo' = todo,
         calls' = calls, history'.dropped = history.dropped,
         NEW m \in MessageSet, m.role = "user", m.calls = <<>>,
         history'.whole = Append(history.whole, m)
  PROVE  ConversationInv'
<1> DEFINE w == history.whole
<1>1. w \in Seq(MessageSet) /\ calls \in Nat
  BY HistoryFields DEF TInv, LoopType
<1>2. PICK v : v = Append(w, m)
  OBVIOUS
<1>3. /\ TaskFirst(w) /\ CallsAnswered(w, Unanswered) /\ NoneAnswered(w, Unanswered)
      /\ ObservationsCalled(w) /\ Numbered(w, calls)
  BY DEF ConversationInv
<1>4. PendingIds(todo)' = PendingIds(todo)
  BY DEF PendingIds
<1>5. Unanswered' = Unanswered
  BY <1>4 DEF Unanswered
<1>6. history'.whole = v
  BY <1>2
<1> HIDE DEF w
<1>7. \A id : m # ObservationOf(id)
  BY DEF ObservationOf, Message
<1>8. CallsAnswered(v, Unanswered) /\ ObservationsCalled(v)
  BY <1>1, <1>2, <1>3, AnsweredGrows, CalledGrows
<1>9. NoneAnswered(v, Unanswered)
  BY <1>1, <1>2, <1>3, <1>7, NoneGrows
<1>10. Numbered(v, calls)
  <2>1. \A k \in 1 .. Len(m.calls) : m.calls[k] <= calls
    OBVIOUS
  <2>2. calls <= calls
    BY <1>1
  <2> QED BY <1>1, <1>2, <1>3, <2>1, <2>2, NumberedGrows
<1>11. TaskFirst(v)
  <2>1. /\ Len(v) = Len(w) + 1 /\ Len(w) \in Nat /\ \A i \in 1 .. Len(w) : v[i] = w[i]
    BY <1>1, <1>2, Appending
  <2> QED BY <1>3, <2>1 DEF TaskFirst
<1> QED BY <1>4, <1>5, <1>6, <1>8, <1>9, <1>10, <1>11 DEF ConversationInv

(* The calls of a response are new: they are pending, or dropped with it. *)
LEMMA ConversationCalls ==
  ASSUME TInv, ConversationInv, CallTools \/ AskApproval, at = "turn",
         ~(messages' = messages /\ history' = history)
  PROVE  ConversationInv'
<1> DEFINE w == history.whole
<1>1. /\ w \in Seq(MessageSet) /\ calls \in Nat /\ history.dropped \in SUBSET Nat /\ todo = <<>>
  BY HistoryFields DEF TInv, LoopType
<1>2. PICK count \in Nat :
        /\ Respond(count)
        /\ history'.whole = Append(w, Assistant(NextIds(count)))
        /\ \/ AskApproval /\ history'.dropped = history.dropped \cup Range(NextIds(count))
           \/ /\ CallTools /\ history'.dropped = history.dropped
              /\ \E names \in Seq(AnyName) : Len(names) = count /\ todo' = CallsOf(names)
  BY Responded
<1> DEFINE m == Assistant(NextIds(count))
           new == {calls + i : i \in 1 .. count}
<1>3. /\ m \in MessageSet /\ m.role = "assistant" /\ m.calls = NextIds(count)
      /\ Range(m.calls) = new /\ Range(NextIds(count)) = new
      /\ Len(m.calls) = count /\ \A i \in 1 .. count : m.calls[i] = calls + i
  BY ResponseType
<1>4. PICK v : v = Append(w, m)
  OBVIOUS
<1>5. history'.whole = v /\ calls' = calls + count
  BY <1>2, <1>4 DEF Respond
<1>6. Unanswered = history.dropped
  BY <1>1, NothingPending DEF Unanswered
<1>7. /\ TaskFirst(w) /\ CallsAnswered(w, history.dropped) /\ NoneAnswered(w, history.dropped)
      /\ ObservationsCalled(w) /\ Numbered(w, calls) /\ \A id \in history.dropped : id <= calls
  BY <1>6 DEF ConversationInv
<1>8. \A id \in new : id \in Nat /\ id > calls /\ id <= calls'
  BY <1>1, <1>5
<1> HIDE DEF w, m, new
<1>9. \/ /\ PendingIds(todo)' = {} /\ history'.dropped = history.dropped \cup new /\ todo' = <<>>
      \/ /\ PendingIds(todo)' = new /\ history'.dropped = history.dropped
         /\ \A i, k \in 1 .. Len(todo') : todo'[i].id = todo'[k].id => i = k
  <2>1. CASE AskApproval /\ history'.dropped = history.dropped \cup Range(NextIds(count))
    <3>1. todo' = <<>>
      BY <1>1, <2>1 DEF AskApproval
    <3>2. PendingIds(todo)' = {}
      BY <3>1 DEF PendingIds
    <3> QED BY <1>3, <2>1, <3>1, <3>2
  <2>2. CASE /\ history'.dropped = history.dropped
             /\ \E names \in Seq(AnyName) : Len(names) = count /\ todo' = CallsOf(names)
    <3>1. PICK names \in Seq(AnyName) : Len(names) = count /\ todo' = CallsOf(names)
      BY <2>2
    <3>2. /\ todo' \in Seq(CallSet) /\ Len(todo') = count
          /\ \A i \in 1 .. count : todo'[i].id = calls + i
      BY <3>1, CallsOfType
    <3>3. DOMAIN todo' = 1 .. count
      BY <3>2
    <3>4. PendingIds(todo)' = new
      BY <3>2, <3>3 DEF PendingIds, new
    <3>5. ASSUME NEW i \in 1 .. count, NEW k \in 1 .. count, calls + i = calls + k PROVE i = k
      BY <1>1, <3>5
    <3> QED BY <2>2, <3>2, <3>4, <3>5
  <2> QED BY <1>2, <2>1, <2>2
<1>10. Unanswered' = history.dropped \cup new
  BY <1>9 DEF Unanswered
<1>11. CallsAnswered(v, history.dropped \cup new)
  <2> DEFINE rest == history.dropped \cup new
  <2>1. Range(m.calls) \subseteq rest /\ \A id \in history.dropped : id \in rest
    BY <1>3
  <2> HIDE DEF rest
  <2>2. CallsAnswered(v, rest)
    <3>1. \A id \in history.dropped : id \in rest \/ m = ObservationOf(id)
      BY <2>1
    <3>2. m.role = "assistant" => Range(m.calls) \subseteq rest
      BY <2>1
    <3> QED BY <1>1, <1>3, <1>4, <1>7, <3>1, <3>2, AnsweredGrows
  <2> QED BY <2>2 DEF rest
<1>12. NoneAnswered(v, history.dropped \cup new)
  <2>1. ASSUME NEW id \in new PROVE NoneAnswered(w, {id})
    BY <1>1, <1>7, <1>8, NewNumber
  <2>2. NoneAnswered(w, history.dropped \cup new)
    BY <1>7, <2>1 DEF NoneAnswered
  <2>3. \A id : m # ObservationOf(id)
    BY <1>3, ToolMessage
  <2> DEFINE rest == history.dropped \cup new
  <2>4. NoneAnswered(w, rest)
    BY <2>2
  <2> HIDE DEF rest
  <2>5. NoneAnswered(v, rest)
    <3>1. \A id \in rest : m # ObservationOf(id)
      BY <2>3
    <3> QED BY <1>1, <1>3, <1>4, <2>4, <3>1, NoneGrows
  <2> QED BY <2>5 DEF rest
<1>13. ObservationsCalled(v)
  BY <1>1, <1>3, <1>4, <1>7, CalledGrows
<1>14. Numbered(v, calls')
  <2>1. calls' \in Nat /\ calls <= calls'
    BY <1>1, <1>5
  <2>2. \A k \in 1 .. Len(m.calls) : m.calls[k] <= calls'
    BY <1>1, <1>3, <1>5
  <2> QED BY <1>1, <1>3, <1>4, <1>7, <2>1, <2>2, NumberedGrows
<1>15. /\ Len(v) = Len(w) + 1 /\ Len(w) \in Nat /\ v[Len(v)] = m
       /\ \A i \in 1 .. Len(w) : v[i] = w[i]
  BY <1>1, <1>3, <1>4, Appending
<1>16. TaskFirst(v)
  BY <1>7, <1>15 DEF TaskFirst
<1>17. \A id \in history.dropped \cup new : id <= calls'
  <2>1. ASSUME NEW id \in history.dropped PROVE id <= calls'
    <3>1. id \in Nat /\ id <= calls
      BY <1>1, <1>7
    <3> QED BY <1>1, <1>5, <3>1
  <2> QED BY <1>8, <2>1
<1>18. new \cap history.dropped = {}
  <2>1. SUFFICES ASSUME NEW id \in new, id \in history.dropped PROVE FALSE
    OBVIOUS
  <2>2. id \in Nat /\ id > calls /\ id <= calls
    BY <1>7, <1>8, <2>1
  <2> QED BY <1>1, <2>2
<1>19. CASE /\ PendingIds(todo)' = {} /\ history'.dropped = history.dropped \cup new /\ todo' = <<>>
  <2>1. \A i, k \in 1 .. Len(todo') : todo'[i].id = todo'[k].id => i = k
    BY <1>19
  <2> QED BY <1>5, <1>10, <1>11, <1>12, <1>13, <1>14, <1>16, <1>17, <1>19, <2>1 DEF ConversationInv
<1>20. CASE /\ PendingIds(todo)' = new /\ history'.dropped = history.dropped
            /\ \A i, k \in 1 .. Len(todo') : todo'[i].id = todo'[k].id => i = k
  <2>1. CalledLast(v, new, Len(v))
    BY <1>3, <1>15 DEF CalledLast
  <2> QED BY <1>5, <1>10, <1>11, <1>12, <1>13, <1>14, <1>16, <1>17, <1>18, <1>20, <2>1
          DEF ConversationInv
<1> QED BY <1>9, <1>19, <1>20

(* An observation answers the first call that is pending. *)
LEMMA ConversationObserved ==
  ASSUME TInv, ConversationInv, ExecuteCall
  PROVE  ConversationInv'
<1> DEFINE w == history.whole
           call == Head(todo)
           m == Observation(call)
<1>1. /\ history \in HistorySet /\ w \in Seq(MessageSet) /\ todo \in Seq(CallSet) /\ calls \in Nat
      /\ history.dropped \in SUBSET Nat
  BY HistoryFields DEF TInv, LoopType
<1>2. /\ history'.whole = Append(w, m) /\ todo' = Tail(todo) /\ calls' = calls
      /\ at = "calls" /\ at' = "calls" /\ todo # <<>> /\ history'.dropped = history.dropped
  BY <1>1 DEF ExecuteCall, At, HistorySet
<1>3. \A i, k \in 1 .. Len(todo) : todo[i].id = todo[k].id => i = k
  BY <1>2 DEF ConversationInv
<1>4. /\ call \in CallSet /\ call.id \in PendingIds(todo)
      /\ PendingIds(Tail(todo)) = PendingIds(todo) \ {call.id}
      /\ \A i, k \in 1 .. Len(Tail(todo)) : Tail(todo)[i].id = Tail(todo)[k].id => i = k
  BY <1>1, <1>2, <1>3, PendingAre
<1>5. m \in MessageSet /\ m = ObservationOf(call.id) /\ m.role = "tool" /\ m.calls = <<call.id>>
  <2>1. ObservationOf(call.id).calls = <<call.id>>
    BY DEF ObservationOf, Message
  <2> QED BY <1>4, <2>1, MessageTypes, ToolMessage
<1>6. call.id \notin history.dropped /\ call.id <= calls
  BY <1>2, <1>4 DEF ConversationInv, Unanswered
<1> HIDE DEF call, m, w
<1>7. PendingIds(todo)' = PendingIds(todo) \ {call.id}
  BY <1>2, <1>4 DEF PendingIds
<1>8. Unanswered' = Unanswered \ {call.id}
  BY <1>2, <1>6, <1>7 DEF Unanswered
<1>9. /\ TaskFirst(w) /\ CallsAnswered(w, Unanswered) /\ NoneAnswered(w, Unanswered)
      /\ ObservationsCalled(w) /\ Numbered(w, calls)
      /\ \A id \in Unanswered : id <= calls
      /\ PendingIds(todo) \cap history.dropped = {}
  BY <1>2 DEF ConversationInv, w
<1>10. PICK j : CalledLast(w, PendingIds(todo), j)
  BY <1>2 DEF ConversationInv, w
<1>11. m.calls[1] = call.id
  BY <1>5
<1>12. CalledLast(w, {m.calls[1]}, j)
  BY <1>4, <1>10, <1>11 DEF CalledLast
<1>13. PICK v : v = Append(w, m)
  OBVIOUS
<1>14. PICK rest : rest = Unanswered \ {call.id}
  OBVIOUS
<1>15. CallsAnswered(v, rest)
  <2> DEFINE ids == Unanswered
  <2>1. CallsAnswered(w, ids) /\ \A id \in ids : id \in rest \/ m = ObservationOf(id)
    BY <1>5, <1>9, <1>14
  <2> HIDE DEF ids
  <2>2. m.role = "assistant" => Range(m.calls) \subseteq rest
    BY <1>5
  <2>3. m \in MessageSet /\ w \in Seq(MessageSet)
    BY <1>1, <1>5
  <2> QED BY <1>13, <2>1, <2>2, <2>3, AnsweredGrows
<1>16. NoneAnswered(v, rest)
  <2>1. ASSUME NEW id \in rest PROVE m # ObservationOf(id)
    <3>1. ObservationOf(id).calls[1] = id /\ id # call.id
      BY <1>14, ToolMessage
    <3> QED BY <1>11, <3>1
  <2>2. NoneAnswered(w, rest)
    BY <1>9, <1>14 DEF NoneAnswered
  <2> QED BY <1>1, <1>5, <1>13, <2>1, <2>2, NoneGrows
<1>17. ObservationsCalled(v)
  BY <1>1, <1>5, <1>9, <1>12, <1>13, CalledGrows
<1>18. CalledLast(v, PendingIds(todo)', j)
  BY <1>1, <1>5, <1>7, <1>10, <1>13, LastGrows
<1>19. Numbered(v, calls)
  <2>1. \A k \in 1 .. Len(m.calls) : m.calls[k] <= calls
    <3>1. Len(m.calls) = 1
      BY <1>5
    <3> QED BY <1>6, <1>11, <3>1
  <2>2. calls <= calls
    BY <1>1
  <2> QED BY <1>1, <1>5, <1>9, <1>13, <2>1, <2>2, NumberedGrows
<1>20. TaskFirst(v)
  <2>1. /\ Len(v) = Len(w) + 1 /\ Len(w) \in Nat /\ \A i \in 1 .. Len(w) : v[i] = w[i]
    BY <1>1, <1>5, <1>13, Appending
  <2> QED BY <1>9, <2>1 DEF TaskFirst
<1>21. /\ \A id \in rest : id <= calls
       /\ PendingIds(todo)' \cap history.dropped = {}
  BY <1>7, <1>9, <1>14
<1>22. \A i, k \in 1 .. Len(todo') : todo'[i].id = todo'[k].id => i = k
  BY <1>2, <1>4
<1>23. history'.whole = v /\ Unanswered' = rest
  BY <1>2, <1>8, <1>13, <1>14
<1> QED BY <1>2, <1>15, <1>16, <1>17, <1>18, <1>19, <1>20, <1>21, <1>22, <1>23 DEF ConversationInv

(* A checkpoint drops the calls it does not keep. *)
LEMMA ConversationCutOff ==
  ASSUME TInv, ConversationInv, CutOff
  PROVE  ConversationInv'
<1>1. /\ history \in HistorySet /\ todo \in Seq(CallSet) /\ at \in {"turn", "calls"}
      /\ calls' = calls
      /\ history'.whole = history.whole
      /\ history'.dropped = history.dropped \cup (PendingIds(todo) \ PendingIds(todo'))
  <2>1. history \in HistorySet /\ todo \in Seq(CallSet)
    BY DEF TInv, LoopType
  <2> QED BY <2>1 DEF CutOff, At, HistorySet
<1>2. /\ \A i, k \in 1 .. Len(todo) : todo[i].id = todo[k].id => i = k
      /\ PendingIds(todo) \cap history.dropped = {}
      /\ todo # <<>> => \E j : CalledLast(history.whole, PendingIds(todo), j)
  BY <1>1 DEF ConversationInv
<1>3. PendingIds(todo)' = PendingIds(todo')
  BY DEF PendingIds
<1>4. /\ PendingIds(todo') \subseteq PendingIds(todo)
      /\ \A i, k \in 1 .. Len(todo') : todo'[i].id = todo'[k].id => i = k
      /\ todo' # <<>> => todo # <<>>
  <2>1. CASE todo' = todo
    BY <1>2, <2>1
  <2>2. CASE todo' = <<>>
    BY <2>2, NothingPending
  <2>3. CASE todo # <<>> /\ todo' = <<Head(todo)>>
    <3>1. PendingIds(<<Head(todo)>>) = {Head(todo).id} /\ Head(todo).id \in PendingIds(todo)
      BY <1>1, <1>2, <2>3, PendingAre
    <3>2. Len(todo') = 1
      BY <2>3
    <3>3. \A i, k \in 1 .. Len(todo') : i = k
      BY <3>2
    <3> QED BY <2>3, <3>1, <3>3
  <2> QED BY <2>1, <2>2, <2>3, CutOffTodo
<1>5. Unanswered' = Unanswered
  BY <1>1, <1>3, <1>4 DEF Unanswered
<1>6. PendingIds(todo)' \cap history'.dropped = {}
  BY <1>1, <1>2, <1>3, <1>4
<1>7. todo' # <<>> => \E j : CalledLast(history.whole, PendingIds(todo'), j)
  BY <1>2, <1>4 DEF CalledLast
<1> QED BY <1>1, <1>3, <1>4, <1>5, <1>6, <1>7 DEF ConversationInv

LEMMA ConversationStep == TInv /\ ConversationInv /\ [Next]_vars => ConversationInv'
<1> SUFFICES ASSUME TInv, ConversationInv, [Next]_vars PROVE ConversationInv'
  OBVIOUS
<1> DEFINE w == history.whole
<1>0. history \in HistorySet /\ w \in Seq(MessageSet) /\ todo \in Seq(CallSet) /\ calls \in Nat
  BY HistoryFields DEF TInv, LoopType
<1>1. CASE Run
  <2> DEFINE m == InitialModelMessages
  <2>1. /\ history'.whole = m /\ history'.dropped = {} /\ todo' = todo /\ at = "start"
    BY <1>1 DEF Run, NoHistory, At
  <2>2. todo' = <<>>
    BY <2>1 DEF TInv, LoopType
  <2>3. \A i \in 1 .. Len(m) : m[i].role = "user" /\ m[i].calls = <<>>
    BY DEF InitialModelMessages, Task, Message
  <2>4. TaskFirst(m)
    BY DEF InitialModelMessages, TaskFirst
  <2>5. /\ CallsAnswered(m, {}) /\ ObservationsCalled(m) /\ NoneAnswered(m, {})
        /\ Numbered(m, calls')
    BY <2>3 DEF CallsAnswered, ObservationsCalled, NoneAnswered, Numbered
  <2>6. PendingIds(todo)' = {} /\ Unanswered' = {}
    <3>1. PendingIds(todo)' = {}
      BY <2>2 DEF PendingIds
    <3> QED BY <2>1, <3>1 DEF Unanswered
  <2>7. \A i, k \in 1 .. Len(todo') : todo'[i].id = todo'[k].id => i = k
    BY <2>2
  <2> HIDE DEF m
  <2> QED BY <2>1, <2>2, <2>4, <2>5, <2>6, <2>7 DEF ConversationInv
<1>2. CASE RunWithoutPacket \/ Answer \/ ExecuteFails
  <2>1. at' = "ended"
    BY <1>2 DEF RunWithoutPacket, Answer, ExecuteFails, EndRun
  <2> QED BY <2>1 DEF ConversationInv
<1>3. CASE RequestTurn \/ Suspend \/ EndResumedRound
  <2>1. history' = history /\ todo' = todo /\ calls' = calls /\ at \notin {"start", "ended"}
    BY <1>3 DEF RequestTurn, Suspend, EndResumedRound, At
  <2> QED BY <2>1, ConversationSame
<1>4. CASE CallTools \/ AskApproval
  <2>1. at = "turn"
    BY <1>4 DEF CallTools, AskApproval, At
  <2>2. CASE messages' = messages /\ history' = history
    <3>1. AskApproval
      <4>1. SUFFICES ASSUME CallTools PROVE FALSE
        BY <1>4
      <4>2. PICK count : messages' = Append(messages, Assistant(NextIds(count)))
        BY <4>1 DEF CallTools, Respond
      <4>3. messages \in Seq(MessageSet)
        BY DEF TInv, LoopType
      <4>4. Len(messages') = Len(messages) + 1 /\ Len(messages) \in Nat
        BY <4>2, <4>3
      <4> QED BY <2>2, <4>4
    <3>2. todo' = todo
      BY <3>1 DEF AskApproval
    <3>3. calls' = calls
      <4>1. CASE UNCHANGED <<calls, messages, history>>
        BY <4>1
      <4>2. CASE \E count : Respond(count)
        <5>1. PICK count : Respond(count)
          BY <4>2
        <5>2. Len(messages') = Len(messages) + 1 /\ Len(messages) \in Nat
          BY <5>1 DEF Respond, TInv, LoopType
        <5> QED BY <2>2, <5>2
      <4> QED BY <3>1, <4>1, <4>2 DEF AskApproval
    <3> QED BY <2>1, <2>2, <3>2, <3>3, ConversationSame
  <2>3. CASE ~(messages' = messages /\ history' = history)
    BY <1>4, <2>1, <2>3, ConversationCalls
  <2> QED BY <2>2, <2>3
<1>5. CASE ExecuteCall
  BY <1>5, ConversationObserved
<1>6. CASE EndRound
  <2> DEFINE d == Decision(results)
             steering == IF d = "none" THEN <<>> ELSE <<Steering(d)>>
  <2>1. /\ history'.whole = w \o steering /\ history'.dropped = history.dropped /\ calls' = calls
        /\ at = "calls" /\ at' = "request" /\ todo = <<>> /\ todo' = todo
    BY <1>0, <1>6 DEF EndRound, At, HistorySet
  <2>2. CASE d = "none"
    <3>1. history'.whole = w
      BY <1>0, <2>1, <2>2, ConcatEmptySeq
    <3> QED BY <2>1, <3>1, ConversationSame
  <2>3. CASE d # "none"
    <3> DEFINE m == Steering(d)
    <3>1. m \in MessageSet /\ m.role = "user" /\ m.calls = <<>>
      BY <2>3, DecisionType, MessageTypes DEF Abouts, Steering, Message
    <3>2. history'.whole = w \o <<m>>
      BY <2>1, <2>3
    <3> HIDE DEF m
    <3>3. history'.whole = Append(w, m)
      BY <1>0, <3>1, <3>2, AppendIsConcat
    <3> QED BY <2>1, <3>1, <3>3, ConversationTold
  <2> QED BY <2>2, <2>3
<1>7. CASE RegisterProvider \/ UNCHANGED vars
  <2>1. UNCHANGED <<at, todo, calls, history>>
    BY <1>7 DEF RegisterProvider, vars, turnVars
  <2>2. PendingIds(todo)' = PendingIds(todo) /\ Unanswered' = Unanswered
    BY <2>1 DEF PendingIds, Unanswered
  <2> QED BY <2>1, <2>2 DEF ConversationInv
<1>8. CASE CutOff
  BY <1>8, ConversationCutOff
<1>9. CASE Resume
  <2> DEFINE told == IF approval /\ todo = <<>> THEN <<Granted>> ELSE <<>>
  <2>1. /\ history'.whole = w \o told /\ history'.dropped = history.dropped /\ calls' = calls
        /\ at = "suspended" /\ todo' = todo
    BY <1>0, <1>9 DEF Resume, At, HistorySet
  <2>2. CASE told = <<>>
    <3>1. history'.whole = w
      BY <1>0, <2>1, <2>2, ConcatEmptySeq
    <3> QED BY <2>1, <3>1, ConversationSame
  <2>3. CASE told # <<>>
    <3> DEFINE m == Granted
    <3>1. m \in MessageSet /\ m.role = "user" /\ m.calls = <<>>
      BY MessageTypes DEF Granted, Message
    <3>2. history'.whole = w \o <<m>> /\ todo = <<>>
      BY <2>1, <2>3
    <3> HIDE DEF m
    <3>3. history'.whole = Append(w, m)
      BY <1>0, <3>1, <3>2, AppendIsConcat
    <3> QED BY <2>1, <3>1, <3>2, <3>3, ConversationTold
  <2> QED BY <2>2, <2>3
<1> QED BY <1>1, <1>2, <1>3, <1>4, <1>5, <1>6, <1>7, <1>8, <1>9 DEF Next

(* What the model is shown keeps the task and whole rounds, but for the     *)
(* calls that were dropped, which have no observation.                     *)
THEOREM TaskAndRounds == Spec => []TaskAndRoundsKept
<1>1. ASSUME TInv, WindowInv, ConversationInv PROVE TaskAndRoundsKept
  <2> SUFFICES ASSUME at = "turn" PROVE TaskAndRoundsKept
    BY DEF TaskAndRoundsKept, At
  <2> DEFINE w == history.whole
             ids == history.dropped
  <2>1. w \in Seq(MessageSet) /\ MaxMessages \in Nat /\ messages \in Seq(MessageSet)
    BY <1>1, HistoryFields, ModelTurnsAssumption DEF TInv, LoopType
  <2>2. messages = TrimMessagesToWindow(w, MaxMessages)
    BY <1>1 DEF WindowInv, WindowIsOfTheWhole, At
  <2>3. Unanswered = ids
    <3>1. todo = <<>>
      BY <1>1 DEF TInv, LoopType
    <3> QED BY <3>1, NothingPending DEF Unanswered
  <2>4. /\ CallsAnswered(w, ids) /\ NoneAnswered(w, ids) /\ ObservationsCalled(w)
        /\ HasInput => Len(w) >= 1 /\ w[1] = Task
    BY <1>1, <2>3 DEF ConversationInv, TaskFirst
  <2>5. PICK d \in Nat : EndOf(messages, w, d)
                         /\ (Len(messages) >= 1 => messages[1] = w[1 + d] \/ messages[1].role = "user")
    BY <2>1, <2>2, WindowEnds
  <2>6. HasInput => messages[1] = Task
    BY <2>1, <2>2, <2>4, WindowEnds
  <2> HIDE DEF w, ids
  <2>7. ASSUME NEW i \in 1 .. Len(messages)
        PROVE  /\ \A id \in Range(messages[i].calls) : messages[i].role = "assistant" =>
                    (id \in ids <=>
                       ~\E j \in 1 .. Len(messages) : j > i /\ messages[j] = ObservationOf(id))
               /\ messages[i].role = "tool" =>
                    \/ \E j \in 1 .. i - 1 : /\ messages[j].role = "assistant"
                                             /\ messages[i].calls[1] \in Range(messages[j].calls)
                    \/ \A j \in 1 .. i - 1 : messages[j].role = "tool" \/ j = 1
    BY <2>1, <2>4, <2>5, RoundsInWindow
  <2>8. DOMAIN messages = 1 .. Len(messages)
    BY <2>1
  <2> QED BY <2>6, <2>7, <2>8 DEF TaskAndRoundsKept, ObservationOf, ids
<1>2. Init => WindowInv /\ ConversationInv
  BY DEF Init, WindowInv, WindowIsOfTheWhole, At, ConversationInv
<1> QED BY <1>1, <1>2, TypeInit, TypeStep, WindowStep, ConversationStep, PTL DEF Spec

(***************************************************************************)
(* A stalling model is steered                                             *)
(***************************************************************************)
SteeredIn(w, s, reason) == {i \in s + 1 .. Len(w) : w[i] = Steering(reason)}
Times(o, sig) == UNION {{k} \X {i \in DOMAIN o[k] : o[k][i] = sig} : k \in DOMAIN o}
NewIn(o, k) == \E sig \in Range(o[k]) : \A j \in 1 .. k - 1 : sig \notin Range(o[j])

(* A stretch of rounds without anything new is no longer than the streak. *)
StreakOf(o, streak) ==
  \A k \in 1 .. Len(o) :
    (\A j \in 1 .. Len(o) : j >= k => ~NewIn(o, j)) => streak >= Len(o) - k + 1

LEMMA InRounds ==
  /\ \A reason : Steered(reason) = SteeredIn(history.whole, history.start, reason)
  /\ \A sig : Observations(sig) = Times(history.observed, sig)
  /\ \A k : NovelRound(k) = NewIn(history.observed, k)
BY DEF Steered, SteeredIn, Observations, Times, NovelRound, NewIn

LEMMA TimesGrow ==
  ASSUME NEW o \in Seq(Seq(Signature)), NEW r \in Seq(Signature), NEW v, v = Append(o, r),
         NEW sig, IsFiniteSet(Times(o, sig))
  PROVE  /\ IsFiniteSet(Times(v, sig))
         /\ Cardinality(Times(v, sig)) = Cardinality(Times(o, sig)) + Occurrences(r, sig)
<1> DEFINE I == {i \in DOMAIN r : r[i] = sig}
           n == Len(o) + 1
           new == {n} \X I
<1>1. /\ v \in Seq(Seq(Signature)) /\ Len(v) = n /\ Len(o) \in Nat /\ v[n] = r
      /\ \A i \in 1 .. Len(o) : v[i] = o[i]
  BY Appending
<1>2. DOMAIN v = 1 .. n /\ DOMAIN o = 1 .. Len(o)
  BY <1>1
<1>3. Times(v, sig) = Times(o, sig) \cup new
  <2> DEFINE part(q, k) == {k} \X {i \in DOMAIN q[k] : q[k][i] = sig}
  <2>1. ASSUME NEW k \in 1 .. Len(o) PROVE part(v, k) = part(o, k)
    BY <1>1
  <2>2. part(v, n) = new
    BY <1>1
  <2>3. Times(v, sig) = UNION {part(v, k) : k \in 1 .. n}
    BY <1>2 DEF Times
  <2>4. Times(o, sig) = UNION {part(o, k) : k \in 1 .. Len(o)}
    BY <1>2 DEF Times
  <2>5. \A k : k \in 1 .. n <=> k \in 1 .. Len(o) \/ k = n
    BY <1>1
  <2> HIDE DEF I, n, part, new
  <2>6. ASSUME NEW t \in Times(v, sig) PROVE t \in Times(o, sig) \cup new
    <3>1. PICK k \in 1 .. n : t \in part(v, k)
      BY <2>3
    <3> QED BY <2>1, <2>2, <2>4, <2>5, <3>1
  <2>7. ASSUME NEW t \in Times(o, sig) PROVE t \in Times(v, sig)
    <3>1. PICK k \in 1 .. Len(o) : t \in part(o, k)
      BY <2>4
    <3> QED BY <2>1, <2>3, <2>5, <3>1
  <2>8. new \subseteq Times(v, sig)
    BY <2>2, <2>3, <2>5
  <2> QED BY <2>6, <2>7, <2>8
<1>4. IsFiniteSet(I) /\ Cardinality(I) = Occurrences(r, sig)
  <2>1. I \subseteq 1 .. Len(r) /\ Len(r) \in Nat
    OBVIOUS
  <2>2. IsFiniteSet(1 .. Len(r))
    BY <2>1, FS_Interval
  <2> QED BY <2>1, <2>2, FS_Subset DEF Occurrences
<1>5. IsFiniteSet(new) /\ Cardinality(new) = Occurrences(r, sig)
  <2>1. IsFiniteSet({n}) /\ Cardinality({n}) = 1
    BY FS_Singleton
  <2> HIDE DEF I, n
  <2>2. IsFiniteSet(new) /\ Cardinality(new) = Cardinality({n}) * Cardinality(I)
    BY <1>4, <2>1, FS_Product
  <2>3. Cardinality(I) \in Nat
    BY <1>4, FS_CardinalityType
  <2> QED BY <1>4, <2>1, <2>2, <2>3
<1>6. Times(o, sig) \cap new = {}
  <2>1. SUFFICES ASSUME NEW t \in Times(o, sig), t \in new PROVE FALSE
    OBVIOUS
  <2>2. PICK k \in 1 .. Len(o) : t \in {k} \X {i \in DOMAIN o[k] : o[k][i] = sig}
    BY <1>2 DEF Times
  <2>3. t[1] = k /\ t[1] = n
    BY <2>1, <2>2
  <2> QED BY <1>1, <2>3
<1> HIDE DEF new
<1>7. IsFiniteSet(Times(o, sig) \cup new)
      /\ Cardinality(Times(o, sig) \cup new)
           = Cardinality(Times(o, sig)) + Cardinality(new) - Cardinality(Times(o, sig) \cap new)
  BY <1>5, FS_Union
<1>8. Cardinality({}) = 0 /\ Cardinality(Times(o, sig)) \in Nat /\ Cardinality(new) \in Nat
  BY <1>5, FS_EmptySet, FS_CardinalityType
<1>9. Cardinality(Times(o, sig) \cup new) = Cardinality(Times(o, sig)) + Cardinality(new) - 0
  BY <1>6, <1>7, <1>8
<1>10. Cardinality(Times(o, sig) \cup new) = Cardinality(Times(o, sig)) + Cardinality(new)
  BY <1>8, <1>9
<1> QED BY <1>3, <1>5, <1>7, <1>10

LEMMA TimesNone ==
  ASSUME NEW o \in Seq(Seq(Signature)), NEW sig, IsFiniteSet(Times(o, sig)),
         Cardinality(Times(o, sig)) = 0, NEW j \in 1 .. Len(o)
  PROVE  sig \notin Range(o[j])
<1>1. Times(o, sig) = {}
  BY FS_EmptySet
<1>2. SUFFICES ASSUME sig \in Range(o[j]) PROVE FALSE
  OBVIOUS
<1>3. PICK i \in DOMAIN o[j] : o[j][i] = sig
  BY <1>2 DEF Range
<1>4. j \in DOMAIN o
  OBVIOUS
<1>5. <<j, i>> \in Times(o, sig)
  BY <1>3, <1>4 DEF Times
<1> QED BY <1>1, <1>5

(* A list of numbers has a greatest one. *)
LEMMA GreatestOf ==
  ASSUME NEW n \in Nat \ {0}, NEW f, \A i \in 1 .. n : f[i] \in Nat
  PROVE  \E k \in 1 .. n : \A i \in 1 .. n : f[i] <= f[k]
<1> DEFINE P(m) == \E k \in 1 .. m : \A i \in 1 .. m : f[i] <= f[k]
           B == {m \in 1 .. n : ~P(m)}
<1>1. SUFFICES ASSUME B # {} PROVE FALSE
  <2>1. n \in 1 .. n
    OBVIOUS
  <2>2. ~P(n) => n \in B
    BY <2>1
  <2> HIDE DEF B
  <2> QED BY <2>2
<1>2. B \subseteq Nat
  OBVIOUS
<1>3. PICK m \in B : \A b \in B : m <= b
  BY <1>1, <1>2, LeastOf
<1>4. m \in 1 .. n /\ ~P(m)
  OBVIOUS
<1>5. m # 1
  <2>1. \A i \in 1 .. 1 : f[i] <= f[1]
    OBVIOUS
  <2>2. P(1)
    BY <2>1
  <2> HIDE DEF P
  <2> QED BY <1>4, <2>2
<1>6. P(m - 1)
  <2>1. m - 1 \in 1 .. n /\ ~(m <= m - 1)
    BY <1>4, <1>5
  <2> HIDE DEF P
  <2> QED BY <1>3, <2>1
<1>7. PICK k \in 1 .. m - 1 : \A i \in 1 .. m - 1 : f[i] <= f[k]
  BY <1>6
<1>8. k \in 1 .. m /\ m \in 1 .. m /\ f[k] \in Nat /\ f[m] \in Nat
  BY <1>4, <1>7
<1>9. CASE f[m] <= f[k]
  <2>1. \A i \in 1 .. m : f[i] <= f[k]
    <3>1. \A i \in 1 .. m : i = m \/ i \in 1 .. m - 1
      BY <1>4
    <3> QED BY <1>7, <1>9, <3>1
  <2> QED BY <1>4, <1>8, <2>1
<1>10. CASE ~(f[m] <= f[k])
  <2>1. ASSUME NEW i \in 1 .. m PROVE f[i] <= f[m]
    <3>1. i = m \/ i \in 1 .. m - 1
      BY <1>4
    <3>2. f[i] \in Nat
      BY <1>4
    <3> QED BY <1>7, <1>8, <1>10, <3>1, <3>2
  <2> QED BY <1>4, <1>8, <2>1
<1> QED BY <1>9, <1>10

SteeredNow(reason) == SteeredIn(history.whole, history.start, reason)

(* The controller remembers the reasons it gave since the activation began, *)
(* each once; a suspension forgets them, and the resume begins anew.       *)
SteeringInv ==
  /\ history.start <= Len(history.whole)
  /\ \A reason \in Reasons : \A i \in SteeredNow(reason) : \A j \in SteeredNow(reason) : i = j
  /\ at # "suspended" =>
       \A reason \in Reasons : reason \in controller.replans <=> SteeredNow(reason) # {}

(* It counts what it observed, and the rounds without anything new. *)
CountInv ==
  /\ resumed => history.observed = <<>>
  /\ at # "suspended" =>
       /\ \A sig : /\ IsFiniteSet(Times(history.observed, sig))
                   /\ SeenBefore(sig) = Cardinality(Times(history.observed, sig))
       /\ StreakOf(history.observed, controller.streak)

(* Before its next turn the model was told what is to be said of the round. *)
DueInv ==
  at \in {"request", "turn"} /\ history.observed # <<>> /\ finalizing = FALSE =>
    /\ Repeating => "repeated" \in controller.replans
    /\ NoProgress /\ ~Repeating /\ iteration >= IterationFloor =>
         "no_new_observation" \in controller.replans

LEMMA SteeredOther ==
  ASSUME NEW w \in Seq(MessageSet), NEW s \in Nat, s <= Len(w), NEW m \in MessageSet,
         NEW reason, m # Steering(reason)
  PROVE  SteeredIn(Append(w, m), s, reason) = SteeredIn(w, s, reason)
<1> DEFINE st == Steering(reason)
<1>1. PICK v : v = Append(w, m)
  OBVIOUS
<1>2. /\ Len(v) = Len(w) + 1 /\ Len(w) \in Nat /\ v[Len(w) + 1] = m
      /\ \A i \in 1 .. Len(w) : v[i] = w[i]
  BY <1>1, Appending
<1>3. m # st
  OBVIOUS
<1> HIDE DEF st
<1>4. \A i : i \in s + 1 .. Len(v) <=> i \in s + 1 .. Len(w) \/ i = Len(w) + 1
  BY <1>2
<1>5. \A i \in s + 1 .. Len(w) : v[i] = w[i]
  BY <1>2
<1>6. SteeredIn(v, s, reason) = {i \in s + 1 .. Len(v) : v[i] = st}
      /\ SteeredIn(w, s, reason) = {i \in s + 1 .. Len(w) : w[i] = st}
  BY DEF SteeredIn, st
<1>7. SteeredIn(v, s, reason) = SteeredIn(w, s, reason)
  BY <1>2, <1>3, <1>4, <1>5, <1>6
<1> QED BY <1>1, <1>7

LEMMA SteeredFirst ==
  ASSUME NEW w \in Seq(MessageSet), NEW s \in Nat, s <= Len(w), NEW m \in MessageSet,
         NEW reason, m = Steering(reason)
  PROVE  SteeredIn(Append(w, m), s, reason) = SteeredIn(w, s, reason) \cup {Len(w) + 1}
<1> DEFINE st == Steering(reason)
<1>1. PICK v : v = Append(w, m)
  OBVIOUS
<1>2. /\ Len(v) = Len(w) + 1 /\ Len(w) \in Nat /\ v[Len(w) + 1] = m
      /\ \A i \in 1 .. Len(w) : v[i] = w[i]
  BY <1>1, Appending
<1>3. m = st
  OBVIOUS
<1> HIDE DEF st
<1>4. \A i : i \in s + 1 .. Len(v) <=> i \in s + 1 .. Len(w) \/ i = Len(w) + 1
  BY <1>2
<1>5. \A i \in s + 1 .. Len(w) : v[i] = w[i]
  BY <1>2
<1>6. SteeredIn(v, s, reason) = {i \in s + 1 .. Len(v) : v[i] = st}
      /\ SteeredIn(w, s, reason) = {i \in s + 1 .. Len(w) : w[i] = st}
  BY DEF SteeredIn, st
<1>7. SteeredIn(v, s, reason) = SteeredIn(w, s, reason) \cup {Len(w) + 1}
  BY <1>2, <1>3, <1>4, <1>5, <1>6
<1> QED BY <1>1, <1>7

LEMMA SteeringsDiffer ==
  /\ \A cs, reason : Assistant(cs) # Steering(reason)
  /\ \A c, reason : Observation(c) # Steering(reason)
  /\ \A a, b : Steering(a) = Steering(b) => a = b
<1>1. ASSUME NEW cs, NEW reason PROVE Assistant(cs).role # Steering(reason).role
  BY DEF Assistant, Steering, Message
<1>2. ASSUME NEW c, NEW reason PROVE Observation(c).role # Steering(reason).role
  BY DEF Observation, Steering, Message
<1>3. \A a : Steering(a).about = a
  BY DEF Steering, Message
<1>4. \A cs, reason : Assistant(cs) # Steering(reason)
  BY <1>1, Zenon
<1>5. \A c, reason : Observation(c) # Steering(reason)
  BY <1>2, Zenon
<1>6. ASSUME NEW a, NEW b, Steering(a) = Steering(b) PROVE a = b
  <2>1. Steering(a).about = Steering(b).about
    BY <1>6
  <2>2. Steering(a).about = a /\ Steering(b).about = b
    BY <1>3
  <2> QED BY <2>1, <2>2
<1> QED BY <1>4, <1>5, <1>6

(* A message that is no steering. *)
LEMMA SteeringOther ==
  ASSUME TInv, SteeringInv, at # "suspended", NEW m \in MessageSet,
         \A reason \in Reasons : m # Steering(reason),
         history'.whole = Append(history.whole, m), history'.start = history.start,
         at' # "suspended" => controller'.replans = controller.replans
  PROVE  SteeringInv'
<1> DEFINE w == history.whole
           s == history.start
<1>1. w \in Seq(MessageSet) /\ s \in Nat /\ s <= Len(w)
  BY HistoryFields DEF TInv, LoopType, SteeringInv
<1>2. PICK v : v = Append(w, m)
  OBVIOUS
<1>3. Len(v) = Len(w) + 1 /\ Len(w) \in Nat
  BY <1>1, <1>2, Appending
<1>4. \A reason \in Reasons : SteeredNow(reason) = SteeredIn(w, s, reason)
  BY DEF SteeredNow
<1>5. \A reason \in Reasons : SteeredNow(reason)' = SteeredIn(v, s, reason)
  BY <1>2 DEF SteeredNow
<1> HIDE DEF w, s
<1>6. \A reason \in Reasons : SteeredNow(reason)' = SteeredNow(reason)
  <2>1. SUFFICES ASSUME NEW reason \in Reasons PROVE SteeredIn(v, s, reason) = SteeredIn(w, s, reason)
    BY <1>4, <1>5
  <2>2. m # Steering(reason)
    OBVIOUS
  <2> QED BY <1>1, <1>2, <2>2, SteeredOther
<1>7. (history.start <= Len(history.whole))'
  BY <1>1, <1>2, <1>3 DEF w, s
<1> QED BY <1>6, <1>7 DEF SteeringInv

LEMMA SteeringSame ==
  ASSUME SteeringInv, history'.whole = history.whole, history'.start = history.start,
         at' # "suspended" => controller'.replans = controller.replans /\ at # "suspended"
  PROVE  SteeringInv'
<1>1. \A reason \in Reasons : SteeredNow(reason)' = SteeredNow(reason)
  BY DEF SteeredNow
<1> QED BY <1>1 DEF SteeringInv

(* Nothing was said yet. *)
LEMMA SteeringFresh ==
  ASSUME controller.replans = {}, history.start = Len(history.whole),
         history.whole \in Seq(MessageSet)
  PROVE  SteeringInv
<1>1. Len(history.whole) \in Nat
  OBVIOUS
<1>2. \A reason \in Reasons : SteeredNow(reason) = {}
  BY <1>1 DEF SteeredNow, SteeredIn
<1> QED BY <1>1, <1>2 DEF SteeringInv

LEMMA SteeringEnd ==
  ASSUME EndRun PROVE SteeringInv'
<1>1. controller'.replans = {} /\ history'.start = 0 /\ history'.whole = <<>>
  BY DEF EndRun, NewController, NoHistory
<1>2. \A reason \in Reasons : SteeredNow(reason)' = {}
  BY <1>1 DEF SteeredNow, SteeredIn
<1> QED BY <1>1, <1>2 DEF SteeringInv

(* In a round that is over, a reason is given once. *)
LEMMA SteeringRound ==
  ASSUME TInv, SteeringInv, EndRound
  PROVE  SteeringInv'
<1> DEFINE w == history.whole
           s == history.start
           d == Decision(results)
           m == Steering(d)
<1>1. history \in HistorySet /\ w \in Seq(MessageSet) /\ s \in Nat /\ s <= Len(w)
  BY HistoryFields DEF TInv, LoopType, SteeringInv
<1>2. /\ at = "calls" /\ at' = "request" /\ history'.start = s
      /\ history'.whole = w \o (IF d = "none" THEN <<>> ELSE <<m>>)
      /\ controller'.replans = controller.replans \cup ({d} \cap Reasons)
  BY <1>1 DEF EndRound, At, HistorySet, Reasons
<1>3. d \in {"none", "finalize", "repeated", "no_new_observation"}
  BY DecisionType
<1>4. d \notin controller.replans
  <2>1. controller.replans \in SUBSET Reasons
    BY DEF TInv, LoopType, ControllerSet
  <2> QED BY <2>1 DEF Decision, Replan, Reasons
<1>5. CASE d = "none"
  <2>1. history'.whole = w
    BY <1>1, <1>2, <1>5, ConcatEmptySeq
  <2>2. controller'.replans = controller.replans
    BY <1>2, <1>5 DEF Reasons
  <2> QED BY <1>2, <2>1, <2>2, SteeringSame
<1>6. CASE d # "none"
  <2>1. m \in MessageSet /\ \A reason : m = Steering(reason) => reason = d
    BY <1>3, <1>6, MessageTypes, SteeringsDiffer DEF Abouts
  <2>2. history'.whole = w \o <<m>>
    BY <1>2, <1>6
  <2> DEFINE n == Len(w) + 1
  <2> HIDE DEF m
  <2>3. history'.whole = Append(w, m)
    BY <1>1, <2>1, <2>2, AppendIsConcat
  <2>4. CASE d = "finalize"
    <3>1. \A reason \in Reasons : m # Steering(reason)
      BY <2>1, <2>4 DEF Reasons
    <3>2. controller'.replans = controller.replans
      BY <1>2, <2>4 DEF Reasons
    <3> QED BY <1>2, <2>1, <2>3, <3>1, <3>2, SteeringOther
  <2>5. CASE d \in Reasons
    <3>1. PICK v : v = Append(w, m)
      OBVIOUS
    <3>2. Len(v) = Len(w) + 1 /\ Len(w) \in Nat
      BY <1>1, <2>1, <3>1, Appending
    <3>3. SteeredNow(d) = {}
      BY <1>2, <1>4, <2>5 DEF SteeringInv
    <3>4. ASSUME NEW reason \in Reasons
          PROVE  /\ SteeredNow(reason) = SteeredIn(w, s, reason)
                 /\ SteeredNow(reason)' = SteeredIn(v, s, reason)
      BY <1>2, <2>3, <3>1 DEF SteeredNow
    <3> HIDE DEF w, s, d
    <3>5. m = Steering(d)
      BY DEF m, d
    <3>6. \A reason \in Reasons : reason # d => SteeredNow(reason)' = SteeredNow(reason)
      <4>1. SUFFICES ASSUME NEW reason \in Reasons, reason # d
                     PROVE  SteeredIn(v, s, reason) = SteeredIn(w, s, reason)
        BY <3>4
      <4>2. m # Steering(reason)
        BY <2>1, <4>1
      <4> QED BY <1>1, <2>1, <3>1, <4>2, SteeredOther
    <3>7. SteeredIn(v, s, d) = SteeredIn(w, s, d) \cup {n}
      BY <1>1, <2>1, <3>1, <3>5, SteeredFirst
    <3>8. SteeredIn(w, s, d) = {} /\ SteeredIn(v, s, d) = {n}
      BY <2>5, <3>3, <3>4, <3>7
    <3>9. \A reason \in Reasons : reason = d => SteeredNow(reason)' = {n}
      BY <3>4, <3>8
    <3>10. controller'.replans = controller.replans \cup {d}
      BY <1>2, <2>5 DEF d
    <3>11. (history.start <= Len(history.whole))'
      BY <1>1, <1>2, <2>3, <3>1, <3>2
    <3>12. ASSUME NEW reason \in Reasons
           PROVE  /\ \A i \in SteeredNow(reason)' : \A j \in SteeredNow(reason)' : i = j
                  /\ reason \in controller'.replans <=> SteeredNow(reason)' # {}
      <4>1. CASE reason = d
        BY <3>9, <3>10, <4>1
      <4>2. CASE reason # d
        BY <1>2, <3>6, <3>10, <4>2 DEF SteeringInv
      <4> QED BY <4>1, <4>2
    <3> QED BY <3>11, <3>12 DEF SteeringInv
  <2> QED BY <1>3, <1>6, <2>4, <2>5 DEF Reasons
<1> QED BY <1>5, <1>6

(* A run, and an activation after a suspension, begin with a new controller. *)
FreshInv ==
  /\ at \in {"start", "suspended"} => controller = NewController
  /\ at = "start" => history.observed = <<>>

LEMMA FreshStep == FreshInv /\ [Next]_vars => FreshInv'
<1> SUFFICES ASSUME FreshInv, [Next]_vars PROVE FreshInv'
  OBVIOUS
<1>1. CASE RunWithoutPacket \/ Answer \/ ExecuteFails
  BY <1>1 DEF RunWithoutPacket, Answer, ExecuteFails, EndRun, FreshInv
<1>2. CASE Run \/ RequestTurn \/ Resume \/ EndRound \/ EndResumedRound \/ Suspend
  BY <1>2 DEF Run, RequestTurn, Resume, EndRound, EndResumedRound, Suspend, FreshInv
<1>3. CASE CallTools \/ ExecuteCall \/ AskApproval \/ CutOff
  BY <1>3 DEF CallTools, ExecuteCall, AskApproval, CutOff, At, FreshInv
<1>4. CASE RegisterProvider \/ UNCHANGED vars
  BY <1>4 DEF RegisterProvider, vars, turnVars, FreshInv
<1> QED BY <1>1, <1>2, <1>3, <1>4 DEF Next

LEMMA SteeringStep ==
  TInv /\ SteeringInv /\ FreshInv /\ [Next]_vars => SteeringInv'
<1> SUFFICES ASSUME TInv, SteeringInv, FreshInv, [Next]_vars PROVE SteeringInv'
  OBVIOUS
<1>0. history \in HistorySet /\ history.whole \in Seq(MessageSet)
  BY HistoryFields DEF TInv, LoopType
<1>1. CASE Run
  <2>1. /\ history'.whole = InitialModelMessages /\ history'.start = 0
        /\ controller'.replans = {}
    BY <1>1 DEF Run, At, NoHistory, FreshInv, NewController
  <2>2. \A i \in 1 .. Len(InitialModelMessages) : InitialModelMessages[i].about = "task"
    BY DEF InitialModelMessages, Task, Message
  <2>3. \A reason \in Reasons : Steering(reason).about # "task"
    BY DEF Steering, Message, Reasons
  <2>4. Len(InitialModelMessages) \in Nat
    BY MessageTypes
  <2>5. ASSUME NEW reason \in Reasons PROVE SteeredNow(reason)' = {}
    <3>1. SteeredNow(reason)' = SteeredIn(InitialModelMessages, 0, reason)
      BY <2>1 DEF SteeredNow
    <3>2. \A i \in 0 + 1 .. Len(InitialModelMessages) : InitialModelMessages[i] # Steering(reason)
      BY <2>2, <2>3
    <3> QED BY <3>1, <3>2 DEF SteeredIn
  <2> QED BY <2>1, <2>4, <2>5 DEF SteeringInv
<1>2. CASE RunWithoutPacket \/ Answer \/ ExecuteFails
  BY <1>2, SteeringEnd DEF RunWithoutPacket, Answer, ExecuteFails
<1>3. CASE RequestTurn \/ EndResumedRound \/ Suspend \/ CutOff
  <2>1. /\ history'.whole = history.whole /\ history'.start = history.start
        /\ at' # "suspended" => controller' = controller /\ at # "suspended"
    BY <1>0, <1>3 DEF RequestTurn, EndResumedRound, Suspend, CutOff, At, HistorySet
  <2> QED BY <2>1, SteeringSame
<1>4. CASE RegisterProvider \/ UNCHANGED vars
  <2>1. history' = history /\ controller' = controller /\ at' = at
    BY <1>4 DEF RegisterProvider, vars, turnVars
  <2> QED BY <2>1, SteeringSame
<1>5. CASE CallTools \/ AskApproval
  <2>1. at = "turn" /\ (at' # "suspended" => controller' = controller)
    BY <1>5 DEF CallTools, AskApproval, At
  <2>2. CASE messages' = messages /\ history' = history
    BY <2>1, <2>2, SteeringSame
  <2>3. CASE ~(messages' = messages /\ history' = history)
    <3>1. PICK count \in Nat :
            /\ history'.whole = Append(history.whole, Assistant(NextIds(count)))
            /\ history'.start = history.start
      BY <1>5, <2>3, Responded
    <3> DEFINE m == Assistant(NextIds(count))
    <3>2. m \in MessageSet
      BY ResponseType
    <3>3. \A reason \in Reasons : m # Steering(reason)
      BY SteeringsDiffer
    <3>4. history'.whole = Append(history.whole, m)
      BY <3>1
    <3> HIDE DEF m
    <3> QED BY <2>1, <3>1, <3>2, <3>3, <3>4, SteeringOther
  <2> QED BY <2>2, <2>3
<1>6. CASE ExecuteCall
  <2> DEFINE m == Observation(Head(todo))
  <2>1. /\ history'.whole = Append(history.whole, m) /\ history'.start = history.start
        /\ controller' = controller /\ at = "calls" /\ todo # <<>>
    BY <1>0, <1>6 DEF ExecuteCall, At, HistorySet
  <2>2. m \in MessageSet
    BY <2>1, MessageTypes DEF TInv, LoopType
  <2>3. \A reason \in Reasons : m # Steering(reason)
    BY SteeringsDiffer
  <2> HIDE DEF m
  <2> QED BY <2>1, <2>2, <2>3, SteeringOther
<1>7. CASE Resume
  <2> DEFINE told == IF approval /\ todo = <<>> THEN <<Granted>> ELSE <<>>
             w == history.whole
  <2>1. /\ history'.whole = w \o told /\ history'.start = Len(w)
        /\ controller'.replans = {}
    BY <1>0, <1>7 DEF Resume, At, HistorySet, FreshInv, NewController
  <2>2. told \in Seq(MessageSet)
    BY ToldType
  <2>3. \A reason \in Reasons : \A i \in 1 .. Len(told) : told[i] # Steering(reason)
    <3>1. Granted.about = "approval" /\ \A reason : Steering(reason).about = reason
      BY DEF Granted, Steering, Message
    <3>2. \A reason \in Reasons : Granted # Steering(reason)
      BY <3>1 DEF Reasons
    <3>3. CASE told = <<Granted>>
      BY <3>2, <3>3
    <3>4. CASE told = <<>>
      BY <3>4
    <3> QED BY <3>3, <3>4
  <2> HIDE DEF told
  <2>4. PICK v : v = w \o told
    OBVIOUS
  <2>5. /\ Len(v) = Len(w) + Len(told) /\ Len(w) \in Nat /\ Len(told) \in Nat
        /\ \A i \in 1 .. Len(v) : i > Len(w) => i - Len(w) \in 1 .. Len(told) /\ v[i] = told[i - Len(w)]
    BY <1>0, <2>2, <2>4, Joined
  <2>6. ASSUME NEW reason \in Reasons PROVE SteeredNow(reason)' = {}
    <3>1. SteeredNow(reason)' = SteeredIn(v, Len(w), reason)
      BY <2>1, <2>4 DEF SteeredNow
    <3>2. \A i \in Len(w) + 1 .. Len(v) : i \in 1 .. Len(v) /\ i > Len(w)
      BY <2>5
    <3>3. \A i \in Len(w) + 1 .. Len(v) : v[i] # Steering(reason)
      BY <2>3, <2>5, <3>2
    <3> QED BY <3>1, <3>3 DEF SteeredIn
  <2>7. (history.start <= Len(history.whole))'
    BY <2>1, <2>4, <2>5
  <2> QED BY <2>1, <2>6, <2>7 DEF SteeringInv
<1>8. CASE EndRound
  BY <1>8, SteeringRound
<1> QED BY <1>1, <1>2, <1>3, <1>4, <1>5, <1>6, <1>7, <1>8 DEF Next

LEMMA NothingObserved ==
  /\ \A sig : IsFiniteSet(Times(<<>>, sig)) /\ Cardinality(Times(<<>>, sig)) = 0
  /\ \A streak : StreakOf(<<>>, streak)
<1>1. \A sig : Times(<<>>, sig) = {}
  BY DEF Times
<1>2. \A streak : StreakOf(<<>>, streak)
  BY DEF StreakOf
<1> QED BY <1>1, <1>2, FS_EmptySet

(* The counts after a round. *)
LEMMA SeenAfter ==
  ASSUME controller \in ControllerSet, NEW sigs \in Seq(Signature),
         controller'.seen = Seen(sigs), NEW sig
  PROVE  /\ SeenBefore(sig)' = SeenBefore(sig) + Occurrences(sigs, sig)
         /\ sig \in Range(sigs) => Seen(sigs)[sig] = SeenBefore(sig)'
<1>1. SeenBefore(sig) \in Nat
  BY SeenType
<1>2. Occurrences(sigs, sig) = 0 <=> sig \notin Range(sigs)
  BY OccurrencesType
<1>3. DOMAIN Seen(sigs) = DOMAIN controller.seen \cup Range(sigs)
      /\ (sig \in DOMAIN Seen(sigs) => Seen(sigs)[sig] = SeenBefore(sig) + Occurrences(sigs, sig))
  BY DEF Seen
<1>4. SeenBefore(sig)' = IF sig \in DOMAIN Seen(sigs) THEN Seen(sigs)[sig] ELSE 0
  BY DEF SeenBefore
<1>5. CASE sig \in DOMAIN Seen(sigs)
  BY <1>3, <1>4, <1>5
<1>6. CASE sig \notin DOMAIN Seen(sigs)
  <2>1. SeenBefore(sig) = 0
    BY <1>3, <1>6 DEF SeenBefore
  <2> QED BY <1>2, <1>3, <1>4, <1>6, <2>1
<1> QED BY <1>5, <1>6

LEMMA StreakAfter ==
  ASSUME TInv, CountInv, at = "calls"
  PROVE  StreakOf(Append(history.observed, results), Streak(results))
<1> DEFINE o == history.observed
<1>1. o \in Seq(Seq(Signature)) /\ results \in Seq(Signature) /\ controller.streak \in Nat
  BY HistoryFields DEF TInv, LoopType, ControllerSet
<1>2. PICK v : v = Append(o, results)
  OBVIOUS
<1>3. /\ Len(v) = Len(o) + 1 /\ Len(o) \in Nat /\ v[Len(v)] = results
      /\ \A i \in 1 .. Len(o) : v[i] = o[i]
  BY <1>1, <1>2, Appending
<1>4. /\ \A sig : IsFiniteSet(Times(o, sig)) /\ SeenBefore(sig) = Cardinality(Times(o, sig))
      /\ StreakOf(o, controller.streak)
  BY DEF CountInv
<1> HIDE DEF o
<1>5. ASSUME NEW j \in 1 .. Len(o) PROVE NewIn(v, j) <=> NewIn(o, j)
  <2>1. v[j] = o[j] /\ \A i \in 1 .. j - 1 : v[i] = o[i]
    BY <1>3
  <2> QED BY <2>1 DEF NewIn
<1>6. CASE Novel(results)
  <2>1. PICK sig \in Range(results) : SeenBefore(sig) = 0
    BY <1>6 DEF Novel
  <2>2. \A j \in 1 .. Len(o) : sig \notin Range(o[j])
    BY <1>1, <1>4, <2>1, TimesNone
  <2>3. \A j \in 1 .. Len(v) - 1 : sig \notin Range(v[j])
    BY <1>3, <2>2
  <2>4. NewIn(v, Len(v))
    BY <1>3, <2>1, <2>3 DEF NewIn
  <2>5. Len(v) \in 1 .. Len(v) /\ \A k \in 1 .. Len(v) : Len(v) >= k
    BY <1>3
  <2>6. StreakOf(v, Streak(results))
    BY <2>4, <2>5 DEF StreakOf
  <2> QED BY <1>2, <2>6 DEF o
<1>7. CASE ~Novel(results)
  <2>1. Streak(results) = controller.streak + 1
    BY <1>7 DEF Streak
  <2>2. ASSUME NEW k \in 1 .. Len(v), \A j \in 1 .. Len(v) : j >= k => ~NewIn(v, j)
        PROVE  Streak(results) >= Len(v) - k + 1
    <3>1. CASE k = Len(v)
      BY <1>1, <1>3, <2>1, <3>1
    <3>2. CASE k # Len(v)
      <4>1. k \in 1 .. Len(o)
        BY <1>3, <3>2
      <4>2. \A j \in 1 .. Len(o) : j >= k => ~NewIn(o, j)
        BY <1>3, <1>5, <2>2
      <4>3. controller.streak >= Len(o) - k + 1
        BY <1>4, <4>1, <4>2 DEF StreakOf
      <4> QED BY <1>1, <1>3, <2>1, <4>1, <4>3
    <3> QED BY <3>1, <3>2
  <2>3. StreakOf(v, Streak(results))
    BY <2>2 DEF StreakOf
  <2> QED BY <1>2, <2>3 DEF o
<1> QED BY <1>6, <1>7

LEMMA CountStep ==
  TInv /\ CountInv /\ FreshInv /\ [Next]_vars => CountInv'
<1> SUFFICES ASSUME TInv, CountInv, FreshInv, [Next]_vars PROVE CountInv'
  OBVIOUS
<1>0. history \in HistorySet /\ controller \in ControllerSet /\ results \in Seq(Signature)
      /\ history.observed \in Seq(Seq(Signature))
  BY HistoryFields DEF TInv, LoopType
<1>1. ASSUME controller' = NewController, history'.observed = <<>>
      PROVE  CountInv'
  <2>1. \A sig : SeenBefore(sig)' = 0
    BY <1>1 DEF SeenBefore, NewController
  <2> QED BY <1>1, <2>1, NothingObserved DEF CountInv
<1>2. CASE Run \/ Resume
  <2>1. controller' = NewController /\ history'.observed = <<>>
    BY <1>0, <1>2 DEF Run, Resume, At, FreshInv, NoHistory, HistorySet
  <2> QED BY <1>1, <2>1
<1>3. CASE RunWithoutPacket \/ Answer \/ ExecuteFails
  <2>1. controller' = NewController /\ history'.observed = <<>>
    BY <1>3 DEF RunWithoutPacket, Answer, ExecuteFails, EndRun, NoHistory
  <2> QED BY <1>1, <2>1
<1>4. CASE Suspend \/ AskApproval \/ CutOff
  <2>1. at' = "suspended" /\ (resumed' => resumed) /\ history'.observed = history.observed
    <3>1. CASE Suspend
      BY <3>1 DEF Suspend
    <3>2. CASE AskApproval
      BY <1>0, <3>2 DEF AskApproval, HistorySet
    <3>3. CASE CutOff
      BY <1>0, <3>3 DEF CutOff, HistorySet
    <3> QED BY <1>4, <3>1, <3>2, <3>3
  <2> QED BY <2>1 DEF CountInv
<1>5. CASE RequestTurn \/ CallTools \/ ExecuteCall \/ EndResumedRound \/ RegisterProvider
            \/ UNCHANGED vars
  <2>1. /\ history'.observed = history.observed /\ controller' = controller
        /\ resumed' = resumed \/ resumed' = FALSE
        /\ at' # "suspended" => at # "suspended"
    <3>1. CASE RequestTurn
      BY <3>1 DEF RequestTurn, At
    <3>2. CASE CallTools
      BY <1>0, <3>2 DEF CallTools, At, HistorySet
    <3>3. CASE ExecuteCall
      BY <1>0, <3>3 DEF ExecuteCall, At, HistorySet
    <3>4. CASE EndResumedRound
      BY <3>4 DEF EndResumedRound, At
    <3>5. CASE RegisterProvider \/ UNCHANGED vars
      BY <3>5 DEF RegisterProvider, vars, turnVars
    <3> QED BY <1>5, <3>1, <3>2, <3>3, <3>4, <3>5
  <2>2. \A sig : SeenBefore(sig)' = SeenBefore(sig)
    BY <2>1 DEF SeenBefore
  <2> QED BY <2>1, <2>2 DEF CountInv
<1>6. CASE EndRound
  <2>1. /\ history'.observed = Append(history.observed, results) /\ at = "calls" /\ resumed' = FALSE
        /\ controller'.seen = Seen(results) /\ controller'.streak = Streak(results)
    BY <1>0, <1>6 DEF EndRound, At, HistorySet, TInv, LoopType
  <2>2. PICK v : v = Append(history.observed, results)
    OBVIOUS
  <2>3. \A sig : IsFiniteSet(Times(history.observed, sig))
                 /\ SeenBefore(sig) = Cardinality(Times(history.observed, sig))
    BY <2>1 DEF CountInv
  <2>4. ASSUME NEW sig
        PROVE  IsFiniteSet(Times(v, sig)) /\ SeenBefore(sig)' = Cardinality(Times(v, sig))
    <3>1. /\ IsFiniteSet(Times(v, sig))
          /\ Cardinality(Times(v, sig)) = Cardinality(Times(history.observed, sig)) + Occurrences(results, sig)
      BY <1>0, <2>2, <2>3, TimesGrow
    <3>2. SeenBefore(sig)' = SeenBefore(sig) + Occurrences(results, sig)
      BY <1>0, <2>1, SeenAfter
    <3> QED BY <2>3, <3>1, <3>2
  <2>5. StreakOf(v, Streak(results))
    BY <2>1, <2>2, StreakAfter
  <2> QED BY <2>1, <2>2, <2>4, <2>5 DEF CountInv
<1> QED BY <1>2, <1>3, <1>4, <1>5, <1>6 DEF Next

LEMMA MaxRepeatIs ==
  ASSUME controller \in ControllerSet, NEW sigs \in Seq(Signature), sigs # <<>>
  PROVE  /\ \A sig \in Range(sigs) : MaxRepeat(sigs) >= Seen(sigs)[sig]
         /\ \E sig \in Range(sigs) : MaxRepeat(sigs) = Seen(sigs)[sig]
<1> DEFINE S == {Seen(sigs)[sig] : sig \in Range(sigs)}
           n == Len(sigs)
           f == [i \in 1 .. n |-> Seen(sigs)[sigs[i]]]
<1>1. n \in Nat \ {0} /\ \A x : x \in Range(sigs) <=> \E i \in 1 .. n : sigs[i] = x
  BY RangeOf
<1>2. \A sig \in Range(sigs) : Seen(sigs)[sig] \in Nat
  <2>1. Seen(sigs) \in Counts
    BY SeenType
  <2>2. \A sig \in Range(sigs) : sig \in DOMAIN Seen(sigs)
    BY DEF Seen
  <2> QED BY <2>1, <2>2 DEF Counts
<1>3. \A i \in 1 .. n : f[i] \in Nat
  BY <1>1, <1>2
<1>4. PICK k \in 1 .. n : \A i \in 1 .. n : f[i] <= f[k]
  <2> HIDE DEF f, n
  <2> QED BY <1>1, <1>3, GreatestOf
<1>5. sigs[k] \in Range(sigs) /\ f[k] \in S
  BY <1>1
<1>6. ASSUME NEW y \in S PROVE f[k] >= y
  <2>1. PICK sig \in Range(sigs) : y = Seen(sigs)[sig]
    OBVIOUS
  <2>2. PICK i \in 1 .. n : sigs[i] = sig
    BY <1>1
  <2>3. y = f[i]
    BY <2>1, <2>2
  <2> HIDE DEF f, n
  <2> QED BY <1>3, <1>4, <2>2, <2>3
<1>7. MaxRepeat(sigs) = CHOOSE x \in S : \A y \in S : x >= y
  BY DEF MaxRepeat, Max
<1> HIDE DEF S, f
<1>8. MaxRepeat(sigs) \in S /\ \A y \in S : MaxRepeat(sigs) >= y
  BY <1>5, <1>6, <1>7
<1> QED BY <1>8 DEF S

LEMMA DueAfterRound ==
  ASSUME TInv, CountInv, EndRound
  PROVE  DueInv'
<1>0. history \in HistorySet /\ controller \in ControllerSet /\ results \in Seq(Signature)
      /\ history.observed \in Seq(Seq(Signature)) /\ iteration \in Nat
  BY HistoryFields DEF TInv, LoopType
<1>1. /\ history'.observed = Append(history.observed, results) /\ at = "calls"
      /\ controller'.seen = Seen(results)
      /\ controller'.replans = controller.replans \cup ({Decision(results)} \cap Reasons)
      /\ finalizing' = (Decision(results) = "finalize") /\ iteration' = iteration + 1
  BY <1>0, <1>0 DEF EndRound, At, HistorySet, Reasons
<1>2. results # <<>>
  BY DEF EndRound, At, TInv, LoopType
<1>3. PICK v : v = Append(history.observed, results)
  OBVIOUS
<1>4. /\ v \in Seq(Seq(Signature)) /\ Len(v) \in Nat \ {0} /\ v[Len(v)] = results
  BY <1>0, <1>3, Appending
<1>5. ASSUME NEW sig \in Range(results)
      PROVE  TimesObserved(sig)' = Seen(results)[sig]
  <2>1. IsFiniteSet(Times(history.observed, sig))
        /\ SeenBefore(sig) = Cardinality(Times(history.observed, sig))
    BY <1>1 DEF CountInv
  <2>2. Cardinality(Times(v, sig)) = Cardinality(Times(history.observed, sig)) + Occurrences(results, sig)
    BY <1>0, <1>3, <2>1, TimesGrow
  <2>3. Seen(results)[sig] = SeenBefore(sig) + Occurrences(results, sig)
    BY <1>0, <1>1, SeenAfter
  <2>4. TimesObserved(sig)' = Cardinality(Times(v, sig))
    BY <1>1, <1>3 DEF TimesObserved, Observations, Times
  <2> QED BY <2>1, <2>2, <2>3, <2>4
<1>6. Repeating' <=> \E sig \in Range(results) : Seen(results)[sig] >= RepeatThreshold
  <2>1. Last(history'.observed) = results
    BY <1>1, <1>3, <1>4 DEF Last
  <2>2. Repeating' <=> \E sig \in Range(results) : TimesObserved(sig)' >= RepeatThreshold
    BY <2>1 DEF Repeating
  <2> QED BY <1>5, <2>2
<1>7. Repeating' <=> MaxRepeat(results) >= RepeatThreshold
  <2>1. \A sig \in Range(results) : MaxRepeat(results) >= Seen(results)[sig]
    BY <1>0, <1>2, MaxRepeatIs
  <2>2. PICK most \in Range(results) : MaxRepeat(results) = Seen(results)[most]
    BY <1>0, <1>2, MaxRepeatIs
  <2>3. \A sig \in Range(results) : Seen(results)[sig] \in Nat
    <3>1. Seen(results) \in Counts
      BY <1>0, SeenType
    <3>2. \A sig \in Range(results) : sig \in DOMAIN Seen(results)
      BY DEF Seen
    <3> QED BY <3>1, <3>2 DEF Counts
  <2>4. RepeatThreshold \in Nat
    BY ModelTurnsAssumption
  <2>5. ASSUME NEW sig \in Range(results), Seen(results)[sig] >= RepeatThreshold
        PROVE  MaxRepeat(results) >= RepeatThreshold
    BY <2>1, <2>2, <2>3, <2>4, <2>5
  <2> QED BY <1>6, <2>2, <2>5
<1>8. NoProgress' => Streak(results) >= StreakThreshold
  <2>1. SUFFICES ASSUME NoProgress' PROVE Streak(results) >= StreakThreshold
    OBVIOUS
  <2>2. StreakThreshold \in Nat \ {0} /\ Streak(results) \in Nat
    BY <1>0, ModelTurnsAssumption, SeenType
  <2>3. /\ Len(v) >= StreakThreshold
        /\ \A k \in Len(v) - StreakThreshold + 1 .. Len(v) : ~NewIn(v, k)
    BY <1>1, <1>3, <2>1 DEF NoProgress, NovelRound, NewIn
  <2>4. StreakOf(v, Streak(results))
    BY <1>1, <1>3, StreakAfter
  <2>5. PICK k : k = Len(v) - StreakThreshold + 1
    OBVIOUS
  <2>6. k \in 1 .. Len(v) /\ \A j \in 1 .. Len(v) : j >= k => ~NewIn(v, j)
    BY <1>4, <2>2, <2>3, <2>5
  <2>7. Streak(results) >= Len(v) - k + 1
    BY <2>4, <2>6 DEF StreakOf
  <2> QED BY <1>4, <2>2, <2>5, <2>7
<1>9. ASSUME finalizing' = FALSE
      PROVE  /\ Repeating' => "repeated" \in controller'.replans
             /\ NoProgress' /\ ~Repeating' /\ iteration' >= IterationFloor =>
                  "no_new_observation" \in controller'.replans
  <2>1. Decision(results) # "finalize"
    BY <1>1, <1>9
  <2>2. ~(iteration + 1 >= MaxToolIterations - 1)
    BY <2>1 DEF Decision
  <2>3. ASSUME Repeating' PROVE "repeated" \in controller'.replans
    <3>1. Decision(results) = Replan("repeated")
      BY <1>7, <2>2, <2>3 DEF Decision
    <3>2. "repeated" \in controller.replans \/ Decision(results) = "repeated"
      BY <3>1 DEF Replan
    <3> QED BY <1>1, <3>2 DEF Reasons
  <2>4. ASSUME NoProgress', ~Repeating', iteration' >= IterationFloor
        PROVE  "no_new_observation" \in controller'.replans
    <3>1. ~(MaxRepeat(results) >= RepeatThreshold)
      BY <1>7, <2>4
    <3>2. iteration + 1 >= IterationFloor /\ Streak(results) >= StreakThreshold
      BY <1>1, <1>8, <2>4
    <3>3. Decision(results) = Replan("no_new_observation")
      BY <2>2, <3>1, <3>2 DEF Decision
    <3>4. "no_new_observation" \in controller.replans \/ Decision(results) = "no_new_observation"
      BY <3>3 DEF Replan
    <3> QED BY <1>1, <3>4 DEF Reasons
  <2> QED BY <2>3, <2>4
<1> QED BY <1>9 DEF DueInv

LEMMA DueStep ==
  TInv /\ CountInv /\ DueInv /\ [Next]_vars => DueInv'
<1> SUFFICES ASSUME TInv, CountInv, DueInv, [Next]_vars PROVE DueInv'
  OBVIOUS
<1>1. CASE Run
  BY <1>1 DEF Run, NoHistory, DueInv
<1>2. CASE RunWithoutPacket \/ Answer \/ ExecuteFails
  BY <1>2 DEF RunWithoutPacket, Answer, ExecuteFails, EndRun, DueInv
<1>3. CASE CallTools \/ AskApproval \/ Suspend \/ CutOff \/ ExecuteCall
  <2>1. at' \notin {"request", "turn"}
    BY <1>3 DEF CallTools, AskApproval, Suspend, CutOff, ExecuteCall, At
  <2> QED BY <2>1 DEF DueInv
<1>7. CASE Resume
  <2>1. history'.observed = <<>>
    BY <1>7 DEF Resume, HistorySet, TInv, LoopType
  <2> QED BY <2>1 DEF DueInv
<1>4. CASE RequestTurn \/ RegisterProvider \/ UNCHANGED vars
  <2>1. /\ UNCHANGED <<history, controller, finalizing, iteration>>
        /\ at' \in {"request", "turn"} => at \in {"request", "turn"}
    BY <1>4 DEF RequestTurn, RegisterProvider, vars, turnVars, At
  <2>2. (Repeating' <=> Repeating) /\ (NoProgress' <=> NoProgress)
    BY <2>1 DEF Repeating, NoProgress, NovelRound, TimesObserved, Observations
  <2> QED BY <2>1, <2>2 DEF DueInv
<1>5. CASE EndResumedRound
  <2>1. history'.observed = <<>>
    BY <1>5 DEF EndResumedRound, CountInv
  <2> QED BY <2>1 DEF DueInv
<1>6. CASE EndRound
  BY <1>6, DueAfterRound
<1> QED BY <1>1, <1>2, <1>3, <1>4, <1>5, <1>6, <1>7 DEF Next

LEMMA StallInit == Init => SteeringInv /\ FreshInv /\ CountInv /\ DueInv
<1> SUFFICES ASSUME Init PROVE SteeringInv /\ FreshInv /\ CountInv /\ DueInv
  OBVIOUS
<1>1. /\ at = "start" /\ controller = NewController /\ history = NoHistory
      /\ history.observed = <<>> /\ history.whole = <<>> /\ history.start = 0
      /\ controller.replans = {} /\ resumed = FALSE
  BY DEF Init, NoHistory, NewController
<1>2. SteeringInv
  <2>1. history.start = Len(history.whole) /\ history.whole \in Seq(MessageSet)
    BY <1>1
  <2> QED BY <1>1, <2>1, SteeringFresh
<1>3. CountInv
  <2>1. \A sig : SeenBefore(sig) = 0
    BY <1>1 DEF SeenBefore, NewController
  <2> QED BY <1>1, <2>1, NothingObserved DEF CountInv
<1> QED BY <1>1, <1>2, <1>3 DEF FreshInv, DueInv

(* A model that stalls was told so, once for each reason, or was asked for  *)
(* its final answer.                                                       *)
THEOREM StallsAreSteered == Spec => []StallIsSteered
<1>1. ASSUME TInv, SteeringInv, DueInv PROVE StallIsSteered
  <2>1. ASSUME NEW reason \in Reasons PROVE Cardinality(Steered(reason)) <= 1
    <3>1. \A i \in Steered(reason) : \A j \in Steered(reason) : i = j
      BY <1>1 DEF SteeringInv, SteeredNow, SteeredIn, Steered
    <3>2. CASE Steered(reason) = {}
      <4>1. Cardinality(Steered(reason)) = 0
        BY <3>2, FS_EmptySet
      <4> QED BY <4>1
    <3>3. CASE Steered(reason) # {}
      <4>1. PICK i : Steered(reason) = {i}
        BY <3>1, <3>3
      <4>2. Cardinality(Steered(reason)) = 1
        BY <4>1, FS_Singleton
      <4> QED BY <4>2
    <3> QED BY <3>2, <3>3
  <2>2. ASSUME at = "turn", history.observed # <<>>, ~finalizing
        PROVE  /\ Repeating => Steered("repeated") # {}
               /\ NoProgress /\ ~Repeating /\ iteration >= IterationFloor =>
                    Steered("no_new_observation") # {}
    <3>1. finalizing = FALSE
      BY <1>1, <2>2, Zenon DEF TInv, LoopType
    <3>2. \A reason \in Reasons : reason \in controller.replans => Steered(reason) # {}
      BY <1>1, <2>2 DEF SteeringInv, SteeredNow, SteeredIn, Steered
    <3>3. /\ Repeating => "repeated" \in controller.replans
          /\ NoProgress /\ ~Repeating /\ iteration >= IterationFloor =>
               "no_new_observation" \in controller.replans
      BY <1>1, <2>2, <3>1 DEF DueInv
    <3> QED BY <3>2, <3>3 DEF Reasons
  <2> QED BY <2>1, <2>2 DEF StallIsSteered, At, Reasons
<1> QED BY <1>1, TypeInit, TypeStep, StallInit, SteeringStep, FreshStep, CountStep, DueStep, PTL DEF Spec
================================================================================
