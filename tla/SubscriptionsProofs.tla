-------------------------- MODULE SubscriptionsProofs --------------------------
(***************************************************************************)
(* Proofs about Subscriptions for any clients, descriptors, CAN ids and    *)
(* lengths of an order.  IInv is the inductive invariant of any clients,   *)
(* RInv that of clients that keep the rules, PInv that of polite ones.     *)
(* The theorems are at the end.                                            *)
(***************************************************************************)
EXTENDS Subscriptions, FiniteSetTheorems, TLAPS

(* The reference counts and the installed filters have the same ids, and no *)
(* count is zero.                                                           *)
TableCoherent ==
  /\ DOMAIN id_map = filter_map
  /\ \A i \in DOMAIN id_map : id_map[i] > 0

IInv == TypeOK /\ TableCoherent /\ IndexesAgree

--------------------------------------------------------------------------------
(* An id occurs in a list a natural number of times, at least once exactly  *)
(* when it is among the list's ids.                                         *)
LEMMA OccurrencesNat ==
  ASSUME NEW list \in Lists, NEW i
  PROVE  /\ Occurrences(list, i) \in Nat
         /\ i \in IdsOf(list) <=> Occurrences(list, i) # 0
<1>1. PICK n \in 0 .. MaxIds : list \in [1 .. n -> Id]
  BY DEF Lists
<1> DEFINE At == {k \in DOMAIN list : list[k] = i}
<1>2. At \in SUBSET (1 .. n) /\ n \in Int
  BY <1>1, SubscriptionsAssumption
<1>3. IsFiniteSet(At)
  BY <1>2, FS_Interval, FS_Subset
<1>4. Cardinality(At) \in Nat /\ (Cardinality(At) = 0 <=> At = {})
  BY <1>3, FS_CardinalityType, FS_EmptySet
<1>5. i \in IdsOf(list) <=> At # {}
  BY DEF IdsOf
<1>6. QED
  BY <1>4, <1>5 DEF Occurrences

LEMMA IdsOfType == ASSUME NEW list \in Lists PROVE IdsOf(list) \subseteq Id
BY DEF Lists, IdsOf

(* Rebuilding the reverse index from a well-typed index makes them agree.   *)
LEMMA ReverseAgrees ==
  ASSUME NEW index, DOMAIN index \subseteq Fds, index \in [DOMAIN index -> SUBSET Id]
  PROVE  /\ DOMAIN ReverseOf(index) \subseteq Id
         /\ ReverseOf(index) \in [DOMAIN ReverseOf(index) -> SUBSET Fds]
         /\ \A fd \in DOMAIN index, i \in Id :
              i \in index[fd] <=>
                i \in DOMAIN ReverseOf(index) /\ fd \in ReverseOf(index)[i]
BY DEF ReverseOf

(* What the manager's changes make of a well-typed index is well-typed.     *)
LEMMA ManagerTypes ==
  ASSUME NEW index, DOMAIN index \subseteq Fds, index \in [DOMAIN index -> SUBSET Id],
         NEW fd \in Fds, NEW list \in Lists
  PROVE  /\ DOMAIN ManagerAdd(index, fd, list) \subseteq Fds
         /\ ManagerAdd(index, fd, list)
              \in [DOMAIN ManagerAdd(index, fd, list) -> SUBSET Id]
         /\ DOMAIN Clean(index, fd) \subseteq Fds
         /\ Clean(index, fd) \in [DOMAIN Clean(index, fd) -> SUBSET Id]
         /\ fd \in DOMAIN index =>
              /\ DOMAIN ManagerRemove(index, fd, list) \subseteq Fds
              /\ ManagerRemove(index, fd, list)
                   \in [DOMAIN ManagerRemove(index, fd, list) -> SUBSET Id]
<1>1. IdsOf(list) \subseteq Id
  BY IdsOfType
<1>2. /\ DOMAIN ManagerAdd(index, fd, list) \subseteq Fds
      /\ ManagerAdd(index, fd, list)
           \in [DOMAIN ManagerAdd(index, fd, list) -> SUBSET Id]
  BY <1>1 DEF ManagerAdd
<1>3. /\ DOMAIN Clean(index, fd) \subseteq Fds
      /\ Clean(index, fd) \in [DOMAIN Clean(index, fd) -> SUBSET Id]
  BY DEF Clean
<1>4. ASSUME fd \in DOMAIN index
      PROVE  /\ DOMAIN ManagerRemove(index, fd, list) \subseteq Fds
             /\ ManagerRemove(index, fd, list)
                  \in [DOMAIN ManagerRemove(index, fd, list) -> SUBSET Id]
  BY <1>3, <1>4 DEF ManagerRemove
<1>5. QED
  BY <1>2, <1>3, <1>4

--------------------------------------------------------------------------------
(* The filter table keeps its types and stays coherent. *)
LEMMA RegisterKeeps ==
  ASSUME TypeOK, TableCoherent, NEW list \in Lists, RegisterFilter(list)
  PROVE  /\ DOMAIN id_map' \subseteq Id \ raced /\ id_map' \in [DOMAIN id_map' -> Nat]
         /\ filter_map' \subseteq Id \ raced
         /\ TableCoherent'
<1>1. IdsOf(list) \subseteq Id
  BY IdsOfType
<1>2. \A i \in Id : CountOf(i) \in Nat
  BY DEF CountOf, TypeOK
<1>3. DOMAIN id_map' = DOMAIN id_map \cup (IdsOf(list) \ raced)
  BY DEF RegisterFilter, Followed
<1>4. ASSUME NEW i \in DOMAIN id_map'
      PROVE  id_map'[i] \in Nat /\ id_map'[i] > 0
  <2>1. id_map'[i] = CountOf(i) + Occurrences(list, i)
    BY <1>3, <1>4 DEF RegisterFilter
  <2>2. i \in Id /\ CountOf(i) \in Nat /\ Occurrences(list, i) \in Nat
    BY <1>1, <1>2, <1>3, <1>4, OccurrencesNat DEF TypeOK
  <2>3. CountOf(i) > 0 \/ Occurrences(list, i) > 0
    BY <1>3, <1>4, <2>2, OccurrencesNat DEF TableCoherent, CountOf
  <2>4. QED
    BY <2>1, <2>2, <2>3
<1>5. filter_map' = DOMAIN id_map'
  BY <1>3 DEF RegisterFilter, Followed, TableCoherent
<1>6. DOMAIN id_map' \subseteq Id \ raced
  BY <1>1, <1>3 DEF TypeOK
<1>7. id_map' \in [DOMAIN id_map' -> Nat]
  BY <1>3, <1>4 DEF RegisterFilter
<1>8. QED
  BY <1>4, <1>5, <1>6, <1>7 DEF TableCoherent

LEMMA DeregisterKeeps ==
  ASSUME TypeOK, TableCoherent, NEW list \in Lists, DeregisterFilter(list)
  PROVE  /\ DOMAIN id_map' \subseteq Id \ raced /\ id_map' \in [DOMAIN id_map' -> Nat]
         /\ filter_map' \subseteq Id \ raced
         /\ TableCoherent'
<1> DEFINE lowered == [i \in DOMAIN id_map |->
                         IF Occurrences(list, i) >= id_map[i] THEN 0
                         ELSE id_map[i] - Occurrences(list, i)]
           erased == {i \in filter_map \cap DOMAIN id_map \cap IdsOf(list) :
                        lowered[i] = 0}
<1>1. id_map' = [i \in DOMAIN id_map \ erased |-> lowered[i]]
      /\ filter_map' = filter_map \ erased
  BY DEF DeregisterFilter
<1>2. ASSUME NEW i \in DOMAIN id_map \ erased
      PROVE  lowered[i] \in Nat /\ lowered[i] > 0
  <2>1. /\ id_map[i] \in Nat /\ id_map[i] > 0
        /\ Occurrences(list, i) \in Nat
    BY <1>2, OccurrencesNat DEF TypeOK, TableCoherent
  <2>2. i \notin IdsOf(list) => Occurrences(list, i) = 0
    BY OccurrencesNat
  <2>3. i \in IdsOf(list) => lowered[i] # 0
    BY <1>2 DEF TableCoherent
  <2>4. lowered[i] = IF Occurrences(list, i) >= id_map[i] THEN 0
                     ELSE id_map[i] - Occurrences(list, i)
    BY <1>2
  <2> HIDE DEF lowered, erased
  <2>5. QED
    BY <2>1, <2>2, <2>3, <2>4
<1> HIDE DEF lowered, erased
<1>3. DOMAIN id_map' = filter_map'
  BY <1>1 DEF TableCoherent
<1>4. id_map' \in [DOMAIN id_map' -> Nat] /\ \A i \in DOMAIN id_map' : id_map'[i] > 0
  BY <1>1, <1>2
<1>5. QED
  BY <1>1, <1>3, <1>4 DEF TableCoherent, TypeOK

--------------------------------------------------------------------------------
(* An order keeps the whole invariant; the manager is rebuilt or untouched. *)
LEMMA LedgerKeeps ==
  ASSUME TypeOK, NEW c \in Clients, NEW list \in Lists
  PROVE  /\ [asked EXCEPT ![c] = [i \in Id |-> @[i] + Occurrences(list, i)]]
              \in [Clients -> [Id -> Nat]]
         /\ [asked EXCEPT ![c] =
               [i \in Id |-> IF Occurrences(list, i) >= @[i] THEN 0
                             ELSE @[i] - Occurrences(list, i)]]
              \in [Clients -> [Id -> Nat]]
<1>1. \A i \in Id : asked[c][i] \in Nat /\ Occurrences(list, i) \in Nat
  BY OccurrencesNat DEF TypeOK
<1>2. [i \in Id |-> asked[c][i] + Occurrences(list, i)] \in [Id -> Nat]
  BY <1>1
<1>3. [i \in Id |-> IF Occurrences(list, i) >= asked[c][i] THEN 0
                    ELSE asked[c][i] - Occurrences(list, i)] \in [Id -> Nat]
  BY <1>1
<1>4. QED
  BY <1>2, <1>3 DEF TypeOK

LEMMA AddFilterKeeps ==
  ASSUME IInv, NEW c \in Clients, NEW fd \in Fds, NEW list \in Lists,
         AddFilter(c, fd, list)
  PROVE  IInv'
<1>t. TypeOK /\ TableCoherent
  BY DEF IInv
<1>1. DOMAIN fwd' \subseteq Fds /\ fwd' \in [DOMAIN fwd' -> SUBSET Id]
  BY <1>t, ManagerTypes DEF TypeOK, AddFilter
<1>2. /\ DOMAIN rev' \subseteq Id /\ rev' \in [DOMAIN rev' -> SUBSET Fds]
      /\ IndexesAgree'
  BY <1>1, ReverseAgrees DEF AddFilter, IndexesAgree
<1>3. /\ DOMAIN id_map' \subseteq Id \ raced /\ id_map' \in [DOMAIN id_map' -> Nat]
      /\ filter_map' \subseteq Id \ raced
      /\ TableCoherent'
  BY <1>t, RegisterKeeps DEF AddFilter
<1>4. asked' \in [Clients -> [Id -> Nat]]
  BY <1>t, LedgerKeeps DEF AddFilter
<1>5. TypeOK'
  BY <1>t, <1>1, <1>2, <1>3, <1>4 DEF AddFilter, TypeOK
<1>6. QED
  BY <1>2, <1>3, <1>5 DEF IInv

LEMMA RemoveFilterKeeps ==
  ASSUME IInv, NEW c \in Clients, NEW fd \in Fds, NEW list \in Lists,
         RemoveFilter(c, fd, list)
  PROVE  IInv'
<1>t. TypeOK /\ TableCoherent /\ IndexesAgree
  BY DEF IInv
<1>1. /\ DOMAIN fwd' \subseteq Fds /\ fwd' \in [DOMAIN fwd' -> SUBSET Id]
      /\ DOMAIN rev' \subseteq Id /\ rev' \in [DOMAIN rev' -> SUBSET Fds]
      /\ IndexesAgree'
  <2>1. CASE fd \in DOMAIN fwd
    <3>1. DOMAIN fwd' \subseteq Fds /\ fwd' \in [DOMAIN fwd' -> SUBSET Id]
      BY <1>t, <2>1, ManagerTypes DEF TypeOK, RemoveFilter
    <3>2. QED
      BY <2>1, <3>1, ReverseAgrees DEF RemoveFilter, IndexesAgree
  <2>2. CASE fd \notin DOMAIN fwd
    BY <1>t, <2>2 DEF TypeOK, RemoveFilter, IndexesAgree
  <2>3. QED
    BY <2>1, <2>2
<1>3. /\ DOMAIN id_map' \subseteq Id \ raced /\ id_map' \in [DOMAIN id_map' -> Nat]
      /\ filter_map' \subseteq Id \ raced
      /\ TableCoherent'
  BY <1>t, DeregisterKeeps DEF RemoveFilter
<1>4. asked' \in [Clients -> [Id -> Nat]]
  BY <1>t, LedgerKeeps DEF RemoveFilter
<1>5. TypeOK'
  BY <1>t, <1>1, <1>3, <1>4 DEF RemoveFilter, TypeOK
<1>6. QED
  BY <1>1, <1>3, <1>5 DEF IInv

(* Connections come and go without touching the filter table; a hang-up     *)
(* takes the descriptor out of the index and leaves the reverse index alone.*)
LEMMA ConnectionKeeps ==
  ASSUME IInv, NEW fd \in Fds,
         \/ \E c \in Clients : Connect(c, fd) \/ BadMagic(c, fd) \/ HangUp(c, fd)
         \/ CleanIndex(fd) \/ CloseFd(fd)
  PROVE  IInv'
<1>t. TypeOK /\ TableCoherent /\ IndexesAgree
  BY DEF IInv
<1>1. UNCHANGED <<rev, id_map, filter_map, raced>>
  BY DEF Connect, BadMagic, HangUp, CleanIndex, CloseFd
<1>2. fwd' = fwd \/ fwd' = Clean(fwd, fd)
  BY DEF Connect, BadMagic, HangUp, CleanIndex, CloseFd
<1>3. DOMAIN fwd' \subseteq Fds /\ fwd' \in [DOMAIN fwd' -> SUBSET Id]
  BY <1>t, <1>2 DEF TypeOK, Clean
<1>4. IndexesAgree'
  BY <1>t, <1>1, <1>2 DEF IndexesAgree, Clean
<1>5. handler' \in [Fds -> {"closed", "serving", "orphan", "cleaned"}]
  BY <1>t DEF TypeOK, Connect, BadMagic, HangUp, CleanIndex, CloseFd
<1>6. peer' \in [Fds -> Clients \cup {None}]
  BY <1>t DEF TypeOK, Connect, BadMagic, HangUp, CleanIndex, CloseFd
<1>7. asked' \in [Clients -> [Id -> Nat]]
  BY <1>t DEF TypeOK, Connect, BadMagic, HangUp, CleanIndex, CloseFd
<1>m. UNCHANGED manners
  BY DEF Connect, BadMagic, HangUp, CleanIndex, CloseFd
<1>8. TypeOK' /\ TableCoherent'
  BY <1>t, <1>m, <1>1, <1>3, <1>5, <1>6, <1>7 DEF TypeOK, TableCoherent
<1>9. QED
  BY <1>4, <1>8 DEF IInv

(* An overlap takes its id out of the table and touches nothing else. *)
LEMMA OverlapKeeps ==
  ASSUME IInv, NEW j \in Id, Overlap(j)
  PROVE  IInv'
<1>1. /\ DOMAIN id_map' = DOMAIN id_map \ {j} /\ raced' = raced \cup {j}
      /\ \A i \in DOMAIN id_map' : id_map'[i] = id_map[i]
      /\ id_map' = [i \in DOMAIN id_map \ {j} |-> id_map[i]]
      /\ filter_map' = filter_map \ {j}
      /\ UNCHANGED <<handler, peer, fwd, rev, asked, manners>>
  BY DEF Overlap
<1>2. TypeOK' /\ IndexesAgree'
  BY <1>1 DEF IInv, TypeOK, IndexesAgree
<1>3. TableCoherent'
  BY <1>1 DEF IInv, TableCoherent
<1> QED
  BY <1>2, <1>3 DEF IInv

(* The inductive invariant: it holds initially and every step keeps it.     *)
LEMMA InitIInv == Init => IInv
BY DEF Init, IInv, TypeOK, TableCoherent, IndexesAgree

LEMMA StepIInv == IInv /\ [Next]_subVars => IInv'
<1> SUFFICES ASSUME IInv, [Next]_subVars PROVE IInv'
  OBVIOUS
<1>1. CASE Next
  BY <1>1, AddFilterKeeps, RemoveFilterKeeps, ConnectionKeeps, OverlapKeeps DEF Next
<1>2. CASE UNCHANGED subVars
  BY <1>2 DEF subVars, IInv, TypeOK, TableCoherent, IndexesAgree
<1>3. QED
  BY <1>1, <1>2

LEMMA InductiveInvariant == Spec => []IInv
BY InitIInv, StepIInv, PTL DEF Spec

--------------------------------------------------------------------------------
(* What a manager's change does to the entry of its own descriptor, and     *)
(* that it leaves the others alone.                                         *)
LEMMA ManagerEntries ==
  ASSUME NEW index, DOMAIN index \subseteq Fds, index \in [DOMAIN index -> SUBSET Id],
         NEW fd \in Fds, NEW list \in Lists
  PROVE  /\ \A g \in Fds \ {fd} :
              /\ g \in DOMAIN ManagerAdd(index, fd, list) <=> g \in DOMAIN index
              /\ g \in DOMAIN index => ManagerAdd(index, fd, list)[g] = index[g]
              /\ g \in DOMAIN Clean(index, fd) <=> g \in DOMAIN index
              /\ g \in DOMAIN index => Clean(index, fd)[g] = index[g]
              /\ fd \in DOMAIN index =>
                   /\ g \in DOMAIN ManagerRemove(index, fd, list) <=> g \in DOMAIN index
                   /\ g \in DOMAIN index => ManagerRemove(index, fd, list)[g] = index[g]
         /\ fd \in DOMAIN ManagerAdd(index, fd, list)
         /\ fd \notin DOMAIN Clean(index, fd)
         /\ ManagerAdd(index, fd, list)[fd] =
              IdsOf(list) \cup (IF fd \in DOMAIN index THEN index[fd] ELSE {})
         /\ fd \in DOMAIN index =>
              IF index[fd] \subseteq IdsOf(list)
              THEN fd \notin DOMAIN ManagerRemove(index, fd, list)
              ELSE /\ fd \in DOMAIN ManagerRemove(index, fd, list)
                   /\ ManagerRemove(index, fd, list)[fd] = index[fd] \ IdsOf(list)
<1>1. /\ \A g \in Fds \ {fd} :
           /\ g \in DOMAIN ManagerAdd(index, fd, list) <=> g \in DOMAIN index
           /\ g \in DOMAIN index => ManagerAdd(index, fd, list)[g] = index[g]
      /\ fd \in DOMAIN ManagerAdd(index, fd, list)
      /\ ManagerAdd(index, fd, list)[fd] =
           IdsOf(list) \cup (IF fd \in DOMAIN index THEN index[fd] ELSE {})
  BY DEF ManagerAdd
<1>2. /\ \A g \in Fds \ {fd} :
           /\ g \in DOMAIN Clean(index, fd) <=> g \in DOMAIN index
           /\ g \in DOMAIN index => Clean(index, fd)[g] = index[g]
      /\ fd \notin DOMAIN Clean(index, fd)
  BY DEF Clean
<1>3. ASSUME fd \in DOMAIN index
      PROVE  /\ \A g \in Fds \ {fd} :
                  /\ g \in DOMAIN ManagerRemove(index, fd, list) <=> g \in DOMAIN index
                  /\ g \in DOMAIN index => ManagerRemove(index, fd, list)[g] = index[g]
             /\ IF index[fd] \subseteq IdsOf(list)
                THEN fd \notin DOMAIN ManagerRemove(index, fd, list)
                ELSE /\ fd \in DOMAIN ManagerRemove(index, fd, list)
                     /\ ManagerRemove(index, fd, list)[fd] = index[fd] \ IdsOf(list)
  <2>1. CASE index[fd] \ IdsOf(list) = {}
    <3>1. ManagerRemove(index, fd, list) = Clean(index, fd)
      BY <2>1 DEF ManagerRemove
    <3> QED
      BY <1>2, <2>1, <3>1
  <2>2. CASE index[fd] \ IdsOf(list) # {}
    <3>1. ManagerRemove(index, fd, list) = [index EXCEPT ![fd] = index[fd] \ IdsOf(list)]
      BY <2>2 DEF ManagerRemove
    <3> QED
      BY <1>3, <2>2, <3>1
  <2> QED
    BY <2>1, <2>2
<1> QED
  BY <1>1, <1>2, <1>3

(* Registering adds the occurrences of an id to its count, ...              *)
LEMMA CountRaised ==
  ASSUME TypeOK, NEW list \in Lists, RegisterFilter(list), NEW i \in Id \ raced
  PROVE  CountOf(i)' = CountOf(i) + Occurrences(list, i)
<1>1. CountOf(i) \in Nat /\ Occurrences(list, i) \in Nat
  BY OccurrencesNat DEF CountOf, TypeOK
<1>2. CASE i \in DOMAIN id_map \cup IdsOf(list)
  BY <1>2 DEF RegisterFilter, Followed, CountOf
<1>3. CASE i \notin DOMAIN id_map \cup IdsOf(list)
  <2>1. CountOf(i)' = 0 /\ CountOf(i) = 0
    BY <1>3 DEF RegisterFilter, Followed, CountOf
  <2>2. Occurrences(list, i) = 0
    BY <1>3, OccurrencesNat
  <2> QED
    BY <2>1, <2>2
<1> QED
  BY <1>2, <1>3

(* ... and deregistering takes them off, if the count has them.             *)
LEMMA CountLowered ==
  ASSUME TypeOK, TableCoherent, NEW list \in Lists, DeregisterFilter(list), NEW i \in Id,
         Occurrences(list, i) <= CountOf(i)
  PROVE  CountOf(i)' = CountOf(i) - Occurrences(list, i)
<1> DEFINE lowered == [j \in DOMAIN id_map |->
                         IF Occurrences(list, j) >= id_map[j] THEN 0
                         ELSE id_map[j] - Occurrences(list, j)]
           erased == {j \in filter_map \cap DOMAIN id_map \cap IdsOf(list) :
                        lowered[j] = 0}
<1>1. id_map' = [j \in DOMAIN id_map \ erased |-> lowered[j]]
  BY DEF DeregisterFilter
<1>2. CountOf(i) \in Nat /\ Occurrences(list, i) \in Nat
  BY OccurrencesNat DEF CountOf, TypeOK
<1>3. CASE i \in DOMAIN id_map
  <2>1. id_map[i] = CountOf(i)
    BY <1>3 DEF CountOf
  <2>2. lowered[i] = CountOf(i) - Occurrences(list, i)
    BY <1>2, <1>3, <2>1
  <2>3. i \in erased => lowered[i] = 0
    OBVIOUS
  <2> HIDE DEF lowered, erased
  <2>4. CASE i \in erased
    BY <1>1, <2>2, <2>3, <2>4 DEF CountOf
  <2>5. CASE i \notin erased
    BY <1>1, <1>3, <2>2, <2>5 DEF CountOf
  <2> QED
    BY <2>4, <2>5
<1>4. CASE i \notin DOMAIN id_map
  <2>1. CountOf(i) = 0 /\ CountOf(i)' = 0
    BY <1>1, <1>4 DEF CountOf
  <2> QED
    BY <1>2, <2>1
<1> QED
  BY <1>3, <1>4

--------------------------------------------------------------------------------
(* The n places above the m-th of owner x. *)
Block(x, m, n) == {x} \X (m + 1 .. m + n)

LEMMA BlockSize ==
  ASSUME NEW x, NEW m \in Nat, NEW n \in Nat
  PROVE  IsFiniteSet(Block(x, m, n)) /\ Cardinality(Block(x, m, n)) = n
<1> DEFINE I == m + 1 .. m + n
<1>1. IsFiniteSet(I) /\ Cardinality(I) = n
  BY FS_Interval
<1>2. IsFiniteSet({x}) /\ Cardinality({x}) = 1
  BY FS_Singleton
<1>3. Block(x, m, n) = {x} \X I
  BY DEF Block
<1> HIDE DEF I
<1>4. IsFiniteSet({x} \X I) /\ Cardinality({x} \X I) = Cardinality({x}) * Cardinality(I)
  BY <1>1, <1>2, FS_Product
<1> QED
  BY <1>1, <1>2, <1>3, <1>4

LEMMA BlockAdded ==
  ASSUME NEW S, IsFiniteSet(S), NEW x, NEW m \in Nat, NEW n \in Nat,
         S \cap Block(x, m, n) = {}
  PROVE  /\ IsFiniteSet(S \cup Block(x, m, n))
         /\ Cardinality(S \cup Block(x, m, n)) = Cardinality(S) + n
<1> DEFINE B == Block(x, m, n)
<1>1. IsFiniteSet(B) /\ Cardinality(B) = n /\ S \cap B = {}
  BY BlockSize
<1> HIDE DEF B
<1>2. Cardinality(S) \in Nat /\ Cardinality({}) = 0
  BY FS_CardinalityType, FS_EmptySet
<1>3. /\ IsFiniteSet(S \cup B)
      /\ Cardinality(S \cup B) = Cardinality(S) + Cardinality(B) - Cardinality(S \cap B)
  BY <1>1, FS_Union
<1>4. Cardinality(S \cap B) = 0
  BY <1>1, <1>2, Zenon
<1>5. Cardinality(S \cup B) = Cardinality(S) + n
  BY <1>1, <1>2, <1>3, <1>4
<1> QED
  BY <1>3, <1>5 DEF B

LEMMA BlockDropped ==
  ASSUME NEW S, IsFiniteSet(S), NEW x, NEW m \in Nat, NEW n \in Nat,
         Block(x, m, n) \subseteq S
  PROVE  /\ IsFiniteSet(S \ Block(x, m, n))
         /\ Cardinality(S \ Block(x, m, n)) = Cardinality(S) - n
         /\ n <= Cardinality(S)
<1> DEFINE B == Block(x, m, n)
<1>1. IsFiniteSet(B) /\ Cardinality(B) = n /\ B \in SUBSET S
  BY BlockSize
<1> HIDE DEF B
<1>2. S \cap B = B
  BY <1>1
<1>3. IsFiniteSet(S \ B) /\ Cardinality(S \ B) = Cardinality(S) - Cardinality(S \cap B)
  BY FS_Difference
<1>4. Cardinality(B) <= Cardinality(S)
  BY <1>1, FS_Subset
<1>5. IsFiniteSet(S \ B) /\ Cardinality(S \ B) = Cardinality(S) - n /\ n <= Cardinality(S)
  BY <1>1, <1>2, <1>3, <1>4
<1> QED
  BY <1>5 DEF B

--------------------------------------------------------------------------------
(* What clients that keep the rules can rely on, besides IInv.              *)

(* A program is at the other end of one descriptor at most. *)
OnePeer == \A f, g \in Fds : peer[f] # None /\ peer[f] = peer[g] => f = g

(* Connections and entries of the index belong to threads that serve them. *)
Placed ==
  /\ \A fd \in Fds : peer[fd] # None => handler[fd] = "serving"
  /\ \A fd \in DOMAIN fwd : handler[fd] = "serving"

(* The index knows ids only that the program at the other end has asked for. *)
Wanted ==
  \A fd \in DOMAIN fwd : peer[fd] # None => \A i \in fwd[fd] : asked[peer[fd]][i] > 0

(* The ledgers keep to the bound. *)
AtMost == \A c \in Clients, i \in Id : asked[c][i] <= MaxCount

Ruled == OnePeer /\ AtMost /\ (Disciplined => Placed /\ Wanted)

(* A polite program that is gone has left nothing behind, ... *)
Cleared ==
  /\ \A c \in Clients : ~Connected(c) => \A i \in Id : asked[c][i] = 0
  /\ \A fd \in DOMAIN fwd : peer[fd] = None => fwd[fd] = {}

(* ... not even in the reverse index. *)
NoStale == \A i \in DOMAIN rev : \A fd \in rev[i] : fd \in DOMAIN fwd /\ i \in fwd[fd]

LEMMA RuledInit == Init => Ruled
BY SubscriptionsAssumption
DEF Init, Ruled, OnePeer, AtMost, Disciplined, Placed, Wanted

LEMMA RuledAdd ==
  ASSUME IInv, Ruled, NEW c \in Clients, NEW fd \in Fds, NEW list \in Lists,
         AddFilter(c, fd, list)
  PROVE  Ruled'
<1>t. /\ peer \in [Fds -> Clients \cup {None}] /\ asked \in [Clients -> [Id -> Nat]]
      /\ DOMAIN fwd \subseteq Fds /\ fwd \in [DOMAIN fwd -> SUBSET Id]
      /\ MaxCount \in Nat
  BY SubscriptionsAssumption DEF IInv, TypeOK
<1>1. /\ handler[fd] = "serving" /\ peer[fd] = c /\ peer[fd] # None
      /\ UNCHANGED <<handler, peer, manners>>
      /\ fwd' = ManagerAdd(fwd, fd, list)
  BY SubscriptionsAssumption DEF AddFilter, Orders
<1>2. \A i \in Id : Occurrences(list, i) \in Nat /\ (i \in IdsOf(list) => Occurrences(list, i) > 0)
  BY OccurrencesNat
<1>3. /\ \A i \in Id : asked'[c][i] = asked[c][i] + Occurrences(list, i)
      /\ \A d \in Clients \ {c} : asked'[d] = asked[d]
  BY <1>t DEF AddFilter
<1>4. OnePeer'
  BY <1>1 DEF Ruled, OnePeer
<1>5. AtMost'
  <2> SUFFICES ASSUME NEW d \in Clients, NEW i \in Id
               PROVE  asked'[d][i] <= MaxCount
    BY DEF AtMost
  <2>1. asked[c][i] + Occurrences(list, i) <= MaxCount
    BY DEF AddFilter, Bounded
  <2> QED
    BY <1>3, <2>1 DEF Ruled, AtMost
<1>6. ASSUME Disciplined'
      PROVE  Placed' /\ Wanted'
  <2>1. Placed /\ Wanted
    BY <1>1, <1>6 DEF Ruled, Disciplined
  <2>2. DOMAIN fwd' \subseteq Fds
    BY <1>t, <1>1, ManagerTypes
  <2>3. /\ \A g \in Fds \ {fd} : /\ g \in DOMAIN fwd' <=> g \in DOMAIN fwd
                                 /\ g \in DOMAIN fwd => fwd'[g] = fwd[g]
        /\ fwd'[fd] = IdsOf(list) \cup (IF fd \in DOMAIN fwd THEN fwd[fd] ELSE {})
    BY <1>t, <1>1, ManagerEntries
  <2>4. Placed'
    BY <1>1, <2>1, <2>2, <2>3 DEF Placed
  <2>5. Wanted'
    <3> SUFFICES ASSUME NEW g \in DOMAIN fwd', peer[g] # None, NEW i \in fwd'[g]
                 PROVE  asked'[peer[g]][i] > 0
      BY <1>1 DEF Wanted
    <3>1. CASE g = fd
      <4>1. i \in Id
        BY <1>t, <2>3, <3>1, IdsOfType
      <4>2. asked[c][i] \in Nat /\ Occurrences(list, i) \in Nat
        BY <1>t, <1>2, <4>1
      <4>3. asked[c][i] > 0 \/ Occurrences(list, i) > 0
        BY <1>1, <1>2, <2>1, <2>3, <3>1, <4>1 DEF Wanted
      <4> QED
        BY <1>1, <1>3, <3>1, <4>1, <4>2, <4>3
    <3>2. CASE g # fd
      <4>1. g \in DOMAIN fwd /\ g \in Fds /\ i \in fwd[g]
        BY <2>2, <2>3, <3>2
      <4>2. peer[g] # c /\ peer[g] \in Clients
        BY <1>t, <1>1, <3>2, <4>1 DEF Ruled, OnePeer
      <4> QED
        BY <1>3, <2>1, <4>1, <4>2 DEF Wanted
    <3> QED
      BY <3>1, <3>2
  <2> QED
    BY <2>4, <2>5
<1> QED
  BY <1>4, <1>5, <1>6 DEF Ruled

LEMMA RuledRemove ==
  ASSUME IInv, Ruled, NEW c \in Clients, NEW fd \in Fds, NEW list \in Lists,
         RemoveFilter(c, fd, list)
  PROVE  Ruled'
<1>t. /\ peer \in [Fds -> Clients \cup {None}] /\ asked \in [Clients -> [Id -> Nat]]
      /\ DOMAIN fwd \subseteq Fds /\ fwd \in [DOMAIN fwd -> SUBSET Id]
      /\ MaxCount \in Nat
  BY SubscriptionsAssumption DEF IInv, TypeOK
<1>1. /\ handler[fd] = "serving" /\ peer[fd] = c /\ peer[fd] # None
      /\ UNCHANGED <<handler, peer, manners>>
      /\ fd \in DOMAIN fwd => fwd' = ManagerRemove(fwd, fd, list)
      /\ fd \notin DOMAIN fwd => fwd' = fwd
  BY SubscriptionsAssumption DEF RemoveFilter, Orders
<1>2. \A i \in Id : /\ Occurrences(list, i) \in Nat
                    /\ i \notin IdsOf(list) => Occurrences(list, i) = 0
  BY OccurrencesNat
<1>3. /\ \A i \in Id : asked'[c][i] = IF Occurrences(list, i) >= asked[c][i] THEN 0
                                       ELSE asked[c][i] - Occurrences(list, i)
      /\ \A d \in Clients \ {c} : asked'[d] = asked[d]
  BY <1>t DEF RemoveFilter
<1>4. OnePeer'
  BY <1>1 DEF Ruled, OnePeer
<1>5. AtMost'
  <2> SUFFICES ASSUME NEW d \in Clients, NEW i \in Id
               PROVE  asked'[d][i] <= MaxCount
    BY DEF AtMost
  <2>1. /\ asked[c][i] \in Nat /\ Occurrences(list, i) \in Nat
        /\ asked[c][i] <= MaxCount /\ asked[d][i] <= MaxCount
    BY <1>t, <1>2 DEF Ruled, AtMost
  <2> QED
    BY <1>t, <1>3, <2>1
<1>6. ASSUME Disciplined'
      PROVE  Placed' /\ Wanted'
  <2>1. Placed /\ Wanted
    BY <1>1, <1>6 DEF Ruled, Disciplined
  <2>2. \A g \in DOMAIN fwd' :
          /\ g \in DOMAIN fwd
          /\ g # fd => fwd'[g] = fwd[g]
          /\ g = fd => fwd'[fd] = fwd[fd] \ IdsOf(list)
    <3>1. CASE fd \in DOMAIN fwd
      <4>1. DOMAIN fwd' \subseteq Fds
        BY <1>t, <1>1, <3>1, ManagerTypes
      <4> QED
        BY <1>t, <1>1, <3>1, <4>1, ManagerEntries
    <3>2. CASE fd \notin DOMAIN fwd
      BY <1>1, <3>2
    <3> QED
      BY <3>1, <3>2
  <2>3. Placed'
    BY <1>1, <2>1, <2>2 DEF Placed
  <2>4. Wanted'
    <3> SUFFICES ASSUME NEW g \in DOMAIN fwd', peer[g] # None, NEW i \in fwd'[g]
                 PROVE  asked'[peer[g]][i] > 0
      BY <1>1 DEF Wanted
    <3>1. g \in DOMAIN fwd /\ g \in Fds /\ i \in fwd[g] /\ i \in Id
      BY <1>t, <2>2
    <3>2. CASE g = fd
      <4>1. Occurrences(list, i) = 0 /\ asked[c][i] \in Nat /\ asked[c][i] > 0
        BY <1>t, <1>1, <1>2, <2>1, <2>2, <3>1, <3>2 DEF Wanted
      <4> QED
        BY <1>1, <1>3, <3>1, <3>2, <4>1
    <3>3. CASE g # fd
      <4>1. peer[g] # c /\ peer[g] \in Clients
        BY <1>t, <1>1, <3>1, <3>3 DEF Ruled, OnePeer
      <4> QED
        BY <1>3, <2>1, <3>1, <4>1 DEF Wanted
    <3> QED
      BY <3>2, <3>3
  <2> QED
    BY <2>3, <2>4
<1> QED
  BY <1>4, <1>5, <1>6 DEF Ruled

LEMMA RuledConnection ==
  ASSUME IInv, Ruled, NEW fd \in Fds,
         \/ \E c \in Clients : Connect(c, fd) \/ BadMagic(c, fd) \/ HangUp(c, fd)
         \/ CleanIndex(fd) \/ CloseFd(fd)
  PROVE  Ruled'
<1>t. /\ peer \in [Fds -> Clients \cup {None}] /\ asked \in [Clients -> [Id -> Nat]]
      /\ handler \in [Fds -> {"closed", "serving", "orphan", "cleaned"}]
      /\ DOMAIN fwd \subseteq Fds /\ fwd \in [DOMAIN fwd -> SUBSET Id]
      /\ MaxCount \in Nat /\ None \notin Clients
      /\ OnePeer /\ AtMost /\ (Disciplined => Placed /\ Wanted)
  BY SubscriptionsAssumption DEF IInv, TypeOK, Ruled
<1>1. ASSUME NEW c \in Clients, Connect(c, fd)
      PROVE  Ruled'
  <2>1. /\ \A g \in Fds : peer[g] # c
        /\ handler[fd] = "closed"
        /\ handler' = [handler EXCEPT ![fd] = "serving"]
        /\ peer' = [peer EXCEPT ![fd] = c]
        /\ asked' = [asked EXCEPT ![c] = [i \in Id |-> 0]]
        /\ UNCHANGED <<fwd, manners>>
    BY <1>1 DEF Connect, Connected, Free
  <2>2. OnePeer'
    BY <1>t, <2>1 DEF OnePeer
  <2>3. AtMost'
    BY <1>t, <2>1 DEF AtMost
  <2>4. ASSUME Disciplined'
        PROVE  Placed' /\ Wanted'
    <3>1. Placed /\ Wanted
      BY <1>t, <2>1, <2>4 DEF Disciplined
    <3>2. fd \notin DOMAIN fwd
      BY <2>1, <3>1 DEF Placed
    <3>3. Placed'
      BY <1>t, <2>1, <3>1, <3>2 DEF Placed
    <3>4. Wanted'
      BY <1>t, <2>1, <3>1, <3>2 DEF Wanted
    <3> QED
      BY <3>3, <3>4
  <2> QED
    BY <2>2, <2>3, <2>4 DEF Ruled
<1>2. ASSUME NEW c \in Clients, BadMagic(c, fd)
      PROVE  Ruled'
  BY <1>t, <1>2 DEF BadMagic, Ruled, OnePeer, AtMost, Disciplined
<1>3. ASSUME NEW c \in Clients, HangUp(c, fd)
      PROVE  Ruled'
  <2>1. /\ peer' = [peer EXCEPT ![fd] = None]
        /\ UNCHANGED <<handler, fwd, asked, manners>>
    BY <1>3 DEF HangUp
  <2>2. OnePeer' /\ AtMost'
    BY <1>t, <2>1 DEF OnePeer, AtMost
  <2>3. Disciplined' => Placed' /\ Wanted'
    BY <1>t, <2>1 DEF Disciplined, Placed, Wanted
  <2> QED
    BY <2>2, <2>3 DEF Ruled
<1>4. ASSUME CleanIndex(fd)
      PROVE  Ruled'
  <2>1. /\ peer[fd] = None
        /\ handler' = [handler EXCEPT ![fd] = "cleaned"]
        /\ DOMAIN fwd' = DOMAIN fwd \ {fd}
        /\ \A g \in DOMAIN fwd' : fwd'[g] = fwd[g]
        /\ UNCHANGED <<peer, asked, manners>>
    BY <1>4 DEF CleanIndex, Clean
  <2>2. OnePeer' /\ AtMost'
    BY <1>t, <2>1 DEF OnePeer, AtMost
  <2>3. Disciplined' => Placed' /\ Wanted'
    BY <1>t, <2>1 DEF Disciplined, Placed, Wanted
  <2> QED
    BY <2>2, <2>3 DEF Ruled
<1>5. ASSUME CloseFd(fd)
      PROVE  Ruled'
  <2>1. /\ handler[fd] = "cleaned"
        /\ handler' = [handler EXCEPT ![fd] = "closed"]
        /\ UNCHANGED <<peer, fwd, asked, manners>>
    BY <1>5 DEF CloseFd
  <2>2. OnePeer' /\ AtMost'
    BY <1>t, <2>1 DEF OnePeer, AtMost
  <2>3. Disciplined' => Placed' /\ Wanted'
    BY <1>t, <2>1 DEF Disciplined, Placed, Wanted
  <2> QED
    BY <2>2, <2>3 DEF Ruled
<1> QED
  BY <1>1, <1>2, <1>3, <1>4, <1>5

LEMMA RuledOverlap ==
  ASSUME IInv, Ruled, NEW j \in Id, Overlap(j)
  PROVE  Ruled'
BY DEF Overlap, Ruled, OnePeer, AtMost, Disciplined, Placed, Wanted

--------------------------------------------------------------------------------
(* An entry of the index takes a place even when the bound on the counts is 0. *)
Places == 1 .. MaxCount + 1

(* What the count of id i has to cover: for each descriptor with a program  *)
(* at the other end, as many places as the program's ledger says; for one   *)
(* without, a place as long as the index knows it.                          *)
Owners(i) ==
  {a \in Fds \X Places :
     IF peer[a[1]] = None THEN a[2] = 1 /\ a[1] \in DOMAIN fwd /\ i \in fwd[a[1]]
     ELSE a[2] <= asked[peer[a[1]]][i]}

Covered ==
  \A i \in Id \ raced : IsFiniteSet(Owners(i)) /\ Cardinality(Owners(i)) <= CountOf(i)

(* Sets of pairs with the same pairs are equal. *)
LEMMA SamePairs ==
  ASSUME NEW A, NEW B, NEW S \in SUBSET (A \X B), NEW T \in SUBSET (A \X B),
         \A x \in A, y \in B : <<x, y>> \in S <=> <<x, y>> \in T
  PROVE  S = T
OBVIOUS

LEMMA SubPairs ==
  ASSUME NEW A, NEW B, NEW S \in SUBSET (A \X B), NEW T \in SUBSET (A \X B),
         \A x \in A, y \in B : <<x, y>> \in S => <<x, y>> \in T
  PROVE  S \subseteq T
OBVIOUS

LEMMA OwnersPairs ==
  ASSUME NEW i \in Id
  PROVE  /\ Owners(i) \in SUBSET (Fds \X Places)
         /\ \A g \in Fds, k \in Places :
              <<g, k>> \in Owners(i) <=>
                IF peer[g] = None THEN k = 1 /\ g \in DOMAIN fwd /\ i \in fwd[g]
                ELSE k <= asked[peer[g]][i]
         /\ (Owners(i) \in SUBSET (Fds \X Places))'
         /\ \A g \in Fds, k \in Places :
              <<g, k>> \in Owners(i)' <=>
                IF peer'[g] = None THEN k = 1 /\ g \in DOMAIN fwd' /\ i \in fwd'[g]
                ELSE k <= asked'[peer'[g]][i]
BY DEF Owners

LEMMA BlockPairs ==
  ASSUME NEW A, NEW x \in A, NEW m \in Nat, NEW n \in Nat, NEW N \in Nat, m + n <= N
  PROVE  /\ Block(x, m, n) \in SUBSET (A \X (1 .. N))
         /\ \A y \in A, k \in 1 .. N : <<y, k>> \in Block(x, m, n) <=> y = x /\ m < k /\ k <= m + n
BY DEF Block

LEMMA CoveredAdd ==
  ASSUME IInv, Ruled, Covered, NEW c \in Clients, NEW fd \in Fds, NEW list \in Lists,
         AddFilter(c, fd, list)
  PROVE  Covered'
<1> SUFFICES ASSUME NEW i \in Id \ raced
             PROVE  IsFiniteSet(Owners(i)') /\ Cardinality(Owners(i)') <= CountOf(i)'
  BY DEF Covered, AddFilter, RemoveFilter, Connect, BadMagic, HangUp, CleanIndex, CloseFd
<1> DEFINE m == asked[c][i]
           n == Occurrences(list, i)
<1>t. /\ peer \in [Fds -> Clients \cup {None}] /\ asked \in [Clients -> [Id -> Nat]]
      /\ DOMAIN fwd \subseteq Fds /\ fwd \in [DOMAIN fwd -> SUBSET Id]
      /\ MaxCount \in Nat /\ None \notin Clients
  BY SubscriptionsAssumption DEF IInv, TypeOK
<1>1. /\ peer[fd] = c /\ UNCHANGED peer
      /\ fwd' = ManagerAdd(fwd, fd, list)
      /\ asked'[c][i] = m + n /\ \A d \in Clients \ {c} : asked'[d] = asked[d]
  BY <1>t DEF AddFilter, Orders
<1>2. m \in Nat /\ n \in Nat /\ m + n <= MaxCount
  BY <1>t, OccurrencesNat DEF AddFilter, Bounded
<1>3. \A g \in Fds \ {fd} : /\ g \in DOMAIN fwd' <=> g \in DOMAIN fwd
                            /\ g \in DOMAIN fwd => fwd'[g] = fwd[g]
  BY <1>t, <1>1, ManagerEntries
<1>4. \A g \in Fds \ {fd} : peer[g] # c
  BY <1>t, <1>1 DEF Ruled, OnePeer
<1> HIDE DEF m, n
<1>5. /\ Block(fd, m, n) \in SUBSET (Fds \X Places)
      /\ \A g \in Fds, k \in Places :
           <<g, k>> \in Block(fd, m, n) <=> g = fd /\ m < k /\ k <= m + n
  <2>1. MaxCount + 1 \in Nat /\ m + n <= MaxCount + 1
    BY <1>t, <1>2
  <2> QED
    BY <1>2, <2>1, BlockPairs DEF Places
<1>6. ASSUME NEW g \in Fds, NEW k \in Places
      PROVE  /\ <<g, k>> \in Owners(i)' <=> <<g, k>> \in Owners(i) \cup Block(fd, m, n)
             /\ ~(<<g, k>> \in Owners(i) /\ <<g, k>> \in Block(fd, m, n))
  <2>1. CASE g = fd
    <3>1. <<g, k>> \in Owners(i)' <=> k <= m + n
      BY <1>t, <1>1, <2>1, OwnersPairs
    <3>2. <<g, k>> \in Owners(i) <=> k <= m
      BY <1>t, <1>1, <2>1, OwnersPairs DEF m
    <3>3. <<g, k>> \in Block(fd, m, n) <=> m < k /\ k <= m + n
      BY <1>5, <2>1
    <3> QED
      BY <1>t, <1>2, <3>1, <3>2, <3>3 DEF Places
  <2>2. CASE g # fd
    <3>1. <<g, k>> \in Owners(i)' <=> <<g, k>> \in Owners(i)
      <4>1. CASE peer[g] = None
        <5>1. <<g, k>> \in Owners(i) <=> k = 1 /\ g \in DOMAIN fwd /\ i \in fwd[g]
          BY <4>1, OwnersPairs
        <5>2. peer'[g] = None
          BY <1>1, <4>1
        <5>3. <<g, k>> \in Owners(i)' <=> k = 1 /\ g \in DOMAIN fwd' /\ i \in fwd'[g]
          BY <5>2, OwnersPairs
        <5>4. /\ g \in DOMAIN fwd' <=> g \in DOMAIN fwd
              /\ g \in DOMAIN fwd => fwd'[g] = fwd[g]
          BY <1>3, <2>2
        <5> QED
          BY <5>1, <5>3, <5>4
      <4>2. CASE peer[g] # None
        <5>1. asked'[peer[g]] = asked[peer[g]]
          BY <1>t, <1>1, <1>4, <2>2, <4>2
        <5> QED
          BY <1>1, <4>2, <5>1, OwnersPairs
      <4> QED
        BY <4>1, <4>2
    <3>2. <<g, k>> \notin Block(fd, m, n)
      BY <1>5, <2>2
    <3> QED
      BY <3>1, <3>2
  <2> QED
    BY <2>1, <2>2
<1>7. Owners(i)' = Owners(i) \cup Block(fd, m, n)
  <2>1. /\ Owners(i)' \in SUBSET (Fds \X Places)
        /\ Owners(i) \cup Block(fd, m, n) \in SUBSET (Fds \X Places)
    BY <1>5, OwnersPairs
  <2> QED
    BY <1>6, <2>1, SamePairs
<1>8. Owners(i) \cap Block(fd, m, n) = {}
  <2>1. {} \in SUBSET (Fds \X Places)
        /\ Owners(i) \cap Block(fd, m, n) \in SUBSET (Fds \X Places)
    BY <1>5
  <2> QED
    BY <1>6, <2>1, SamePairs
<1>9. IsFiniteSet(Owners(i)) /\ Cardinality(Owners(i)) \in Nat /\ Cardinality(Owners(i)) <= CountOf(i)
  BY FS_CardinalityType DEF Covered
<1>10. IsFiniteSet(Owners(i)') /\ Cardinality(Owners(i)') = Cardinality(Owners(i)) + n
  BY <1>2, <1>7, <1>8, <1>9, BlockAdded
<1>11. CountOf(i)' = CountOf(i) + n /\ CountOf(i) \in Nat
  BY CountRaised DEF IInv, TypeOK, AddFilter, CountOf, n
<1> QED
  BY <1>2, <1>9, <1>10, <1>11

LEMMA CoveredRemove ==
  ASSUME IInv, Ruled, Covered, Disciplined, NEW c \in Clients, NEW fd \in Fds, NEW list \in Lists,
         RemoveFilter(c, fd, list)
  PROVE  Covered'
<1> SUFFICES ASSUME NEW i \in Id \ raced
             PROVE  IsFiniteSet(Owners(i)') /\ Cardinality(Owners(i)') <= CountOf(i)'
  BY DEF Covered, AddFilter, RemoveFilter, Connect, BadMagic, HangUp, CleanIndex, CloseFd
<1> DEFINE n == Occurrences(list, i)
           m == asked[c][i] - n
<1>t. /\ peer \in [Fds -> Clients \cup {None}] /\ asked \in [Clients -> [Id -> Nat]]
      /\ DOMAIN fwd \subseteq Fds /\ fwd \in [DOMAIN fwd -> SUBSET Id]
      /\ MaxCount \in Nat /\ None \notin Clients
  BY SubscriptionsAssumption DEF IInv, TypeOK
<1>2. m \in Nat /\ n \in Nat /\ asked[c][i] = m + n /\ m + n <= MaxCount
  <2>1. n \in Nat /\ asked[c][i] \in Nat
    BY <1>t, OccurrencesNat
  <2>2. n <= asked[c][i] /\ asked[c][i] <= MaxCount
    BY DEF RemoveFilter, Ruled, AtMost
  <2> QED
    BY <2>1, <2>2
<1>1. /\ peer[fd] = c /\ UNCHANGED peer
      /\ asked'[c][i] = m /\ \A d \in Clients \ {c} : asked'[d] = asked[d]
  <2>1. asked'[c][i] = IF n >= asked[c][i] THEN 0 ELSE asked[c][i] - n
    BY <1>t DEF RemoveFilter
  <2>2. asked'[c][i] = m
    BY <1>2, <2>1
  <2> QED
    BY <1>t, <2>2 DEF RemoveFilter, Orders
<1>3. \A g \in Fds \ {fd} : /\ g \in DOMAIN fwd' <=> g \in DOMAIN fwd
                            /\ g \in DOMAIN fwd => fwd'[g] = fwd[g]
  BY <1>t, ManagerEntries DEF RemoveFilter
<1>4. \A g \in Fds \ {fd} : peer[g] # c
  BY <1>t, <1>1 DEF Ruled, OnePeer
<1> HIDE DEF m, n
<1>5. /\ Block(fd, m, n) \in SUBSET (Fds \X Places)
      /\ \A g \in Fds, k \in Places :
           <<g, k>> \in Block(fd, m, n) <=> g = fd /\ m < k /\ k <= m + n
  <2>1. MaxCount + 1 \in Nat /\ m + n <= MaxCount + 1
    BY <1>t, <1>2
  <2> QED
    BY <1>2, <2>1, BlockPairs DEF Places
<1>6. ASSUME NEW g \in Fds, NEW k \in Places
      PROVE  /\ <<g, k>> \in Owners(i)' <=> <<g, k>> \in Owners(i) \ Block(fd, m, n)
             /\ <<g, k>> \in Block(fd, m, n) => <<g, k>> \in Owners(i)
  <2>1. CASE g = fd
    <3>1. <<g, k>> \in Owners(i)' <=> k <= m
      BY <1>t, <1>1, <2>1, OwnersPairs
    <3>2. <<g, k>> \in Owners(i) <=> k <= m + n
      BY <1>t, <1>1, <1>2, <2>1, OwnersPairs
    <3>3. <<g, k>> \in Block(fd, m, n) <=> m < k /\ k <= m + n
      BY <1>5, <2>1
    <3> QED
      BY <1>t, <1>2, <3>1, <3>2, <3>3 DEF Places
  <2>2. CASE g # fd
    <3>1. <<g, k>> \in Owners(i)' <=> <<g, k>> \in Owners(i)
      <4>1. CASE peer[g] = None
        <5>1. <<g, k>> \in Owners(i) <=> k = 1 /\ g \in DOMAIN fwd /\ i \in fwd[g]
          BY <4>1, OwnersPairs
        <5>2. peer'[g] = None
          BY <1>1, <4>1
        <5>3. <<g, k>> \in Owners(i)' <=> k = 1 /\ g \in DOMAIN fwd' /\ i \in fwd'[g]
          BY <5>2, OwnersPairs
        <5>4. /\ g \in DOMAIN fwd' <=> g \in DOMAIN fwd
              /\ g \in DOMAIN fwd => fwd'[g] = fwd[g]
          BY <1>3, <2>2
        <5> QED
          BY <5>1, <5>3, <5>4
      <4>2. CASE peer[g] # None
        <5>1. asked'[peer[g]] = asked[peer[g]]
          BY <1>t, <1>1, <1>4, <2>2, <4>2
        <5> QED
          BY <1>1, <4>2, <5>1, OwnersPairs
      <4> QED
        BY <4>1, <4>2
    <3>2. <<g, k>> \notin Block(fd, m, n)
      BY <1>5, <2>2
    <3> QED
      BY <3>1, <3>2
  <2> QED
    BY <2>1, <2>2
<1>7. Owners(i)' = Owners(i) \ Block(fd, m, n)
  <2>1. /\ Owners(i)' \in SUBSET (Fds \X Places)
        /\ Owners(i) \ Block(fd, m, n) \in SUBSET (Fds \X Places)
    BY <1>5, OwnersPairs
  <2> QED
    BY <1>6, <2>1, SamePairs
<1>8. Block(fd, m, n) \subseteq Owners(i)
  BY <1>5, <1>6, OwnersPairs, SubPairs
<1>9. IsFiniteSet(Owners(i)) /\ Cardinality(Owners(i)) \in Nat /\ Cardinality(Owners(i)) <= CountOf(i)
  BY FS_CardinalityType DEF Covered
<1>10. /\ IsFiniteSet(Owners(i)') /\ Cardinality(Owners(i)') = Cardinality(Owners(i)) - n
       /\ n <= Cardinality(Owners(i))
  BY <1>2, <1>7, <1>8, <1>9, BlockDropped
<1>11. CountOf(i) \in Nat
  BY DEF IInv, TypeOK, CountOf
<1>12. CountOf(i)' = CountOf(i) - n
  <2>1. n <= CountOf(i)
    BY <1>2, <1>9, <1>10, <1>11
  <2> QED
    BY <2>1, CountLowered DEF IInv, RemoveFilter, n
<1> QED
  BY <1>2, <1>9, <1>10, <1>11, <1>12

(* Connections that come and go can only give places up. *)
LEMMA CoveredConnection ==
  ASSUME IInv, Ruled, Covered, Disciplined, NEW fd \in Fds,
         \/ \E c \in Clients : Connect(c, fd) \/ BadMagic(c, fd) \/ HangUp(c, fd)
         \/ CleanIndex(fd) \/ CloseFd(fd)
  PROVE  Covered'
<1> SUFFICES ASSUME NEW i \in Id \ raced
             PROVE  IsFiniteSet(Owners(i)') /\ Cardinality(Owners(i)') <= CountOf(i)'
  BY DEF Covered, AddFilter, RemoveFilter, Connect, BadMagic, HangUp, CleanIndex, CloseFd
<1>t. /\ peer \in [Fds -> Clients \cup {None}] /\ asked \in [Clients -> [Id -> Nat]]
      /\ DOMAIN fwd \subseteq Fds /\ fwd \in [DOMAIN fwd -> SUBSET Id]
      /\ MaxCount \in Nat /\ None \notin Clients /\ Placed /\ Wanted
  BY SubscriptionsAssumption DEF IInv, TypeOK, Ruled
<1>1. CountOf(i)' = CountOf(i)
  BY DEF Connect, BadMagic, HangUp, CleanIndex, CloseFd, CountOf
<1>2. ASSUME NEW g \in Fds, NEW k \in Places, <<g, k>> \in Owners(i)'
      PROVE  <<g, k>> \in Owners(i)
  <2>k. IF peer'[g] = None THEN k = 1 /\ g \in DOMAIN fwd' /\ i \in fwd'[g]
        ELSE k <= asked'[peer'[g]][i]
    BY <1>2, OwnersPairs
  <2>1. ASSUME NEW c \in Clients, Connect(c, fd)
        PROVE  <<g, k>> \in Owners(i)
    <3>1. /\ \A h \in Fds : peer[h] # c
          /\ peer' = [peer EXCEPT ![fd] = c]
          /\ asked' = [asked EXCEPT ![c] = [j \in Id |-> 0]]
          /\ UNCHANGED fwd
      BY <2>1 DEF Connect, Connected
    <3>2. CASE g = fd
      <4>1. k <= 0
        BY <1>t, <2>k, <3>1, <3>2
      <4> QED
        BY <1>t, <4>1 DEF Places
    <3>3. CASE g # fd
      <4>1. peer'[g] = peer[g] /\ (peer[g] # None => asked'[peer[g]] = asked[peer[g]])
        BY <1>t, <3>1, <3>3
      <4> QED
        BY <2>k, <3>1, <4>1, OwnersPairs
    <3> QED
      BY <3>2, <3>3
  <2>2. ASSUME NEW c \in Clients, HangUp(c, fd)
        PROVE  <<g, k>> \in Owners(i)
    <3>1. /\ peer[fd] = c /\ peer' = [peer EXCEPT ![fd] = None]
          /\ UNCHANGED <<asked, fwd>>
      BY <2>2 DEF HangUp
    <3>2. CASE g = fd
      <4>1. k = 1 /\ fd \in DOMAIN fwd /\ i \in fwd[fd]
        BY <1>t, <2>k, <3>1, <3>2
      <4>2. asked[c][i] \in Nat /\ asked[c][i] > 0
        BY <1>t, <3>1, <4>1 DEF Wanted
      <4>3. k <= asked[peer[g]][i] /\ peer[g] # None
        BY <1>t, <3>1, <3>2, <4>1, <4>2
      <4> QED
        BY <4>3, OwnersPairs
    <3>3. CASE g # fd
      <4>1. peer'[g] = peer[g]
        BY <1>t, <3>1, <3>3
      <4> QED
        BY <2>k, <3>1, <4>1, OwnersPairs
    <3> QED
      BY <3>2, <3>3
  <2>3. ASSUME UNCHANGED <<peer, asked>>, fwd' = fwd \/ fwd' = Clean(fwd, fd)
        PROVE  <<g, k>> \in Owners(i)
    <3>1. g \in DOMAIN fwd' => g \in DOMAIN fwd /\ fwd'[g] = fwd[g]
      BY <2>3 DEF Clean
    <3> QED
      BY <2>k, <2>3, <3>1, OwnersPairs
  <2> QED
    BY <2>1, <2>2, <2>3 DEF BadMagic, CleanIndex, CloseFd
<1>3. Owners(i)' \subseteq Owners(i)
  BY <1>2, OwnersPairs, SubPairs
<1>4. IsFiniteSet(Owners(i)) /\ Cardinality(Owners(i)) \in Nat /\ Cardinality(Owners(i)) <= CountOf(i)
  BY FS_CardinalityType DEF Covered
<1>5. /\ IsFiniteSet(Owners(i)') /\ Cardinality(Owners(i)') \in Nat
      /\ Cardinality(Owners(i)') <= Cardinality(Owners(i))
  BY <1>3, <1>4, FS_Subset, FS_CardinalityType
<1>6. CountOf(i) \in Nat
  BY DEF IInv, TypeOK, CountOf
<1> QED
  BY <1>1, <1>4, <1>5, <1>6

LEMMA CoveredOverlap ==
  ASSUME IInv, Covered, NEW j \in Id, Overlap(j)
  PROVE  Covered'
<1> SUFFICES ASSUME NEW i \in Id \ raced'
             PROVE  IsFiniteSet(Owners(i)') /\ Cardinality(Owners(i)') <= CountOf(i)'
  BY DEF Covered
<1>1. i \in Id \ raced /\ i # j /\ UNCHANGED <<peer, fwd, asked>>
  BY DEF Overlap
<1>2. Owners(i)' = Owners(i)
  BY <1>1 DEF Owners
<1>3. CountOf(i)' = CountOf(i)
  BY <1>1 DEF Overlap, CountOf
<1> QED
  BY <1>1, <1>2, <1>3 DEF Covered

(* The inductive invariant of clients that keep the rules. *)
RInv == IInv /\ Ruled /\ (Disciplined => Covered)

LEMMA CoveredInit == Init => Covered
<1> SUFFICES ASSUME Init, NEW i \in Id \ raced
             PROVE  IsFiniteSet(Owners(i)) /\ Cardinality(Owners(i)) <= CountOf(i)
  BY DEF Covered
<1>1. Owners(i) = {}
  BY DEF Init, Owners
<1>2. CountOf(i) = 0
  BY DEF Init, CountOf
<1> QED
  BY <1>1, <1>2, FS_EmptySet

LEMMA MannersKept == Next => UNCHANGED manners
BY DEF Next, Connect, AddFilter, RemoveFilter, BadMagic, HangUp, CleanIndex, CloseFd, Overlap

LEMMA RuledInvariant == Spec => []RInv
<1>1. Init => RInv
  BY InitIInv, RuledInit, CoveredInit DEF RInv
<1>2. RInv /\ [Next]_subVars => RInv'
  <2> SUFFICES ASSUME RInv, [Next]_subVars PROVE RInv'
    OBVIOUS
  <2>1. CASE Next
    <3>1. IInv /\ Ruled /\ (Disciplined' => Disciplined /\ Covered)
      BY <2>1, MannersKept DEF RInv, Disciplined
    <3>2. IInv'
      BY <3>1, StepIInv
    <3>3. Ruled'
      BY <2>1, <3>1, RuledAdd, RuledRemove, RuledConnection, RuledOverlap DEF Next
    <3>4. Disciplined' => Covered'
      BY <2>1, <3>1, CoveredAdd, CoveredRemove, CoveredConnection, CoveredOverlap DEF Next
    <3> QED
      BY <3>2, <3>3, <3>4 DEF RInv
  <2>2. CASE UNCHANGED subVars
    <3>1. IInv'
      BY StepIInv DEF RInv
    <3>2. Ruled' /\ (Disciplined' <=> Disciplined)
      BY <2>2 DEF subVars, RInv, Ruled, OnePeer, AtMost, Disciplined, Placed, Wanted
    <3>3. Covered => Covered'
      BY <2>2 DEF subVars, Covered, Owners, CountOf
    <3> QED
      BY <3>1, <3>2, <3>3 DEF RInv
  <2> QED
    BY <2>1, <2>2
<1> QED
  BY <1>1, <1>2, PTL DEF Spec

(* An entry of the index holds a place, so the count is not zero. *)
LEMMA InstalledByCount == RInv => SubscribedIsInstalled
<1> SUFFICES ASSUME RInv, Disciplined, NEW fd \in DOMAIN fwd, NEW i \in fwd[fd] \ raced
             PROVE  i \in filter_map
  BY DEF SubscribedIsInstalled
<1>1. /\ TypeOK /\ TableCoherent /\ Covered /\ Wanted
      /\ fd \in Fds /\ i \in Id \ raced /\ MaxCount \in Nat
  BY SubscriptionsAssumption DEF RInv, IInv, Ruled, TypeOK
<1>2. 1 \in Places /\ (peer[fd] # None => 1 <= asked[peer[fd]][i])
  BY <1>1 DEF Places, Wanted, TypeOK
<1>3. <<fd, 1>> \in Owners(i)
  BY <1>1, <1>2, OwnersPairs
<1>4. /\ IsFiniteSet(Owners(i)) /\ Cardinality(Owners(i)) \in Nat
      /\ Cardinality(Owners(i)) <= CountOf(i)
  BY <1>1, FS_CardinalityType DEF Covered
<1>5. Cardinality(Owners(i)) # 0
  BY <1>3, <1>4, FS_EmptySet
<1>6. CountOf(i) # 0
  BY <1>1, <1>4, <1>5 DEF CountOf, TypeOK
<1> QED
  BY <1>1, <1>6 DEF CountOf, TableCoherent

--------------------------------------------------------------------------------
(* The places the programs' ledgers hold of id i. *)
Ledger(i) == {a \in Clients \X (1 .. MaxCount) : a[2] <= asked[a[1]][i]}

Exact == \A i \in Id \ raced : IsFiniteSet(Ledger(i)) /\ CountOf(i) = Cardinality(Ledger(i))

Settled == Cleared /\ NoStale /\ Exact

LEMMA LedgerPairs ==
  ASSUME NEW i \in Id
  PROVE  /\ Ledger(i) \in SUBSET (Clients \X (1 .. MaxCount))
         /\ \A d \in Clients, k \in 1 .. MaxCount :
              <<d, k>> \in Ledger(i) <=> k <= asked[d][i]
         /\ (Ledger(i) \in SUBSET (Clients \X (1 .. MaxCount)))'
         /\ \A d \in Clients, k \in 1 .. MaxCount :
              <<d, k>> \in Ledger(i)' <=> k <= asked'[d][i]
BY DEF Ledger

LEMMA SettledInit == Init => Settled
<1> SUFFICES ASSUME Init PROVE Settled
  OBVIOUS
<1>1. Cleared /\ NoStale
  BY DEF Init, Cleared, NoStale
<1>2. ASSUME NEW i \in Id \ raced
      PROVE  IsFiniteSet(Ledger(i)) /\ CountOf(i) = Cardinality(Ledger(i))
  <2>1. Ledger(i) = {}
    BY SubscriptionsAssumption DEF Init, Ledger
  <2>2. CountOf(i) = 0
    BY DEF Init, CountOf
  <2> QED
    BY <2>1, <2>2, FS_EmptySet
<1> QED
  BY <1>1, <1>2 DEF Settled, Exact

(* An order changes the ledger of the program that gives it and the entry   *)
(* of its descriptor, and leaves no stale entry in the reverse index.       *)
LEMMA ClearedOrder ==
  ASSUME IInv, Settled, NEW c \in Clients, NEW fd \in Fds, NEW list \in Lists,
         AddFilter(c, fd, list) \/ RemoveFilter(c, fd, list)
  PROVE  Cleared' /\ NoStale'
<1>t. /\ peer \in [Fds -> Clients \cup {None}] /\ asked \in [Clients -> [Id -> Nat]]
      /\ DOMAIN fwd \subseteq Fds /\ fwd \in [DOMAIN fwd -> SUBSET Id]
      /\ None \notin Clients /\ Cleared /\ NoStale
  BY SubscriptionsAssumption DEF IInv, TypeOK, Settled
<1>1. /\ peer[fd] = c /\ UNCHANGED peer
      /\ \A d \in Clients \ {c} : asked'[d] = asked[d]
  BY <1>t DEF AddFilter, RemoveFilter, Orders
<1>2. \A g \in DOMAIN fwd' : g # fd => g \in DOMAIN fwd /\ fwd'[g] = fwd[g]
  <2>1. CASE AddFilter(c, fd, list)
    BY <2>1 DEF AddFilter, ManagerAdd
  <2>2. CASE RemoveFilter(c, fd, list)
    <3>1. CASE fd \in DOMAIN fwd
      <4>1. fwd' = ManagerRemove(fwd, fd, list)
        BY <2>2, <3>1 DEF RemoveFilter
      <4> QED
        BY <1>t, <3>1, <4>1, ManagerTypes, ManagerEntries
    <3>2. CASE fd \notin DOMAIN fwd
      BY <2>2, <3>2 DEF RemoveFilter
    <3> QED
      BY <3>1, <3>2
  <2> QED
    BY <2>1, <2>2
<1>3. Cleared'
  BY <1>t, <1>1, <1>2 DEF Cleared, Connected
<1>4. rev' = ReverseOf(fwd') \/ UNCHANGED <<fwd, rev>>
  BY DEF AddFilter, RemoveFilter
<1>5. NoStale'
  <2>1. CASE rev' = ReverseOf(fwd')
    BY <2>1 DEF NoStale, ReverseOf
  <2>2. CASE UNCHANGED <<fwd, rev>>
    BY <1>t, <2>2 DEF NoStale
  <2> QED
    BY <1>4, <2>1, <2>2
<1> QED
  BY <1>3, <1>5

LEMMA ClearedConnection ==
  ASSUME IInv, Ruled, Polite, Settled, NEW fd \in Fds,
         \/ \E c \in Clients : Connect(c, fd) \/ BadMagic(c, fd) \/ HangUp(c, fd)
         \/ CleanIndex(fd) \/ CloseFd(fd)
  PROVE  Cleared' /\ NoStale'
<1>t. /\ peer \in [Fds -> Clients \cup {None}] /\ asked \in [Clients -> [Id -> Nat]]
      /\ DOMAIN fwd \subseteq Fds /\ fwd \in [DOMAIN fwd -> SUBSET Id]
      /\ None \notin Clients /\ Cleared /\ NoStale /\ Placed /\ Wanted
  BY SubscriptionsAssumption DEF IInv, TypeOK, Settled, Ruled, Polite, Disciplined
<1>1. ASSUME NEW c \in Clients, Connect(c, fd)
      PROVE  Cleared' /\ NoStale'
  <2>1. /\ handler[fd] = "closed"
        /\ peer' = [peer EXCEPT ![fd] = c]
        /\ asked' = [asked EXCEPT ![c] = [i \in Id |-> 0]]
        /\ UNCHANGED <<fwd, rev>>
    BY <1>1 DEF Connect, Free
  <2>2. peer[fd] = None
    BY <1>t, <2>1 DEF Placed
  <2>3. \A d \in Clients : ~Connected(d)' => d # c /\ ~Connected(d)
    BY <1>t, <2>1, <2>2 DEF Connected
  <2>4. Cleared'
    BY <1>t, <2>1, <2>3 DEF Cleared
  <2> QED
    BY <1>t, <2>1, <2>4 DEF NoStale
<1>2. ASSUME NEW c \in Clients, HangUp(c, fd)
      PROVE  Cleared' /\ NoStale'
  <2>1. /\ peer[fd] = c
        /\ peer' = [peer EXCEPT ![fd] = None]
        /\ \A i \in Id : asked[c][i] = 0
        /\ UNCHANGED <<asked, fwd, rev>>
    BY <1>2 DEF HangUp
  <2>2. \A d \in Clients \ {c} : ~Connected(d)' => ~Connected(d)
    BY <1>t, <2>1 DEF Connected
  <2>3. fd \in DOMAIN fwd => fwd[fd] = {}
    BY <1>t, <2>1 DEF Wanted
  <2>4. Cleared'
    BY <1>t, <2>1, <2>2, <2>3 DEF Cleared
  <2> QED
    BY <1>t, <2>1, <2>4 DEF NoStale
<1>3. ASSUME CleanIndex(fd)
      PROVE  Cleared' /\ NoStale'
  <2>1. /\ peer[fd] = None
        /\ DOMAIN fwd' = DOMAIN fwd \ {fd}
        /\ \A g \in DOMAIN fwd' : fwd'[g] = fwd[g]
        /\ UNCHANGED <<peer, asked, rev>>
    BY <1>3 DEF CleanIndex, Clean
  <2>2. Cleared'
    BY <1>t, <2>1 DEF Cleared, Connected
  <2>3. fd \in DOMAIN fwd => fwd[fd] = {}
    BY <1>t, <2>1 DEF Cleared
  <2>4. NoStale'
    BY <1>t, <2>1, <2>3 DEF NoStale
  <2> QED
    BY <2>2, <2>4
<1>4. ASSUME UNCHANGED <<peer, asked, fwd, rev>>
      PROVE  Cleared' /\ NoStale'
  BY <1>t, <1>4 DEF Cleared, Connected, NoStale
<1> QED
  BY <1>1, <1>2, <1>3, <1>4 DEF BadMagic, CloseFd

(* An order moves a count by as many places as it moves the ledger. *)
LEMMA ExactAdd ==
  ASSUME IInv, Exact, NEW c \in Clients, NEW fd \in Fds, NEW list \in Lists,
         AddFilter(c, fd, list)
  PROVE  Exact'
<1> SUFFICES ASSUME NEW i \in Id \ raced
             PROVE  IsFiniteSet(Ledger(i)') /\ CountOf(i)' = Cardinality(Ledger(i)')
  BY DEF Exact, AddFilter, RemoveFilter
<1> DEFINE m == asked[c][i]
           n == Occurrences(list, i)
<1>t. asked \in [Clients -> [Id -> Nat]] /\ MaxCount \in Nat
  BY SubscriptionsAssumption DEF IInv, TypeOK
<1>1. asked'[c][i] = m + n /\ \A d \in Clients \ {c} : asked'[d] = asked[d]
  BY <1>t DEF AddFilter
<1>2. m \in Nat /\ n \in Nat /\ m + n <= MaxCount
  BY <1>t, OccurrencesNat DEF AddFilter, Bounded
<1>3. CountOf(i)' = CountOf(i) + n
  BY CountRaised DEF IInv, AddFilter
<1>4. \A k \in 1 .. MaxCount : <<c, k>> \in Ledger(i) <=> k <= m
  BY LedgerPairs
<1> HIDE DEF m, n
<1>5. /\ Block(c, m, n) \in SUBSET (Clients \X (1 .. MaxCount))
      /\ \A d \in Clients, k \in 1 .. MaxCount :
           <<d, k>> \in Block(c, m, n) <=> d = c /\ m < k /\ k <= m + n
  BY <1>t, <1>2, BlockPairs
<1>6. ASSUME NEW d \in Clients, NEW k \in 1 .. MaxCount
      PROVE  /\ <<d, k>> \in Ledger(i)' <=> <<d, k>> \in Ledger(i) \cup Block(c, m, n)
             /\ ~(<<d, k>> \in Ledger(i) /\ <<d, k>> \in Block(c, m, n))
  <2>1. CASE d = c
    <3>1. <<d, k>> \in Ledger(i)' <=> k <= m + n
      BY <1>1, <2>1, LedgerPairs
    <3>2. <<d, k>> \in Ledger(i) <=> k <= m
      BY <1>4, <2>1
    <3>3. <<d, k>> \in Block(c, m, n) <=> m < k /\ k <= m + n
      BY <1>5, <2>1
    <3> QED
      BY <1>t, <1>2, <3>1, <3>2, <3>3
  <2>2. CASE d # c
    <3>1. <<d, k>> \in Ledger(i)' <=> <<d, k>> \in Ledger(i)
      BY <1>1, <2>2, LedgerPairs
    <3>2. <<d, k>> \notin Block(c, m, n)
      BY <1>5, <2>2
    <3> QED
      BY <3>1, <3>2
  <2> QED
    BY <2>1, <2>2
<1>7. Ledger(i)' = Ledger(i) \cup Block(c, m, n)
  <2>1. /\ Ledger(i)' \in SUBSET (Clients \X (1 .. MaxCount))
        /\ Ledger(i) \cup Block(c, m, n) \in SUBSET (Clients \X (1 .. MaxCount))
    BY <1>5, LedgerPairs
  <2> QED
    BY <1>6, <2>1, SamePairs
<1>8. Ledger(i) \cap Block(c, m, n) = {}
  <2>1. {} \in SUBSET (Clients \X (1 .. MaxCount))
        /\ Ledger(i) \cap Block(c, m, n) \in SUBSET (Clients \X (1 .. MaxCount))
    BY <1>5
  <2> QED
    BY <1>6, <2>1, SamePairs
<1>9. IsFiniteSet(Ledger(i)) /\ CountOf(i) = Cardinality(Ledger(i))
  BY DEF Exact
<1>10. IsFiniteSet(Ledger(i)') /\ Cardinality(Ledger(i)') = Cardinality(Ledger(i)) + n
  BY <1>2, <1>7, <1>8, <1>9, BlockAdded
<1> QED
  BY <1>3, <1>9, <1>10

LEMMA ExactRemove ==
  ASSUME IInv, Ruled, Disciplined, Exact, NEW c \in Clients, NEW fd \in Fds,
         NEW list \in Lists, RemoveFilter(c, fd, list)
  PROVE  Exact'
<1> SUFFICES ASSUME NEW i \in Id \ raced
             PROVE  IsFiniteSet(Ledger(i)') /\ CountOf(i)' = Cardinality(Ledger(i)')
  BY DEF Exact, AddFilter, RemoveFilter
<1> DEFINE n == Occurrences(list, i)
           m == asked[c][i] - n
<1>t. asked \in [Clients -> [Id -> Nat]] /\ MaxCount \in Nat
  BY SubscriptionsAssumption DEF IInv, TypeOK
<1>2. m \in Nat /\ n \in Nat /\ asked[c][i] = m + n /\ m + n <= MaxCount
  <2>1. n \in Nat /\ asked[c][i] \in Nat
    BY <1>t, OccurrencesNat
  <2>2. n <= asked[c][i] /\ asked[c][i] <= MaxCount
    BY DEF RemoveFilter, Ruled, AtMost
  <2> QED
    BY <2>1, <2>2
<1>1. asked'[c][i] = m /\ \A d \in Clients \ {c} : asked'[d] = asked[d]
  <2>1. asked'[c][i] = IF n >= asked[c][i] THEN 0 ELSE asked[c][i] - n
    BY <1>t DEF RemoveFilter
  <2>2. asked'[c][i] = m
    BY <1>2, <2>1
  <2> QED
    BY <1>t, <2>2 DEF RemoveFilter
<1>3. n <= CountOf(i) => CountOf(i)' = CountOf(i) - n
  BY CountLowered DEF IInv, RemoveFilter
<1> HIDE DEF m, n
<1>5. /\ Block(c, m, n) \in SUBSET (Clients \X (1 .. MaxCount))
      /\ \A d \in Clients, k \in 1 .. MaxCount :
           <<d, k>> \in Block(c, m, n) <=> d = c /\ m < k /\ k <= m + n
  BY <1>t, <1>2, BlockPairs
<1>6. ASSUME NEW d \in Clients, NEW k \in 1 .. MaxCount
      PROVE  /\ <<d, k>> \in Ledger(i)' <=> <<d, k>> \in Ledger(i) \ Block(c, m, n)
             /\ <<d, k>> \in Block(c, m, n) => <<d, k>> \in Ledger(i)
  <2>1. CASE d = c
    <3>1. <<d, k>> \in Ledger(i)' <=> k <= m
      BY <1>1, <2>1, LedgerPairs
    <3>2. <<d, k>> \in Ledger(i) <=> k <= m + n
      BY <1>2, <2>1, LedgerPairs
    <3>3. <<d, k>> \in Block(c, m, n) <=> m < k /\ k <= m + n
      BY <1>5, <2>1
    <3> QED
      BY <1>t, <1>2, <3>1, <3>2, <3>3
  <2>2. CASE d # c
    <3>1. <<d, k>> \in Ledger(i)' <=> <<d, k>> \in Ledger(i)
      BY <1>1, <2>2, LedgerPairs
    <3>2. <<d, k>> \notin Block(c, m, n)
      BY <1>5, <2>2
    <3> QED
      BY <3>1, <3>2
  <2> QED
    BY <2>1, <2>2
<1>7. Ledger(i)' = Ledger(i) \ Block(c, m, n)
  <2>1. /\ Ledger(i)' \in SUBSET (Clients \X (1 .. MaxCount))
        /\ Ledger(i) \ Block(c, m, n) \in SUBSET (Clients \X (1 .. MaxCount))
    BY <1>5, LedgerPairs
  <2> QED
    BY <1>6, <2>1, SamePairs
<1>8. Block(c, m, n) \subseteq Ledger(i)
  BY <1>5, <1>6, LedgerPairs, SubPairs
<1>9. IsFiniteSet(Ledger(i)) /\ CountOf(i) = Cardinality(Ledger(i))
  BY DEF Exact
<1>10. /\ IsFiniteSet(Ledger(i)') /\ Cardinality(Ledger(i)') = Cardinality(Ledger(i)) - n
       /\ n <= Cardinality(Ledger(i))
  BY <1>2, <1>7, <1>8, <1>9, BlockDropped
<1> QED
  BY <1>3, <1>9, <1>10

(* A program that connects has left nothing in its ledger, so emptying it   *)
(* changes nothing; no other step of a connection touches ledger or counts. *)
LEMMA ExactConnection ==
  ASSUME IInv, Settled, NEW fd \in Fds,
         \/ \E c \in Clients : Connect(c, fd) \/ BadMagic(c, fd) \/ HangUp(c, fd)
         \/ CleanIndex(fd) \/ CloseFd(fd)
  PROVE  Exact'
<1>t. asked \in [Clients -> [Id -> Nat]] /\ Cleared /\ Exact
  BY DEF IInv, TypeOK, Settled
<1>1. UNCHANGED <<id_map, raced>>
  BY DEF Connect, BadMagic, HangUp, CleanIndex, CloseFd
<1>2. \A d \in Clients, i \in Id : asked'[d][i] = asked[d][i]
  <2>1. ASSUME NEW c \in Clients, Connect(c, fd)
        PROVE  \A d \in Clients, i \in Id : asked'[d][i] = asked[d][i]
    <3>1. \A i \in Id : asked[c][i] = 0
      BY <1>t, <2>1 DEF Connect, Cleared
    <3>2. asked' = [asked EXCEPT ![c] = [i \in Id |-> 0]]
      BY <2>1 DEF Connect
    <3> QED
      BY <1>t, <3>1, <3>2
  <2> QED
    BY <2>1 DEF BadMagic, HangUp, CleanIndex, CloseFd
<1>3. ASSUME NEW i \in Id
      PROVE  Ledger(i)' = Ledger(i) /\ CountOf(i)' = CountOf(i)
  <2>1. \A d \in Clients, k \in 1 .. MaxCount : <<d, k>> \in Ledger(i)' <=> <<d, k>> \in Ledger(i)
    BY <1>2, LedgerPairs
  <2>2. Ledger(i)' = Ledger(i)
    BY <2>1, LedgerPairs, SamePairs
  <2> QED
    BY <1>1, <2>2 DEF CountOf
<1> QED
  BY <1>t, <1>1, <1>3 DEF Exact

LEMMA SettledOverlap ==
  ASSUME IInv, Settled, NEW j \in Id, Overlap(j)
  PROVE  Settled'
<1>1. raced' = raced \cup {j} /\ UNCHANGED <<peer, fwd, rev, asked>>
  BY DEF Overlap
<1>2. Cleared' /\ NoStale'
  BY <1>1 DEF Settled, Cleared, Connected, NoStale
<1>3. ASSUME NEW i \in Id \ raced'
      PROVE  IsFiniteSet(Ledger(i)') /\ CountOf(i)' = Cardinality(Ledger(i)')
  <2>1. i \in Id \ raced /\ i # j
    BY <1>1
  <2>2. Ledger(i)' = Ledger(i)
    BY <1>1 DEF Ledger
  <2>3. CountOf(i)' = CountOf(i)
    BY <2>1 DEF Overlap, CountOf
  <2> QED
    BY <2>1, <2>2, <2>3 DEF Settled, Exact
<1> QED
  BY <1>2, <1>3 DEF Settled, Exact

(* The inductive invariant of polite clients. *)
PInv == RInv /\ (Polite => Settled)

LEMMA PoliteInvariant == Spec => []PInv
<1>1. Init => PInv
  BY InitIInv, RuledInit, CoveredInit, SettledInit DEF PInv, RInv
<1>2. RInv /\ PInv /\ RInv' /\ [Next]_subVars => PInv'
  <2> SUFFICES ASSUME RInv, PInv, RInv', [Next]_subVars, Polite'
               PROVE  Settled'
    BY DEF PInv
  <2>1. CASE Next
    <3>1. IInv /\ Ruled /\ Polite /\ Disciplined /\ Settled /\ Exact
      BY <2>1, MannersKept DEF RInv, PInv, Polite, Disciplined, Settled
    <3>2. Cleared' /\ NoStale'
      BY <2>1, <3>1, ClearedOrder, ClearedConnection, SettledOverlap DEF Next, Settled
    <3>3. Exact'
      BY <2>1, <3>1, ExactAdd, ExactRemove, ExactConnection, SettledOverlap DEF Next, Settled
    <3> QED
      BY <3>2, <3>3 DEF Settled
  <2>2. CASE UNCHANGED subVars
    <3>1. Settled
      BY <2>2 DEF subVars, PInv, Polite
    <3>2. Cleared' /\ NoStale'
      BY <2>2, <3>1 DEF subVars, Settled, Cleared, Connected, NoStale
    <3>3. Exact'
      BY <2>2, <3>1 DEF subVars, Settled, Exact, Ledger, CountOf
    <3> QED
      BY <3>2, <3>3 DEF Settled
  <2> QED
    BY <2>1, <2>2
<1> QED
  BY <1>1, <1>2, RuledInvariant, PTL DEF Spec

(* Who a frame reaches has an entry for its id, and so has asked for it. *)
LEMMA ServedHaveAsked == PInv => PoliteServed
<1> SUFFICES ASSUME PInv, Polite, NEW i \in Id, NEW c \in Receivers(i)
             PROVE  asked[c][i] > 0
  BY DEF PoliteServed, OnlySubscribersServed
<1>1. Wanted /\ NoStale
  BY DEF PInv, RInv, Ruled, Settled, Polite, Disciplined
<1>2. PICK fd \in rev[i] : i \in DOMAIN rev /\ c = peer[fd] /\ peer[fd] # None
  BY DEF Receivers
<1> QED
  BY <1>1, <1>2 DEF Wanted, NoStale

--------------------------------------------------------------------------------
(* What program c receives is what the index has for its descriptor. *)
Entries(c) == {i \in Id : \E fd \in DOMAIN fwd : peer[fd] = c /\ i \in fwd[fd]}

LEMMA ReceivedIsEntries ==
  PInv /\ Polite => received = [c \in Clients |-> Entries(c) \ raced]
<1> SUFFICES ASSUME PInv, Polite, NEW c \in Clients, NEW i \in Id \ raced
             PROVE  c \in Receivers(i) <=> \E fd \in DOMAIN fwd : peer[fd] = c /\ i \in fwd[fd]
  BY DEF received, Entries
<1>1. NoStale /\ IndexesAgree /\ SubscribedIsInstalled /\ Disciplined /\ c # None
  BY InstalledByCount, SubscriptionsAssumption
  DEF PInv, RInv, IInv, Settled, Polite, Disciplined
<1>2. ASSUME c \in Receivers(i)
      PROVE  \E fd \in DOMAIN fwd : peer[fd] = c /\ i \in fwd[fd]
  <2>1. PICK fd \in rev[i] : i \in DOMAIN rev /\ c = peer[fd]
    BY <1>2 DEF Receivers
  <2> QED
    BY <1>1, <2>1 DEF NoStale
<1>3. ASSUME NEW fd \in DOMAIN fwd, peer[fd] = c, i \in fwd[fd]
      PROVE  c \in Receivers(i)
  <2>1. i \in DOMAIN rev /\ fd \in rev[i] /\ i \in filter_map
    BY <1>1, <1>3 DEF IndexesAgree, SubscribedIsInstalled
  <2> QED
    BY <1>1, <1>3, <2>1 DEF Receivers
<1> QED
  BY <1>2, <1>3

(* An order changes the entries of the program that gives it, ...           *)
LEMMA EntriesAdd ==
  ASSUME IInv, Ruled, NEW c \in Clients, NEW fd \in Fds, NEW list \in Lists,
         AddFilter(c, fd, list)
  PROVE  /\ Entries(c)' = Entries(c) \cup IdsOf(list)
         /\ \A d \in Clients \ {c} : Entries(d)' = Entries(d)
<1>t. /\ peer \in [Fds -> Clients \cup {None}] /\ None \notin Clients
      /\ DOMAIN fwd \subseteq Fds /\ fwd \in [DOMAIN fwd -> SUBSET Id]
      /\ IdsOf(list) \subseteq Id
  BY SubscriptionsAssumption, IdsOfType DEF IInv, TypeOK
<1>1. /\ peer[fd] = c /\ UNCHANGED peer
      /\ fwd' = ManagerAdd(fwd, fd, list)
  BY DEF AddFilter, Orders
<1>2. \A g \in Fds \ {fd} : peer[g] # c
  BY <1>t, <1>1 DEF Ruled, OnePeer
<1>3. /\ DOMAIN fwd' = DOMAIN fwd \cup {fd}
      /\ \A g \in DOMAIN fwd' \ {fd} : fwd'[g] = fwd[g]
      /\ fwd'[fd] = IdsOf(list) \cup (IF fd \in DOMAIN fwd THEN fwd[fd] ELSE {})
  BY <1>1 DEF ManagerAdd
<1>4. Entries(c)' = Entries(c) \cup IdsOf(list)
  <2>1. Entries(c) = IF fd \in DOMAIN fwd THEN fwd[fd] ELSE {}
    BY <1>t, <1>1, <1>2 DEF Entries
  <2>2. Entries(c)' = fwd'[fd]
    BY <1>t, <1>1, <1>2, <1>3 DEF Entries
  <2> QED
    BY <1>3, <2>1, <2>2
<1>5. ASSUME NEW d \in Clients \ {c}
      PROVE  Entries(d)' = Entries(d)
  BY <1>t, <1>1, <1>3 DEF Entries
<1> QED
  BY <1>4, <1>5

LEMMA EntriesRemove ==
  ASSUME IInv, Ruled, NEW c \in Clients, NEW fd \in Fds, NEW list \in Lists,
         RemoveFilter(c, fd, list)
  PROVE  /\ Entries(c)' = Entries(c) \ IdsOf(list)
         /\ \A d \in Clients \ {c} : Entries(d)' = Entries(d)
<1>t. /\ peer \in [Fds -> Clients \cup {None}] /\ None \notin Clients
      /\ DOMAIN fwd \subseteq Fds /\ fwd \in [DOMAIN fwd -> SUBSET Id]
  BY SubscriptionsAssumption DEF IInv, TypeOK
<1>1. peer[fd] = c /\ UNCHANGED peer
  BY DEF RemoveFilter, Orders
<1>2. \A g \in Fds \ {fd} : peer[g] # c
  BY <1>t, <1>1 DEF Ruled, OnePeer
<1>3. Entries(c) = IF fd \in DOMAIN fwd THEN fwd[fd] ELSE {}
  BY <1>t, <1>1, <1>2 DEF Entries
<1>4. CASE fd \in DOMAIN fwd
  <2>1. fwd' = ManagerRemove(fwd, fd, list)
    BY <1>4 DEF RemoveFilter
  <2>2. /\ DOMAIN fwd' \subseteq Fds /\ fwd' \in [DOMAIN fwd' -> SUBSET Id]
        /\ \A g \in Fds \ {fd} : /\ g \in DOMAIN fwd' <=> g \in DOMAIN fwd
                                 /\ g \in DOMAIN fwd => fwd'[g] = fwd[g]
        /\ IF fwd[fd] \subseteq IdsOf(list) THEN fd \notin DOMAIN fwd'
           ELSE fd \in DOMAIN fwd' /\ fwd'[fd] = fwd[fd] \ IdsOf(list)
    BY <1>t, <1>4, <2>1, ManagerTypes, ManagerEntries
  <2>3. Entries(c)' = IF fd \in DOMAIN fwd' THEN fwd'[fd] ELSE {}
    BY <1>1, <1>2, <2>2 DEF Entries
  <2>4. Entries(c)' = Entries(c) \ IdsOf(list)
    BY <1>3, <1>4, <2>2, <2>3
  <2>5. ASSUME NEW d \in Clients \ {c}
        PROVE  Entries(d)' = Entries(d)
    BY <1>t, <1>1, <2>2 DEF Entries
  <2> QED
    BY <2>4, <2>5
<1>5. CASE fd \notin DOMAIN fwd
  <2>1. UNCHANGED fwd
    BY <1>5 DEF RemoveFilter
  <2> QED
    BY <1>1, <1>3, <1>5, <2>1 DEF Entries
<1> QED
  BY <1>4, <1>5

(* ... and connections that come and go change nobody's: a polite program   *)
(* has none when it hangs up, and its descriptor has none when it is reused.*)
LEMMA EntriesConnection ==
  ASSUME IInv, Ruled, Polite, Settled, NEW fd \in Fds,
         \/ \E c \in Clients : Connect(c, fd) \/ BadMagic(c, fd) \/ HangUp(c, fd)
         \/ CleanIndex(fd) \/ CloseFd(fd)
  PROVE  \A d \in Clients : Entries(d)' = Entries(d)
<1>t. /\ peer \in [Fds -> Clients \cup {None}] /\ asked \in [Clients -> [Id -> Nat]]
      /\ DOMAIN fwd \subseteq Fds /\ fwd \in [DOMAIN fwd -> SUBSET Id]
      /\ None \notin Clients /\ Placed /\ Wanted
  BY SubscriptionsAssumption DEF IInv, TypeOK, Ruled, Polite, Disciplined
<1> SUFFICES ASSUME NEW d \in Clients
             PROVE  Entries(d)' = Entries(d)
  OBVIOUS
<1>1. ASSUME NEW c \in Clients, Connect(c, fd)
      PROVE  Entries(d)' = Entries(d)
  <2>1. peer' = [peer EXCEPT ![fd] = c] /\ UNCHANGED fwd /\ fd \notin DOMAIN fwd
    BY <1>t, <1>1 DEF Connect, Free, Placed
  <2> QED
    BY <1>t, <2>1 DEF Entries
<1>2. ASSUME NEW c \in Clients, HangUp(c, fd)
      PROVE  Entries(d)' = Entries(d)
  <2>1. peer' = [peer EXCEPT ![fd] = None] /\ UNCHANGED fwd
    BY <1>2 DEF HangUp
  <2>2. fd \in DOMAIN fwd => fwd[fd] = {}
    BY <1>t, <1>2 DEF HangUp, Wanted
  <2> QED
    BY <1>t, <2>1, <2>2 DEF Entries
<1>3. ASSUME CleanIndex(fd)
      PROVE  Entries(d)' = Entries(d)
  BY <1>t, <1>3 DEF CleanIndex, Clean, Entries
<1> QED
  BY <1>1, <1>2, <1>3 DEF BadMagic, CloseFd, Entries

LEMMA ReceivedInit == Init => Abstract!Init
BY DEF Init, Abstract!Init, received, orders, Receivers

(* The ids an order asks for are those whose place in the giver's ledger it *)
(* raises, and an order takes back what it lowers.                          *)
LEMMA OrdersAdd ==
  ASSUME IInv, NEW c \in Clients, NEW fd \in Fds, NEW list \in Lists,
         AddFilter(c, fd, list)
  PROVE  /\ Abstract!Raised(c) = IdsOf(list) \ raced /\ Abstract!Lowered(c) = {}
         /\ \A d \in Clients \ {c} : orders'[d] = orders[d]
<1>1. /\ asked \in [Clients -> [Id -> Nat]] /\ raced' = raced
      /\ asked' = [asked EXCEPT ![c] = [i \in Id |-> @[i] + Occurrences(list, i)]]
  BY DEF IInv, TypeOK, AddFilter
<1>2. /\ \A i \in Id : asked'[c][i] = asked[c][i] + Occurrences(list, i)
      /\ \A d \in Clients \ {c} : asked'[d] = asked[d]
  BY <1>1
<1>3. \A i \in Id : /\ Occurrences(list, i) \in Nat /\ asked[c][i] \in Nat
                    /\ i \in IdsOf(list) <=> Occurrences(list, i) # 0
  BY <1>1, OccurrencesNat
<1>4. IdsOf(list) \subseteq Id
  BY IdsOfType
<1>5. ASSUME NEW i \in Id
      PROVE  /\ orders[c][i] = IF i \in raced THEN 0 ELSE asked[c][i]
             /\ orders'[c][i] = IF i \in raced THEN 0 ELSE asked[c][i] + Occurrences(list, i)
  BY <1>1, <1>2 DEF orders
<1>6. \A d \in Clients \ {c} : orders'[d] = orders[d]
  BY <1>1, <1>2 DEF orders
<1>7. ASSUME NEW i \in Id
      PROVE  /\ orders'[c][i] > orders[c][i] <=> i \in IdsOf(list) \ raced
             /\ ~(orders'[c][i] < orders[c][i])
  BY <1>3, <1>5
<1>8. Abstract!Raised(c) = IdsOf(list) \ raced /\ Abstract!Lowered(c) = {}
  BY <1>4, <1>7 DEF Abstract!Raised, Abstract!Lowered
<1> QED
  BY <1>6, <1>8

LEMMA OrdersRemove ==
  ASSUME IInv, Disciplined, NEW c \in Clients, NEW fd \in Fds, NEW list \in Lists,
         RemoveFilter(c, fd, list)
  PROVE  /\ Abstract!Lowered(c) = IdsOf(list) \ raced /\ Abstract!Raised(c) = {}
         /\ \A d \in Clients \ {c} : orders'[d] = orders[d]
<1>1. /\ asked \in [Clients -> [Id -> Nat]] /\ raced' = raced
      /\ asked' = [asked EXCEPT ![c] =
                     [i \in Id |-> IF Occurrences(list, i) >= @[i] THEN 0
                                   ELSE @[i] - Occurrences(list, i)]]
      /\ \A i \in Id : Occurrences(list, i) <= asked[c][i]
  BY DEF IInv, TypeOK, RemoveFilter
<1>2. /\ \A i \in Id : asked'[c][i] = IF Occurrences(list, i) >= asked[c][i] THEN 0
                                       ELSE asked[c][i] - Occurrences(list, i)
      /\ \A d \in Clients \ {c} : asked'[d] = asked[d]
  BY <1>1
<1>3. \A i \in Id : /\ Occurrences(list, i) \in Nat /\ asked[c][i] \in Nat
                    /\ i \in IdsOf(list) <=> Occurrences(list, i) # 0
  BY <1>1, OccurrencesNat
<1>4. IdsOf(list) \subseteq Id
  BY IdsOfType
<1>5. ASSUME NEW i \in Id
      PROVE  /\ orders[c][i] = IF i \in raced THEN 0 ELSE asked[c][i]
             /\ orders'[c][i] = IF i \in raced THEN 0 ELSE asked[c][i] - Occurrences(list, i)
  <2>1. /\ Occurrences(list, i) \in Nat /\ asked[c][i] \in Nat
        /\ Occurrences(list, i) <= asked[c][i]
        /\ asked'[c][i] = IF Occurrences(list, i) >= asked[c][i] THEN 0
                          ELSE asked[c][i] - Occurrences(list, i)
    BY <1>1, <1>2, <1>3
  <2>2. asked'[c][i] = asked[c][i] - Occurrences(list, i)
    BY <2>1
  <2> QED
    BY <1>1, <2>2 DEF orders
<1>6. \A d \in Clients \ {c} : orders'[d] = orders[d]
  BY <1>1, <1>2 DEF orders
<1>7. ASSUME NEW i \in Id
      PROVE  /\ orders'[c][i] < orders[c][i] <=> i \in IdsOf(list) \ raced
             /\ ~(orders'[c][i] > orders[c][i])
  BY <1>3, <1>5
<1>8. Abstract!Lowered(c) = IdsOf(list) \ raced /\ Abstract!Raised(c) = {}
  BY <1>4, <1>7 DEF Abstract!Raised, Abstract!Lowered
<1> QED
  BY <1>6, <1>8

(* Connections that come and go change no polite program's ledger. *)
LEMMA OrdersConnection ==
  ASSUME IInv, Settled, NEW fd \in Fds,
         \/ \E c \in Clients : Connect(c, fd) \/ BadMagic(c, fd) \/ HangUp(c, fd)
         \/ CleanIndex(fd) \/ CloseFd(fd)
  PROVE  UNCHANGED <<orders, raced>>
<1>1. raced' = raced
  BY DEF Connect, BadMagic, HangUp, CleanIndex, CloseFd
<1>2. \A d \in Clients, i \in Id : asked'[d][i] = asked[d][i]
  <2>1. ASSUME NEW c \in Clients, Connect(c, fd)
        PROVE  \A d \in Clients, i \in Id : asked'[d][i] = asked[d][i]
    <3>1. \A i \in Id : asked[c][i] = 0
      BY <2>1 DEF Connect, Settled, Cleared
    <3>2. asked' = [asked EXCEPT ![c] = [i \in Id |-> 0]] /\ asked \in [Clients -> [Id -> Nat]]
      BY <2>1 DEF Connect, IInv, TypeOK
    <3> QED
      BY <3>1, <3>2
  <2> QED
    BY <2>1 DEF BadMagic, HangUp, CleanIndex, CloseFd
<1> QED
  BY <1>1, <1>2 DEF orders

LEMMA ReceivedStep ==
  PInv /\ PInv' /\ [Next]_subVars =>
    [Polite /\ raced' = raced => Abstract!Next]_<<orders, received>>
<1>p. (PInv /\ Polite => received = [c \in Clients |-> Entries(c) \ raced])'
  BY ReceivedIsEntries, PTL
<1> SUFFICES ASSUME PInv, PInv', [Next]_subVars, Polite, raced' = raced
             PROVE  Abstract!Next \/ UNCHANGED <<orders, received>>
  OBVIOUS
<1>1. Polite'
  BY MannersKept DEF Polite, subVars
<1>2. /\ received = [c \in Clients |-> Entries(c) \ raced]
      /\ received' = [c \in Clients |-> Entries(c)' \ raced]
  BY <1>p, <1>1, ReceivedIsEntries
<1>3. IInv /\ Ruled /\ Settled /\ Disciplined
  BY DEF PInv, RInv, Polite, Disciplined
<1>4. ASSUME NEW c \in Clients, NEW fd \in Fds, NEW list \in Lists, AddFilter(c, fd, list)
      PROVE  Abstract!Next
  <2>1. /\ Entries(c)' = Entries(c) \cup IdsOf(list)
        /\ \A d \in Clients \ {c} : Entries(d)' = Entries(d)
    BY <1>3, <1>4, EntriesAdd
  <2>2. received' = [received EXCEPT ![c] = @ \cup (IdsOf(list) \ raced)]
    BY <1>2, <2>1
  <2>3. /\ Abstract!Raised(c) = IdsOf(list) \ raced /\ Abstract!Lowered(c) = {}
        /\ \A d \in Clients \ {c} : orders'[d] = orders[d]
    BY <1>3, <1>4, OrdersAdd
  <2>4. Abstract!Subscribe(c)
    BY <2>2, <2>3 DEF Abstract!Subscribe
  <2> QED
    BY <2>3, <2>4 DEF Abstract!Next
<1>5. ASSUME NEW c \in Clients, NEW fd \in Fds, NEW list \in Lists, RemoveFilter(c, fd, list)
      PROVE  Abstract!Next
  <2>1. /\ Entries(c)' = Entries(c) \ IdsOf(list)
        /\ \A d \in Clients \ {c} : Entries(d)' = Entries(d)
    BY <1>3, <1>5, EntriesRemove
  <2>2. received' = [received EXCEPT ![c] = @ \ (IdsOf(list) \ raced)]
    BY <1>2, <2>1
  <2>3. /\ Abstract!Lowered(c) = IdsOf(list) \ raced /\ Abstract!Raised(c) = {}
        /\ \A d \in Clients \ {c} : orders'[d] = orders[d]
    BY <1>3, <1>5, OrdersRemove
  <2>4. Abstract!Unsubscribe(c)
    BY <2>2, <2>3 DEF Abstract!Unsubscribe
  <2> QED
    BY <2>3, <2>4 DEF Abstract!Next
<1>6. ASSUME NEW fd \in Fds,
             \/ \E c \in Clients : Connect(c, fd) \/ BadMagic(c, fd) \/ HangUp(c, fd)
             \/ CleanIndex(fd) \/ CloseFd(fd)
      PROVE  UNCHANGED <<orders, received>>
  <2>1. \A d \in Clients : Entries(d)' = Entries(d)
    BY <1>3, <1>6, EntriesConnection
  <2>2. UNCHANGED orders
    BY <1>3, <1>6, OrdersConnection
  <2> QED
    BY <1>2, <2>1, <2>2
<1>7. CASE UNCHANGED subVars
  BY <1>2, <1>7 DEF subVars, Entries, orders
<1>8. ASSUME NEW j \in Id, Overlap(j)
      PROVE  FALSE
  BY <1>8 DEF Overlap
<1> QED
  BY <1>4, <1>5, <1>6, <1>7, <1>8 DEF Next

--------------------------------------------------------------------------------
(* The client manager, the filter table and the connections keep their      *)
(* types (CAN_IPC_SOCKET_CLIENT_MANAGER_T, CAN_IPC_RECEIVER_FILTER_T).      *)
THEOREM TypeCorrect == Spec => []TypeOK
BY InductiveInvariant, PTL DEF IInv

(* Whatever clients do, the reverse index is right about every descriptor   *)
(* the client manager still knows (update_socket_client_reserve_index).     *)
THEOREM IndexesStayInAgreement == Spec => []IndexesAgree
BY InductiveInvariant, PTL DEF IInv

(* However often clients add and remove, and in whatever order they hang up *)
(* and come back, an id that some entry of the index names is installed,    *)
(* unless orders of two threads have met at it: clients that remove only    *)
(* what they added switch off each other's filters by such a meeting, and   *)
(* in no other way (can_ipc_filter_id_map's counts).                        *)
THEOREM FiltersStayInstalled == Spec => []SubscribedIsInstalled
BY RuledInvariant, InstalledByCount, PTL

(* Clients that hang up without removing make counts too high, and nothing  *)
(* but a meeting of two threads makes one too low: the count of an id where *)
(* there was none covers the ledgers of all connected programs together,    *)
(* and the entries the index still has for those that are gone              *)
(* (clean_socket_client_index leaves can_ipc_filter_id_map alone).          *)
THEOREM CountsNeverTooLow == Spec => [](Disciplined => Covered)
BY RuledInvariant, PTL DEF RInv

(* When clients remove what they added before they hang up, every count is  *)
(* the number of adds not yet removed, whoever made them, unless orders of  *)
(* two threads have met at the id: then no filter is left behind and none   *)
(* goes early (register_can_filter, deregister_can_filter).                 *)
THEOREM CountsStayExact == Spec => []CountsAreExact
<1>1. PInv => CountsAreExact
  BY DEF PInv, Settled, Exact, Ledger, CountsAreExact
<1> QED
  BY <1>1, PoliteInvariant, PTL

(* Once all such clients are gone nothing of theirs is left of an id at     *)
(* which no two threads have met: neither filter nor count, whatever they   *)
(* did and in whatever order (deregister_can_filter erases at zero).        *)
THEOREM NothingLeftBehind ==
  Spec => [](Polite /\ (\A c \in Clients : ~Connected(c)) =>
               \A i \in Id \ raced : i \notin filter_map /\ i \notin DOMAIN id_map)
<1>1. PInv /\ Polite /\ (\A c \in Clients : ~Connected(c)) =>
        \A i \in Id \ raced : i \notin filter_map /\ i \notin DOMAIN id_map
  <2> SUFFICES ASSUME PInv, Polite, \A c \in Clients : ~Connected(c),
                      NEW i \in Id \ raced, i \in DOMAIN id_map
               PROVE  FALSE
    BY DEF PInv, RInv, IInv, TableCoherent
  <2>1. TypeOK /\ TableCoherent /\ Cleared /\ Exact /\ MaxCount \in Nat
    BY SubscriptionsAssumption DEF PInv, RInv, IInv, Settled
  <2>2. Ledger(i) = {}
    BY <2>1 DEF Ledger, Cleared
  <2>3. CountOf(i) = 0
    BY <2>1, <2>2, FS_EmptySet DEF Exact
  <2> QED
    BY <2>1, <2>3 DEF CountOf, TableCoherent, TypeOK
<1> QED
  BY <1>1, PoliteInvariant, PTL

(* With such clients the callback never writes a frame to a program that    *)
(* did not ask for its id, although descriptors are reused and a hang-up    *)
(* does not rebuild the reverse index (clean_socket_client_index,           *)
(* socket_receive_callback).                                                *)
THEOREM OnlyAskersServed == Spec => []PoliteServed
BY PoliteInvariant, ServedHaveAsked, PTL

(* With such clients the tables, for all their counts, indexes and reused   *)
(* descriptors, implement publish/subscribe at every id where no two        *)
(* threads have met: a program receives an id from its ADD_FILTER to its    *)
(* REMOVE_FILTER, and no other program's order, hang-up or reconnection     *)
(* changes that (handle_client).                                            *)
THEOREM SubscriptionsImplementPubSub == Spec => ImplementsPubSub
BY ReceivedInit, ReceivedStep, PoliteInvariant, PTL DEF Spec, ImplementsPubSub
================================================================================
