---- MODULE MetadataUpload_proofs ----
(***************************************************************************)
(* Proofs about MetadataUpload for any processes, definitions and ttl: the *)
(* registries stay well-formed, and an upload that is protected by its     *)
(* lock loses nothing of the saved one.                                    *)
(***************************************************************************)
EXTENDS MetadataUpload, S3Mutex_proofs, FiniteSetTheorems

Good == {r \in Registries : WellFormed(r)}
Saved == [def : Definitions, registry : Good]

----------------------------------------------------------------------------
(* The operators on registries.                                            *)

LEMMA MaxIs ==
  ASSUME NEW S \in SUBSET Int, NEW m \in S, \A i \in S : i <= m
  PROVE  Max(S) = m
  <1>1. \E x \in S : \A y \in S : x >= y
    OBVIOUS
  <1>2. Max(S) \in S /\ \A y \in S : Max(S) >= y
    BY <1>1, Zenon DEF Max
  <1>3. Max(S) \in Int /\ m \in Int /\ Max(S) >= m /\ Max(S) <= m
    BY <1>2
  <1> QED
    BY <1>3

LEMMA MaxOfTwo ==
  ASSUME NEW i \in Nat, NEW j \in Nat
  PROVE  Max({i, j}) \in {i, j} /\ Max({i, j}) \in Nat /\ i <= Max({i, j}) /\ j <= Max({i, j})
  <1> DEFINE S == {i, j}
  <1>1. S \in SUBSET Int
    OBVIOUS
  <1>2. PICK m \in S : \A k \in S : k <= m
    OBVIOUS
  <1>3. Max(S) = m
    <2> HIDE DEF S
    <2> QED
      BY <1>1, <1>2, MaxIs
  <1> QED
    BY <1>2, <1>3

LEMMA GoodIs ==
  ASSUME NEW n \in Nat, NEW D \in SUBSET Attribute, NEW m \in [D -> 0 .. n - 1],
         NEW B \in SUBSET [index : 0 .. n - 1, attribute : Attribute]
  PROVE  [next |-> n, mapping |-> m, burned |-> B] \in Good
  <1> DEFINE r == [next |-> n, mapping |-> m, burned |-> B]
  <1>1. m \in [D -> Nat]
    OBVIOUS
  <1>2. m \in Maps
    BY <1>1 DEF Maps
  <1>3. B \in SUBSET [index : Nat, attribute : Attribute]
    OBVIOUS
  <1>4. r \in Registries
    BY <1>2, <1>3 DEF Registries
  <1>5. WellFormed(r)
    BY DEF WellFormed
  <1> QED
    BY <1>4, <1>5 DEF Good

LEMMA GoodHas ==
  ASSUME NEW r \in Good
  PROVE  /\ r.next \in Nat
         /\ r.mapping \in [DOMAIN r.mapping -> 0 .. r.next - 1]
         /\ DOMAIN r.mapping \in SUBSET Attribute
         /\ r.mapping \in Maps
         /\ r.burned \in SUBSET [index : 0 .. r.next - 1, attribute : Attribute]
         /\ r # Nothing
  BY NothingAssumption DEF Good, WellFormed, Registries

LEMMA NextIndexIs ==
  ASSUME NEW r \in Good
  PROVE  NextIndex(r) = r.next
  <1> DEFINE S == Indices(r) \cup {r.next - 1}
  <1>1. \A i \in Range(r.mapping) : i \in 0 .. r.next - 1
    BY GoodHas DEF Range
  <1>2. \A i \in {b.index : b \in r.burned} : i \in 0 .. r.next - 1
    BY GoodHas
  <1>3. S \in SUBSET Int /\ r.next - 1 \in S /\ \A i \in S : i <= r.next - 1
    BY <1>1, <1>2, GoodHas DEF Indices
  <1>4. Max(S) = r.next - 1
    BY <1>3, MaxIs
  <1> QED
    BY <1>4, GoodHas DEF NextIndex

\* A definition is a sequence without repetitions.
LEMMA DefinitionIs ==
  ASSUME NEW d \in Definitions
  PROVE  /\ Len(d) \in Nat /\ DOMAIN d = 1 .. Len(d)
         /\ Range(d) \in SUBSET Attribute
         /\ \A i \in DOMAIN d : d[i] \in Range(d)
         /\ \A i, j \in DOMAIN d : d[i] = d[j] => i = j
         /\ \A a \in Range(d) : \E i \in DOMAIN d : d[i] = a
  <1>1. d \in Seq(Range(d)) /\ IsInjective(d)
    BY UploadAssumption
  <1> QED
    BY <1>1 DEF IsInjective, Range, Attribute

LEMMA PositionalIs ==
  ASSUME NEW d \in Definitions
  PROVE  /\ Positional(d) \in [Range(d) -> 0 .. Len(d) - 1]
         /\ \A i \in DOMAIN d : Positional(d)[d[i]] = i - 1
         /\ Positional(d) \in Maps
  <1> DEFINE at(a) == CHOOSE i \in DOMAIN d : d[i] = a
  <1>1. \A a \in Range(d) : at(a) \in DOMAIN d /\ d[at(a)] = a
    BY DefinitionIs
  <1>2. \A i \in DOMAIN d : at(d[i]) = i
    BY <1>1, DefinitionIs
  <1>3. \A a \in Range(d) : at(a) - 1 \in 0 .. Len(d) - 1
    BY <1>1, DefinitionIs
  <1>4. Positional(d) = [a \in Range(d) |-> at(a) - 1]
    BY DEF Positional
  <1>5. Positional(d) \in [Range(d) -> 0 .. Len(d) - 1]
    BY <1>3, <1>4
  <1>6. Positional(d) \in [Range(d) -> Nat]
    BY <1>5
  <1> QED
    BY <1>2, <1>4, <1>5, <1>6, DefinitionIs DEF Maps

LEMMA InitialIsGood ==
  ASSUME NEW d \in Definitions
  PROVE  LET r == Initial(Positional(d))
         IN r \in Good /\ r.mapping = Positional(d) /\ r.next = Len(d)
  <1> DEFINE m == Positional(d)
             S == Range(m) \cup {-1}
  <1>1. m \in [Range(d) -> 0 .. Len(d) - 1]
    BY PositionalIs
  <1>2. S \in SUBSET Int /\ \A i \in S : i <= Len(d) - 1
    BY <1>1, DefinitionIs DEF Range
  <1>3. Len(d) - 1 \in S
    <2>1. CASE Len(d) = 0
      BY <2>1
    <2>2. CASE Len(d) # 0
      <3>1. Len(d) \in DOMAIN d
        BY <2>2, DefinitionIs
      <3>2. m[d[Len(d)]] = Len(d) - 1 /\ d[Len(d)] \in DOMAIN m
        BY <3>1, <1>1, PositionalIs, DefinitionIs
      <3> QED
        BY <3>2 DEF Range
    <2> QED
      BY <2>1, <2>2
  <1>4. Max(S) = Len(d) - 1
    <2> HIDE DEF S
    <2> QED
      BY <1>2, <1>3, MaxIs
  <1>5. Initial(m) = [next |-> Max(S) + 1, mapping |-> m, burned |-> {}]
    BY DEF Initial
  <1>6. Max(S) + 1 = Len(d)
    BY <1>4, DefinitionIs
  <1>7. Initial(m) = [next |-> Len(d), mapping |-> m, burned |-> {}]
    BY <1>5, <1>6
  <1> HIDE DEF m, S
  <1>8. [next |-> Len(d), mapping |-> m, burned |-> {}] \in Good
    BY <1>1, DefinitionIs, GoodIs
  <1>9. Initial(m).mapping = m /\ Initial(m).next = Len(d)
    BY <1>7
  <1> QED
    BY <1>7, <1>8, <1>9 DEF m

\* The new attributes get as many indices as there are of them.
LEMMA FromRegistryIsGood ==
  ASSUME NEW d \in Definitions, NEW r \in Good
  PROVE  FromRegistry(d, r) \in Good
  <1> DEFINE known == DOMAIN r.mapping
             new == {i \in DOMAIN d : d[i] \notin known}
             below(a) == {i \in new : \E j \in new : i < j /\ d[j] = a}
             gone == {a \in known \ Range(d) : \A b \in r.burned : b.index # r.mapping[a]}
             n == r.next + Cardinality(new)
             m == [a \in Range(d) |->
                     IF a \in known THEN r.mapping[a] ELSE r.next + Cardinality(below(a))]
             B == r.burned \cup {[index |-> r.mapping[a], attribute |-> a] : a \in gone}
  <1>1. IsFiniteSet(new) /\ Cardinality(new) \in Nat
    <2>1. IsFiniteSet(1 .. Len(d))
      BY DefinitionIs, FS_Interval
    <2>2. new \in SUBSET (1 .. Len(d))
      BY DefinitionIs
    <2> QED
      BY <2>1, <2>2, FS_Subset, FS_CardinalityType
  <1>2. ASSUME NEW a \in Range(d), a \notin known
        PROVE  Cardinality(below(a)) \in 0 .. Cardinality(new) - 1
    <2>1. PICK k \in DOMAIN d : d[k] = a
      BY DefinitionIs
    <2>2. k \in new /\ k \notin below(a)
      BY <1>2, <2>1, DefinitionIs
    <2>3. below(a) \in SUBSET new /\ below(a) # new
      BY <2>2
    <2>4. IsFiniteSet(below(a)) /\ Cardinality(below(a)) <= Cardinality(new)
          /\ Cardinality(below(a)) # Cardinality(new)
      BY <1>1, <2>3, FS_Subset
    <2>5. Cardinality(below(a)) \in Nat
      BY <2>4, FS_CardinalityType
    <2> QED
      BY <1>1, <2>4, <2>5
  <1>3. n \in Nat /\ r.next <= n
    BY <1>1, GoodHas
  <1>4. ASSUME NEW a \in Range(d) PROVE m[a] \in 0 .. n - 1
    <2>1. CASE a \in known
      <3>1. m[a] = r.mapping[a]
        BY <2>1
      <3> QED
        BY <1>3, <2>1, <3>1, GoodHas
    <2>2. CASE a \notin known
      <3>1. m[a] = r.next + Cardinality(below(a))
        BY <2>2
      <3> HIDE DEF below, new, m
      <3> QED
        BY <1>1, <1>2, <2>2, <3>1, GoodHas
    <2> QED
      BY <2>1, <2>2
  <1>5. m \in [Range(d) -> 0 .. n - 1]
    BY <1>4
  <1>6. B \in SUBSET [index : 0 .. n - 1, attribute : Attribute]
    <2>1. \A i \in 0 .. r.next - 1 : i \in 0 .. n - 1
      BY <1>3, GoodHas
    <2>2. \A b \in r.burned : b \in [index : 0 .. n - 1, attribute : Attribute]
      BY <2>1, GoodHas
    <2>3. \A a \in known : [index |-> r.mapping[a], attribute |-> a]
                             \in [index : 0 .. n - 1, attribute : Attribute]
      BY <2>1, GoodHas
    <2> QED
      BY <2>2, <2>3
  <1>7. FromRegistry(d, r) = [next |-> n, mapping |-> m, burned |-> B]
    BY NextIndexIs DEF FromRegistry
  <1> HIDE DEF n, m, B
  <1> QED
    BY <1>3, <1>5, <1>6, <1>7, DefinitionIs, GoodIs

\* A merge is a registry that has everything of the one it read.
LEMMA MergeGrows ==
  ASSUME NEW f \in Good, NEW l \in Good
  PROVE  /\ Merge(f, l) \in Good
         /\ DOMAIN f.mapping \subseteq DOMAIN Merge(f, l).mapping
         /\ f.burned \subseteq Merge(f, l).burned
         /\ f.next <= Merge(f, l).next
  <1> DEFINE D == DOMAIN f.mapping \cup DOMAIN l.mapping
             larger(a) == IF a \notin DOMAIN l.mapping
                             \/ (a \in DOMAIN f.mapping /\ f.mapping[a] > l.mapping[a])
                            THEN f.mapping[a] ELSE l.mapping[a]
             n == Max({f.next, l.next})
             m == [a \in D |-> larger(a)]
             B == f.burned \cup {b \in l.burned : \A e \in f.burned : e.index # b.index}
  <1>1. n \in Nat /\ f.next <= n /\ l.next <= n
    <2>1. f.next \in Nat /\ l.next \in Nat
      BY GoodHas
    <2> QED
      BY <2>1, MaxOfTwo, Zenon
  <1> HIDE DEF n
  <1>2. \A i : i \in 0 .. f.next - 1 \/ i \in 0 .. l.next - 1 => i \in 0 .. n - 1
    BY <1>1, GoodHas
  <1>3. m \in [D -> 0 .. n - 1]
    <2>1. \A a \in D : larger(a) \in 0 .. n - 1
      BY <1>2, GoodHas
    <2> QED
      BY <2>1
  <1>4. D \in SUBSET Attribute
    BY GoodHas
  <1>5. B \in SUBSET [index : 0 .. n - 1, attribute : Attribute]
    <2>1. \A b \in f.burned \cup l.burned : b \in [index : 0 .. n - 1, attribute : Attribute]
      BY <1>2, GoodHas
    <2> QED
      BY <2>1
  <1>6. Merge(f, l) = [next |-> n, mapping |-> m, burned |-> B]
    BY DEF Merge, n
  <1> HIDE DEF m, B, D
  <1>7. Merge(f, l) \in Good
    BY <1>1, <1>3, <1>4, <1>5, <1>6, GoodIs
  <1>8. DOMAIN f.mapping \subseteq DOMAIN m /\ f.burned \subseteq B
    BY DEF m, B, D
  <1> QED
    BY <1>1, <1>6, <1>7, <1>8

LEMMA SavedIs ==
  /\ Nothing \notin Saved /\ Nothing \notin Good
  /\ \A s \in Saved : s.def \in Definitions /\ s.registry \in Good
  /\ \A d \in Definitions, r \in Good : [def |-> d, registry |-> r] \in Saved
  BY NothingAssumption DEF Saved, Good, Resources

LEMMA FinalIs ==
  ASSUME NEW f \in Saved \cup {Nothing}, NEW l \in Saved \cup {Nothing}
  PROVE  /\ Final(f, l) \in Saved \cup {Nothing}
         /\ f # Nothing
              => /\ Final(f, l) # Nothing
                 /\ DOMAIN f.registry.mapping \subseteq DOMAIN Final(f, l).registry.mapping
                 /\ f.registry.burned \subseteq Final(f, l).registry.burned
                 /\ f.registry.next <= Final(f, l).registry.next
  <1>1. CASE f = Nothing \/ l = Nothing
    <2>1. Final(f, l) = f \/ (f = Nothing /\ Final(f, l) = l)
      BY <1>1 DEF Final
    <2>2. f # Nothing => f.registry \in Good
      BY SavedIs
    <2>3. f # Nothing => f.registry.next \in Nat
      BY <2>2, GoodHas
    <2> QED
      BY <2>1, <2>3
  <1>2. CASE f # Nothing /\ l # Nothing
    <2>1. f.registry \in Good /\ l.registry \in Good /\ l.def \in Definitions
      BY <1>2, SavedIs
    <2>2. Final(f, l) = [def |-> l.def, registry |-> Merge(f.registry, l.registry)]
      BY <1>2 DEF Final
    <2>3. Merge(f.registry, l.registry) \in Good
      BY <2>1, MergeGrows
    <2>4. Final(f, l) \in Saved /\ Final(f, l).registry = Merge(f.registry, l.registry)
      BY <2>1, <2>2, <2>3, SavedIs
    <2> QED
      BY <2>1, <2>4, MergeGrows, SavedIs
  <1> QED
    BY <1>1, <1>2

----------------------------------------------------------------------------
(* Types.  What stands for a missing registry in an upload is the map, so  *)
(* the map of such a schema must be the one its definition gives.          *)

MapIsPositional ==
  \A p \in Client : def[p] # Nothing /\ registry[p] = Nothing => map[p] = Positional(def[p])

SchemaTypes ==
  /\ stored \in Saved \cup {Nothing}
  /\ saved \in [Client -> Saved \cup {Nothing}]
  /\ fresh \in [Client -> Saved \cup {Nothing}]
  /\ registry \in [Client -> Good \cup {Nothing}]
  /\ def \in [Client -> Definitions \cup {Nothing}]
  /\ map \in [Client -> Maps]
  /\ stage \in [Client -> {"none", "read", "done"}]
  /\ synced \subseteq Client /\ unsaved \subseteq Client
  /\ raced \in BOOLEAN /\ unguarded \in BOOLEAN
  /\ MapIsPositional

LEMMA NoMapIs == NoMap \in Maps
  <1>1. {} \in SUBSET Attribute /\ NoMap \in [{} -> Nat]
    BY DEF NoMap
  <1> QED
    BY <1>1, Zenon DEF Maps

LEMMA SchemaTypesInit == SchemaInit => SchemaTypes
  BY NoMapIs DEF SchemaInit, SchemaTypes, MapIsPositional

LEMMA SchemaTypesImply == SchemaTypes => SchemaTypeOK
  <1> SUFFICES ASSUME SchemaTypes PROVE SchemaTypeOK
    OBVIOUS
  <1>1. \A s \in Saved \cup {Nothing} : RegistryOf(s) \in Good \cup {Nothing}
    BY SavedIs DEF RegistryOf
  <1>2. \A r \in Good : WellFormed(r)
    BY DEF Good
  <1>3. \A r \in {RegistryOf(stored)} \cup {RegistryOf(saved[p]) : p \in Client}
                 \cup {RegistryOf(fresh[p]) : p \in Client} \cup {registry[p] : p \in Client} :
          r \in Good \cup {Nothing}
    BY <1>1 DEF SchemaTypes
  <1>4. stored # Nothing => stored.def \in Definitions
    BY SavedIs DEF SchemaTypes
  <1> QED
    BY <1>2, <1>3, <1>4 DEF SchemaTypes, SchemaTypeOK

LEMMA LocalIs ==
  ASSUME SchemaTypes, NEW p \in Client
  PROVE  Local(p) \in Saved \cup {Nothing}
  <1> USE DEF SchemaTypes
  <1>1. CASE def[p] = Nothing
    BY <1>1 DEF Local
  <1>2. CASE def[p] # Nothing
    <2> DEFINE r == IF registry[p] # Nothing THEN registry[p]
                    ELSE IF saved[p] # Nothing THEN saved[p].registry
                    ELSE Initial(map[p])
    <2>1. def[p] \in Definitions
      BY <1>2
    <2>2. registry[p] # Nothing => r \in Good
      OBVIOUS
    <2>3. ASSUME registry[p] = Nothing PROVE r \in Good
      <3>1. Initial(map[p]) \in Good
        BY <1>2, <2>1, <2>3, InitialIsGood DEF MapIsPositional
      <3>2. saved[p] # Nothing => saved[p].registry \in Good
        BY SavedIs
      <3> QED
        BY <2>3, <3>1, <3>2
    <2>4. r \in Good
      BY <2>2, <2>3
    <2>5. Local(p) = [def |-> def[p], registry |-> r]
      BY <1>2 DEF Local
    <2> QED
      BY <2>1, <2>4, <2>5, SavedIs
  <1> QED
    BY <1>1, <1>2

LEMMA SchemaTypesNext ==
  SchemaTypes /\ [SchemaNext]_<<mutexVars, schemaVars>> => SchemaTypes'
  <1> SUFFICES ASSUME SchemaTypes, [SchemaNext]_<<mutexVars, schemaVars>> PROVE SchemaTypes'
    OBVIOUS
  <1> USE DEF SchemaTypes, MapIsPositional
  <1>1. ASSUME NEW p \in Client, Connect(p) PROVE SchemaTypes'
    <2>2. CASE stored = Nothing
      BY <1>1, NoMapIs, <2>2 DEF Connect, Use
    <2>3. CASE stored # Nothing
      <3> DEFINE r == FromRegistry(stored.def, stored.registry)
      <3>1. stored.def \in Definitions /\ r \in Good
        BY <2>3, SavedIs, FromRegistryIsGood
      <3>2. r.mapping \in Maps /\ r # Nothing
        BY <3>1, GoodHas
      <3>3. /\ def' = [def EXCEPT ![p] = stored.def]
            /\ registry' = [registry EXCEPT ![p] = r]
            /\ map' = [map EXCEPT ![p] = r.mapping]
        BY <1>1, <2>3 DEF Connect, Use
      <3> HIDE DEF r
      <3>4. /\ def' \in [Client -> Definitions \cup {Nothing}]
            /\ registry' \in [Client -> Good \cup {Nothing}]
            /\ map' \in [Client -> Maps]
        BY <3>1, <3>2, <3>3
      <3>5. MapIsPositional'
        BY <3>1, <3>2, <3>3
      <3>6. /\ saved' = [saved EXCEPT ![p] = stored]
            /\ UNCHANGED <<stored, stage, fresh, unguarded>>
            /\ synced' = synced \cup {p} /\ unsaved' = unsaved \ {p}
            /\ raced' = (raced \/ p \in unsaved)
        BY <1>1 DEF Connect
      <3> QED
        BY <3>4, <3>5, <3>6
    <2> QED
      BY <2>2, <2>3
  <1>2. ASSUME NEW p \in Client, ConnectBlind(p) PROVE SchemaTypes'
    BY <1>2, NoMapIs DEF ConnectBlind, Use
  <1>3. ASSUME NEW p \in Client, NEW d \in Definitions, Define(p, d) PROVE SchemaTypes'
    <2>1. /\ def' = [def EXCEPT ![p] = d]
          /\ UNCHANGED <<stored, saved, stage, fresh, synced, unguarded>>
          /\ unsaved' = unsaved \cup {p} /\ raced' = (raced \/ ~Serial(p))
      BY <1>3 DEF Define
    <2>2. CASE registry[p] = Nothing
      <3>1. map' = [map EXCEPT ![p] = Positional(d)] /\ registry' = registry
        BY <1>3, <2>2 DEF Define, Use
      <3>2. map' \in [Client -> Maps] /\ MapIsPositional'
        BY <2>1, <3>1, PositionalIs
      <3> QED
        BY <2>1, <3>1, <3>2
    <2>3. CASE registry[p] # Nothing
      <3> DEFINE r == FromRegistry(d, registry[p])
      <3>1. r \in Good
        BY <2>3, FromRegistryIsGood
      <3>2. r.mapping \in Maps /\ r # Nothing
        BY <3>1, GoodHas
      <3>3. map' = [map EXCEPT ![p] = r.mapping] /\ registry' = [registry EXCEPT ![p] = r]
        BY <1>3, <2>3 DEF Define, Use
      <3> HIDE DEF r
      <3>4. map' \in [Client -> Maps] /\ registry' \in [Client -> Good \cup {Nothing}]
        BY <3>1, <3>2, <3>3
      <3>5. MapIsPositional'
        BY <2>1, <3>2, <3>3
      <3> QED
        BY <2>1, <3>4, <3>5
    <2> QED
      BY <2>2, <2>3
  <1>4. ASSUME NEW p \in Client, ReadFresh(p) PROVE SchemaTypes'
    BY <1>4 DEF ReadFresh
  <1>5. ASSUME NEW p \in Client, PutMetadata(p) PROVE SchemaTypes'
    <2>1. stored' \in Saved \cup {Nothing}
      BY <1>5, LocalIs, FinalIs DEF PutMetadata
    <2>2. saved' \in [Client -> Saved \cup {Nothing}]
      BY <1>5, <2>1 DEF PutMetadata
    <2> QED
      BY <1>5, <2>1, <2>2 DEF PutMetadata
  <1>6. ASSUME NEW p \in Client, EndUpload(p) \/ DropUpload(p) PROVE SchemaTypes'
    BY <1>6 DEF EndUpload, DropUpload
  <1>7. CASE UNCHANGED schemaVars
    BY <1>7 DEF schemaVars
  <1> QED
    BY <1>1, <1>2, <1>3, <1>4, <1>5, <1>6, <1>7 DEF SchemaNext, StartUpload

(* In every behaviour the saved, loaded and used registries are            *)
(* well-formed: each index in use, or burned, is below the one that will   *)
(* be assigned next, so a new attribute never gets an index of an old one. *)
THEOREM RegistriesAreTyped == SchemaSpec => []SchemaTypeOK
  BY SchemaTypesInit, SchemaTypesNext, SchemaTypesImply, PTL DEF SchemaSpec

----------------------------------------------------------------------------
(* The uploads run S3Mutex, so its invariant holds here.                   *)

LEMMA UploadsUseTheMutex ==
  [SchemaNext]_<<mutexVars, schemaVars>> => [MutexNext]_mutexVars
  <1> SUFFICES ASSUME [SchemaNext]_<<mutexVars, schemaVars>>, mutexVars' # mutexVars
               PROVE  MutexNext
    OBVIOUS
  <1>1. SchemaNext
    OBVIOUS
  <1>2. CASE Tick
    BY <1>2 DEF MutexNext
  <1>3. ASSUME NEW p \in Client, TryLock(p) \/ Unlock(p) \/ Abandon(p) \/ LockCall(p)
        PROVE  MutexNext
    BY <1>3 DEF MutexNext
  <1>4. ASSUME NEW p \in Client,
               Connect(p) \/ ConnectBlind(p) \/ ReadFresh(p) \/ PutMetadata(p)
                 \/ \E d \in Definitions : Define(p, d)
        PROVE  FALSE
    BY <1>4 DEF Connect, ConnectBlind, ReadFresh, PutMetadata, Define
  <1> QED
    BY <1>1, <1>2, <1>3, <1>4 DEF SchemaNext, StartUpload, EndUpload, DropUpload

\* However uploadMetadataFile() uses, fails in or dies with the mutex, the
\* mutex behaves as S3Mutex does on its own: a live holder is alone, and its
\* record stays.
THEOREM UploadsKeepTheMutex == SchemaSpec => MutexSpec /\ []LiveHoldersExclusive /\ LiveRecordStays
  <1>1. SchemaInit => MutexInit
    BY DEF SchemaInit
  <1>2. SchemaSpec => MutexSpec
    BY <1>1, UploadsUseTheMutex, PTL DEF SchemaSpec, MutexSpec
  <1> QED
    BY <1>2, LiveExclusion, LiveRecordSafety

LEMMA MutexInvNext ==
  MutexInv /\ [SchemaNext]_<<mutexVars, schemaVars>> => MutexInv'
  BY UploadsUseTheMutex, MutexTypeNext, BooksNext, LiveNext DEF MutexInv, Books

\* The steps that the mutex and the uploads share.
MutexStep(p) == TryLock(p) \/ LockCall(p) \/ Unlock(p) \/ Abandon(p)

LEMMA OthersKeepTheirLock ==
  ASSUME MutexTypeOK, NEW p \in Client, MutexStep(p)
  PROVE  /\ clock' = clock
         /\ overtaken => overtaken'
         /\ \A q \in Client \ {p} : pc'[q] = pc[q] /\ until'[q] = until[q]
  <1> USE DEF MutexTypeOK
  <1>1. ASSUME Done(p) \/ Acquired(p)
        PROVE  \A q \in Client \ {p} : pc'[q] = pc[q] /\ until'[q] = until[q]
    BY <1>1 DEF Done, Acquired, Goto
  <1>2. ASSUME NEW call, Goto(p, call), until' = until
        PROVE  \A q \in Client \ {p} : pc'[q] = pc[q] /\ until'[q] = until[q]
    BY <1>2 DEF Goto
  <1>3. CASE TryLock(p)
    BY <1>2, <1>3 DEF TryLock
  <1>4. CASE PutLock(p)
    BY <1>1, <1>2, <1>4 DEF PutLock
  <1>5. ASSUME NEW fit, NEW next, Read(p, fit, next)
        PROVE  /\ clock' = clock /\ overtaken' = overtaken
               /\ \A q \in Client \ {p} : pc'[q] = pc[q] /\ until'[q] = until[q]
    BY <1>1, <1>2, <1>5 DEF Read
  <1>6. CASE ReadLock(p) \/ ReadOwn(p)
    BY <1>5, <1>6 DEF ReadLock, ReadOwn
  <1>7. CASE TakeOver(p)
    BY <1>1, <1>7 DEF TakeOver
  <1>8. CASE HeadOwn(p)
    BY <1>1, <1>2, <1>8 DEF HeadOwn
  <1>9. CASE Delete(p)
    BY <1>1, <1>2, <1>9 DEF Delete, KeepOld
  <1>10. CASE Unlock(p)
    BY <1>2, <1>10 DEF Unlock
  <1>11. CASE Abandon(p)
    BY <1>1, <1>11 DEF Abandon
  <1> QED
    BY <1>3, <1>4, <1>6, <1>7, <1>8, <1>9, <1>10, <1>11 DEF MutexStep, LockCall

(* An upload works while it holds the mutex, and what a live holder has    *)
(* read is still what is stored.                                           *)
UploadsHold == \A p \in Client : stage[p] # "none" => pc[p] = "held"

FreshIsStored ==
  ~unguarded /\ ~overtaken =>
    \A p \in Client : stage[p] = "read" /\ Live(p) => fresh[p] = stored

UploadInv == MutexInv /\ SchemaTypes /\ UploadsHold /\ FreshIsStored

LEMMA UploadInvInit == SchemaInit => UploadInv
  BY MutexInvInit, SchemaTypesInit DEF SchemaInit, UploadInv, UploadsHold, FreshIsStored

LEMMA UploadInvNext ==
  UploadInv /\ [SchemaNext]_<<mutexVars, schemaVars>> => (UploadsHold /\ FreshIsStored)'
  <1> SUFFICES ASSUME UploadInv, [SchemaNext]_<<mutexVars, schemaVars>>
               PROVE  (UploadsHold /\ FreshIsStored)'
    OBVIOUS
  <1> USE DEF UploadInv, UploadsHold, FreshIsStored
  <1>0. MutexTypeOK /\ LiveHoldersExclusive
    BY MutexInvImplies DEF MutexInv
  \* A step of the mutex leaves the uploads of the others as they were.
  <1>1. ASSUME NEW p \in Client, MutexStep(p), UNCHANGED <<stored, unguarded>>,
               \A q \in Client \ {p} : stage'[q] = stage[q] /\ fresh'[q] = fresh[q],
               stage'[p] = "none"
        PROVE  (UploadsHold /\ FreshIsStored)'
    BY <1>0, <1>1, OthersKeepTheirLock DEF Live, Holding
  <1>2. ASSUME NEW p \in Client, TryLock(p) \/ LockCall(p), UNCHANGED schemaVars
        PROVE  (UploadsHold /\ FreshIsStored)'
    <2>1. pc[p] # "held"
      BY <1>2 DEF TryLock, LockCall, PutLock, ReadLock, TakeOver, ReadOwn, HeadOwn, Delete
    <2>2. stage[p] = "none"
      BY <2>1
    <2> QED
      BY <1>1, <1>2, <2>2 DEF schemaVars, MutexStep
  <1>3. ASSUME NEW p \in Client, EndUpload(p) \/ DropUpload(p)
        PROVE  (UploadsHold /\ FreshIsStored)'
    <2>1. /\ UNCHANGED <<stored, unguarded>>
          /\ stage' = [stage EXCEPT ![p] = "none"]
          /\ fresh' = [fresh EXCEPT ![p] = Nothing]
          /\ MutexStep(p)
      BY <1>3 DEF EndUpload, DropUpload, MutexStep
    <2> QED
      BY <1>1, <2>1 DEF SchemaTypes
  <1>4. ASSUME NEW p \in Client, ReadFresh(p) PROVE (UploadsHold /\ FreshIsStored)'
    BY <1>4 DEF ReadFresh, mutexVars, Live, Holding, SchemaTypes
  <1>5. ASSUME NEW p \in Client, PutMetadata(p) PROVE (UploadsHold /\ FreshIsStored)'
    <2>1. UNCHANGED mutexVars /\ pc[p] = "held" /\ stage' = [stage EXCEPT ![p] = "done"]
          /\ fresh' = [fresh EXCEPT ![p] = Nothing] /\ unguarded' = (unguarded \/ ~Live(p))
      BY <1>5 DEF PutMetadata
    <2>2. UploadsHold'
      BY <2>1 DEF mutexVars, SchemaTypes
    <2>3. ASSUME ~unguarded', ~overtaken', NEW q \in Client, stage'[q] = "read", Live(q)'
          PROVE  FALSE
      <3>1. Live(p) /\ Live(q) /\ ~overtaken
        BY <2>1, <2>3 DEF mutexVars, Live, Holding, SchemaTypes
      <3>2. p = q
        BY <1>0, <3>1 DEF LiveHoldersExclusive
      <3> QED
        BY <2>1, <2>3, <3>2 DEF SchemaTypes
    <2> QED
      BY <2>2, <2>3
  <1>6. ASSUME NEW p \in Client, ConnectBlind(p) PROVE (UploadsHold /\ FreshIsStored)'
    BY <1>6 DEF ConnectBlind, mutexVars
  <1>7. ASSUME NEW p \in Client, Connect(p) \/ \E d \in Definitions : Define(p, d)
        PROVE  (UploadsHold /\ FreshIsStored)'
    BY <1>7 DEF Connect, Define, mutexVars, Live, Holding
  <1>8. CASE Tick /\ UNCHANGED schemaVars
    BY <1>0, <1>8 DEF Tick, schemaVars, Live, Holding, MutexTypeOK
  <1>9. CASE UNCHANGED <<mutexVars, schemaVars>>
    BY <1>9 DEF mutexVars, schemaVars, Live, Holding
  <1> QED
    BY <1>2, <1>3, <1>4, <1>5, <1>6, <1>7, <1>8, <1>9 DEF SchemaNext, StartUpload

LEMMA UploadInvariance == SchemaSpec => []UploadInv
  <1>1. UploadInv /\ [SchemaNext]_<<mutexVars, schemaVars>> => UploadInv'
    BY MutexInvNext, SchemaTypesNext, UploadInvNext DEF UploadInv
  <1> QED
    BY <1>1, UploadInvInit, PTL DEF SchemaSpec

(* An upload that keeps its lock and sees what it replaces loses nothing   *)
(* of the saved registry: attributes stay mapped, burned indices stay      *)
(* burned, and the next index never goes down.                             *)
THEOREM ProtectedUploadsOnlyAdd == SchemaSpec => RegistryOnlyGrows
  <1> DEFINE Grows ==
        ~unguarded' /\ ~overtaken' /\ stored # Nothing
          => /\ stored' # Nothing
             /\ DOMAIN stored.registry.mapping \subseteq DOMAIN stored'.registry.mapping
             /\ {b.index : b \in stored.registry.burned}
                  \subseteq {b.index : b \in stored'.registry.burned}
             /\ stored.registry.next <= stored'.registry.next
  <1>1. UploadInv /\ [SchemaNext]_<<mutexVars, schemaVars>> => [Grows]_<<mutexVars, schemaVars>>
    <2> SUFFICES ASSUME UploadInv, SchemaNext, ~unguarded', ~overtaken', stored # Nothing
                 PROVE  /\ stored' # Nothing
                        /\ DOMAIN stored.registry.mapping \subseteq DOMAIN stored'.registry.mapping
                        /\ stored.registry.burned \subseteq stored'.registry.burned
                        /\ stored.registry.next <= stored'.registry.next
      OBVIOUS
    <2> USE DEF UploadInv, SchemaTypes
    <2>1. CASE stored' = stored
      <3>1. stored.registry \in Good
        BY SavedIs
      <3>2. stored.registry.next \in Nat
        BY <3>1, GoodHas
      <3> QED
        BY <2>1, <3>2
    <2>2. CASE stored' # stored
      <3>1. PICK p \in Client : PutMetadata(p)
        BY <2>2 DEF SchemaNext, Connect, ConnectBlind, Define, StartUpload, ReadFresh,
                    EndUpload, DropUpload, schemaVars
      <3>2. Live(p) /\ ~unguarded /\ ~overtaken /\ stage[p] = "read"
        BY <3>1 DEF PutMetadata, mutexVars
      <3>3. fresh[p] = stored
        BY <3>2 DEF FreshIsStored
      <3>4. stored' = Final(stored, Local(p))
        BY <3>1, <3>3 DEF PutMetadata
      <3> QED
        BY <3>4, LocalIs, FinalIs
    <2> QED
      BY <2>1, <2>2
  <1> QED
    BY <1>1, UploadInvariance, PTL DEF SchemaSpec, RegistryOnlyGrows
----------------------------------------------------------------------------
(* What an index means.  Data may be stored under the pairs in used; a     *)
(* registry or a map contributes its own.                                  *)

Pairs(m) == {<<m[a], a>> : a \in DOMAIN m}

OneMeaning(U) == \A u, v \in U : u[1] = v[1] => u[2] = v[2]

Below(U, n) == \A u \in U : u[1] < n

LEMMA PairsAre ==
  ASSUME NEW D \in SUBSET Attribute, NEW n \in Nat, NEW m \in [D -> 0 .. n - 1]
  PROVE  Pairs(m) \in SUBSET (Nat \X Attribute) /\ Below(Pairs(m), n)
  BY DEF Pairs, Below

LEMMA PairsOfMaps ==
  ASSUME NEW m \in Maps
  PROVE  Pairs(m) \in SUBSET (Nat \X Attribute)
  <1>1. PICK D \in SUBSET Attribute : m \in [D -> Nat]
    BY DEF Maps
  <1> QED
    BY <1>1 DEF Pairs

LEMMA PairsOfPositional ==
  ASSUME NEW d \in Definitions
  PROVE  /\ OneMeaning(Pairs(Positional(d)))
         /\ Below(Pairs(Positional(d)), Len(d))
         /\ DOMAIN Positional(d) = Range(d)
  <1> DEFINE m == Positional(d)
  <1>1. m \in [Range(d) -> 0 .. Len(d) - 1] /\ \A i \in DOMAIN d : m[d[i]] = i - 1
    BY PositionalIs
  <1>2. \A a, b \in Range(d) : m[a] = m[b] => a = b
    <2> TAKE a, b \in Range(d)
    <2>1. PICK i \in DOMAIN d, j \in DOMAIN d : d[i] = a /\ d[j] = b
      BY DefinitionIs
    <2>2. m[a] = i - 1 /\ m[b] = j - 1
      BY <1>1, <2>1
    <2> QED
      BY <2>1, <2>2, DefinitionIs
  <1> HIDE DEF m
  <1>3. Below(Pairs(m), Len(d)) /\ DOMAIN m = Range(d)
    BY <1>1, DefinitionIs, PairsAre
  <1>4. OneMeaning(Pairs(m))
    BY <1>1, <1>2 DEF OneMeaning, Pairs
  <1> QED
    BY <1>3, <1>4 DEF m

\* Attributes keep their index; each new one gets one of its own, from r.next on.
LEMMA NumbersOf ==
  ASSUME NEW d \in Definitions, NEW r \in Good
  PROVE  LET q == FromRegistry(d, r)
         IN /\ DOMAIN q.mapping = Range(d)
            /\ \A a \in Range(d) \cap DOMAIN r.mapping : q.mapping[a] = r.mapping[a]
            /\ \A a \in Range(d) \ DOMAIN r.mapping : q.mapping[a] \in Nat /\ r.next <= q.mapping[a]
            /\ \A a, b \in Range(d) \ DOMAIN r.mapping : q.mapping[a] = q.mapping[b] => a = b
            /\ r.next <= q.next
            /\ Range(d) \subseteq DOMAIN r.mapping => q.next = r.next
  <1> DEFINE known == DOMAIN r.mapping
             new == {i \in DOMAIN d : d[i] \notin known}
             below(a) == {i \in new : \E j \in new : i < j /\ d[j] = a}
             gone == {a \in known \ Range(d) : \A b \in r.burned : b.index # r.mapping[a]}
             n == r.next + Cardinality(new)
             m == [a \in Range(d) |->
                     IF a \in known THEN r.mapping[a] ELSE r.next + Cardinality(below(a))]
             B == r.burned \cup {[index |-> r.mapping[a], attribute |-> a] : a \in gone}
  <1>1. FromRegistry(d, r) = [next |-> n, mapping |-> m, burned |-> B]
    BY NextIndexIs DEF FromRegistry
  <1>2. IsFiniteSet(new) /\ Cardinality(new) \in Nat
    <2>1. IsFiniteSet(1 .. Len(d))
      BY DefinitionIs, FS_Interval
    <2>2. new \in SUBSET (1 .. Len(d))
      BY DefinitionIs
    <2> QED
      BY <2>1, <2>2, FS_Subset, FS_CardinalityType
  <1>3. \A a : IsFiniteSet(below(a)) /\ Cardinality(below(a)) \in Nat
    <2> TAKE a
    <2>1. below(a) \in SUBSET new
      OBVIOUS
    <2> HIDE DEF below, new
    <2> QED
      BY <1>2, <2>1, FS_Subset, FS_CardinalityType
  <1>4. ASSUME NEW k \in new, NEW l \in new, k < l
        PROVE  Cardinality(below(d[k])) # Cardinality(below(d[l]))
    <2>1. below(d[k]) \subseteq below(d[l])
      <3> SUFFICES ASSUME NEW i \in below(d[k]) PROVE i \in below(d[l])
        OBVIOUS
      <3>1. PICK j \in new : i < j /\ d[j] = d[k]
        OBVIOUS
      <3>2. j = k /\ i \in new
        BY <3>1, DefinitionIs
      <3> QED
        BY <1>4, <3>1, <3>2, DefinitionIs
    <2>2. k \in below(d[l])
      BY <1>4
    <2>3. k \notin below(d[k])
      <3> SUFFICES ASSUME k \in below(d[k]) PROVE FALSE
        OBVIOUS
      <3>1. PICK j \in new : k < j /\ d[j] = d[k]
        OBVIOUS
      <3> QED
        BY <3>1, DefinitionIs
    <2>4. IsFiniteSet(below(d[l])) /\ below(d[k]) \in SUBSET below(d[l]) /\ below(d[k]) # below(d[l])
      BY <1>3, <2>1, <2>2, <2>3
    <2> HIDE DEF below
    <2> QED
      BY <2>4, FS_Subset
  <1>5. ASSUME NEW a \in Range(d) \ known, NEW b \in Range(d) \ known,
               Cardinality(below(a)) = Cardinality(below(b))
        PROVE  a = b
    <2>1. PICK k \in DOMAIN d, l \in DOMAIN d : d[k] = a /\ d[l] = b
      BY DefinitionIs
    <2>2. k \in new /\ l \in new /\ k \in Int /\ l \in Int
      BY <2>1, DefinitionIs
    <2> HIDE DEF below, new
    <2>3. ~(k < l) /\ ~(l < k)
      BY <1>4, <1>5, <2>1, <2>2
    <2> QED
      BY <2>1, <2>2, <2>3
  <1>6. ASSUME Range(d) \subseteq known PROVE Cardinality(new) = 0
    <2>1. new = {}
      BY <1>6, DefinitionIs
    <2> HIDE DEF new
    <2> QED
      BY <2>1, FS_EmptySet
  <1>7. r.next \in Nat
    BY GoodHas
  <1>8. /\ DOMAIN m = Range(d)
        /\ \A a \in Range(d) \cap known : m[a] = r.mapping[a]
        /\ \A a \in Range(d) \ known : m[a] = r.next + Cardinality(below(a))
    OBVIOUS
  <1>9. r.next <= n /\ (Range(d) \subseteq known => n = r.next)
    BY <1>2, <1>6, <1>7
  <1> HIDE DEF below, new, m, n, B
  <1>10. /\ \A a \in Range(d) \ known : m[a] \in Nat /\ r.next <= m[a]
         /\ \A a, b \in Range(d) \ known : m[a] = m[b] => a = b
    BY <1>3, <1>5, <1>7, <1>8
  <1> QED
    BY <1>1, <1>8, <1>9, <1>10

\* New attributes make no index ambiguous if every index in use is below r.next.
LEMMA NumbersAreNew ==
  ASSUME NEW d \in Definitions, NEW r \in Good, NEW U \in SUBSET (Nat \X Attribute),
         OneMeaning(U), Pairs(r.mapping) \subseteq U, Below(U, r.next)
  PROVE  LET q == FromRegistry(d, r)
         IN OneMeaning(U \cup Pairs(q.mapping)) /\ Below(U \cup Pairs(q.mapping), q.next)
  <1> DEFINE q == FromRegistry(d, r)
             m == q.mapping
             new == Range(d) \ DOMAIN r.mapping
  <1>1. /\ DOMAIN m = Range(d)
        /\ \A a \in Range(d) \cap DOMAIN r.mapping : m[a] = r.mapping[a]
        /\ \A a \in new : m[a] \in Nat /\ r.next <= m[a]
        /\ \A a, b \in new : m[a] = m[b] => a = b
        /\ r.next <= q.next
    BY NumbersOf
  <1>2. q \in Good
    BY FromRegistryIsGood
  <1>3. q.next \in Nat /\ r.next \in Nat /\ m \in [DOMAIN m -> 0 .. q.next - 1] /\ DOMAIN m \in SUBSET Attribute
    BY <1>2, GoodHas
  <1> HIDE DEF q, new
  <1>4. Below(Pairs(m), q.next)
    BY <1>3, PairsAre
  <1>5. Below(U, q.next)
    BY <1>1, <1>3 DEF Below
  <1>6. \A u \in Pairs(m) : u \in U \/ \E a \in new : u = <<m[a], a>>
    <2> SUFFICES ASSUME NEW a \in DOMAIN m, a \notin new PROVE <<m[a], a>> \in U
      BY DEF Pairs
    <2>1. a \in DOMAIN r.mapping /\ m[a] = r.mapping[a]
      BY <1>1 DEF new
    <2> QED
      BY <2>1 DEF Pairs
  <1>7. OneMeaning(U \cup Pairs(m))
    <2> SUFFICES ASSUME NEW u \in U \cup Pairs(m), NEW v \in U \cup Pairs(m), u[1] = v[1]
                 PROVE  u[2] = v[2]
      BY DEF OneMeaning
    <2>1. CASE u \in U /\ v \in U
      BY <2>1 DEF OneMeaning
    <2>2. \A w \in U : w[1] \in Nat /\ w[1] < r.next
      BY DEF Below
    <2>3. CASE u \in U /\ v \notin U
      BY <1>1, <1>3, <1>6, <2>2, <2>3
    <2>4. CASE u \notin U /\ v \in U
      BY <1>1, <1>3, <1>6, <2>2, <2>4
    <2>5. CASE u \notin U /\ v \notin U
      <3>1. PICK a \in new : u = <<m[a], a>>
        BY <1>6, <2>5
      <3>2. PICK b \in new : v = <<m[b], b>>
        BY <1>6, <2>5
      <3> QED
        BY <1>1, <3>1, <3>2
    <2> QED
      BY <2>1, <2>3, <2>4, <2>5
  <1>8. Below(U \cup Pairs(m), q.next)
    BY <1>4, <1>5 DEF Below
  <1> QED
    BY <1>7, <1>8 DEF q

\* Nothing is new when the registry knows all attributes of the definition.
LEMMA NothingIsNew ==
  ASSUME NEW d \in Definitions, NEW r \in Good, Range(d) \subseteq DOMAIN r.mapping
  PROVE  LET q == FromRegistry(d, r)
         IN q.next = r.next /\ Pairs(q.mapping) \subseteq Pairs(r.mapping)
  <1> DEFINE q == FromRegistry(d, r)
  <1>1. q.next = r.next /\ DOMAIN q.mapping = Range(d) /\ \A a \in Range(d) : q.mapping[a] = r.mapping[a]
    BY NumbersOf
  <1> HIDE DEF q
  <1>2. Pairs(q.mapping) \subseteq Pairs(r.mapping)
    BY <1>1 DEF Pairs
  <1> QED
    BY <1>1, <1>2 DEF q

\* A merge invents nothing.
LEMMA MergeIs ==
  ASSUME NEW f \in Good, NEW l \in Good
  PROVE  /\ Pairs(Merge(f, l).mapping) \subseteq Pairs(f.mapping) \cup Pairs(l.mapping)
         /\ DOMAIN Merge(f, l).mapping = DOMAIN f.mapping \cup DOMAIN l.mapping
         /\ f.next <= Merge(f, l).next /\ l.next <= Merge(f, l).next
         /\ Merge(f, l).next \in {f.next, l.next}
  <1> DEFINE D == DOMAIN f.mapping \cup DOMAIN l.mapping
             larger(a) == IF a \notin DOMAIN l.mapping
                             \/ (a \in DOMAIN f.mapping /\ f.mapping[a] > l.mapping[a])
                            THEN f.mapping[a] ELSE l.mapping[a]
             m == [a \in D |-> larger(a)]
             n == Max({f.next, l.next})
  <1>1. Merge(f, l).mapping = m /\ Merge(f, l).next = n
    BY DEF Merge
  <1>2. n \in {f.next, l.next} /\ f.next <= n /\ l.next <= n
    <2>1. f.next \in Nat /\ l.next \in Nat
      BY GoodHas
    <2> QED
      BY <2>1, MaxOfTwo, Zenon
  <1> HIDE DEF n
  <1>3. \A a \in D : \/ a \in DOMAIN f.mapping /\ m[a] = f.mapping[a]
                     \/ a \in DOMAIN l.mapping /\ m[a] = l.mapping[a]
    OBVIOUS
  <1>4. DOMAIN m = D
    OBVIOUS
  <1> HIDE DEF m
  <1>5. Pairs(m) \subseteq Pairs(f.mapping) \cup Pairs(l.mapping)
    BY <1>3, <1>4 DEF Pairs
  <1> QED
    BY <1>1, <1>2, <1>4, <1>5

----------------------------------------------------------------------------
(* Whatever is numbered has been in use, and a registry numbers the        *)
(* attributes of its process' resource.                                    *)

IsRecorded(s, U) == s # Nothing => Pairs(s.registry.mapping) \subseteq U

Recorded ==
  /\ used \in SUBSET (Nat \X Attribute)
  /\ IsRecorded(stored, used)
  /\ \A p \in Client : /\ IsRecorded(saved[p], used) /\ IsRecorded(fresh[p], used)
                       /\ registry[p] # Nothing => Pairs(registry[p].mapping) \subseteq used
                       /\ Pairs(map[p]) \subseteq used

Covers(d, r) == Range(d) \subseteq DOMAIN r.mapping

SchemasCover ==
  \A p \in Client : registry[p] # Nothing => def[p] # Nothing /\ Covers(def[p], registry[p])

LEMMA FinalRecorded ==
  ASSUME NEW f \in Saved \cup {Nothing}, NEW l \in Saved \cup {Nothing}, NEW U,
         IsRecorded(f, U), IsRecorded(l, U)
  PROVE  IsRecorded(Final(f, l), U)
  <1>1. CASE f = Nothing \/ l = Nothing
    BY <1>1 DEF Final
  <1>2. CASE f # Nothing /\ l # Nothing
    <2>1. f.registry \in Good /\ l.registry \in Good
      BY <1>2, SavedIs
    <2>2. Final(f, l).registry = Merge(f.registry, l.registry)
      BY <1>2 DEF Final
    <2> QED
      BY <1>2, <2>1, <2>2, MergeIs DEF IsRecorded
  <1> QED
    BY <1>1, <1>2

\* What an upload of p would save of its own.
LEMMA LocalRecorded ==
  ASSUME SchemaTypes, Recorded, NEW p \in Client
  PROVE  IsRecorded(Local(p), used)
  <1>1. CASE def[p] = Nothing
    BY <1>1 DEF Local, IsRecorded
  <1>2. CASE def[p] # Nothing /\ registry[p] # Nothing
    BY <1>2 DEF Local, IsRecorded, Recorded
  <1>3. CASE def[p] # Nothing /\ registry[p] = Nothing /\ saved[p] # Nothing
    BY <1>3 DEF Local, IsRecorded, Recorded
  <1>4. CASE def[p] # Nothing /\ registry[p] = Nothing /\ saved[p] = Nothing
    <2>1. map[p] = Positional(def[p]) /\ def[p] \in Definitions
      BY <1>4 DEF SchemaTypes, MapIsPositional
    <2>2. Local(p).registry = Initial(map[p])
      BY <1>4 DEF Local
    <2>3. Local(p).registry.mapping = map[p]
      BY <2>1, <2>2, InitialIsGood
    <2> QED
      BY <2>3 DEF IsRecorded, Recorded
  <1> QED
    BY <1>1, <1>2, <1>3, <1>4

LEMMA UseIs ==
  ASSUME SchemaTypes, NEW p \in Client, NEW m, Use(p, m)
  PROVE  /\ used' = used \cup Pairs(m)
         /\ \A q \in Client : map'[q] = IF q = p THEN m ELSE map[q]
  BY DEF Use, SchemaTypes, Pairs

LEMMA NoPairs == Pairs(NoMap) = {}
  BY DEF Pairs, NoMap

LEMMA RecordedInit == SchemaInit => Recorded /\ SchemasCover
  BY NoPairs DEF SchemaInit, Recorded, SchemasCover, IsRecorded

LEMMA RecordedNext ==
  SchemaTypes /\ Recorded /\ SchemasCover /\ [SchemaNext]_<<mutexVars, schemaVars>>
    => (Recorded /\ SchemasCover)'
  <1> SUFFICES ASSUME SchemaTypes, Recorded, SchemasCover, [SchemaNext]_<<mutexVars, schemaVars>>
               PROVE  (Recorded /\ SchemasCover)'
    OBVIOUS
  <1>t. /\ stored \in Saved \cup {Nothing}
        /\ saved \in [Client -> Saved \cup {Nothing}] /\ fresh \in [Client -> Saved \cup {Nothing}]
        /\ registry \in [Client -> Good \cup {Nothing}]
        /\ def \in [Client -> Definitions \cup {Nothing}]
    BY DEF SchemaTypes
  <1>1. ASSUME NEW p \in Client, Connect(p) PROVE (Recorded /\ SchemasCover)'
    <2>1. /\ saved' = [saved EXCEPT ![p] = stored] /\ UNCHANGED <<stored, fresh>>
      BY <1>1 DEF Connect
    <2>2. CASE stored = Nothing
      <3>1. /\ def' = [def EXCEPT ![p] = Nothing] /\ registry' = [registry EXCEPT ![p] = Nothing]
            /\ Use(p, NoMap)
        BY <1>1, <2>2 DEF Connect
      <3>2. used' = used /\ \A q \in Client : map'[q] = IF q = p THEN NoMap ELSE map[q]
        BY <3>1, NoPairs, UseIs
      <3>3. Recorded'
        BY <1>t, <2>1, <3>1, <3>2, NoPairs DEF Recorded, IsRecorded
      <3> QED
        BY <1>t, <3>1, <3>3 DEF SchemasCover
    <2>3. CASE stored # Nothing
      <3> DEFINE r == FromRegistry(stored.def, stored.registry)
      <3>1. stored.def \in Definitions /\ stored.registry \in Good
        BY <1>t, <2>3, SavedIs
      <3>2. r \in Good /\ DOMAIN r.mapping = Range(stored.def)
        BY <3>1, FromRegistryIsGood, NumbersOf
      <3>3. /\ def' = [def EXCEPT ![p] = stored.def] /\ registry' = [registry EXCEPT ![p] = r]
            /\ Use(p, r.mapping)
        BY <1>1, <2>3 DEF Connect
      <3> HIDE DEF r
      <3>4. /\ used' = used \cup Pairs(r.mapping)
            /\ \A q \in Client : map'[q] = IF q = p THEN r.mapping ELSE map[q]
        BY <3>3, UseIs
      <3>5. Pairs(r.mapping) \in SUBSET (Nat \X Attribute)
        BY <3>2, GoodHas, PairsOfMaps
      <3>6. Recorded'
        BY <1>t, <2>1, <3>3, <3>4, <3>5 DEF Recorded, IsRecorded
      <3>7. stored.def # Nothing
        BY <3>1, UploadAssumption
      <3>8. SchemasCover'
        BY <1>t, <3>2, <3>3, <3>7 DEF SchemasCover, Covers
      <3> QED
        BY <3>6, <3>8
    <2> QED
      BY <2>2, <2>3
  <1>2. ASSUME NEW p \in Client, ConnectBlind(p) PROVE (Recorded /\ SchemasCover)'
    <2>1. /\ saved' = [saved EXCEPT ![p] = Nothing] /\ stored' = Nothing /\ fresh' = fresh
          /\ def' = [def EXCEPT ![p] = Nothing] /\ registry' = [registry EXCEPT ![p] = Nothing]
          /\ Use(p, NoMap)
      BY <1>2 DEF ConnectBlind
    <2>2. used' = used /\ \A q \in Client : map'[q] = IF q = p THEN NoMap ELSE map[q]
      BY <2>1, NoPairs, UseIs
    <2>3. Recorded'
      BY <1>t, <2>1, <2>2, NoPairs DEF Recorded, IsRecorded
    <2> QED
      BY <1>t, <2>1, <2>3 DEF SchemasCover
  <1>3. ASSUME NEW p \in Client, NEW d \in Definitions, Define(p, d) PROVE (Recorded /\ SchemasCover)'
    <2>1. def' = [def EXCEPT ![p] = d] /\ UNCHANGED <<stored, saved, fresh>> /\ d # Nothing
      BY <1>3, UploadAssumption DEF Define
    <2>2. CASE registry[p] = Nothing
      <3> DEFINE m == Positional(d)
      <3>1. registry' = registry /\ Use(p, m)
        BY <1>3, <2>2 DEF Define
      <3>2. Pairs(m) \in SUBSET (Nat \X Attribute)
        BY PositionalIs, PairsOfMaps
      <3> HIDE DEF m
      <3>3. used' = used \cup Pairs(m) /\ \A q \in Client : map'[q] = IF q = p THEN m ELSE map[q]
        BY <3>1, UseIs
      <3>4. Recorded'
        BY <1>t, <2>1, <3>1, <3>2, <3>3 DEF Recorded, IsRecorded
      <3> QED
        BY <1>t, <2>1, <2>2, <3>1, <3>4 DEF SchemasCover
    <2>3. CASE registry[p] # Nothing
      <3> DEFINE r == FromRegistry(d, registry[p])
      <3>1. r \in Good /\ DOMAIN r.mapping = Range(d)
        BY <1>t, <2>3, FromRegistryIsGood, NumbersOf
      <3>2. registry' = [registry EXCEPT ![p] = r] /\ Use(p, r.mapping)
        BY <1>3, <2>3 DEF Define
      <3> HIDE DEF r
      <3>3. /\ used' = used \cup Pairs(r.mapping)
            /\ \A q \in Client : map'[q] = IF q = p THEN r.mapping ELSE map[q]
        BY <3>2, UseIs
      <3>4. Pairs(r.mapping) \in SUBSET (Nat \X Attribute)
        BY <3>1, GoodHas, PairsOfMaps
      <3>5. Recorded'
        BY <1>t, <2>1, <3>2, <3>3, <3>4 DEF Recorded, IsRecorded
      <3>6. SchemasCover'
        BY <1>t, <2>1, <3>1, <3>2 DEF SchemasCover, Covers
      <3> QED
        BY <3>5, <3>6
    <2> QED
      BY <2>2, <2>3
  <1>4. ASSUME NEW p \in Client, ReadFresh(p) PROVE (Recorded /\ SchemasCover)'
    <2>1. /\ UNCHANGED <<stored, saved, def, registry, map, used>>
          /\ \E answer \in {stored, Nothing} : fresh' = [fresh EXCEPT ![p] = answer]
      BY <1>4 DEF ReadFresh
    <2> QED
      BY <1>t, <2>1 DEF Recorded, IsRecorded, SchemasCover
  <1>5. ASSUME NEW p \in Client, PutMetadata(p) PROVE (Recorded /\ SchemasCover)'
    <2>1. /\ stored' = Final(fresh[p], Local(p))
          /\ saved' \in {saved, [saved EXCEPT ![p] = stored']}
          /\ fresh' = [fresh EXCEPT ![p] = Nothing]
          /\ UNCHANGED <<def, registry, map, used>>
      BY <1>5 DEF PutMetadata
    <2>2. IsRecorded(stored', used)
      BY <1>t, <2>1, LocalIs, LocalRecorded, FinalRecorded DEF Recorded
    <2> QED
      BY <1>t, <2>1, <2>2 DEF Recorded, IsRecorded, SchemasCover
  <1>6. ASSUME NEW p \in Client, EndUpload(p) \/ DropUpload(p) PROVE (Recorded /\ SchemasCover)'
    <2>1. /\ UNCHANGED <<stored, saved, def, registry, map, used>>
          /\ fresh' = [fresh EXCEPT ![p] = Nothing]
      BY <1>6 DEF EndUpload, DropUpload
    <2> QED
      BY <1>t, <2>1 DEF Recorded, IsRecorded, SchemasCover
  <1>7. CASE UNCHANGED schemaVars
    BY <1>7 DEF schemaVars, Recorded, IsRecorded, SchemasCover
  <1> QED
    BY <1>1, <1>2, <1>3, <1>4, <1>5, <1>6, <1>7 DEF SchemaNext, StartUpload

----------------------------------------------------------------------------
(* While definitions change one at a time and uploads are protected: every *)
(* index has one meaning, and whoever may change the definition next has a *)
(* registry that is past all of them.                                      *)

OnlySerial == ~raced /\ ~unguarded /\ ~overtaken

AllSaved ==
  unsaved = {} => IF stored = Nothing THEN used = {} ELSE Below(used, stored.registry.next)

OneUnsaved ==
  \A p \in unsaved :
    /\ unsaved = {p} /\ def[p] # Nothing
    /\ registry[p] # Nothing => Below(used, registry[p].next)
    /\ registry[p] = Nothing => stored = Nothing /\ Below(used, Len(def[p]))

SyncedKnow ==
  stored # Nothing =>
    \A p \in synced : def[p] # Nothing /\ (registry[p] # Nothing => stored.registry.next <= registry[p].next)

NothingKnown ==
  stored = Nothing => \A p \in Client : saved[p] = Nothing /\ (p \notin unsaved => def[p] = Nothing)

SavedCover ==
  /\ stored # Nothing => Covers(stored.def, stored.registry)
  /\ \A p \in Client :
       registry[p] = Nothing /\ def[p] # Nothing /\ saved[p] # Nothing => Covers(def[p], saved[p].registry)

SerialState == OneMeaning(used) /\ AllSaved /\ OneUnsaved /\ SyncedKnow /\ NothingKnown /\ SavedCover

SerialInv == OnlySerial => SerialState

LEMMA SerialInvInit == SchemaInit => SerialInv
  BY DEF SchemaInit, SerialInv, SerialState, OneMeaning, AllSaved, OneUnsaved, SyncedKnow, NothingKnown, SavedCover

LEMMA OnlySerialWas ==
  ASSUME UploadInv, [SchemaNext]_<<mutexVars, schemaVars>>, OnlySerial'
  PROVE  OnlySerial
  <1> USE DEF OnlySerial
  <1>0. MutexTypeOK
    BY MutexInvImplies DEF UploadInv, MutexInv
  <1>1. ASSUME NEW p \in Client, MutexStep(p), UNCHANGED <<raced, unguarded>> PROVE OnlySerial
    BY <1>0, <1>1, OthersKeepTheirLock
  <1>2. ASSUME NEW p \in Client,
               Connect(p) \/ ConnectBlind(p) \/ ReadFresh(p) \/ PutMetadata(p)
                 \/ \E d \in Definitions : Define(p, d)
        PROVE  OnlySerial
    <2>1. raced \in BOOLEAN /\ unguarded \in BOOLEAN
      BY DEF UploadInv, SchemaTypes
    <2>2. (raced => raced') /\ (unguarded => unguarded') /\ overtaken' = overtaken
      BY <1>2, <2>1 DEF Connect, ConnectBlind, ReadFresh, PutMetadata, Define, mutexVars
    <2> QED
      BY <2>2
  <1>3. ASSUME NEW p \in Client, TryLock(p) \/ LockCall(p), UNCHANGED schemaVars PROVE OnlySerial
    BY <1>1, <1>3 DEF MutexStep, schemaVars
  <1>4. ASSUME NEW p \in Client, EndUpload(p) \/ DropUpload(p) PROVE OnlySerial
    BY <1>1, <1>4 DEF MutexStep, EndUpload, DropUpload
  <1>5. CASE Tick /\ UNCHANGED schemaVars
    BY <1>5 DEF Tick, schemaVars
  <1>6. CASE UNCHANGED <<mutexVars, schemaVars>>
    BY <1>6 DEF mutexVars, schemaVars
  <1> QED
    BY <1>2, <1>3, <1>4, <1>5, <1>6 DEF SchemaNext, StartUpload

LEMMA SerialConnect ==
  ASSUME SchemaTypes, Recorded, SerialState, NEW p \in Client, Connect(p), ~raced'
  PROVE  SerialState'
  <1>t. /\ stored \in Saved \cup {Nothing} /\ used \in SUBSET (Nat \X Attribute)
        /\ saved \in [Client -> Saved \cup {Nothing}] /\ registry \in [Client -> Good \cup {Nothing}]
        /\ def \in [Client -> Definitions \cup {Nothing}]
        /\ synced \subseteq Client /\ unsaved \subseteq Client
    BY DEF SchemaTypes, Recorded
  <1>s. OneMeaning(used) /\ AllSaved /\ OneUnsaved /\ SyncedKnow /\ NothingKnown /\ SavedCover
    BY DEF SerialState
  <1>1. /\ saved' = [saved EXCEPT ![p] = stored] /\ stored' = stored
        /\ synced' = synced \cup {p} /\ p \notin unsaved /\ unsaved' = unsaved
    BY DEF Connect
  <1>2. CASE stored = Nothing
    <2>1. /\ def' = [def EXCEPT ![p] = Nothing] /\ registry' = [registry EXCEPT ![p] = Nothing]
          /\ used' = used
      BY <1>2, NoPairs, UseIs DEF Connect
    <2>2. OneMeaning(used)' /\ AllSaved'
      BY <1>s, <1>1, <1>2, <2>1 DEF AllSaved
    <2>3. OneUnsaved'
      BY <1>t, <1>s, <1>1, <2>1 DEF OneUnsaved
    <2>4. SyncedKnow' /\ NothingKnown' /\ SavedCover'
      BY <1>t, <1>s, <1>1, <1>2, <2>1 DEF SyncedKnow, NothingKnown, SavedCover
    <2> QED
      BY <2>2, <2>3, <2>4 DEF SerialState
  <1>3. CASE stored # Nothing
    <2> DEFINE r == FromRegistry(stored.def, stored.registry)
    <2>1. stored.def \in Definitions /\ stored.registry \in Good /\ stored.def # Nothing
      BY <1>t, <1>3, SavedIs, UploadAssumption
    <2>2. r.next = stored.registry.next /\ Pairs(r.mapping) \subseteq used /\ r # Nothing
      <3>1. Range(stored.def) \subseteq DOMAIN stored.registry.mapping
        BY <1>s, <1>3 DEF SavedCover, Covers
      <3>2. Pairs(stored.registry.mapping) \subseteq used
        BY <1>3 DEF Recorded, IsRecorded
      <3>3. r \in Good
        BY <2>1, FromRegistryIsGood
      <3>4. r.next = stored.registry.next /\ Pairs(r.mapping) \subseteq Pairs(stored.registry.mapping)
        BY <2>1, <3>1, NothingIsNew
      <3> HIDE DEF r
      <3> QED
        BY <3>2, <3>3, <3>4, GoodHas
    <2>3. /\ def' = [def EXCEPT ![p] = stored.def] /\ registry' = [registry EXCEPT ![p] = r]
          /\ used' = used
      <3>1. /\ def' = [def EXCEPT ![p] = stored.def] /\ registry' = [registry EXCEPT ![p] = r]
            /\ Use(p, r.mapping)
        BY <1>3 DEF Connect
      <3> HIDE DEF r
      <3> QED
        BY <2>2, <3>1, UseIs
    <2>4. stored.registry.next \in Nat
      BY <2>1, GoodHas
    <2> HIDE DEF r
    <2>5. OneMeaning(used)' /\ AllSaved'
      BY <1>s, <1>1, <2>3 DEF AllSaved
    <2>6. OneUnsaved'
      BY <1>t, <1>s, <1>1, <2>3 DEF OneUnsaved
    <2>7. SyncedKnow'
      BY <1>t, <1>s, <1>1, <1>3, <2>1, <2>2, <2>3, <2>4 DEF SyncedKnow
    <2>8. NothingKnown' /\ SavedCover'
      BY <1>t, <1>s, <1>1, <1>3, <2>2, <2>3 DEF NothingKnown, SavedCover
    <2> QED
      BY <2>5, <2>6, <2>7, <2>8 DEF SerialState
  <1> QED
    BY <1>2, <1>3

LEMMA SerialDefine ==
  ASSUME SchemaTypes, Recorded, SerialState, NEW p \in Client, NEW d \in Definitions, Define(p, d), ~raced'
  PROVE  SerialState'
  <1>t. /\ stored \in Saved \cup {Nothing} /\ used \in SUBSET (Nat \X Attribute)
        /\ saved \in [Client -> Saved \cup {Nothing}] /\ registry \in [Client -> Good \cup {Nothing}]
        /\ def \in [Client -> Definitions \cup {Nothing}]
        /\ synced \subseteq Client /\ unsaved \subseteq Client
    BY DEF SchemaTypes, Recorded
  <1>s. OneMeaning(used) /\ AllSaved /\ OneUnsaved /\ SyncedKnow /\ NothingKnown /\ SavedCover
    BY DEF SerialState
  <1>1. /\ def' = [def EXCEPT ![p] = d] /\ UNCHANGED <<stored, saved, synced>>
        /\ unsaved' = unsaved \cup {p} /\ Serial(p) /\ d # Nothing
    BY UploadAssumption DEF Define
  <1>2. p \in synced /\ unsaved' = {p} /\ (def[p] # Nothing => registry[p] # Nothing)
    BY <1>1 DEF Serial
  <1>3. NothingKnown' /\ AllSaved'
    BY <1>t, <1>s, <1>1, <1>2 DEF NothingKnown, AllSaved
  <1>4. CASE registry[p] = Nothing
    <2>1. stored = Nothing /\ unsaved = {} /\ def[p] = Nothing
      BY <1>s, <1>2, <1>4, <1>1 DEF Serial, SyncedKnow, OneUnsaved
    <2>2. used = {}
      BY <1>s, <2>1 DEF AllSaved
    <2>3. registry' = registry /\ used' = Pairs(Positional(d))
      BY <1>4, <2>2, UseIs DEF Define
    <2>4. OneMeaning(used)' /\ Below(used', Len(d))
      BY <2>3, PairsOfPositional
    <2>5. OneUnsaved'
      BY <1>t, <1>1, <1>2, <1>4, <2>1, <2>3, <2>4 DEF OneUnsaved
    <2>6. SyncedKnow' /\ SavedCover'
      BY <1>t, <1>s, <1>1, <2>1, <2>3 DEF SyncedKnow, SavedCover, NothingKnown
    <2> QED
      BY <1>3, <2>4, <2>5, <2>6 DEF SerialState
  <1>5. CASE registry[p] # Nothing
    <2> DEFINE r == FromRegistry(d, registry[p])
               old == registry[p].next
    <2>1. registry[p] \in Good /\ Pairs(registry[p].mapping) \subseteq used
      BY <1>t, <1>5 DEF Recorded
    <2>2. registry' = [registry EXCEPT ![p] = r] /\ used' = used \cup Pairs(r.mapping)
      BY <1>5, UseIs DEF Define
    <2>3. Below(used, old)
      <3>1. CASE unsaved = {p}
        BY <1>s, <1>5, <3>1 DEF OneUnsaved
      <3>2. CASE unsaved = {} /\ stored = Nothing
        BY <1>s, <3>2 DEF AllSaved, Below
      <3>3. CASE unsaved = {} /\ stored # Nothing
        <4>1. Below(used, stored.registry.next) /\ stored.registry.next <= old
          BY <1>s, <1>2, <1>5, <3>3 DEF AllSaved, SyncedKnow
        <4>2. stored.registry \in Good
          BY <1>t, <3>3, SavedIs
        <4>3. stored.registry.next \in Nat /\ old \in Nat
          BY <2>1, <4>2, GoodHas
        <4> QED
          BY <1>t, <4>1, <4>3 DEF Below
      <3> QED
        BY <1>1, <3>1, <3>2, <3>3 DEF Serial
    <2>4. OneMeaning(used') /\ Below(used', r.next)
      BY <1>t, <1>s, <2>1, <2>2, <2>3, NumbersAreNew
    <2>5. r \in Good /\ old <= r.next /\ old \in Nat
      BY <2>1, FromRegistryIsGood, NumbersOf, GoodHas
    <2>6. r # Nothing /\ r.next \in Nat
      BY <2>5, GoodHas
    <2> HIDE DEF r
    <2>7. OneUnsaved'
      BY <1>t, <1>1, <1>2, <2>2, <2>4, <2>6 DEF OneUnsaved
    <2>8. SyncedKnow'
      <3>1. stored # Nothing => stored.registry.next \in Nat
        BY <1>t, SavedIs, GoodHas
      <3> QED
        BY <1>t, <1>s, <1>1, <1>2, <1>5, <2>2, <2>5, <2>6, <3>1 DEF SyncedKnow
    <2>9. SavedCover'
      BY <1>t, <1>s, <1>1, <2>2, <2>6 DEF SavedCover
    <2> QED
      BY <1>3, <2>4, <2>7, <2>8, <2>9 DEF SerialState
  <1> QED
    BY <1>4, <1>5

\* What an upload would save knows the attributes of its process' resource, and
\* its numbers, if it has any of its own to save.
LEMMA LocalKnows ==
  ASSUME SchemaTypes, SchemasCover, SerialState, NEW p \in Client, def[p] # Nothing
  PROVE  LET r == Local(p).registry
         IN /\ Local(p) # Nothing /\ Local(p).def = def[p] /\ r \in Good /\ Covers(def[p], r)
            /\ registry[p] # Nothing => r = registry[p]
            /\ p \in unsaved => Below(used, r.next)
  <1>1. def[p] \in Definitions /\ Local(p) \in Saved \cup {Nothing}
    BY LocalIs DEF SchemaTypes
  <1>2. Local(p).def = def[p] /\ Local(p) # Nothing
    <2> DEFINE r == IF registry[p] # Nothing THEN registry[p]
                    ELSE IF saved[p] # Nothing THEN saved[p].registry
                    ELSE Initial(map[p])
    <2>1. Local(p) = [def |-> def[p], registry |-> r]
      BY DEF Local
    <2> HIDE DEF r
    <2>2. Local(p).def = def[p]
      BY <2>1
    <2>3. CASE registry[p] # Nothing
      <3>1. r \in Good
        BY <2>3 DEF r, SchemaTypes
      <3> QED
        BY <1>1, <2>1, <2>2, <3>1, SavedIs
    <2>4. CASE registry[p] = Nothing /\ saved[p] # Nothing
      <3>1. r \in Good
        BY <2>4, SavedIs DEF r, SchemaTypes
      <3> QED
        BY <1>1, <2>1, <2>2, <3>1, SavedIs
    <2>5. CASE registry[p] = Nothing /\ saved[p] = Nothing
      <3>1. r \in Good
        BY <1>1, <2>5, InitialIsGood DEF r, SchemaTypes, MapIsPositional
      <3> QED
        BY <1>1, <2>1, <2>2, <3>1, SavedIs
    <2> QED
      BY <2>3, <2>4, <2>5
  <1>3. Local(p).registry \in Good
    BY <1>1, <1>2, SavedIs
  <1>4. CASE registry[p] # Nothing
    <2>1. Local(p).registry = registry[p]
      BY <1>4 DEF Local
    <2> QED
      BY <1>2, <1>3, <1>4, <2>1 DEF SchemasCover, SerialState, OneUnsaved
  <1>5. CASE registry[p] = Nothing /\ saved[p] # Nothing
    <2>1. Local(p).registry = saved[p].registry
      BY <1>5 DEF Local
    <2>2. p \notin unsaved
      BY <1>5 DEF SerialState, OneUnsaved, NothingKnown
    <2> QED
      BY <1>2, <1>3, <1>5, <2>1, <2>2 DEF SerialState, SavedCover
  <1>6. CASE registry[p] = Nothing /\ saved[p] = Nothing
    <2>1. Local(p).registry = Initial(Positional(def[p]))
      BY <1>6 DEF Local, SchemaTypes, MapIsPositional
    <2>2. Covers(def[p], Local(p).registry) /\ Local(p).registry.next = Len(def[p])
      BY <1>1, <2>1, InitialIsGood, PairsOfPositional DEF Covers
    <2> QED
      BY <1>2, <1>3, <1>6, <2>2 DEF SerialState, OneUnsaved
  <1> QED
    BY <1>4, <1>5, <1>6

LEMMA SerialPut ==
  ASSUME SchemaTypes, SchemasCover, Recorded, SerialState, NEW p \in Client, PutMetadata(p), fresh[p] = stored
  PROVE  SerialState'
  <1>t. /\ stored \in Saved \cup {Nothing} /\ used \in SUBSET (Nat \X Attribute)
        /\ saved \in [Client -> Saved \cup {Nothing}] /\ registry \in [Client -> Good \cup {Nothing}]
        /\ def \in [Client -> Definitions \cup {Nothing}]
        /\ synced \subseteq Client /\ unsaved \subseteq Client
    BY DEF SchemaTypes, Recorded
  <1>s. OneMeaning(used) /\ AllSaved /\ OneUnsaved /\ SyncedKnow /\ NothingKnown /\ SavedCover
    BY DEF SerialState
  <1>1. /\ stored' = Final(stored, Local(p))
        /\ saved' \in {saved, [saved EXCEPT ![p] = stored']}
        /\ synced' = (IF stored' = stored THEN synced ELSE synced \cap {p})
        /\ unsaved' = unsaved \ {p}
        /\ UNCHANGED <<def, registry, used>>
    BY DEF PutMetadata
  <1>2. OneMeaning(used)'
    BY <1>s, <1>1
  <1>3. CASE def[p] = Nothing
    <2>1. stored' = stored
      BY <1>1, <1>3 DEF Local, Final
    <2>2. p \notin unsaved /\ unsaved' = unsaved /\ synced' = synced
      BY <1>s, <1>1, <1>3, <2>1 DEF OneUnsaved
    <2>3. AllSaved' /\ OneUnsaved' /\ SyncedKnow'
      BY <1>s, <1>1, <2>1, <2>2 DEF AllSaved, OneUnsaved, SyncedKnow
    <2>4. NothingKnown' /\ SavedCover'
      BY <1>t, <1>s, <1>1, <1>3, <2>1, <2>2 DEF NothingKnown, SavedCover
    <2> QED
      BY <1>2, <2>3, <2>4 DEF SerialState
  <1>4. CASE def[p] # Nothing
    <2> DEFINE l == Local(p)
    <2>1. /\ l # Nothing /\ l.def = def[p] /\ l.registry \in Good /\ Covers(def[p], l.registry)
          /\ registry[p] # Nothing => l.registry = registry[p]
          /\ p \in unsaved => Below(used, l.registry.next)
      BY <1>4, LocalKnows
    <2> HIDE DEF l
    <2>2. /\ stored' # Nothing /\ stored'.def = def[p] /\ Covers(def[p], stored'.registry)
          /\ stored'.registry.next \in Nat
          /\ l.registry.next \in Nat /\ l.registry.next <= stored'.registry.next
          /\ stored = Nothing => stored'.registry.next = l.registry.next
          /\ stored # Nothing
               => /\ stored.registry.next \in Nat /\ stored.registry.next <= stored'.registry.next
                  /\ stored'.registry.next \in {stored.registry.next, l.registry.next}
      <3>1. CASE stored = Nothing
        BY <1>1, <2>1, <3>1, GoodHas DEF Final, l
      <3>2. CASE stored # Nothing
        <4>1. stored.registry \in Good
          BY <1>t, <3>2, SavedIs
        <4> DEFINE m == Merge(stored.registry, l.registry)
        <4>2. stored' = [def |-> l.def, registry |-> m]
          BY <1>1, <2>1, <3>2 DEF Final, l
        <4>3. m \in Good /\ m.next \in Nat
          BY <2>1, <4>1, MergeGrows, GoodHas
        <4>4. /\ DOMAIN m.mapping = DOMAIN stored.registry.mapping \cup DOMAIN l.registry.mapping
              /\ stored.registry.next <= m.next /\ l.registry.next <= m.next
              /\ m.next \in {stored.registry.next, l.registry.next}
          BY <2>1, <4>1, MergeIs
        <4> HIDE DEF m
        <4>5. stored'.def = def[p] /\ stored'.registry = m
          BY <2>1, <4>2
        <4>6. stored' # Nothing
          BY <1>4, <1>t, <2>1, <4>2, <4>3, SavedIs
        <4>7. stored.registry.next \in Nat /\ l.registry.next \in Nat
          BY <2>1, <4>1, GoodHas
        <4> QED
          BY <2>1, <3>2, <4>3, <4>4, <4>5, <4>6, <4>7 DEF Covers
      <3> QED
        BY <3>1, <3>2
    <2>3. AllSaved'
      <3> SUFFICES ASSUME unsaved' = {} PROVE Below(used, stored'.registry.next)
        BY <1>1, <2>2 DEF AllSaved
      <3>1. CASE p \in unsaved
        BY <1>t, <2>1, <2>2, <3>1 DEF Below
      <3>2. CASE p \notin unsaved
        <4>1. unsaved = {} /\ stored # Nothing
          BY <1>s, <1>1, <1>4, <3>2 DEF NothingKnown
        <4> QED
          BY <1>t, <1>s, <2>2, <4>1 DEF AllSaved, Below
      <3> QED
        BY <3>1, <3>2
    <2>4. OneUnsaved'
      <3> SUFFICES ASSUME NEW q \in unsaved, q # p
                   PROVE  /\ unsaved' = {q} /\ def[q] # Nothing
                          /\ registry[q] # Nothing => Below(used, registry[q].next)
                          /\ registry[q] # Nothing
        BY <1>1 DEF OneUnsaved
      <3>1. unsaved = {q} /\ unsaved' = {q}
        BY <1>s, <1>1 DEF OneUnsaved
      <3>2. stored # Nothing
        BY <1>s, <1>4, <3>1 DEF NothingKnown
      <3> QED
        BY <1>s, <3>1, <3>2 DEF OneUnsaved
    <2>5. SyncedKnow'
      <3>1. CASE stored' = stored
        BY <1>s, <1>1, <3>1 DEF SyncedKnow
      <3>2. CASE stored' # stored
        <4> SUFFICES ASSUME p \in synced, registry[p] # Nothing
                     PROVE  stored'.registry.next <= registry[p].next
          BY <1>1, <1>4, <3>2 DEF SyncedKnow
        <4>1. l.registry.next = registry[p].next
          BY <2>1
        <4>2. stored # Nothing => stored.registry.next <= registry[p].next
          BY <1>s DEF SyncedKnow
        <4> QED
          BY <2>2, <4>1, <4>2
      <3> QED
        BY <3>1, <3>2
    <2>6. NothingKnown'
      BY <2>2 DEF NothingKnown
    <2>7. SavedCover'
      BY <1>t, <1>s, <1>1, <2>2 DEF SavedCover
    <2> QED
      BY <1>2, <2>3, <2>4, <2>5, <2>6, <2>7 DEF SerialState
  <1> QED
    BY <1>3, <1>4

LEMMA SerialNext ==
  UploadInv /\ Recorded /\ SchemasCover /\ SerialInv /\ [SchemaNext]_<<mutexVars, schemaVars>> => SerialInv'
  <1> SUFFICES ASSUME UploadInv, Recorded, SchemasCover, SerialInv,
                      [SchemaNext]_<<mutexVars, schemaVars>>, OnlySerial'
               PROVE  SerialState'
    BY DEF SerialInv
  <1>1. OnlySerial /\ SerialState /\ SchemaTypes
    BY OnlySerialWas DEF SerialInv, UploadInv
  <1>2. ASSUME UNCHANGED <<stored, saved, def, registry, used, synced, unsaved>> PROVE SerialState'
    BY <1>1, <1>2 DEF SerialState, AllSaved, OneUnsaved, SyncedKnow, NothingKnown, SavedCover
  <1>3. ASSUME NEW p \in Client, Connect(p) PROVE SerialState'
    BY <1>1, <1>3, SerialConnect DEF OnlySerial
  <1>4. ASSUME NEW p \in Client, ConnectBlind(p) PROVE SerialState'
    BY <1>4 DEF ConnectBlind, OnlySerial
  <1>5. ASSUME NEW p \in Client, NEW d \in Definitions, Define(p, d) PROVE SerialState'
    BY <1>1, <1>5, SerialDefine DEF OnlySerial
  <1>6. ASSUME NEW p \in Client, PutMetadata(p) PROVE SerialState'
    <2>1. Live(p) /\ stage[p] = "read"
      BY <1>6 DEF PutMetadata, OnlySerial
    <2>2. fresh[p] = stored
      BY <1>1, <2>1 DEF UploadInv, FreshIsStored, OnlySerial
    <2> QED
      BY <1>1, <1>6, <2>2, SerialPut
  <1>7. ASSUME NEW p \in Client, ReadFresh(p) \/ EndUpload(p) \/ DropUpload(p) PROVE SerialState'
    BY <1>2, <1>7 DEF ReadFresh, EndUpload, DropUpload
  <1>8. CASE UNCHANGED schemaVars
    BY <1>2, <1>8 DEF schemaVars
  <1> QED
    BY <1>3, <1>4, <1>5, <1>6, <1>7, <1>8 DEF SchemaNext, StartUpload

(* As long as definitions change one at a time, each in a process that has *)
(* connected since the last change, and every upload keeps its lock and    *)
(* sees what it replaces, no index ever stands for two attributes, so no   *)
(* process reads data that was stored under one as another.                *)
THEOREM SerialChangesNeverMisread == SchemaSpec => []SerialChangesAreSafe
  <1> DEFINE Inv == UploadInv /\ Recorded /\ SchemasCover /\ SerialInv
  <1>1. SchemaInit => Inv
    BY UploadInvInit, RecordedInit, SerialInvInit
  <1>2. Inv /\ [SchemaNext]_<<mutexVars, schemaVars>> => Inv'
    BY MutexInvNext, SchemaTypesNext, UploadInvNext, RecordedNext, SerialNext DEF UploadInv
  <1>3. Inv => SerialChangesAreSafe
    <2> SUFFICES ASSUME Recorded, OneMeaning(used) PROVE NeverMisread
      BY DEF SerialInv, SerialState, OnlySerial, SerialChangesAreSafe
    <2> SUFFICES ASSUME NEW p \in Client, NEW u \in used, NEW a \in DOMAIN map[p], map[p][a] = u[1]
                 PROVE  a = u[2]
      BY DEF NeverMisread
    <2>1. <<map[p][a], a>> \in used
      BY DEF Recorded, Pairs
    <2> QED
      BY <2>1 DEF OneMeaning
  <1> QED
    BY <1>1, <1>2, <1>3, PTL DEF SchemaSpec
====
