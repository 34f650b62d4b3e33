---- MODULE MetadataUpload ----
(***************************************************************************)
(* The schema registry of a resource and its way into s3db.json: how       *)
(* processes number the attributes of a resource (src/src/schema.class.ts),*)
(* save the numbering under an S3Mutex, merging it with what is there      *)
(* (src/src/database/database-metadata.class.ts), and load it when they    *)
(* connect (src/src/database/database-connection.class.ts).                *)
(*                                                                         *)
(* A client of the mutex is a process; it has one upload under way at a    *)
(* time.  Modelled are one resource, its user attributes, and a database   *)
(* whose connection string asks for the mutex (not file:// or memory://).  *)
(* An attribute's number is the key its values are stored under.           *)
(***************************************************************************)
EXTENDS S3Mutex, Sequences, FiniteSets, FiniteSetsExt, Functions

CONSTANTS
  Definitions,  \* the attribute lists in use, in the order of their keys
  Nothing,      \* no resource, no registry
  MaxIndex      \* no definition changes once this index is assigned

ASSUME UploadAssumption ==
  /\ \A d \in Definitions : d \in Seq(Range(d)) /\ IsInjective(d)
  /\ Nothing \notin Definitions
  /\ MaxIndex \in Nat

VARIABLES
  stored,      \* the resource in s3db.json: attribute list and registry
  saved,       \* savedMetadata of each process
  def,         \* the attributes of each process' resource
  registry,    \* its schema's registry
  map,         \* its schema's map: attribute -> index
  stage,       \* how far its upload has come
  fresh,       \* what _readFreshMetadata() answered
  used,        \* history: the <<index, attribute>> pairs data may be stored under
  synced,      \* history: the processes that know every saved index
  unsaved,     \* history: the processes whose last change is not uploaded yet
  raced,       \* history: see Serial
  unguarded    \* history: an upload outlived its lock, or went on without a read

schemaVars ==
  <<stored, saved, def, registry, map, stage, fresh, used, synced, unsaved, raced, unguarded>>

Attribute == UNION {Range(d) : d \in Definitions}
NoMap == [a \in {} |-> 0]

\* A numbering, a registry, and a resource in s3db.json.
Maps == UNION {[D -> Nat] : D \in SUBSET Attribute}
Registries == [next : Nat, mapping : Maps, burned : SUBSET [index : Nat, attribute : Attribute]]
Resources == [def : Definitions, registry : Registries]

ASSUME NothingAssumption == Nothing \notin Registries \cup Resources

----------------------------------------------------------------------------
\* generateBase36Mapping(): the position is the index.
Positional(d) == [a \in Range(d) |-> (CHOOSE i \in DOMAIN d : d[i] = a) - 1]

\* generateInitialRegistry(): a numbering without a registry becomes one.
Initial(m) == [next |-> Max(Range(m) \cup {-1}) + 1, mapping |-> m, burned |-> {}]

Indices(r) == Range(r.mapping) \cup {b.index : b \in r.burned}

\* Mutant of NextIndex: indices are counted from the live attributes only.
NextFree(r) == Cardinality(DOMAIN r.mapping)

\* generateMappingFromRegistry(): known attributes keep their index, new ones
\* get the next ones in order, and those that are gone are burned.
NextIndex(r) == Max(Indices(r) \cup {r.next - 1}) + 1

\* Mutant of FromRegistry: the next index is not moved past the new ones.
FromRegistryKeepsNext(d, r) ==
  LET new == {i \in DOMAIN d : d[i] \notin DOMAIN r.mapping}
  IN [next |-> NextIndex(r),
      mapping |-> [a \in Range(d) |->
                     IF a \in DOMAIN r.mapping THEN r.mapping[a]
                     ELSE NextIndex(r) + Cardinality({i \in new : \E j \in new : i < j /\ d[j] = a})],
      burned |-> r.burned]

FromRegistry(d, r) ==
  LET known == DOMAIN r.mapping
      new == {i \in DOMAIN d : d[i] \notin known}
      place(a) == Cardinality({i \in new : \E j \in new : i < j /\ d[j] = a})
      gone == {a \in known \ Range(d) : \A b \in r.burned : b.index # r.mapping[a]}
  IN [next |-> NextIndex(r) + Cardinality(new),
      mapping |-> [a \in Range(d) |->
                     IF a \in known THEN r.mapping[a] ELSE NextIndex(r) + place(a)],
      burned |-> r.burned \cup {[index |-> r.mapping[a], attribute |-> a] : a \in gone}]

\* _mergeSchemaRegistry().
Merge(f, l) ==
  LET larger(a) == IF a \notin DOMAIN l.mapping \/ (a \in DOMAIN f.mapping /\ f.mapping[a] > l.mapping[a])
                     THEN f.mapping[a] ELSE l.mapping[a]
  IN [next |-> Max({f.next, l.next}),
      mapping |-> [a \in DOMAIN f.mapping \cup DOMAIN l.mapping |-> larger(a)],
      burned |-> f.burned \cup {b \in l.burned : \A e \in f.burned : e.index # b.index}]

\* _buildLocalMetadata(): a schema without a registry falls back on the saved
\* one, and without that on its map.
Local(p) ==
  IF def[p] = Nothing THEN Nothing
  ELSE [def |-> def[p],
        registry |-> IF registry[p] # Nothing THEN registry[p]
                     ELSE IF saved[p] # Nothing THEN saved[p].registry
                     ELSE Initial(map[p])]

\* Mutant of Final: the local definition replaces the stored one.
LocalWins(f, l) == IF l = Nothing THEN f ELSE l

\* _mergeMetadata().
Final(f, l) ==
  IF l = Nothing THEN f
  ELSE IF f = Nothing THEN l
  ELSE [def |-> l.def, registry |-> Merge(f.registry, l.registry)]

----------------------------------------------------------------------------
SchemaInit ==
  /\ MutexInit
  /\ stored = Nothing
  /\ saved = [p \in Client |-> Nothing]
  /\ def = [p \in Client |-> Nothing]
  /\ registry = [p \in Client |-> Nothing]
  /\ map = [p \in Client |-> NoMap]
  /\ stage = [p \in Client |-> "none"]
  /\ fresh = [p \in Client |-> Nothing]
  /\ used = {}
  /\ synced = Client
  /\ unsaved = {}
  /\ raced = FALSE
  /\ unguarded = FALSE

\* A resource is in use as soon as its schema is there, saved or not.
Use(p, m) ==
  /\ map' = [map EXCEPT ![p] = m]
  /\ used' = used \cup {<<m[a], a>> : a \in DOMAIN m}

\* connect(), also after a crash: the resource as s3db.json has it.
Connect(p) ==
  /\ pc[p] = "idle"
  /\ saved' = [saved EXCEPT ![p] = stored]
  /\ IF stored = Nothing
       THEN /\ def' = [def EXCEPT ![p] = Nothing]
            /\ registry' = [registry EXCEPT ![p] = Nothing]
            /\ Use(p, NoMap)
       ELSE LET r == FromRegistry(stored.def, stored.registry)
            IN /\ def' = [def EXCEPT ![p] = stored.def]
               /\ registry' = [registry EXCEPT ![p] = r]
               /\ Use(p, r.mapping)
  /\ synced' = synced \cup {p}
  /\ raced' = (raced \/ p \in unsaved)
  /\ unsaved' = unsaved \ {p}
  /\ UNCHANGED <<mutexVars, stored, stage, fresh, unguarded>>

\* connect() fails to read an s3db.json that exists, and "heals" it: a PUT of
\* blank metadata, without the mutex and without a condition.
ConnectBlind(p) ==
  /\ pc[p] = "idle"
  /\ stored # Nothing
  /\ stored' = Nothing
  /\ saved' = [saved EXCEPT ![p] = Nothing]
  /\ def' = [def EXCEPT ![p] = Nothing]
  /\ registry' = [registry EXCEPT ![p] = Nothing]
  /\ Use(p, NoMap)
  /\ synced' = {p}
  /\ unsaved' = unsaved \ {p}
  /\ unguarded' = TRUE
  /\ UNCHANGED <<mutexVars, stage, fresh, raced>>

(***************************************************************************)
(* A change of definition is serial if the process has connected since     *)
(* the last change of another one, nobody else's change is still to be     *)
(* saved, and the process did not create the resource in this session.     *)
(***************************************************************************)
Serial(p) ==
  /\ p \in synced
  /\ unsaved \subseteq {p}
  /\ def[p] # Nothing => registry[p] # Nothing

\* createResource() with other attributes: a new resource, or an update of
\* the one there is.  The upload follows as a step of its own.
Define(p, d) ==
  /\ pc[p] = "idle"
  /\ d # def[p]
  /\ \A u \in used : u[1] < MaxIndex
  /\ IF registry[p] = Nothing
       THEN Use(p, Positional(d)) /\ UNCHANGED registry
       ELSE LET r == FromRegistry(d, registry[p])
            IN Use(p, r.mapping) /\ registry' = [registry EXCEPT ![p] = r]
  /\ def' = [def EXCEPT ![p] = d]
  /\ raced' = (raced \/ ~Serial(p))
  /\ unsaved' = unsaved \cup {p}
  /\ UNCHANGED <<mutexVars, stored, saved, stage, fresh, synced, unguarded>>

\* uploadMetadataFile(), after a change or on behalf of another resource.
StartUpload(p) == TryLock(p) /\ UNCHANGED schemaVars

\* Any error counts as "there is no s3db.json yet".
ReadFresh(p) ==
  /\ pc[p] = "held" /\ stage[p] = "none"
  /\ \E answer \in {stored, Nothing} :
       /\ fresh' = [fresh EXCEPT ![p] = answer]
       /\ unguarded' = (unguarded \/ answer # stored)
  /\ stage' = [stage EXCEPT ![p] = "read"]
  /\ UNCHANGED <<mutexVars, stored, saved, def, registry, map, used, synced, unsaved, raced>>

\* The PUT is not conditional.  Its response may be lost.
PutMetadata(p) ==
  /\ pc[p] = "held" /\ stage[p] = "read"
  /\ stored' = Final(fresh[p], Local(p))
  /\ saved' \in {saved, [saved EXCEPT ![p] = stored']}
  /\ stage' = [stage EXCEPT ![p] = "done"]
  /\ fresh' = [fresh EXCEPT ![p] = Nothing]
  /\ synced' = IF stored' = stored THEN synced ELSE synced \cap {p}
  /\ unsaved' = unsaved \ {p}
  /\ unguarded' = (unguarded \/ ~Live(p))
  /\ UNCHANGED <<mutexVars, def, registry, map, used, raced>>

\* The upload ends, done or not, and its finally unlocks.
EndUpload(p) ==
  /\ Unlock(p)
  /\ stage' = [stage EXCEPT ![p] = "none"]
  /\ fresh' = [fresh EXCEPT ![p] = Nothing]
  /\ UNCHANGED <<stored, saved, def, registry, map, used, synced, unsaved, raced, unguarded>>

DropUpload(p) ==
  /\ Abandon(p)
  /\ stage' = [stage EXCEPT ![p] = "none"]
  /\ fresh' = [fresh EXCEPT ![p] = Nothing]
  /\ UNCHANGED <<stored, saved, def, registry, map, used, synced, unsaved, raced, unguarded>>

SchemaNext ==
  \/ \E p \in Client :
       \/ Connect(p) \/ ConnectBlind(p) \/ StartUpload(p)
       \/ ReadFresh(p) \/ PutMetadata(p) \/ EndUpload(p) \/ DropUpload(p)
       \/ LockCall(p) /\ UNCHANGED schemaVars
       \/ \E d \in Definitions : Define(p, d)
  \/ Tick /\ UNCHANGED schemaVars

SchemaSpec == SchemaInit /\ [][SchemaNext]_<<mutexVars, schemaVars>>

----------------------------------------------------------------------------
\* Every index is below the one that will be assigned next.
WellFormed(r) ==
  /\ r.next \in Nat
  /\ r.mapping \in [DOMAIN r.mapping -> 0 .. r.next - 1]
  /\ DOMAIN r.mapping \subseteq Attribute
  /\ r.burned \subseteq [index : 0 .. r.next - 1, attribute : Attribute]

RegistryOf(resource) == IF resource = Nothing THEN Nothing ELSE resource.registry

SchemaTypeOK ==
  /\ stored # Nothing => stored.def \in Definitions
  /\ \A r \in {RegistryOf(stored)} \cup {RegistryOf(saved[p]) : p \in Client}
              \cup {RegistryOf(fresh[p]) : p \in Client} \cup {registry[p] : p \in Client} :
       r # Nothing => WellFormed(r)
  /\ def \in [Client -> Definitions \cup {Nothing}]
  /\ stage \in [Client -> {"none", "read", "done"}]
  /\ synced \subseteq Client /\ unsaved \subseteq Client
  /\ raced \in BOOLEAN /\ unguarded \in BOOLEAN

(* "These registries prevent attribute order changes from corrupting data  *)
(* when schemas evolve": no process reads data that was stored under one   *)
(* attribute as another one.                                               *)
NeverMisread ==
  \A p \in Client : \A u \in used : \A a \in DOMAIN map[p] : map[p][a] = u[1] => a = u[2]

(* NeverMisread, as long as definitions change one at a time, each in a    *)
(* process that has connected since the last change, and every upload      *)
(* keeps its lock and sees what it replaces.                               *)
SerialChangesAreSafe == ~raced /\ ~unguarded /\ ~overtaken => NeverMisread

(* Whatever the processes do at the same time, an upload that keeps its    *)
(* lock and sees what it replaces loses nothing of the saved registry:     *)
(* attributes stay mapped, burned indices burned, and the next index never *)
(* goes down.                                                              *)
RegistryOnlyGrows ==
  [][~unguarded' /\ ~overtaken' /\ stored # Nothing
       => /\ stored' # Nothing
          /\ DOMAIN stored.registry.mapping \subseteq DOMAIN stored'.registry.mapping
          /\ {b.index : b \in stored.registry.burned} \subseteq {b.index : b \in stored'.registry.burned}
          /\ stored.registry.next <= stored'.registry.next]_<<mutexVars, schemaVars>>
====
