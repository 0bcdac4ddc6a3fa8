---------------------------- MODULE SlotRegistry ----------------------------
(***************************************************************************)
(* Registration of slots in the design DB: store.register_slot and the     *)
(* manifest it updates under a file lock, and the decorator's              *)
(* _capture_source, run by several processes any of which may be killed.   *)
(*                                                                         *)
(* A subcircuit is identified by its key, the hash of its structure.  A    *)
(* slot is a directory named by the key; the manifest binds names to keys. *)
(* The lock serialises the writers of the manifest only: the test whether  *)
(* a name is free, and every access to the slot's own files, take no lock. *)
(***************************************************************************)
EXTENDS Naturals, FiniteSets

CONSTANTS
  Registrar,     \* the registering processes
  Name,     \* slot names
  Key,      \* structural keys
  Jobs,     \* the <<name, key>> pairs the processes register
  Nil,     \* no key, no process, no pair
  Serial,   \* whether registrations are run one at a time
  MaxRegistrations  \* bound: registrations per process

ASSUME RegistryAssumption ==
  /\ Jobs \subseteq Name \X Key
  /\ Nil \notin Key /\ Nil \notin Registrar /\ Nil \notin Jobs
  /\ \A names \in SUBSET Name : names # Nil
  /\ Serial \in BOOLEAN
  /\ MaxRegistrations \in Nat

VARIABLES
  manifest,  \* Name -> the key it is bound to, or Nil
  lock,      \* the process that holds the manifest lock, or Nil
  from,      \* Key -> the names in spec.json's registered_from, or Nil when
             \* there is no spec.json
  source,    \* Key -> whether spec.json holds a source_ref
  golden,    \* the keys whose slot holds golden.v (and its default oracle)
  stage,        \* per process: its next step
  pair,       \* per process: the pair it registers
  spec,      \* per process: the spec.json it read, as [from, source]
  table,     \* per process: the manifest it read under the lock
  returned,  \* the pairs a registration returned normally for
  registrations      \* per process: registrations begun

slotFiles == <<from, source, golden>>
registryVars == <<manifest, lock, from, source, golden, stage, pair, spec, table,
                  returned, registrations>>

Pairs == Name \X Key
NoSpec == [from |-> {}, source |-> FALSE]

NameOf(p) == pair[p][1]
KeyOf(p)  == pair[p][2]

Continue(p, step) == stage' = [stage EXCEPT ![p] = step]

-----------------------------------------------------------------------------
(* A name is free for a key if it is unbound or bound to that key already. *)
FreeFor(n, k) == manifest[n] \in {Nil, k}

(* register_slot reads the manifest without the lock; a name bound to      *)
(* another key raises.                                                     *)
BeginRegistration(p, j) ==
  /\ stage[p] = "idle" /\ registrations[p] < MaxRegistrations
  /\ Serial => \A q \in Registrar : stage[q] = "idle"
  /\ registrations' = [registrations EXCEPT ![p] = @ + 1]
  /\ pair' = [pair EXCEPT ![p] = j]
  /\ Continue(p, IF FreeFor(j[1], j[2]) THEN "read_spec" ELSE "idle")
  /\ UNCHANGED <<manifest, lock, slotFiles, spec, table, returned>>

(* fault: the name is bound before the slot is written *)
BindsEarly(p) ==
  /\ stage[p] = "read_spec"
  /\ Continue(p, "lock")
  /\ UNCHANGED <<manifest, lock, slotFiles, pair, spec, table, returned, registrations>>

(* The slot directory is made and its spec.json read, ... *)
ReadSpec(p) ==
  /\ stage[p] = "read_spec"
  /\ Continue(p, "write_spec")
  /\ spec' = [spec EXCEPT ![p] =
                IF from[KeyOf(p)] = Nil THEN NoSpec
                ELSE [from |-> from[KeyOf(p)], source |-> source[KeyOf(p)]]]
  /\ UNCHANGED <<manifest, lock, slotFiles, pair, table, returned, registrations>>

(* ... written back with the name added, ... *)
WriteSpec(p) ==
  /\ stage[p] = "write_spec"
  /\ Continue(p, "golden")
  /\ from' = [from EXCEPT ![KeyOf(p)] = spec[p].from \cup {NameOf(p)}]
  /\ source' = [source EXCEPT ![KeyOf(p)] = spec[p].source]
  /\ UNCHANGED <<manifest, lock, golden, pair, spec, table, returned, registrations>>

(* ... golden.v and the default verification are written unless present,   *)
(* with the same contents by whoever writes them.                          *)
WriteGolden(p) ==
  /\ stage[p] = "golden"
  /\ Continue(p, "lock")
  /\ golden' = golden \cup {KeyOf(p)}
  /\ UNCHANGED <<manifest, lock, from, source, pair, spec, table, returned,
                 registrations>>

-----------------------------------------------------------------------------
(* fault: no lock around the read-modify-write *)
NoLock(p) ==
  /\ stage[p] = "lock"
  /\ Continue(p, "update")
  /\ table' = [table EXCEPT ![p] = manifest]
  /\ UNCHANGED <<manifest, lock, slotFiles, pair, spec, returned, registrations>>

(* update_manifest waits for the lock, reads the manifest ... *)
LockManifest(p) ==
  /\ stage[p] = "lock" /\ lock = Nil
  /\ lock' = p
  /\ Continue(p, "update")
  /\ table' = [table EXCEPT ![p] = manifest]
  /\ UNCHANGED <<manifest, slotFiles, pair, spec, returned, registrations>>

(* ... and replaces it by a copy with the entry set, whatever the entry    *)
(* was; then register_slot returns and the decorator captures its source.  *)
UpdateManifest(p) ==
  /\ stage[p] = "update"
  /\ manifest' = [table[p] EXCEPT ![NameOf(p)] = KeyOf(p)]
  /\ lock' = Nil
  /\ returned' = returned \cup {pair[p]}
  /\ Continue(p, "read_source")
  /\ UNCHANGED <<slotFiles, pair, spec, table, registrations>>

(* _capture_source: spec.json is read once more; a slot that has a source  *)
(* keeps it, ...                                                           *)
ReadSource(p) ==
  /\ stage[p] = "read_source"
  /\ spec' = [spec EXCEPT ![p] =
                [from |-> from[KeyOf(p)], source |-> source[KeyOf(p)]]]
  /\ Continue(p, IF source[KeyOf(p)] THEN "idle" ELSE "write_source")
  /\ UNCHANGED <<manifest, lock, slotFiles, pair, table, returned, registrations>>

(* ... else the spec.json that was read is written back with one.          *)
WriteSource(p) ==
  /\ stage[p] = "write_source"
  /\ Continue(p, "idle")
  /\ from' = [from EXCEPT ![KeyOf(p)] = spec[p].from]
  /\ source' = [source EXCEPT ![KeyOf(p)] = TRUE]
  /\ UNCHANGED <<manifest, lock, golden, pair, spec, table, returned, registrations>>

(* The process is killed, or register_slot was called without a decorator: *)
(* the call ends where it is, and the kernel releases the lock.            *)
Stop(p) ==
  /\ stage[p] # "idle"
  /\ Continue(p, "idle")
  /\ lock' = IF lock = p THEN Nil ELSE lock
  /\ UNCHANGED <<manifest, slotFiles, pair, spec, table, returned, registrations>>

-----------------------------------------------------------------------------
RegistryInit ==
  /\ manifest = [n \in Name |-> Nil]
  /\ lock = Nil
  /\ from = [k \in Key |-> Nil]
  /\ source = [k \in Key |-> FALSE]
  /\ golden = {}
  /\ stage = [p \in Registrar |-> "idle"]
  /\ pair = [p \in Registrar |-> Nil]
  /\ spec = [p \in Registrar |-> NoSpec]
  /\ table = [p \in Registrar |-> manifest]
  /\ returned = {}
  /\ registrations = [p \in Registrar |-> 0]

Register(p) ==
  \/ \E j \in Jobs : BeginRegistration(p, j)
  \/ ReadSpec(p) \/ WriteSpec(p) \/ WriteGolden(p)
  \/ LockManifest(p) \/ UpdateManifest(p)
  \/ ReadSource(p) \/ WriteSource(p)

RegistryNext == \E p \in Registrar : Register(p) \/ Stop(p)

RegistrySpec == RegistryInit /\ [][RegistryNext]_registryVars

-----------------------------------------------------------------------------
SpecFile == [from : SUBSET Name, source : BOOLEAN]

RegistryTyped ==
  /\ manifest \in [Name -> Key \cup {Nil}]
  /\ lock \in Registrar \cup {Nil}
  /\ from \in [Key -> (SUBSET Name) \cup {Nil}]
  /\ source \in [Key -> BOOLEAN]
  /\ golden \subseteq Key
  /\ stage \in [Registrar -> {"idle", "read_spec", "write_spec", "golden", "lock",
                      "update", "read_source", "write_source"}]
  /\ pair \in [Registrar -> Jobs \cup {Nil}]
  /\ spec \in [Registrar -> SpecFile]
  /\ table \in [Registrar -> [Name -> Key \cup {Nil}]]
  /\ returned \subseteq Jobs
  /\ registrations \in [Registrar -> 0 .. MaxRegistrations]

(* A name found in the manifest leads to a slot that can be used: its      *)
(* spec.json and golden.v exist, wherever a registration was killed and    *)
(* however several of them interleave.                                     *)
BindingComplete ==
  \A n \in Name : manifest[n] # Nil =>
    manifest[n] \in golden /\ from[manifest[n]] # Nil

(* "must not lose entries under concurrency": what a registration returned *)
(* for stays in the manifest, although every writer replaces the file.     *)
NoLostBinding == \A j \in returned : manifest[j[1]] = j[2]

(* "the binding is permanent": a bound name never leads elsewhere. *)
NamesPermanent ==
  [][\A n \in Name : manifest[n] # Nil => manifest'[n] = manifest[n]]_registryVars

(* Of registrations run one after the other none undoes what an earlier    *)
(* one recorded in the slot: the aliases and the captured source stay.     *)
SlotOnlyGrows ==
  [][\A k \in Key :
       /\ from[k] # Nil => from'[k] # Nil /\ from[k] \subseteq from'[k]
       /\ source[k] => source'[k]]_registryVars
=============================================================================
