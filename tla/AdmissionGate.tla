---------------------------- MODULE AdmissionGate ---------------------------
(***************************************************************************)
(* design_db/insert.py: admission of designs into one verified slot, by    *)
(* several processes that share nothing but the file system, any of which  *)
(* may be killed between two steps.                                        *)
(*                                                                         *)
(* A candidate is reduced to its structural hash.  Its identifier is       *)
(* <<source, hash>>; its files are written into designs/<id>.tmp, and one  *)
(* directory rename to designs/<id> admits it.  Directories are objects    *)
(* with an identity of their own (an inode): a process that opened         *)
(* <id>.tmp keeps working on that directory after somebody renamed it.     *)
(* Every system call that another process can observe is one action.       *)
(***************************************************************************)
EXTENDS Integers, Sequences, FiniteSets

CONSTANTS
  Proc,       \* the inserting and reading processes
  Source,     \* provenance tags
  SourceOf,   \* the tag each process inserts under
  Hash,       \* circuit structures (hashes of their AAG)
  Correct,    \* the structures the slot's oracle passes
  None,       \* absence of a directory, a structure or an identifier
  MaxCalls,   \* bound: insert calls per process
  MaxCrashes  \* bound: kills over a behaviour

Id    == Source \X Hash
Inode == Proc \X (1 .. MaxCalls)

ASSUME GateAssumption ==
  /\ SourceOf \in [Proc -> Source]
  /\ Correct \subseteq Hash
  /\ None \notin Id /\ None \notin Inode /\ None \notin Hash
  /\ MaxCalls \in Nat /\ MaxCrashes \in Nat

(* The files of a design, in the order insert_design writes them. *)
FileOrder == <<"design.v", "design.aag", "metrics.json", "provenance.json">>
File      == {FileOrder[k] : k \in DOMAIN FileOrder}

VARIABLES
  tmp,        \* Id -> the directory at designs/<id>.tmp, or None
  final,      \* Id -> the directory at designs/<id>, or None
  files,      \* Inode -> the files in that directory
  cache,      \* what index.json lists
  pc,         \* per process: the next step of its call
  job,        \* per process: the structure it inserts; None while reading
  hit,        \* per process: the identifier its call will return
  after,      \* per process: where rmtree returns to
  dir,        \* per process: the directory rmtree holds open
  todo,       \* per process: the entries rmtree has still to unlink
  written,    \* per process: how many of FileOrder it has written
  view,       \* per process: the index it derived and is about to cache
  outcome,    \* per process: how its last call ended
  calls,      \* per process: insert calls begun
  crashes     \* kills so far

disk   == <<tmp, final, files, cache>>
tallies == <<calls, crashes>>
gateVars == <<tmp, final, files, cache, pc, job, hit, after, dir, todo,
              written, view, outcome, calls, crashes>>

-----------------------------------------------------------------------------
(* design_id = f"{source}:{struct_hash[:10]}" *)
MyId(p) == <<SourceOf[p], job[p]>>

(* Nothing is lost when d is removed or replaced. *)
Vacant(d) == d # None => files[d] = {}

(* store.derive_index: the directories without the .tmp suffix. *)
Derived == {id \in Id : final[id] # None}

(* An index entry carries a structural hash if the directory holds its     *)
(* provenance, or the AAG to recompute it from.                            *)
HasHash(id) == files[final[id]] \cap {"provenance.json", "design.aag"} # {}

Goto(p, step) == pc' = [pc EXCEPT ![p] = step]

(* The call ends: it returns an identifier or raises. *)
End(p, how) ==
  /\ Goto(p, "idle")
  /\ outcome' = [outcome EXCEPT ![p] = how]

(* An OSError nobody catches leaves insert_design. *)
Raise(p) ==
  /\ End(p, "failed")
  /\ UNCHANGED <<disk, job, hit, after, dir, todo, written, view, tallies>>

-----------------------------------------------------------------------------
(* insert_design up to the dedup scan: the slot and its oracle are read,   *)
(* the candidate is elaborated, lowered and hashed in a private directory. *)
Begin(p, h) ==
  /\ pc[p] = "idle" /\ calls[p] < MaxCalls
  /\ Goto(p, "scan")
  /\ job' = [job EXCEPT ![p] = h]
  /\ hit' = [hit EXCEPT ![p] = None]
  /\ outcome' = [outcome EXCEPT ![p] = "none"]
  /\ calls' = [calls EXCEPT ![p] = @ + 1]
  /\ UNCHANGED <<disk, after, dir, todo, written, view, crashes>>

(* The stored designs the candidate is a structural duplicate of. *)
Duplicates(p) == {id \in Derived : HasHash(id) /\ id[2] = job[p]}

Scan(p) ==
  /\ pc[p] = "scan"
  /\ \/ \E id \in Duplicates(p) :
          /\ Goto(p, "bump")
          /\ hit' = [hit EXCEPT ![p] = id]
     \/ /\ Duplicates(p) = {}
        /\ Goto(p, "gate")
        /\ UNCHANGED hit
  /\ UNCHANGED <<disk, job, after, dir, todo, written, view, outcome, tallies>>

(* fault: the verdict is ignored *)
GateSkipped(h) == TRUE
(* The oracle's verdict depends on the structure alone. *)
PassesGate(h) == h \in Correct

(* _run_gate: the oracle decides, or exceeds its budget (CECTimeout). *)
RunGate(p) ==
  /\ pc[p] = "gate"
  /\ \/ PassesGate(job[p]) /\ Goto(p, "check_tmp") /\ UNCHANGED outcome
     \/ ~PassesGate(job[p]) /\ End(p, "rejected")
     \/ End(p, "undecided")
  /\ UNCHANGED <<disk, job, hit, after, dir, todo, written, view, tallies>>

(* fault: a left-over .tmp directory is not removed *)
KeepsLeftover(p) ==
  /\ pc[p] = "check_tmp"
  /\ Goto(p, "mkdir")
  /\ after' = [after EXCEPT ![p] = "mkdir"]
  /\ UNCHANGED <<disk, job, hit, dir, todo, written, view, outcome, tallies>>

(* if tmp_dir.exists(): a left-over of a call that was killed is removed.  *)
CheckTmp(p) ==
  /\ pc[p] = "check_tmp"
  /\ Goto(p, IF tmp[MyId(p)] # None THEN "rm_open" ELSE "mkdir")
  /\ after' = [after EXCEPT ![p] = "mkdir"]
  /\ UNCHANGED <<disk, job, hit, dir, todo, written, view, outcome, tallies>>

-----------------------------------------------------------------------------
(* shutil.rmtree(tmp_dir): open the directory and list it, ... *)
RmOpen(p) ==
  /\ pc[p] = "rm_open"
  /\ \/ /\ tmp[MyId(p)] # None
        /\ Goto(p, "rm_files")
        /\ dir' = [dir EXCEPT ![p] = tmp[MyId(p)]]
        /\ todo' = [todo EXCEPT ![p] = files[tmp[MyId(p)]]]
        /\ UNCHANGED <<disk, job, hit, after, written, view, outcome, tallies>>
     \/ /\ tmp[MyId(p)] = None
        /\ Raise(p)

(* ... unlink the entries of the open directory one by one, where an entry *)
(* that is gone is an error or not, depending on the Python version, ...   *)
RmUnlink(p) ==
  /\ pc[p] = "rm_files"
  /\ \E f \in todo[p] :
       \/ /\ Goto(p, "rm_files")
          /\ todo' = [todo EXCEPT ![p] = @ \ {f}]
          /\ files' = [files EXCEPT ![dir[p]] = @ \ {f}]
          /\ UNCHANGED <<tmp, final, cache, job, hit, after, dir, written, view,
                         outcome, tallies>>
       \/ /\ f \notin files[dir[p]]
          /\ Raise(p)

(* ... and remove the directory the PATH names now, if it is empty. *)
RmDir(p) ==
  /\ pc[p] = "rm_files" /\ todo[p] = {}
  /\ \/ /\ tmp[MyId(p)] # None /\ Vacant(tmp[MyId(p)])
        /\ Goto(p, after[p])
        /\ tmp' = [tmp EXCEPT ![MyId(p)] = None]
        /\ dir' = [dir EXCEPT ![p] = None]
        /\ UNCHANGED <<final, files, cache, job, hit, after, todo, written,
                       view, outcome, tallies>>
     \/ /\ tmp[MyId(p)] = None \/ ~Vacant(tmp[MyId(p)])
        /\ Raise(p)

-----------------------------------------------------------------------------
(* tmp_dir.mkdir(parents=True): refused when the path exists. *)
MkDir(p) ==
  /\ pc[p] = "mkdir"
  /\ \/ /\ tmp[MyId(p)] = None
        /\ Goto(p, "write")
        /\ tmp' = [tmp EXCEPT ![MyId(p)] = <<p, calls[p]>>]
        /\ files' = [files EXCEPT ![<<p, calls[p]>>] = {}]
        /\ written' = [written EXCEPT ![p] = 0]
        /\ UNCHANGED <<final, cache, job, hit, after, dir, todo, view, outcome,
                       tallies>>
     \/ /\ tmp[MyId(p)] # None
        /\ Raise(p)

(* fault: the last file is still missing at the rename *)
AdmitsEarly(n) == IF n = Len(FileOrder) - 1 THEN "check_final" ELSE "write"
(* Where the writer goes when it has written n files. *)
AfterWrites(n) == IF n = Len(FileOrder) THEN "check_final" ELSE "write"

(* The next file goes to whatever directory the path names at that time. *)
WriteFile(p) ==
  /\ pc[p] = "write"
  /\ \/ /\ tmp[MyId(p)] # None
        /\ Goto(p, AfterWrites(written[p] + 1))
        /\ files' = [files EXCEPT ![tmp[MyId(p)]] =
                       @ \cup {FileOrder[written[p] + 1]}]
        /\ written' = [written EXCEPT ![p] = @ + 1]
        /\ UNCHANGED <<tmp, final, cache, job, hit, after, dir, todo, view,
                       outcome, tallies>>
     \/ /\ tmp[MyId(p)] = None
        /\ Raise(p)

(* if final_dir.exists(): "lost a race - treat as dedup" *)
CheckFinal(p) ==
  /\ pc[p] = "check_final"
  /\ Goto(p, IF final[MyId(p)] # None THEN "rm_open" ELSE "admit")
  /\ after' = [after EXCEPT ![p] = "bump"]
  /\ hit' = [hit EXCEPT ![p] = MyId(p)]
  /\ UNCHANGED <<disk, job, dir, todo, written, view, outcome, tallies>>

(* os.replace(tmp_dir, final_dir): the admit.  A directory may only be     *)
(* renamed over an empty one.                                              *)
Admit(p) ==
  /\ pc[p] = "admit"
  /\ \/ /\ tmp[MyId(p)] # None
        /\ Vacant(final[MyId(p)])
        /\ Goto(p, "derive")
        /\ final' = [final EXCEPT ![MyId(p)] = tmp[MyId(p)]]
        /\ tmp' = [tmp EXCEPT ![MyId(p)] = None]
        /\ UNCHANGED <<files, cache, job, hit, after, dir, todo, written, view,
                       outcome, tallies>>
     \/ /\ tmp[MyId(p)] = None \/ ~Vacant(final[MyId(p)])
        /\ Raise(p)

-----------------------------------------------------------------------------
(* _bump_rediscovery: read the stored design's provenance, and give up     *)
(* without complaint when it is missing ...                                *)
BumpRead(p) ==
  /\ pc[p] = "bump"
  /\ IF "provenance.json" \in files[final[hit[p]]]
     THEN Goto(p, "bump_write") /\ UNCHANGED outcome
     ELSE End(p, "stored")
  /\ UNCHANGED <<disk, job, hit, after, dir, todo, written, view, tallies>>

(* ... write it back with the count raised, through a temporary file. *)
BumpWrite(p) ==
  /\ pc[p] = "bump_write"
  /\ End(p, "stored")
  /\ files' = [files EXCEPT ![final[hit[p]]] = @ \cup {"provenance.json"}]
  /\ UNCHANGED <<tmp, final, cache, job, hit, after, dir, todo, written, view,
                 tallies>>

(* A reader (pick_design, pareto_front, spire db show) calls read_index. *)
BeginRead(p) ==
  /\ pc[p] = "idle"
  /\ Goto(p, "derive")
  /\ job' = [job EXCEPT ![p] = None]
  /\ hit' = [hit EXCEPT ![p] = None]
  /\ outcome' = [outcome EXCEPT ![p] = "none"]
  /\ UNCHANGED <<disk, after, dir, todo, written, view, tallies>>

(* fault: directories not yet admitted are listed, under their final name  *)
ListsPending(p) ==
  /\ pc[p] = "derive"
  /\ Goto(p, "refresh")
  /\ view' = [view EXCEPT ![p] = Derived \cup {id \in Id : tmp[id] # None}]
  /\ UNCHANGED <<disk, job, hit, after, dir, todo, written, outcome, tallies>>

(* read_index: derive the index from the directories ... *)
DeriveIndex(p) ==
  /\ pc[p] = "derive"
  /\ Goto(p, "refresh")
  /\ view' = [view EXCEPT ![p] = Derived]
  /\ UNCHANGED <<disk, job, hit, after, dir, todo, written, outcome, tallies>>

(* fault: index.json, once it lists a design, is left as it is *)
CreatesOnce(p) ==
  /\ pc[p] = "refresh"
  /\ End(p, IF job[p] = None THEN "none" ELSE "stored")
  /\ cache' = IF cache = {} THEN view[p] ELSE cache
  /\ UNCHANGED <<tmp, final, files, job, hit, after, dir, todo, written, view,
                 tallies>>

(* ... and write index.json when it differs. *)
RefreshCache(p) ==
  /\ pc[p] = "refresh"
  /\ End(p, IF job[p] = None THEN "none" ELSE "stored")
  /\ cache' = view[p]
  /\ UNCHANGED <<tmp, final, files, job, hit, after, dir, todo, written, view,
                 tallies>>

(* The process is killed between two steps; what it left on disk stays. *)
Crash(p) ==
  /\ crashes < MaxCrashes
  /\ pc[p] # "idle"
  /\ pc' = [pc EXCEPT ![p] = "idle"]
  /\ job' = [job EXCEPT ![p] = None]
  /\ hit' = [hit EXCEPT ![p] = None]
  /\ dir' = [dir EXCEPT ![p] = None]
  /\ crashes' = crashes + 1
  /\ UNCHANGED <<disk, after, todo, written, view, outcome, calls>>

-----------------------------------------------------------------------------
Init ==
  /\ tmp = [id \in Id |-> None]
  /\ final = [id \in Id |-> None]
  /\ files = [i \in Inode |-> {}]
  /\ cache = {}
  /\ pc = [p \in Proc |-> "idle"]
  /\ job = [p \in Proc |-> None]
  /\ hit = [p \in Proc |-> None]
  /\ after = [p \in Proc |-> "mkdir"]
  /\ dir = [p \in Proc |-> None]
  /\ todo = [p \in Proc |-> {}]
  /\ written = [p \in Proc |-> 0]
  /\ view = [p \in Proc |-> {}]
  /\ outcome = [p \in Proc |-> "none"]
  /\ calls = [p \in Proc |-> 0]
  /\ crashes = 0

Insert(p) ==
  \/ \E h \in Hash : Begin(p, h)
  \/ Scan(p) \/ RunGate(p) \/ CheckTmp(p)
  \/ RmOpen(p) \/ RmUnlink(p) \/ RmDir(p)
  \/ MkDir(p) \/ WriteFile(p) \/ CheckFinal(p) \/ Admit(p)
  \/ BumpRead(p) \/ BumpWrite(p)

Read(p) == BeginRead(p) \/ DeriveIndex(p) \/ RefreshCache(p)

Next == \E p \in Proc : Insert(p) \/ Read(p) \/ Crash(p)

Spec == Init /\ [][Next]_gateVars

-----------------------------------------------------------------------------
TypeOK ==
  /\ tmp \in [Id -> Inode \cup {None}]
  /\ final \in [Id -> Inode \cup {None}]
  /\ files \in [Inode -> SUBSET File]
  /\ cache \subseteq Id
  /\ pc \in [Proc -> {"idle", "scan", "gate", "check_tmp", "rm_open",
                      "rm_files", "mkdir", "write", "check_final", "admit",
                      "bump", "bump_write", "derive", "refresh"}]
  /\ job \in [Proc -> Hash \cup {None}]
  /\ hit \in [Proc -> Id \cup {None}]
  /\ after \in [Proc -> {"mkdir", "bump"}]
  /\ dir \in [Proc -> Inode \cup {None}]
  /\ todo \in [Proc -> SUBSET File]
  /\ written \in [Proc -> 0 .. Len(FileOrder)]
  /\ view \in [Proc -> SUBSET Id]
  /\ outcome \in [Proc -> {"none", "stored", "rejected", "undecided",
                           "failed"}]
  /\ calls \in [Proc -> 0 .. MaxCalls]
  /\ crashes \in 0 .. MaxCrashes

(* A directory without the .tmp suffix is a complete design, whoever was   *)
(* killed when and whoever inserts what at the same time: the rename is    *)
(* "the only write that matters" and "concurrent inserts cannot lose a     *)
(* design".  Readers, dedup and the splicer rely on it.                    *)
AdmittedComplete ==
  \A id \in Id : final[id] # None => files[final[id]] = File

(* Only the oracle refuses a candidate: no left-over directory, no lost    *)
(* race ("treat as dedup") and no concurrent insert makes a call raise.    *)
NeverRaises == \A p \in Proc : outcome[p] # "failed"

(* index.json may lag behind the directories, whichever of several         *)
(* concurrent refreshes writes last, but never lists what is not admitted. *)
CacheOnlyLags ==
  /\ cache \subseteq Derived
  /\ \A p \in Proc : view[p] \subseteq Derived

(* "Self-healing on every read": a slow reader may put an older view over  *)
(* a newer one, but when programs go on reading, index.json comes to list  *)
(* what is admitted and stays so.                                          *)
CacheHeals ==
  []<><<\E p \in Proc : RefreshCache(p)>>_gateVars => <>[](cache = Derived)

(* Whatever the interleaving, nothing gets into designs/ that the oracle   *)
(* did not pass ("leaves no admitted design behind").                      *)
OnlyVerified == \A id \in Derived : id[2] \in Correct

(* Nobody removes what was admitted, not even the loser of a race that     *)
(* deletes its own .tmp directory.                                         *)
NeverWithdrawn == [][Derived \subseteq Derived']_gateVars

(* What the calling programs see is the abstract library: admissions are   *)
(* never undone, each passed the oracle, and an answer names an admitted   *)
(* design of the submitted structure.                                      *)
Library == INSTANCE DesignLibrary WITH
  library <- Derived, asked <- job, verdict <- outcome,
  told <- [p \in Proc |-> IF outcome[p] = "stored" THEN hit[p] ELSE None]

ImplementsLibrary == Library!LibrarySpec
=============================================================================
