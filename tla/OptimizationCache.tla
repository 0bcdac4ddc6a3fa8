------------------------- MODULE OptimizationCache -------------------------
(***************************************************************************)
(* optimize/optimize.py: the results of the optimizing decorators, kept in *)
(* each process's memory and, across processes, in one file per key below  *)
(* <cache_dir>/v1.  A key is the digest of the logic a function builds and *)
(* of the options, so it stands for one function here; a result is the     *)
(* function whose circuit it holds.  Every system call is a step, and      *)
(* processes may be killed between any two.                                *)
(***************************************************************************)
EXTENDS Integers, FiniteSets

CONSTANTS
  Worker,      \* processes, by pid
  Function,    \* decorated functions with their options
  Controls,    \* the <<cache_read, cache_write>> pairs in use
  Cleaner,     \* the processes that call clear_optimization_cache
  NoResult,
  MaxRuns      \* bound: calls of each process

ASSUME CacheAssumption ==
  /\ NoResult \notin Function
  /\ Cleaner \subseteq Worker
  /\ Controls \subseteq {"none", "mem", "disk", "both"} \X {"none", "mem", "disk", "both"}
  /\ MaxRuns \in Nat

VARIABLES
  memory,      \* per process: _cache
  versioned,   \* whether the directory <cache_dir>/v1 exists
  entries,     \* the files <key>.json: what was written, or Absent
  tmps,        \* the files <key>.<pid>.tmp
  step,        \* per process: where it is in a call
  task,        \* per process: the function called and the controls
  answer,      \* per process: the result it holds
  doomed,      \* per process: the files its rmtree has listed
  failed,      \* per process: its last call failed on the cache's files
  runs,        \* per process: calls begun
  cleared      \* whether a clear of the directory has begun

cacheVars == <<memory, versioned, entries, tmps, step, task, answer, doomed, failed, runs, cleared>>
diskVars == <<versioned, entries, tmps>>

(* A file holds a prefix of an entry, or all of it. *)
Absent == [holds |-> NoResult, whole |-> FALSE, there |-> FALSE]
CacheFile(f, whole) == [holds |-> f, whole |-> whole, there |-> TRUE]
EntryNames == {<<"entry", f>> : f \in Function}
TmpNames == {<<"tmp", f, p>> : f \in Function, p \in Worker}

Reads(p, cache) == task[p].read \in {cache, "both"}
Writes(p, cache) == task[p].write \in {cache, "both"}
To(p, s) == step' = [step EXCEPT ![p] = s]
Wanted(p) == task[p].fn

-----------------------------------------------------------------------------
(* The wrapper: build, then look up. *)
CallOptimized(p, f, c) ==
  /\ step[p] = "idle" /\ runs[p] < MaxRuns
  /\ task' = [task EXCEPT ![p] = [fn |-> f, read |-> c[1], write |-> c[2]]]
  /\ runs' = [runs EXCEPT ![p] = @ + 1]
  /\ answer' = [answer EXCEPT ![p] = NoResult]
  /\ failed' = [failed EXCEPT ![p] = FALSE]
  /\ To(p, "lookup")
  /\ UNCHANGED <<memory, diskVars, doomed, cleared>>

LookupMemory(p) ==
  /\ step[p] = "lookup"
  /\ LET hit == IF Reads(p, "mem") THEN memory[p][Wanted(p)] ELSE NoResult IN
     /\ answer' = [answer EXCEPT ![p] = hit]
     /\ To(p, IF hit # NoResult THEN "instantiate"
              ELSE IF Reads(p, "disk") THEN "isfile" ELSE "optimize")
  /\ UNCHANGED <<memory, diskVars, task, doomed, failed, runs, cleared>>

(* _read_cache_entry: is_file() *)
IsFile(p) ==
  /\ step[p] = "isfile"
  /\ To(p, IF entries[Wanted(p)].there THEN "open" ELSE "optimize")
  /\ UNCHANGED <<memory, diskVars, task, answer, doomed, failed, runs, cleared>>

(* What is not whole does not parse: a miss. *)
Parsed(file) == IF file.whole THEN file.holds ELSE NoResult

(* open() and json.load(): a file that is gone by now is an exception. *)
OpenEntry(p) ==
  /\ step[p] = "open"
  /\ LET file == entries[Wanted(p)]   hit == Parsed(file) IN
     IF ~file.there
     THEN /\ failed' = [failed EXCEPT ![p] = TRUE]
          /\ To(p, "idle")
          /\ UNCHANGED <<answer, memory>>
     ELSE /\ answer' = [answer EXCEPT ![p] = hit]
          /\ memory' = IF hit # NoResult /\ Reads(p, "mem")
                       THEN [memory EXCEPT ![p][Wanted(p)] = hit] ELSE memory
          /\ To(p, IF hit # NoResult THEN "instantiate" ELSE "optimize")
          /\ UNCHANGED failed
  /\ UNCHANGED <<diskVars, task, doomed, runs, cleared>>

(* The optimizer finds a circuit of the function, or fails. *)
OptimizeLogic(p) ==
  /\ step[p] = "optimize"
  /\ \/ /\ answer' = [answer EXCEPT ![p] = Wanted(p)]
        /\ memory' = IF Writes(p, "mem")
                     THEN [memory EXCEPT ![p][Wanted(p)] = Wanted(p)] ELSE memory
        /\ To(p, IF Writes(p, "disk") THEN "mkdir" ELSE "instantiate")
     \/ To(p, "idle") /\ UNCHANGED <<answer, memory>>
  /\ UNCHANGED <<diskVars, task, doomed, failed, runs, cleared>>

-----------------------------------------------------------------------------
(* _write_cache_entry *)
MakeDirectory(p) ==
  /\ step[p] = "mkdir"
  /\ versioned' = TRUE
  /\ To(p, "opentmp")
  /\ UNCHANGED <<memory, entries, tmps, task, answer, doomed, failed, runs, cleared>>

(* fault: one temporary name for all writers *)
OneName(p) == <<"tmp", CHOOSE f \in Function : TRUE, CHOOSE q \in Worker : TRUE>>
TmpName(p) == <<"tmp", Wanted(p), p>>

OpenTmp(p) ==
  /\ step[p] = "opentmp"
  /\ IF versioned
     THEN /\ tmps' = [tmps EXCEPT ![TmpName(p)] = CacheFile(Wanted(p), FALSE)]
          /\ To(p, "dump")
     ELSE UNCHANGED tmps /\ To(p, "unlink")
  /\ UNCHANGED <<memory, versioned, entries, task, answer, doomed, failed, runs, cleared>>

(* json.dump: what is written to a file that was removed is lost; a full   *)
(* disk is an OSError.                                                     *)
DumpEntry(p) ==
  /\ step[p] = "dump"
  /\ \/ /\ tmps' = IF tmps[TmpName(p)].there
                   THEN [tmps EXCEPT ![TmpName(p)] = CacheFile(Wanted(p), TRUE)] ELSE tmps
        /\ To(p, "replace")
     \/ UNCHANGED tmps /\ To(p, "unlink")
  /\ UNCHANGED <<memory, versioned, entries, task, answer, doomed, failed, runs, cleared>>

(* fault: the old entry is removed first *)
RemovesOld(p) ==
  /\ step[p] = "replace" /\ tmps[TmpName(p)].there
  /\ IF entries[Wanted(p)].there
     THEN /\ entries' = [entries EXCEPT ![Wanted(p)] = Absent]
          /\ UNCHANGED <<tmps, step>>
     ELSE /\ entries' = [entries EXCEPT ![Wanted(p)] = tmps[TmpName(p)]]
          /\ tmps' = [tmps EXCEPT ![TmpName(p)] = Absent]
          /\ To(p, "instantiate")
  /\ UNCHANGED <<memory, versioned, task, answer, doomed, failed, runs, cleared>>
(* os.replace *)
ReplaceEntry(p) ==
  /\ step[p] = "replace"
  /\ IF tmps[TmpName(p)].there
     THEN /\ entries' = [entries EXCEPT ![Wanted(p)] = tmps[TmpName(p)]]
          /\ tmps' = [tmps EXCEPT ![TmpName(p)] = Absent]
          /\ To(p, "instantiate")
     ELSE UNCHANGED <<entries, tmps>> /\ To(p, "unlink")
  /\ UNCHANGED <<memory, versioned, task, answer, doomed, failed, runs, cleared>>

(* After an OSError: the temporary file is removed if it can be. *)
UnlinkTmp(p) ==
  /\ step[p] = "unlink"
  /\ tmps' = [tmps EXCEPT ![TmpName(p)] = Absent]
  /\ To(p, "instantiate")
  /\ UNCHANGED <<memory, versioned, entries, task, answer, doomed, failed, runs, cleared>>

(* _instantiate_from_cache: the call returns. *)
Instantiate(p) ==
  /\ step[p] = "instantiate"
  /\ To(p, "idle")
  /\ UNCHANGED <<memory, diskVars, task, answer, doomed, failed, runs, cleared>>

-----------------------------------------------------------------------------
(* clear_optimization_cache: memory, then rmtree, file by file.  A file    *)
(* that is gone is an error, or not, with the Python in use; so is a       *)
(* directory that is gone, or that someone has written to meanwhile.       *)
There(n) == IF n \in EntryNames THEN entries[n[2]].there ELSE tmps[n].there
Present == {n \in EntryNames \cup TmpNames : There(n)}
ClearCache(p) ==
  /\ step[p] = "idle" /\ p \in Cleaner /\ runs[p] < MaxRuns
  /\ runs' = [runs EXCEPT ![p] = @ + 1]
  /\ memory' = [memory EXCEPT ![p] = [f \in Function |-> NoResult]]
  /\ doomed' = [doomed EXCEPT ![p] = Present]
  /\ failed' = [failed EXCEPT ![p] = FALSE]
  /\ answer' = [answer EXCEPT ![p] = NoResult]
  /\ To(p, IF versioned THEN "rmtree" ELSE "idle")
  /\ cleared' = (cleared \/ versioned)
  /\ UNCHANGED <<diskVars, task>>
RemoveFile(p, n) ==
  /\ step[p] = "rmtree" /\ n \in doomed[p]
  /\ doomed' = [doomed EXCEPT ![p] = @ \ {n}]
  /\ \/ /\ There(n)
        /\ entries' = IF n \in EntryNames THEN [entries EXCEPT ![n[2]] = Absent] ELSE entries
        /\ tmps' = IF n \in TmpNames THEN [tmps EXCEPT ![n] = Absent] ELSE tmps
        /\ UNCHANGED <<step, failed>>
     \/ /\ ~There(n) /\ To(p, "idle") /\ failed' = [failed EXCEPT ![p] = TRUE]
        /\ UNCHANGED <<entries, tmps>>
     \/ ~There(n) /\ UNCHANGED <<entries, tmps, step, failed>>
  /\ UNCHANGED <<memory, versioned, task, answer, runs, cleared>>
RemoveDirectory(p) ==
  /\ step[p] = "rmtree" /\ doomed[p] = {}
  /\ versioned' = (versioned /\ Present # {})
  /\ failed' = [failed EXCEPT ![p] = (Present # {} \/ ~versioned)]
  /\ To(p, "idle")
  /\ UNCHANGED <<memory, entries, tmps, task, answer, doomed, runs, cleared>>

(* A process is killed; its pid comes back with an empty memory. *)
KillWorker(p) ==
  /\ step[p] # "idle"
  /\ memory' = [memory EXCEPT ![p] = [f \in Function |-> NoResult]]
  /\ answer' = [answer EXCEPT ![p] = NoResult]
  /\ doomed' = [doomed EXCEPT ![p] = {}]
  /\ To(p, "idle")
  /\ UNCHANGED <<diskVars, task, failed, runs, cleared>>

CacheInit ==
  /\ memory = [p \in Worker |-> [f \in Function |-> NoResult]]
  /\ versioned = FALSE
  /\ entries = [f \in Function |-> Absent]
  /\ tmps = [n \in TmpNames |-> Absent]
  /\ step = [p \in Worker |-> "idle"]
  /\ task = [p \in Worker |-> [fn |-> NoResult, read |-> "none", write |-> "none"]]
  /\ answer = [p \in Worker |-> NoResult]
  /\ doomed = [p \in Worker |-> {}]
  /\ failed = [p \in Worker |-> FALSE]
  /\ runs = [p \in Worker |-> 0]
  /\ cleared = FALSE

LookUp(p) == LookupMemory(p) \/ IsFile(p) \/ OpenEntry(p) \/ OptimizeLogic(p)
Store(p) == \/ MakeDirectory(p) \/ OpenTmp(p) \/ DumpEntry(p) \/ ReplaceEntry(p)
            \/ UnlinkTmp(p)
Clear(p) == \/ ClearCache(p) \/ RemoveDirectory(p)
            \/ \E n \in EntryNames \cup TmpNames : RemoveFile(p, n)
CacheNext ==
  \E p \in Worker :
    \/ \E f \in Function, c \in Controls : CallOptimized(p, f, c)
    \/ LookUp(p) \/ Store(p) \/ Instantiate(p) \/ Clear(p) \/ KillWorker(p)
CacheSpec == CacheInit /\ [][CacheNext]_cacheVars

-----------------------------------------------------------------------------
(* Every answer, from either cache or the optimizer, is a circuit of the   *)
(* function called.                                                        *)
AnswersRight ==
  \A p \in Worker :
    /\ step[p] = "instantiate" => answer[p] = Wanted(p)
    /\ \A f \in Function : memory[p][f] \in {NoResult, f}

(* As long as the directory is not cleared, no call fails because of the    *)
(* cache's files, whatever others write and whoever is killed.             *)
CacheNeverFails == (\E p \in Worker : failed[p]) => cleared
=============================================================================
