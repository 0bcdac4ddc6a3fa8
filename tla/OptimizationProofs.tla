------------------------- MODULE OptimizationProofs -------------------------
(***************************************************************************)
(* Proofs about the state the optimizing decorators keep: the result cache *)
(* (OptimizationCache) for every number of processes, functions and calls, *)
(* and the shared-wire state (SharedWires) for every number of objects and *)
(* every nesting.                                                          *)
(***************************************************************************)
EXTENDS OptimizationCache, SharedWires, SequenceTheorems, TLAPS

-----------------------------------------------------------------------------
(* The cache.                                                              *)

Storing == {"mkdir", "opentmp", "dump", "replace", "unlink", "instantiate"}
Called  == {"lookup", "isfile", "open", "optimize"} \cup Storing

MemoryTyped ==
  /\ memory = [p \in Worker |-> memory[p]]
  /\ \A p \in Worker : memory[p] = [f \in Function |-> memory[p][f]]

CacheTyped ==
  /\ MemoryTyped
  /\ entries = [f \in Function |-> entries[f]]
  /\ tmps = [n \in TmpNames |-> tmps[n]]
  /\ step \in [Worker -> Called \cup {"idle", "rmtree"}]
  /\ task = [p \in Worker |-> task[p]]
  /\ answer = [p \in Worker |-> answer[p]]
  /\ failed = [p \in Worker |-> failed[p]]

(* What a file may hold: nothing, or some or all of an entry of f. *)
FilesOf(f) == {Absent, CacheFile(f, TRUE), CacheFile(f, FALSE)}
(* Every file belongs to the function in its name. *)
FilesRight ==
  /\ \A f \in Function : entries[f] \in FilesOf(f)
  /\ \A f \in Function, p \in Worker : tmps[<<"tmp", f, p>>] \in FilesOf(f)

(* What holds of a process.  A result in its memory belongs to the function*)
(* it is kept for; a call keeps its function, and past the optimizer its   *)
(* result; an entry the process has seen is still there when it opens it,  *)
(* for only a clear removes entries.                                       *)
ProcessRight(p) ==
  /\ \A f \in Function : memory[p][f] \in {NoResult, f}
  /\ step[p] \in Called => Wanted(p) \in Function
  /\ step[p] \in Storing => answer[p] = Wanted(p)
  /\ step[p] = "rmtree" => cleared
  /\ step[p] = "open" => cleared \/ entries[Wanted(p)].there
  /\ failed[p] => cleared

CacheInv == CacheTyped /\ FilesRight /\ \A p \in Worker : ProcessRight(p)

LEMMA Remembered ==
  ASSUME MemoryTyped, NEW p \in Worker, NEW f, NEW v,
         memory' = [memory EXCEPT ![p][f] = v]
  PROVE  MemoryTyped'
<1>1. memory' = [memory EXCEPT ![p] = [memory[p] EXCEPT ![f] = v]]
  OBVIOUS
<1>2. \A q \in Worker :
        memory'[q] = IF q = p THEN [memory[p] EXCEPT ![f] = v] ELSE memory[q]
  BY <1>1 DEF MemoryTyped
<1>3. [memory[p] EXCEPT ![f] = v]
        = [g \in Function |-> [memory[p] EXCEPT ![f] = v][g]]
  BY DEF MemoryTyped
<1> QED
  BY <1>1, <1>2, <1>3 DEF MemoryTyped

LEMMA Forgotten ==
  ASSUME MemoryTyped, NEW p \in Worker,
         memory' = [memory EXCEPT ![p] = [f \in Function |-> NoResult]]
  PROVE  MemoryTyped'
BY DEF MemoryTyped

LEMMA FileFields ==
  ASSUME NEW f, NEW whole \in BOOLEAN
  PROVE  /\ CacheFile(f, whole).there /\ CacheFile(f, whole).holds = f
         /\ CacheFile(f, whole).whole = whole
         /\ ~Absent.there /\ ~Absent.whole
BY DEF CacheFile, Absent

(* What is parsed is the entry of the function, or a miss. *)
LEMMA ParsedRight ==
  ASSUME NEW f \in Function, NEW file \in FilesOf(f)
  PROVE  Parsed(file) \in {NoResult, f}
BY FileFields DEF FilesOf, Parsed

LEMMA CacheInvInit == CacheInit => CacheInv
<1> SUFFICES ASSUME CacheInit
             PROVE  CacheInv
  OBVIOUS
<1> USE DEF CacheInit
<1>1. CacheTyped
  BY DEF CacheTyped, MemoryTyped
<1>2. FilesRight
  <2>1. \A f \in Function, p \in Worker : <<"tmp", f, p>> \in TmpNames
    BY DEF TmpNames
  <2> QED
    BY <2>1 DEF FilesRight, FilesOf
<1>3. \A p \in Worker : ProcessRight(p)
  BY DEF ProcessRight, Called, Storing
<1> QED
  BY <1>1, <1>2, <1>3 DEF CacheInv

(* A step of p leaves the other processes alone, and removes no entry      *)
(* unless the directory is being cleared.                                  *)
Frame(p) ==
  /\ \A q \in Worker \ {p} :
       /\ memory'[q] = memory[q] /\ step'[q] = step[q] /\ task'[q] = task[q]
       /\ answer'[q] = answer[q] /\ failed'[q] = failed[q]
  /\ cleared => cleared'
  /\ \A f \in Function : entries[f].there => cleared' \/ entries'[f].there

LEMMA OwnStep ==
  ASSUME CacheInv, NEW p \in Worker, Frame(p),
         CacheTyped', FilesRight', ProcessRight(p)'
  PROVE  CacheInv'
<1>1. ASSUME NEW q \in Worker \ {p}
      PROVE  ProcessRight(q)'
  <2>1. Wanted(q)' = Wanted(q)
    BY DEF Frame, Wanted
  <2>2. ProcessRight(q)
    BY DEF CacheInv
  <2>3. step[q] = "open" => Wanted(q) \in Function
    BY <2>2 DEF ProcessRight, Called
  <2> QED
    BY <2>1, <2>2, <2>3 DEF ProcessRight, Frame
<1> QED
  BY <1>1 DEF CacheInv

(* A step of p that touches no file. *)
LEMMA NoFileStep ==
  ASSUME CacheInv, NEW p \in Worker, UNCHANGED <<entries, tmps, cleared>>,
         CacheTyped', ProcessRight(p)',
         \A q \in Worker \ {p} :
           /\ memory'[q] = memory[q] /\ step'[q] = step[q] /\ task'[q] = task[q]
           /\ answer'[q] = answer[q] /\ failed'[q] = failed[q]
  PROVE  CacheInv'
<1>1. FilesRight'
  BY DEF CacheInv, FilesRight
<1>2. Frame(p)
  BY DEF Frame
<1> QED
  BY <1>1, <1>2, OwnStep

(* Looking up and optimizing. *)
LEMMA LookUpStep ==
  ASSUME CacheInv, NEW p \in Worker,
         LookUp(p) \/ Instantiate(p) \/ MakeDirectory(p) \/ KillWorker(p)
           \/ \E f \in Function, c \in Controls : CallOptimized(p, f, c)
  PROVE  CacheInv'
<1> USE DEF To
<1>0. CacheTyped /\ ProcessRight(p)
  BY DEF CacheInv
<1>1. ASSUME NEW f \in Function, NEW c \in Controls, CallOptimized(p, f, c)
      PROVE  CacheInv'
  <2>1. CacheTyped'
    <3> DEFINE t == [fn |-> f, read |-> c[1], write |-> c[2]]
    <3>1. task' = [task EXCEPT ![p] = t]
      BY <1>1 DEF CallOptimized
    <3> HIDE DEF t
    <3>2. task' = [q \in Worker |-> task'[q]]
      BY <1>0, <3>1 DEF CacheTyped
    <3>3. MemoryTyped'
      BY <1>0, <1>1 DEF CallOptimized, CacheTyped, MemoryTyped
    <3>4. step' \in [Worker -> Called \cup {"idle", "rmtree"}]
      BY <1>0, <1>1 DEF CallOptimized, CacheTyped, Called
    <3> QED
      BY <1>0, <1>1, <3>2, <3>3, <3>4 DEF CallOptimized, diskVars, CacheTyped
  <2>2. ProcessRight(p)'
    BY <1>0, <1>1 DEF CallOptimized, diskVars, CacheTyped, MemoryTyped, ProcessRight, Wanted, Called, Storing
  <2> QED
    BY <1>0, <1>1, <2>1, <2>2, NoFileStep DEF CallOptimized, diskVars, CacheTyped, MemoryTyped
<1>2. CASE LookupMemory(p)
  <2>1. CacheTyped'
    BY <1>0, <1>2 DEF LookupMemory, diskVars, CacheTyped, MemoryTyped, Called, Storing
  <2>2. step[p] = "lookup" /\ Wanted(p) \in Function /\ Wanted(p)' = Wanted(p)
    BY <1>0, <1>2 DEF LookupMemory, ProcessRight, Called, Wanted
  <2>3. memory[p][Wanted(p)] \in {NoResult, Wanted(p)}
    BY <1>0, <2>2 DEF ProcessRight
  <2>4. \/ step'[p] = "instantiate" /\ answer'[p] = Wanted(p)
        \/ step'[p] \in {"isfile", "optimize"}
    BY <1>0, <1>2, <2>3 DEF LookupMemory, CacheTyped
  <2>5. ProcessRight(p)'
    BY <1>0, <1>2, <2>2, <2>4 DEF LookupMemory, ProcessRight, diskVars, Called, Storing
  <2> QED
    BY <1>0, <1>2, <2>1, <2>5, NoFileStep DEF LookupMemory, diskVars, CacheTyped, MemoryTyped
<1>3. CASE IsFile(p)
  <2>1. CacheTyped'
    BY <1>0, <1>3 DEF IsFile, diskVars, CacheTyped, MemoryTyped, Called, Storing
  <2>2. ProcessRight(p)'
    BY <1>0, <1>3 DEF IsFile, diskVars, CacheTyped, MemoryTyped, ProcessRight, Wanted, Called, Storing
  <2> QED
    BY <1>0, <1>3, <2>1, <2>2, NoFileStep DEF IsFile, diskVars, CacheTyped, MemoryTyped
<1>4. CASE OpenEntry(p)
  <2> DEFINE hit == Parsed(entries[Wanted(p)])
  <2>1. step[p] = "open" /\ Wanted(p) \in Function /\ Wanted(p)' = Wanted(p)
    BY <1>0, <1>4 DEF OpenEntry, ProcessRight, Called, Wanted
  <2>2. hit \in {NoResult, Wanted(p)}
    BY <2>1, ParsedRight DEF CacheInv, FilesRight
  <2>3. CASE ~entries[Wanted(p)].there
    <3>1. CacheTyped' /\ cleared
      BY <1>0, <1>4, <2>1, <2>3 DEF OpenEntry, diskVars, CacheTyped, MemoryTyped, ProcessRight
    <3>2. ProcessRight(p)'
      BY <1>0, <1>4, <2>3, <3>1 DEF OpenEntry, diskVars, CacheTyped, MemoryTyped, ProcessRight, Called, Storing
    <3> QED
      BY <1>0, <1>4, <2>3, <3>1, <3>2, NoFileStep DEF OpenEntry, diskVars, CacheTyped, MemoryTyped
  <2>4. CASE entries[Wanted(p)].there
    <3>1. /\ answer' = [answer EXCEPT ![p] = hit]
          /\ memory' = memory \/ memory' = [memory EXCEPT ![p][Wanted(p)] = hit]
          /\ step' = [step EXCEPT ![p] = IF hit # NoResult THEN "instantiate" ELSE "optimize"]
          /\ UNCHANGED <<entries, tmps, task, failed, cleared>>
      BY <1>4, <2>4 DEF OpenEntry, diskVars
    <3> HIDE DEF hit
    <3>2. CacheTyped'
      <4>1. MemoryTyped'
        <5>1. CASE memory' = memory
          BY <1>0, <5>1 DEF CacheTyped, MemoryTyped
        <5>2. CASE memory' = [memory EXCEPT ![p][Wanted(p)] = hit]
          BY <1>0, <5>2, Remembered DEF CacheTyped
        <5> QED
          BY <3>1, <5>1, <5>2
      <4> QED
        BY <1>0, <3>1, <4>1 DEF CacheTyped, Called, Storing
    <3>3. \A f \in Function : memory'[p][f] \in {NoResult, f}
      BY <1>0, <2>1, <2>2, <3>1 DEF CacheTyped, MemoryTyped, ProcessRight
    <3>4. ProcessRight(p)'
      BY <1>0, <2>1, <2>2, <3>1, <3>3 DEF CacheTyped, MemoryTyped, ProcessRight, Called, Storing
    <3> QED
      BY <1>0, <3>1, <3>2, <3>4, NoFileStep DEF CacheTyped, MemoryTyped
  <2> QED
    BY <2>3, <2>4
<1>5. CASE OptimizeLogic(p)
  <2>1. step[p] = "optimize" /\ Wanted(p) \in Function /\ Wanted(p)' = Wanted(p)
    BY <1>0, <1>5 DEF OptimizeLogic, ProcessRight, Called, Wanted
  <2>2. CacheTyped'
    <3>1. MemoryTyped'
      <4>1. CASE memory' = memory
        BY <1>0, <4>1 DEF CacheTyped, MemoryTyped
      <4>2. CASE memory' = [memory EXCEPT ![p][Wanted(p)] = Wanted(p)]
        BY <1>0, <4>2, Remembered DEF CacheTyped
      <4> QED
        BY <1>5, <4>1, <4>2 DEF OptimizeLogic
    <3> QED
      BY <1>0, <1>5, <3>1 DEF OptimizeLogic, diskVars, CacheTyped, MemoryTyped, Called, Storing
  <2>3. \A f \in Function : memory'[p][f] \in {NoResult, f}
    BY <1>0, <1>5, <2>1 DEF OptimizeLogic, CacheTyped, MemoryTyped, ProcessRight
  <2>4. \/ step'[p] \in {"mkdir", "instantiate"} /\ answer'[p] = Wanted(p)
        \/ step'[p] = "idle"
    BY <1>0, <1>5 DEF OptimizeLogic, CacheTyped
  <2>5. ProcessRight(p)'
    BY <1>0, <1>5, <2>1, <2>3, <2>4
    DEF OptimizeLogic, diskVars, ProcessRight, Called, Storing
  <2> QED
    BY <1>0, <1>5, <2>2, <2>5, NoFileStep DEF OptimizeLogic, diskVars, CacheTyped, MemoryTyped
<1>6. CASE Instantiate(p)
  <2>1. CacheTyped'
    BY <1>0, <1>6 DEF Instantiate, diskVars, CacheTyped, MemoryTyped, Called
  <2>2. ProcessRight(p)'
    BY <1>0, <1>6 DEF Instantiate, diskVars, CacheTyped, MemoryTyped, ProcessRight, Called, Storing
  <2> QED
    BY <1>0, <1>6, <2>1, <2>2, NoFileStep DEF Instantiate, diskVars, CacheTyped, MemoryTyped
<1>7. CASE MakeDirectory(p)
  <2>1. CacheTyped'
    BY <1>0, <1>7 DEF MakeDirectory, CacheTyped, MemoryTyped, Called, Storing
  <2>2. ProcessRight(p)'
    BY <1>0, <1>7 DEF MakeDirectory, CacheTyped, MemoryTyped, ProcessRight, Wanted, Called, Storing
  <2> QED
    BY <1>0, <1>7, <2>1, <2>2, NoFileStep DEF MakeDirectory, CacheTyped, MemoryTyped
<1>8. CASE KillWorker(p)
  <2>1. CacheTyped'
    BY <1>0, <1>8 DEF KillWorker, diskVars, CacheTyped, MemoryTyped, Called
  <2>2. ProcessRight(p)'
    BY <1>0, <1>8 DEF KillWorker, diskVars, CacheTyped, MemoryTyped, ProcessRight, Called, Storing
  <2> QED
    BY <1>0, <1>8, <2>1, <2>2, NoFileStep DEF KillWorker, diskVars, CacheTyped, MemoryTyped
<1> QED
  BY <1>1, <1>2, <1>3, <1>4, <1>5, <1>6, <1>7, <1>8 DEF LookUp

(* A change of p's own temporary file leaves all files right. *)
LEMMA TmpStep ==
  ASSUME CacheInv, NEW p \in Worker, Wanted(p) \in Function,
         NEW file \in FilesOf(Wanted(p)),
         tmps' = [tmps EXCEPT ![TmpName(p)] = file] \/ UNCHANGED tmps,
         UNCHANGED entries
  PROVE  FilesRight' /\ tmps' = [n \in TmpNames |-> tmps'[n]]
<1>1. \A f \in Function, q \in Worker : <<"tmp", f, q>> \in TmpNames
  BY DEF TmpNames
<1>2. TmpName(p) \in TmpNames
  BY DEF TmpNames, TmpName
<1>3. tmps' = [n \in TmpNames |-> tmps'[n]]
  BY DEF CacheInv, CacheTyped
<1>4. ASSUME NEW f \in Function, NEW q \in Worker
      PROVE  tmps'[<<"tmp", f, q>>] \in FilesOf(f)
  <2>1. tmps[<<"tmp", f, q>>] \in FilesOf(f)
    BY DEF CacheInv, FilesRight
  <2>2. CASE <<"tmp", f, q>> = TmpName(p) /\ tmps' = [tmps EXCEPT ![TmpName(p)] = file]
    <3>1. f = Wanted(p)
      BY <2>2 DEF TmpName
    <3>2. tmps'[<<"tmp", f, q>>] = file
      BY <1>2, <2>2 DEF CacheInv, CacheTyped
    <3> QED
      BY <3>1, <3>2
  <2>3. CASE <<"tmp", f, q>> # TmpName(p) \/ UNCHANGED tmps
    BY <1>1, <1>2, <2>1, <2>3 DEF CacheInv, CacheTyped
  <2> QED
    BY <2>2, <2>3
<1> QED
  BY <1>3, <1>4 DEF CacheInv, FilesRight

(* Writing an entry. *)
LEMMA StoreStep ==
  ASSUME CacheInv, NEW p \in Worker,
         OpenTmp(p) \/ DumpEntry(p) \/ ReplaceEntry(p) \/ UnlinkTmp(p)
  PROVE  CacheInv'
<1> USE DEF To
<1>0. CacheTyped /\ ProcessRight(p)
  BY DEF CacheInv
<1>1. /\ step[p] \in Storing
      /\ \E s \in Storing : step' = [step EXCEPT ![p] = s]
      /\ UNCHANGED <<memory, task, answer, failed, cleared>>
  BY <1>0 DEF OpenTmp, DumpEntry, ReplaceEntry, UnlinkTmp, Storing
<1>2. Wanted(p) \in Function /\ answer[p] = Wanted(p) /\ Wanted(p)' = Wanted(p)
  BY <1>0, <1>1 DEF ProcessRight, Called, Wanted
<1>3. Absent \in FilesOf(Wanted(p)) /\ CacheFile(Wanted(p), FALSE) \in FilesOf(Wanted(p))
        /\ CacheFile(Wanted(p), TRUE) \in FilesOf(Wanted(p))
  BY DEF FilesOf
<1>4. /\ FilesRight' /\ tmps' = [n \in TmpNames |-> tmps'[n]]
      /\ entries' = [f \in Function |-> entries'[f]]
      /\ \A f \in Function : entries[f].there => entries'[f].there
  <2>1. CASE OpenTmp(p) \/ DumpEntry(p) \/ UnlinkTmp(p)
    <3>1. \E file \in FilesOf(Wanted(p)) :
            tmps' = [tmps EXCEPT ![TmpName(p)] = file] \/ UNCHANGED tmps
      BY <1>3, <2>1 DEF OpenTmp, DumpEntry, UnlinkTmp
    <3>2. UNCHANGED entries
      BY <2>1 DEF OpenTmp, DumpEntry, UnlinkTmp
    <3> QED
      BY <1>0, <1>2, <3>1, <3>2, TmpStep DEF CacheTyped
  <2>2. CASE ReplaceEntry(p) /\ tmps[TmpName(p)].there
    <3> DEFINE file == tmps[TmpName(p)]
    <3>1. /\ entries' = [entries EXCEPT ![Wanted(p)] = file]
          /\ tmps' = [tmps EXCEPT ![TmpName(p)] = Absent]
      BY <2>2 DEF ReplaceEntry
    <3>2. file \in FilesOf(Wanted(p)) /\ file.there
      BY <1>2, <2>2 DEF CacheInv, FilesRight, TmpName
    <3> HIDE DEF file
    <3>3. \A f \in Function :
            entries'[f] = IF f = Wanted(p) THEN file ELSE entries[f]
      BY <1>0, <1>2, <3>1 DEF CacheTyped
    <3>4. entries' = [f \in Function |-> entries'[f]]
      BY <1>0, <3>1 DEF CacheTyped
    <3>5. tmps' = [n \in TmpNames |-> tmps'[n]]
      BY <1>0, <3>1 DEF CacheTyped
    <3>6. \A f \in Function, q \in Worker :
            tmps'[<<"tmp", f, q>>] \in {Absent, tmps[<<"tmp", f, q>>]}
      <4>1. \A f \in Function, q \in Worker : <<"tmp", f, q>> \in TmpNames
        BY DEF TmpNames
      <4> QED
        BY <1>0, <3>1, <4>1 DEF CacheTyped
    <3>7. FilesRight'
      BY <3>2, <3>3, <3>6 DEF CacheInv, FilesRight, FilesOf
    <3> QED
      BY <3>2, <3>3, <3>4, <3>5, <3>7
  <2>3. CASE ReplaceEntry(p) /\ ~tmps[TmpName(p)].there
    BY <1>0, <2>3 DEF ReplaceEntry, CacheTyped, CacheInv, FilesRight
  <2> QED
    BY <2>1, <2>2, <2>3
<1>5. CacheTyped'
  <2>1. MemoryTyped'
    BY <1>0, <1>1 DEF CacheTyped, MemoryTyped
  <2> QED
    BY <1>0, <1>1, <1>4, <2>1 DEF CacheTyped, Called
<1>6. ProcessRight(p)'
  <2>1. step'[p] \in Storing
    BY <1>0, <1>1 DEF CacheTyped
  <2>2. step'[p] # "rmtree" /\ step'[p] # "open"
    BY <2>1 DEF Storing
  <2> QED
    BY <1>0, <1>1, <1>2, <2>1, <2>2 DEF ProcessRight
<1>7. Frame(p)
  BY <1>0, <1>1, <1>4 DEF Frame, CacheTyped
<1> QED
  BY <1>4, <1>5, <1>6, <1>7, OwnStep

(* Clearing the cache. *)
LEMMA ClearStep ==
  ASSUME CacheInv, NEW p \in Worker, Clear(p)
  PROVE  CacheInv'
<1> USE DEF To
<1>0. CacheTyped /\ ProcessRight(p) /\ FilesRight
  BY DEF CacheInv
<1>1. CASE ClearCache(p)
  <2>1. CacheTyped'
    <3>1. MemoryTyped'
      BY <1>0, <1>1, Forgotten DEF ClearCache, CacheTyped
    <3>2. step' \in [Worker -> Called \cup {"idle", "rmtree"}]
      BY <1>0, <1>1 DEF ClearCache, CacheTyped
    <3> QED
      BY <1>0, <1>1, <3>1, <3>2 DEF ClearCache, diskVars, CacheTyped
  <2>2. step'[p] \in {"idle", "rmtree"} /\ (step'[p] = "rmtree" => cleared')
    BY <1>0, <1>1 DEF ClearCache, CacheTyped
  <2>3. failed'[p] = FALSE /\ \A f \in Function : memory'[p][f] = NoResult
    BY <1>0, <1>1 DEF ClearCache, CacheTyped, MemoryTyped
  <2>4. ProcessRight(p)'
    BY <2>2, <2>3 DEF ProcessRight, Called, Storing
  <2>5. FilesRight' /\ Frame(p)
    BY <1>0, <1>1 DEF ClearCache, diskVars, FilesRight, Frame, CacheTyped, MemoryTyped
  <2> QED
    BY <2>1, <2>4, <2>5, OwnStep
<1>2. CASE RemoveDirectory(p)
  <2>1. step[p] = "rmtree" /\ cleared
    BY <1>0, <1>2 DEF RemoveDirectory, ProcessRight
  <2>2. CacheTyped'
    BY <1>0, <1>2 DEF RemoveDirectory, CacheTyped, MemoryTyped, Called
  <2>3. ProcessRight(p)'
    BY <1>0, <1>2, <2>1 DEF RemoveDirectory, ProcessRight, CacheTyped, Called, Storing
  <2> QED
    BY <1>0, <1>2, <2>2, <2>3, NoFileStep DEF RemoveDirectory, CacheTyped
<1>3. ASSUME NEW n \in EntryNames \cup TmpNames, RemoveFile(p, n)
      PROVE  CacheInv'
  <2>1. step[p] = "rmtree" /\ cleared
    BY <1>0, <1>3 DEF RemoveFile, ProcessRight
  <2>2. /\ UNCHANGED <<memory, task, answer, cleared>>
        /\ step' = step \/ step' = [step EXCEPT ![p] = "idle"]
        /\ failed' = failed \/ failed' = [failed EXCEPT ![p] = TRUE]
        /\ entries' = entries \/ (n \in EntryNames /\ entries' = [entries EXCEPT ![n[2]] = Absent])
        /\ tmps' = tmps \/ (n \in TmpNames /\ tmps' = [tmps EXCEPT ![n] = Absent])
    BY <1>3 DEF RemoveFile
  <2>3. CacheTyped'
    <3>1. MemoryTyped'
      BY <1>0, <2>2 DEF CacheTyped, MemoryTyped
    <3> QED
      BY <1>0, <2>2, <3>1 DEF CacheTyped
  <2>4. \A f \in Function : entries'[f] \in {Absent, entries[f]}
    BY <1>0, <2>2 DEF CacheTyped
  <2>5. \A f \in Function, q \in Worker :
          tmps'[<<"tmp", f, q>>] \in {Absent, tmps[<<"tmp", f, q>>]}
    <3>1. \A f \in Function, q \in Worker : <<"tmp", f, q>> \in TmpNames
      BY DEF TmpNames
    <3>2. \A m \in TmpNames : tmps'[m] \in {Absent, tmps[m]}
      BY <1>0, <2>2 DEF CacheTyped
    <3> QED
      BY <3>1, <3>2
  <2>6. FilesRight'
    BY <1>0, <2>4, <2>5 DEF FilesRight, FilesOf
  <2>7. ProcessRight(p)'
    <3>1. step'[p] \in {"rmtree", "idle"}
      BY <1>0, <2>1, <2>2 DEF CacheTyped
    <3> QED
      BY <1>0, <2>1, <2>2, <3>1 DEF ProcessRight, Called, Storing
  <2>8. Frame(p)
    BY <1>0, <2>1, <2>2 DEF Frame, CacheTyped
  <2> QED
    BY <2>3, <2>6, <2>7, <2>8, OwnStep
<1> QED
  BY <1>1, <1>2, <1>3 DEF Clear

LEMMA CacheInvStep == CacheInv /\ [CacheNext]_cacheVars => CacheInv'
<1> SUFFICES ASSUME CacheInv, [CacheNext]_cacheVars
             PROVE  CacheInv'
  OBVIOUS
<1>1. CASE UNCHANGED cacheVars
  BY <1>1 DEF cacheVars, CacheInv, CacheTyped, MemoryTyped, FilesRight, ProcessRight, Wanted
<1>2. ASSUME NEW p \in Worker,
             \/ \E f \in Function, c \in Controls : CallOptimized(p, f, c)
             \/ LookUp(p) \/ Store(p) \/ Instantiate(p) \/ Clear(p) \/ KillWorker(p)
      PROVE  CacheInv'
  BY <1>2, LookUpStep, StoreStep, ClearStep DEF Store
<1> QED
  BY <1>1, <1>2 DEF CacheNext

(* Every file is a whole entry or one in the making, at any moment.        *)
THEOREM CacheInvHolds == CacheSpec => []CacheInv
BY CacheInvInit, CacheInvStep, PTL DEF CacheSpec

(* Every answer is a circuit of the function called, whoever shares the    *)
(* directory and whoever is killed or clears it.                           *)
THEOREM CacheAnswersRight == CacheSpec => []AnswersRight
<1>1. CacheInv => AnswersRight
  BY DEF CacheInv, ProcessRight, Storing, AnswersRight
<1> QED
  BY <1>1, CacheInvHolds, PTL

(* As long as the directory is not cleared, no call fails on its files.    *)
THEOREM CacheSafe == CacheSpec => []CacheNeverFails
<1>1. CacheInv => CacheNeverFails
  BY DEF CacheInv, ProcessRight, CacheNeverFails
<1> QED
  BY <1>1, CacheInvHolds, PTL

-----------------------------------------------------------------------------
(* The shared wires.                                                       *)

Wire == 1 .. Len(driverOf)

(* A table knows wires of expressions that have the uid, no others.        *)
TableRight(t) ==
  /\ t \in [Uid -> 0 .. Len(driverOf)]
  /\ \A u \in Uid : t[u] # NoWire =>
       \E e \in Object : uidOf[e] = u /\ driverOf[t[u]] = e

FrameRight(frame) == frame.kind = "call" => TableRight(frame.expr2sig)

CallFrame ==
  [kind : {"call"}, counts : [Uid -> Nat], expr2sig : [Uid -> Nat],
   wires : Seq(Nat), flag : BOOLEAN]
FlatFrame == [kind : {"flat"}, flag : BOOLEAN]
CaptureFrame == [kind : {"capture"}, start : Nat, known : [Uid -> Nat]]
CallOrBlock == CallFrame \cup FlatFrame \cup CaptureFrame

(* An object keeps its uid, and shares it with no other.                   *)
UidsRight ==
  /\ nextUid \in Nat \ {0}
  /\ uidOf \in [Object -> Nat]
  /\ \A e \in Object : uidOf[e] < nextUid /\ (uidOf[e] # NoWire => uidOf[e] \in Uid)
  /\ \A e, f \in Object : uidOf[e] = uidOf[f] /\ uidOf[e] # NoWire => e = f

SharedTyped ==
  /\ counts \in [Uid -> Nat] /\ expr2sig \in [Uid -> Nat]
  /\ wires \in Seq(Nat)
  /\ driverOf \in Seq(Object) /\ opportunistic \in BOOLEAN
  /\ frames \in Seq(CallOrBlock)

SharedInv ==
  /\ SharedTyped /\ UidsRight
  /\ TableRight(expr2sig)
  /\ \A i \in 1 .. Len(frames) : FrameRight(frames[i])

(* A new design knows nothing. *)
LEMMA NothingKnown == SharedTyped => TableRight(Fresh)
<1> SUFFICES ASSUME SharedTyped
             PROVE  TableRight(Fresh)
  OBVIOUS
<1>1. Len(driverOf) \in Nat
  BY DEF SharedTyped
<1> QED
  BY <1>1, SharedAssumption DEF TableRight, Fresh

(* Making a wire, or giving an object a uid, leaves right what was right.  *)
LEMMA TableStays ==
  ASSUME SharedTyped, UidsRight,
         uidOf' \in [Object -> Nat],
         \A e \in Object : uidOf[e] # NoWire => uidOf'[e] = uidOf[e],
         NEW e0 \in Object, driverOf' = Append(driverOf, e0) \/ UNCHANGED driverOf,
         NEW t, TableRight(t)
  PROVE  TableRight(t)'
<1>1. /\ Len(driverOf) \in Nat /\ Len(driverOf') \in Nat /\ Len(driverOf) <= Len(driverOf')
      /\ \A w \in Wire : driverOf'[w] = driverOf[w]
  <2>1. CASE driverOf' = Append(driverOf, e0)
    BY <2>1, AppendProperties DEF SharedTyped, Wire
  <2>2. CASE UNCHANGED driverOf
    BY <2>2 DEF SharedTyped, Wire
  <2> QED
    BY <2>1, <2>2
<1>2. t \in [Uid -> 0 .. Len(driverOf')]
  BY <1>1 DEF TableRight
<1>3. ASSUME NEW u \in Uid, t[u] # NoWire
      PROVE  \E e \in Object : uidOf'[e] = u /\ driverOf'[t[u]] = e
  <2>1. PICK e \in Object : uidOf[e] = u /\ driverOf[t[u]] = e
    BY <1>3 DEF TableRight
  <2>2. t[u] \in Wire /\ u # NoWire
    <3>1. t[u] \in 0 .. Len(driverOf) /\ t[u] # NoWire
      BY <1>3 DEF TableRight
    <3> QED
      BY <1>1, <3>1, SharedAssumption DEF Wire, Uid
  <2>3. uidOf'[e] = u
    BY <2>1, <2>2
  <2>4. driverOf'[t[u]] = e
    BY <1>1, <2>1, <2>2
  <2> QED
    BY <2>3, <2>4
<1> QED
  BY <1>2, <1>3 DEF TableRight

(* The calls under way keep what was put aside for them.                   *)
LEMMA FramesStay ==
  ASSUME SharedInv, uidOf' \in [Object -> Nat],
         \A e \in Object : uidOf[e] # NoWire => uidOf'[e] = uidOf[e],
         NEW e0 \in Object, driverOf' = Append(driverOf, e0) \/ UNCHANGED driverOf,
         UNCHANGED frames
  PROVE  \A i \in 1 .. Len(frames') : FrameRight(frames[i])'
<1> SUFFICES ASSUME NEW i \in 1 .. Len(frames)
             PROVE  FrameRight(frames[i])'
  OBVIOUS
<1>1. PICK frame : frame = frames[i] /\ FrameRight(frame)
  BY DEF SharedInv
<1>2. PICK t : t = frame.expr2sig
  OBVIOUS
<1>3. TableRight(t) => TableRight(t)'
  BY TableStays DEF SharedInv
<1>4. FrameRight(frame)'
  BY <1>1, <1>2, <1>3 DEF FrameRight
<1> QED
  BY <1>1, <1>4

(* _create_new_shared_wire types the list and the wires made.              *)
LEMMA NewWireTyped ==
  ASSUME SharedTyped, NEW e \in Object, NewWire(e)
  PROVE  /\ Len(driverOf) \in Nat /\ driverOf' = Append(driverOf, e)
         /\ Len(driverOf') = Len(driverOf) + 1 /\ driverOf'[Len(driverOf) + 1] = e
         /\ driverOf' \in Seq(Object) /\ wires' \in Seq(Nat)
<1> DEFINE n == Len(driverOf) + 1
<1>1. /\ Len(driverOf) \in Nat /\ n \in Nat
      /\ driverOf' = Append(driverOf, e) /\ wires' = Append(wires, n)
  BY DEF NewWire, SharedTyped
<1> HIDE DEF n
<1>2. wires' \in Seq(Nat)
  BY <1>1, AppendProperties DEF SharedTyped
<1>3. driverOf' \in Seq(Object) /\ Len(driverOf') = Len(driverOf) + 1 /\ driverOf'[Len(driverOf) + 1] = e
  BY <1>1, AppendProperties DEF SharedTyped
<1> QED
  BY <1>1, <1>2, <1>3

(* _maybe_share *)
LEMMA ShareStep ==
  ASSUME SharedInv, NEW e \in Object, NEW force \in BOOLEAN, Share(e, force)
  PROVE  SharedInv'
<1> DEFINE u == IF uidOf[e] # NoWire THEN uidOf[e] ELSE nextUid
           n == Len(driverOf) + 1
<1>0. SharedTyped /\ UidsRight /\ TableRight(expr2sig)
  BY DEF SharedInv
<1>1. /\ u \in Uid /\ uidOf' = [uidOf EXCEPT ![e] = u]
      /\ nextUid' = IF uidOf[e] = NoWire THEN nextUid + 1 ELSE nextUid
      /\ counts' = [counts EXCEPT ![u] = IF @ < 2 THEN @ + 1 ELSE @]
      /\ UNCHANGED <<opportunistic, frames, calls2, escaped>>
      /\ \/ UNCHANGED <<driverOf, expr2sig, wires>>
         \/ NewWire(e) /\ expr2sig' = [expr2sig EXCEPT ![u] = n]
  BY DEF Share
<1>2. u \in Nat \ {0} /\ u < nextUid' /\ nextUid <= nextUid' /\ nextUid' \in Nat \ {0}
  BY <1>0, <1>1, SharedAssumption DEF UidsRight, Uid
<1>3. \A f \in Object : f # e => uidOf[f] # u
  BY <1>0, SharedAssumption DEF UidsRight
<1> HIDE DEF u, n
<1>4. /\ uidOf' \in [Object -> Nat] /\ uidOf'[e] = u
      /\ \A f \in Object : f # e => uidOf'[f] = uidOf[f]
  BY <1>0, <1>1, <1>2 DEF UidsRight
<1>5. \A f \in Object : uidOf[f] # NoWire => uidOf'[f] = uidOf[f]
  BY <1>4 DEF u
<1>6. UidsRight'
  BY <1>0, <1>1, <1>2, <1>3, <1>4 DEF UidsRight
<1>7. driverOf' = Append(driverOf, e) \/ UNCHANGED driverOf
  BY <1>1 DEF NewWire
<1>8. \A i \in 1 .. Len(frames') : FrameRight(frames[i])'
  BY <1>1, <1>4, <1>5, <1>7, FramesStay
<1>9. counts' \in [Uid -> Nat]
  BY <1>0, <1>1 DEF SharedTyped
<1>a. PICK t : t = expr2sig /\ TableRight(t)
  BY <1>0
<1>b. TableRight(t)'
  BY <1>0, <1>4, <1>5, <1>7, <1>a, TableStays
<1>10. CASE UNCHANGED <<driverOf, expr2sig, wires>>
  <2>1. SharedTyped'
    BY <1>0, <1>1, <1>9, <1>10 DEF SharedTyped
  <2>2. TableRight(expr2sig)'
    BY <1>10, <1>a, <1>b DEF TableRight
  <2> QED
    BY <1>6, <1>8, <2>1, <2>2 DEF SharedInv
<1>11. CASE NewWire(e) /\ expr2sig' = [expr2sig EXCEPT ![u] = n]
  <2>1. /\ Len(driverOf) \in Nat /\ Len(driverOf') = n /\ driverOf'[n] = e
        /\ driverOf' \in Seq(Object) /\ wires' \in Seq(Nat) /\ n \in Nat
    BY <1>0, <1>11, NewWireTyped DEF n
  <2>2. SharedTyped'
    BY <1>0, <1>1, <1>9, <1>11, <2>1 DEF SharedTyped
  <2>3. TableRight(expr2sig)'
    <3> DEFINE T == [t EXCEPT ![u] = n]
    <3>1. /\ t \in [Uid -> 0 .. n]
          /\ \A v \in Uid : t[v] # NoWire => \E f \in Object : uidOf'[f] = v /\ driverOf'[t[v]] = f
      BY <1>b, <2>1 DEF TableRight
    <3>2. n \in 0 .. n
      BY <2>1
    <3>3. /\ T \in [Uid -> 0 .. n] /\ T[u] = n
          /\ \A v \in Uid : v # u => T[v] = t[v]
      BY <1>1, <3>1, <3>2
    <3>4. expr2sig' = T
      BY <1>11, <1>a
    <3> HIDE DEF T
    <3>5. ASSUME NEW v \in Uid, T[v] # NoWire
          PROVE  \E f \in Object : uidOf'[f] = v /\ driverOf'[T[v]] = f
      <4>1. CASE v = u
        BY <1>4, <2>1, <3>3, <4>1
      <4>2. CASE v # u
        BY <3>1, <3>3, <3>5, <4>2
      <4> QED
        BY <4>1, <4>2
    <3> QED
      BY <2>1, <3>3, <3>4, <3>5 DEF TableRight
  <2> QED
    BY <1>6, <1>8, <2>2, <2>3 DEF SharedInv
<1> QED
  BY <1>1, <1>10, <1>11

(* fit_type, reinterpret and the passes of an emission                     *)
LEMMA UntabledStep ==
  ASSUME SharedInv, NEW e \in Object, UntabledWire(e)
  PROVE  SharedInv'
<1>0. SharedTyped /\ UidsRight /\ TableRight(expr2sig)
  BY DEF SharedInv
<1>1. /\ NewWire(e) /\ driverOf' = Append(driverOf, e)
      /\ UNCHANGED <<uidOf, nextUid, counts, expr2sig, opportunistic, frames, calls2, escaped>>
  BY DEF UntabledWire, NewWire
<1>2. driverOf' \in Seq(Object) /\ wires' \in Seq(Nat)
  BY <1>0, <1>1, NewWireTyped
<1>3. SharedTyped'
  BY <1>0, <1>1, <1>2 DEF SharedTyped
<1>4. uidOf' \in [Object -> Nat] /\ UidsRight'
  BY <1>0, <1>1 DEF UidsRight
<1>5. PICK t : t = expr2sig /\ TableRight(t)
  BY <1>0
<1>6. TableRight(t)'
  BY <1>0, <1>1, <1>4, <1>5, TableStays
<1>7. TableRight(expr2sig)'
  BY <1>1, <1>5, <1>6 DEF TableRight
<1>8. \A i \in 1 .. Len(frames') : FrameRight(frames[i])'
  BY <1>1, <1>4, FramesStay
<1> QED
  BY <1>3, <1>4, <1>7, <1>8 DEF SharedInv

(* The frames after the entry of a call or a block.                        *)
LEMMA EnterRight ==
  ASSUME SharedInv, NEW frame \in CallOrBlock, Enter(frame), FrameRight(frame),
         UNCHANGED <<uidOf, driverOf>>
  PROVE  /\ frames' \in Seq(CallOrBlock)
         /\ \A i \in 1 .. Len(frames') : FrameRight(frames[i])'
<1>1. frames' = Append(frames, frame) /\ frames \in Seq(CallOrBlock)
  BY DEF Enter, SharedInv, SharedTyped
<1>2. ASSUME NEW i \in 1 .. Len(frames')
      PROVE  FrameRight(frames'[i])
  <2>1. Len(frames') = Len(frames) + 1 /\ Len(frames) \in Nat
    BY <1>1, AppendProperties
  <2>2. CASE i = Len(frames) + 1
    BY <1>1, <2>2, AppendProperties
  <2>3. CASE i # Len(frames) + 1
    <3>1. i \in 1 .. Len(frames) /\ frames'[i] = frames[i]
      BY <1>1, <2>1, <2>3, AppendProperties
    <3> QED
      BY <3>1 DEF SharedInv
  <2> QED
    BY <2>2, <2>3
<1>3. \A i \in 1 .. Len(frames') : FrameRight(frames[i])'
  BY <1>2 DEF FrameRight, TableRight
<1> QED
  BY <1>1, <1>3, AppendProperties

(* What is left of a sequence without its last element. *)
LEMMA WithoutLast ==
  ASSUME NEW S, NEW s \in Seq(S), s # <<>>
  PROVE  /\ Len(s) \in Nat \ {0}
         /\ SubSeq(s, 1, Len(s) - 1) \in Seq(S)
         /\ Len(SubSeq(s, 1, Len(s) - 1)) = Len(s) - 1
         /\ \A i \in 1 .. Len(s) - 1 : SubSeq(s, 1, Len(s) - 1)[i] = s[i]
         /\ s[Len(s)] \in S
<1>1. Len(s) \in Nat \ {0}
  BY EmptySeq
<1>2. 1 \in 1 .. Len(s) + 1 /\ Len(s) - 1 \in (1 - 1) .. Len(s)
  BY <1>1
<1> DEFINE rest == SubSeq(s, 1, Len(s) - 1)
<1>3. /\ rest \in Seq(S)
      /\ Len(rest) = (IF 1 <= Len(s) - 1 THEN (Len(s) - 1) - 1 + 1 ELSE 0)
      /\ \A i \in 1 .. (Len(s) - 1) - 1 + 1 : rest[i] = s[1 + i - 1]
  BY <1>1, <1>2, SubSeqProperties
<1> HIDE DEF rest
<1>4. ASSUME NEW n \in Nat \ {0}
      PROVE  (IF 1 <= n - 1 THEN (n - 1) - 1 + 1 ELSE 0) = n - 1
  OBVIOUS
<1>5. Len(rest) = (IF 1 <= Len(s) - 1 THEN (Len(s) - 1) - 1 + 1 ELSE 0)
  BY <1>3
<1>6. Len(rest) = Len(s) - 1
  BY <1>1, <1>4, <1>5, Zenon
<1>7. \A i \in 1 .. Len(s) - 1 : rest[i] = s[i]
  BY <1>1, <1>3
<1>8. s[Len(s)] \in S
  BY <1>1
<1> QED
  BY <1>1, <1>3, <1>6, <1>7, <1>8 DEF rest

(* The frames that stay when the innermost call or block is left.          *)
LEMMA LeaveRight ==
  ASSUME SharedInv, frames # <<>>, Leave, UNCHANGED <<uidOf, driverOf>>
  PROVE  /\ frames' \in Seq(CallOrBlock)
         /\ \A i \in 1 .. Len(frames') : FrameRight(frames[i])'
         /\ Innermost \in CallOrBlock /\ FrameRight(Innermost)
<1>1. frames \in Seq(CallOrBlock) /\ frames' = SubSeq(frames, 1, Len(frames) - 1)
  BY DEF SharedInv, SharedTyped, Leave
<1>2. /\ Len(frames) \in Nat \ {0}
      /\ frames' \in Seq(CallOrBlock) /\ Len(frames') = Len(frames) - 1
      /\ \A i \in 1 .. Len(frames) - 1 : frames'[i] = frames[i]
      /\ frames[Len(frames)] \in CallOrBlock
  BY <1>1, WithoutLast
<1>3. \A i \in 1 .. Len(frames) : FrameRight(frames[i])
  BY DEF SharedInv
<1>4. ASSUME NEW i \in 1 .. Len(frames')
      PROVE  FrameRight(frames[i])'
  <2>1. i \in 1 .. Len(frames) - 1 /\ i \in 1 .. Len(frames)
    BY <1>2
  <2>2. FrameRight(frames'[i])
    BY <1>2, <1>3, <2>1
  <2> QED
    BY <2>2 DEF FrameRight, TableRight
<1>5. Len(frames) \in 1 .. Len(frames)
  BY <1>2
<1> QED
  BY <1>2, <1>3, <1>4, <1>5 DEF Innermost

LEMMA SharedInvInit == SharedInit => SharedInv
<1> SUFFICES ASSUME SharedInit
             PROVE  SharedInv
  OBVIOUS
<1>1. SharedTyped
  BY SharedAssumption, EmptySeq DEF SharedInit, SharedTyped, Fresh
<1>2. UidsRight
  BY SharedAssumption DEF SharedInit, UidsRight
<1>3. TableRight(expr2sig)
  BY <1>1, NothingKnown DEF SharedInit
<1>4. Len(frames) = 0
  BY DEF SharedInit
<1> QED
  BY <1>1, <1>2, <1>3, <1>4 DEF SharedInv

(* What is right stays right while the uids and the wires do not change.   *)
LEMMA TableSame ==
  ASSUME UNCHANGED <<uidOf, driverOf>>, NEW t, TableRight(t)
  PROVE  TableRight(t)'
BY DEF TableRight

LEMMA SharedInvStep == SharedInv /\ [SharedNext]_sharedVars => SharedInv'
<1> SUFFICES ASSUME SharedInv, [SharedNext]_sharedVars
             PROVE  SharedInv'
  OBVIOUS
<1>0. SharedTyped /\ UidsRight /\ TableRight(expr2sig)
  BY DEF SharedInv
<1>a. TableRight(Fresh) /\ Fresh \in [Uid -> Nat] /\ <<>> \in Seq(Nat)
  BY <1>0, NothingKnown, SharedAssumption, EmptySeq DEF Fresh
<1>b. PICK t : t = expr2sig /\ TableRight(t)
  BY <1>0
<1>c. PICK none : none = Fresh /\ TableRight(none)
  BY <1>a
<1>d. ASSUME UNCHANGED <<uidOf, nextUid, driverOf>>
      PROVE  /\ UidsRight'
             /\ UNCHANGED expr2sig => TableRight(expr2sig)'
             /\ expr2sig' = Fresh => TableRight(expr2sig)'
  <2>1. TableRight(t)' /\ TableRight(none)'
    BY <1>b, <1>c, <1>d, TableSame
  <2> QED
    BY <1>0, <1>b, <1>c, <1>d, <2>1 DEF UidsRight, TableRight
<1>1. ASSUME NEW e \in Object, NEW force \in BOOLEAN, Share(e, force)
      PROVE  SharedInv'
  BY <1>1, ShareStep
<1>2. ASSUME NEW e \in Object, HelperWire(e) \/ EmissionWire(e)
      PROVE  SharedInv'
  BY <1>2, UntabledStep DEF HelperWire, EmissionWire
<1>3. CASE CallDecorated
  <2> DEFINE frame == [kind |-> "call", counts |-> counts, expr2sig |-> expr2sig,
                       wires |-> wires, flag |-> opportunistic]
  <2>1. /\ Enter(frame)
        /\ counts' = Fresh /\ expr2sig' = Fresh /\ wires' = <<>>
        /\ UNCHANGED <<uidOf, nextUid, driverOf, opportunistic>>
    BY <1>3 DEF CallDecorated, UidAfterReset
  <2>2. frame \in CallOrBlock /\ FrameRight(frame)
    BY <1>0 DEF SharedTyped, CallFrame, CallOrBlock, FrameRight
  <2> HIDE DEF frame
  <2>3. frames' \in Seq(CallOrBlock) /\ \A i \in 1 .. Len(frames') : FrameRight(frames[i])'
    BY <2>1, <2>2, EnterRight
  <2>4. SharedTyped'
    BY <1>0, <1>a, <2>1, <2>3 DEF SharedTyped
  <2> QED
    BY <1>d, <2>1, <2>3, <2>4 DEF SharedInv
<1>4. CASE ReturnDecorated
  <2>1. /\ frames # <<>> /\ Innermost.kind = "call" /\ Leave
        /\ counts' = Innermost.counts /\ expr2sig' = Innermost.expr2sig
        /\ wires' = Innermost.wires
        /\ UNCHANGED <<uidOf, nextUid, driverOf, opportunistic>>
    BY <1>4 DEF ReturnDecorated, RestoredSignals, UidAfterReset
  <2>2. /\ frames' \in Seq(CallOrBlock)
        /\ \A i \in 1 .. Len(frames') : FrameRight(frames[i])'
        /\ Innermost \in CallOrBlock /\ FrameRight(Innermost)
    BY <2>1, LeaveRight
  <2>3. Innermost \in CallFrame
    BY <2>1, <2>2 DEF FlatFrame, CaptureFrame, CallOrBlock
  <2>4. SharedTyped'
    BY <1>0, <2>1, <2>2, <2>3 DEF SharedTyped, CallFrame
  <2>5. PICK t2 : t2 = Innermost.expr2sig /\ TableRight(t2)
    BY <2>1, <2>2 DEF FrameRight
  <2>6. TableRight(t2)'
    BY <2>1, <2>5, TableSame
  <2>7. TableRight(expr2sig)'
    BY <2>1, <2>5, <2>6 DEF TableRight
  <2> QED
    BY <1>d, <2>1, <2>2, <2>4, <2>7 DEF SharedInv
<1>5. ASSUME NEW enabled \in BOOLEAN, EnterFlat(enabled)
      PROVE  SharedInv'
  <2> DEFINE frame == [kind |-> "flat", flag |-> opportunistic]
  <2>1. /\ Enter(frame) /\ opportunistic' = ~enabled
        /\ UNCHANGED <<uidOf, nextUid, counts, expr2sig, driverOf, wires>>
    BY <1>5 DEF EnterFlat
  <2>2. frame \in CallOrBlock /\ FrameRight(frame)
    BY <1>0 DEF SharedTyped, FlatFrame, CallOrBlock, FrameRight
  <2> HIDE DEF frame
  <2>3. frames' \in Seq(CallOrBlock) /\ \A i \in 1 .. Len(frames') : FrameRight(frames[i])'
    BY <2>1, <2>2, EnterRight
  <2>4. SharedTyped'
    BY <1>0, <2>1, <2>3 DEF SharedTyped
  <2> QED
    BY <1>d, <2>1, <2>3, <2>4 DEF SharedInv
<1>6. CASE EnterCapture
  <2> DEFINE frame == [kind |-> "capture", start |-> Len(wires), known |-> expr2sig]
  <2>1. /\ Enter(frame)
        /\ UNCHANGED <<uidOf, nextUid, counts, expr2sig, driverOf, wires, opportunistic>>
    BY <1>6 DEF EnterCapture
  <2>2. frame \in CallOrBlock /\ FrameRight(frame)
    BY <1>0 DEF SharedTyped, CaptureFrame, CallOrBlock, FrameRight
  <2> HIDE DEF frame
  <2>3. frames' \in Seq(CallOrBlock) /\ \A i \in 1 .. Len(frames') : FrameRight(frames[i])'
    BY <2>1, <2>2, EnterRight
  <2>4. SharedTyped'
    BY <1>0, <2>1, <2>3 DEF SharedTyped
  <2> QED
    BY <1>d, <2>1, <2>3, <2>4 DEF SharedInv
<1>7. CASE LeaveFlat \/ LeaveCapture \/ RaiseOut
  <2>1. /\ frames # <<>> /\ Leave
        /\ UNCHANGED <<uidOf, nextUid, counts, expr2sig, driverOf, wires>>
        /\ \/ opportunistic' = opportunistic
           \/ Innermost.kind = "flat" /\ opportunistic' = Innermost.flag
    BY <1>7 DEF LeaveFlat, LeaveCapture, RaiseOut
  <2>2. /\ frames' \in Seq(CallOrBlock)
        /\ \A i \in 1 .. Len(frames') : FrameRight(frames[i])'
        /\ Innermost \in CallOrBlock
    BY <2>1, LeaveRight
  <2>3. Innermost.kind = "flat" => Innermost.flag \in BOOLEAN
    BY <2>2 DEF CallFrame, FlatFrame, CaptureFrame, CallOrBlock
  <2>4. opportunistic' \in BOOLEAN
    BY <1>0, <2>1, <2>3, Zenon DEF SharedTyped
  <2>5. SharedTyped'
    BY <1>0, <2>1, <2>2, <2>4 DEF SharedTyped
  <2> QED
    BY <1>d, <2>1, <2>2, <2>5 DEF SharedInv
<1>8. CASE ResetShared
  <2>1. /\ counts' = Fresh /\ expr2sig' = Fresh /\ wires' = <<>>
        /\ UNCHANGED <<uidOf, nextUid, driverOf, opportunistic, frames>>
        /\ frames = <<>>
    BY <1>8 DEF ResetShared, UidAfterReset
  <2>2. SharedTyped'
    BY <1>0, <1>a, <2>1 DEF SharedTyped
  <2>3. Len(frames') = 0
    BY <2>1
  <2> QED
    BY <1>d, <2>1, <2>2, <2>3 DEF SharedInv
<1>9. CASE UNCHANGED sharedVars
  <2>1. UNCHANGED <<uidOf, nextUid, counts, expr2sig, driverOf, wires, opportunistic, frames>>
    BY <1>9 DEF sharedVars
  <2>2. SharedTyped'
    BY <1>0, <2>1 DEF SharedTyped
  <2>3. ASSUME NEW i \in 1 .. Len(frames')
        PROVE  FrameRight(frames[i])'
    <3>1. FrameRight(frames'[i])
      BY <2>1 DEF SharedInv
    <3> QED
      BY <2>1, <3>1 DEF FrameRight, TableRight
  <2> QED
    BY <1>d, <2>1, <2>2, <2>3 DEF SharedInv
<1> QED
  BY <1>1, <1>2, <1>3, <1>4, <1>5, <1>6, <1>7, <1>8, <1>9 DEF SharedNext

(* The tables, current and put aside, are right throughout.                *)
THEOREM SharedInvHolds == SharedSpec => []SharedInv
BY SharedInvInit, SharedInvStep, PTL DEF SharedSpec

(* A table knows a wire under an object's uid only if it is the object's.  *)
LEMMA TableKnown ==
  ASSUME UidsRight, NEW t, TableRight(t)
  PROVE  Known(t)
BY SharedAssumption DEF UidsRight, TableRight, Known

(* The wire found for an expression is driven by it, in every context,     *)
(* whatever was put aside and whatever raised.                             *)
THEOREM SharedWiresRight == SharedSpec => []WireOfItsExpression
<1>1. SharedInv => WireOfItsExpression
  <2> SUFFICES ASSUME SharedInv
               PROVE  WireOfItsExpression
    OBVIOUS
  <2>1. UidsRight /\ TableRight(expr2sig)
    BY DEF SharedInv
  <2>2. ASSUME NEW n \in 1 .. Len(frames), frames[n].kind = "call"
        PROVE  TableRight(frames[n].expr2sig)
    BY <2>2 DEF SharedInv, FrameRight
  <2> QED
    BY <2>1, <2>2, TableKnown DEF WireOfItsExpression
<1> QED
  BY <1>1, SharedInvHolds, PTL

-----------------------------------------------------------------------------
(* What a captured block finds.                                            *)

(* The list of a context, read from where the block began, holds what its  *)
(* table came to know since.                                               *)
Covers(capture, table, list) ==
  /\ capture.start <= Len(list)
  /\ \A u \in Uid : table[u] # NoWire =>
       \/ table[u] = capture.known[u]
       \/ \E k \in capture.start + 1 .. Len(list) : list[k] = table[u]

NoCall(fs, i, j) == \A k \in i .. j : fs[k].kind # "call"

(* A block belongs to the context that the next call inside it put aside,  *)
(* or to the current one when there is no such call.                       *)
AllCovered(fs, table, list) ==
  /\ \A i \in 1 .. Len(fs) :
       fs[i].kind = "capture" /\ NoCall(fs, i + 1, Len(fs)) => Covers(fs[i], table, list)
  /\ \A i, j \in 1 .. Len(fs) :
       /\ i < j /\ NoCall(fs, i + 1, j - 1)
       /\ fs[i].kind = "capture" /\ fs[j].kind = "call"
       => Covers(fs[i], fs[j].expr2sig, fs[j].wires)

CapturesRight == ~escaped => AllCovered(frames, expr2sig, wires)

(* A call puts the context of the blocks around it aside.                  *)
LEMMA CoveredInCall ==
  ASSUME NEW fs \in Seq(CallOrBlock), NEW table, NEW list, AllCovered(fs, table, list),
         NEW f \in CallOrBlock, f.kind = "call", f.expr2sig = table, f.wires = list,
         NEW table2, NEW list2
  PROVE  AllCovered(Append(fs, f), table2, list2)
<1> DEFINE gs == Append(fs, f)
<1>1. /\ Len(fs) \in Nat /\ Len(gs) = Len(fs) + 1 /\ gs[Len(fs) + 1] = f
      /\ \A k \in 1 .. Len(fs) : gs[k] = fs[k]
  BY AppendProperties
<1> HIDE DEF gs
<1>2. ASSUME NEW i \in 1 .. Len(gs), gs[i].kind = "capture"
      PROVE  i \in 1 .. Len(fs) /\ ~NoCall(gs, i + 1, Len(gs))
  BY <1>1, <1>2 DEF NoCall
<1>3. ASSUME NEW i \in 1 .. Len(gs), NEW j \in 1 .. Len(gs),
             i < j, NoCall(gs, i + 1, j - 1), gs[i].kind = "capture", gs[j].kind = "call"
      PROVE  Covers(gs[i], gs[j].expr2sig, gs[j].wires)
  <2>1. i \in 1 .. Len(fs) /\ gs[i] = fs[i] /\ NoCall(fs, i + 1, j - 1)
    BY <1>1, <1>2, <1>3 DEF NoCall
  <2>2. CASE j = Len(fs) + 1
    <3>1. NoCall(fs, i + 1, Len(fs)) /\ gs[j] = f
      BY <1>1, <2>1, <2>2
    <3> QED
      BY <1>3, <2>1, <3>1 DEF AllCovered
  <2>3. CASE j # Len(fs) + 1
    <3>1. j \in 1 .. Len(fs) /\ gs[j] = fs[j]
      BY <1>1, <2>3
    <3> QED
      BY <1>3, <2>1, <3>1 DEF AllCovered
  <2> QED
    BY <2>2, <2>3
<1>4. AllCovered(gs, table2, list2)
  BY <1>2, <1>3 DEF AllCovered
<1> QED
  BY <1>4 DEF gs

(* A block leaves the context alone.                                       *)
LEMMA CoveredInBlock ==
  ASSUME NEW fs \in Seq(CallOrBlock), NEW table, NEW list, AllCovered(fs, table, list),
         NEW f \in CallOrBlock, f.kind # "call", f.kind = "capture" => Covers(f, table, list)
  PROVE  AllCovered(Append(fs, f), table, list)
<1> DEFINE gs == Append(fs, f)
<1>1. /\ Len(fs) \in Nat /\ Len(gs) = Len(fs) + 1 /\ gs[Len(fs) + 1] = f
      /\ \A k \in 1 .. Len(fs) : gs[k] = fs[k]
  BY AppendProperties
<1> HIDE DEF gs
<1>2. ASSUME NEW i \in 1 .. Len(gs), gs[i].kind = "capture", NoCall(gs, i + 1, Len(gs))
      PROVE  Covers(gs[i], table, list)
  <2>1. CASE i = Len(fs) + 1
    BY <1>1, <1>2, <2>1
  <2>2. CASE i # Len(fs) + 1
    <3>1. i \in 1 .. Len(fs) /\ gs[i] = fs[i] /\ NoCall(fs, i + 1, Len(fs))
      BY <1>1, <1>2, <2>2 DEF NoCall
    <3> QED
      BY <1>2, <3>1 DEF AllCovered
  <2> QED
    BY <2>1, <2>2
<1>3. ASSUME NEW i \in 1 .. Len(gs), NEW j \in 1 .. Len(gs),
             i < j, NoCall(gs, i + 1, j - 1), gs[i].kind = "capture", gs[j].kind = "call"
      PROVE  Covers(gs[i], gs[j].expr2sig, gs[j].wires)
  <2>1. j \in 1 .. Len(fs) /\ i \in 1 .. Len(fs)
    BY <1>1, <1>3
  <2>2. gs[i] = fs[i] /\ gs[j] = fs[j] /\ NoCall(fs, i + 1, j - 1)
    BY <1>1, <1>3, <2>1 DEF NoCall
  <2> QED
    BY <1>3, <2>1, <2>2 DEF AllCovered
<1>4. AllCovered(gs, table, list)
  BY <1>2, <1>3 DEF AllCovered
<1> QED
  BY <1>4 DEF gs

(* Leaving a call brings back the context of the blocks around it, leaving *)
(* a block keeps it.                                                       *)
LEMMA CoveredOutside ==
  ASSUME NEW fs \in Seq(CallOrBlock), fs # <<>>, NEW table, NEW list, AllCovered(fs, table, list)
  PROVE  LET last == fs[Len(fs)]
             rest == SubSeq(fs, 1, Len(fs) - 1)
         IN  IF last.kind = "call" THEN AllCovered(rest, last.expr2sig, last.wires)
             ELSE AllCovered(rest, table, list)
<1> DEFINE last == fs[Len(fs)]
           rest == SubSeq(fs, 1, Len(fs) - 1)
<1>1. /\ Len(fs) \in Nat \ {0} /\ Len(rest) = Len(fs) - 1
      /\ \A k \in 1 .. Len(rest) : rest[k] = fs[k]
  <2>1. Len(fs) \in Nat \ {0} /\ Len(rest) = Len(fs) - 1
    BY WithoutLast
  <2>2. \A k \in 1 .. Len(fs) - 1 : rest[k] = fs[k]
    BY WithoutLast
  <2> QED
    BY <2>1, <2>2
<1> HIDE DEF rest
<1>2. ASSUME NEW i \in 1 .. Len(rest), NEW j \in 1 .. Len(rest),
             i < j, NoCall(rest, i + 1, j - 1), rest[i].kind = "capture", rest[j].kind = "call"
      PROVE  Covers(rest[i], rest[j].expr2sig, rest[j].wires)
  <2>1. /\ j \in 1 .. Len(fs) /\ i \in 1 .. Len(fs)
        /\ rest[i] = fs[i] /\ rest[j] = fs[j]
    BY <1>1
  <2>2. \A k \in i + 1 .. j - 1 : k \in 1 .. Len(rest)
    BY <1>1
  <2>3. NoCall(fs, i + 1, j - 1)
    BY <1>1, <1>2, <2>2 DEF NoCall
  <2> QED
    BY <1>2, <2>1, <2>3 DEF AllCovered
<1>3. ASSUME NEW i \in 1 .. Len(rest), rest[i].kind = "capture", NoCall(rest, i + 1, Len(rest))
      PROVE  IF last.kind = "call" THEN Covers(rest[i], last.expr2sig, last.wires)
             ELSE Covers(rest[i], table, list)
  <2>1. /\ i \in 1 .. Len(fs) /\ i < Len(fs) /\ Len(fs) \in 1 .. Len(fs)
        /\ rest[i] = fs[i] /\ NoCall(fs, i + 1, Len(fs) - 1)
    BY <1>1, <1>3 DEF NoCall
  <2>2. CASE last.kind = "call"
    BY <1>3, <2>1, <2>2 DEF AllCovered
  <2>3. CASE last.kind # "call"
    <3>1. NoCall(fs, i + 1, Len(fs))
      BY <1>1, <2>1, <2>3 DEF NoCall
    <3> QED
      BY <1>3, <2>1, <2>3, <3>1 DEF AllCovered
  <2> QED
    BY <2>2, <2>3
<1>4. IF last.kind = "call" THEN AllCovered(rest, last.expr2sig, last.wires)
      ELSE AllCovered(rest, table, list)
  BY <1>2, <1>3 DEF AllCovered
<1> QED
  BY <1>4 DEF rest

(* A list that grows, with the wire the table came to know if it did.      *)
LEMMA CoveredGrown ==
  ASSUME NEW fs \in Seq(CallOrBlock), NEW table \in [Uid -> Nat], NEW list \in Seq(Nat), NEW w \in Nat,
         AllCovered(fs, table, list), NEW table2,
         table2 = table \/ \E u \in Uid : table2 = [table EXCEPT ![u] = w]
  PROVE  AllCovered(fs, table2, Append(list, w))
<1> DEFINE grown == Append(list, w)
<1>1. /\ Len(list) \in Nat /\ Len(grown) = Len(list) + 1 /\ grown[Len(list) + 1] = w
      /\ \A k \in 1 .. Len(list) : grown[k] = list[k]
  BY AppendProperties
<1> HIDE DEF grown
<1>2. \A u \in Uid : table2[u] = table[u] \/ table2[u] = w
  OBVIOUS
<1>3. ASSUME NEW i \in 1 .. Len(fs), fs[i].kind = "capture", Covers(fs[i], table, list)
      PROVE  Covers(fs[i], table2, grown)
  <2>1. fs[i].start \in Nat
    BY <1>3 DEF CallOrBlock, CallFrame, FlatFrame, CaptureFrame
  <2>2. fs[i].start <= Len(grown) /\ Len(list) + 1 \in fs[i].start + 1 .. Len(grown)
    BY <1>1, <1>3, <2>1 DEF Covers
  <2>3. \A k \in fs[i].start + 1 .. Len(list) :
          k \in fs[i].start + 1 .. Len(grown) /\ grown[k] = list[k]
    BY <1>1, <2>1
  <2> QED
    BY <1>1, <1>2, <1>3, <2>2, <2>3 DEF Covers
<1>4. AllCovered(fs, table2, grown)
  BY <1>3 DEF AllCovered
<1> QED
  BY <1>4 DEF grown

LEMMA CapturesRightStep ==
  SharedInv /\ CapturesRight /\ [SharedNext]_sharedVars => CapturesRight'
<1> SUFFICES ASSUME SharedInv, CapturesRight, [SharedNext]_sharedVars, ~escaped'
             PROVE  AllCovered(frames', expr2sig', wires')
  BY DEF CapturesRight
<1>0. frames \in Seq(CallOrBlock) /\ expr2sig \in [Uid -> Nat] /\ wires \in Seq(Nat)
      /\ driverOf \in Seq(Object) /\ Len(driverOf) + 1 \in Nat
  BY DEF SharedInv, SharedTyped
<1>a. ~escaped => AllCovered(frames, expr2sig, wires)
  BY DEF CapturesRight
<1>1. ASSUME NEW e \in Object, NEW force \in BOOLEAN, Share(e, force)
      PROVE  AllCovered(frames', expr2sig', wires')
  <2> DEFINE u == IF uidOf[e] # NoWire THEN uidOf[e] ELSE nextUid
             n == Len(driverOf) + 1
  <2>1. /\ UNCHANGED <<frames, escaped>> /\ u \in Uid
        /\ \/ UNCHANGED <<expr2sig, wires>>
           \/ wires' = Append(wires, n) /\ expr2sig' = [expr2sig EXCEPT ![u] = n]
    BY <1>1 DEF Share, NewWire
  <2>2. n \in Nat
    BY <1>0
  <2> HIDE DEF u, n
  <2>3. AllCovered(frames, expr2sig, wires)
    BY <1>a, <2>1
  <2>4. CASE UNCHANGED <<expr2sig, wires>>
    BY <2>1, <2>3, <2>4
  <2>5. CASE wires' = Append(wires, n) /\ expr2sig' = [expr2sig EXCEPT ![u] = n]
    <3>1. PICK table2 : table2 = [expr2sig EXCEPT ![u] = n]
      OBVIOUS
    <3>2. AllCovered(frames, table2, Append(wires, n))
      BY <1>0, <2>1, <2>2, <2>3, <3>1, CoveredGrown
    <3> QED
      BY <2>1, <2>5, <3>1, <3>2
  <2> QED
    BY <2>1, <2>4, <2>5
<1>2. ASSUME NEW e \in Object, HelperWire(e) \/ EmissionWire(e)
      PROVE  AllCovered(frames', expr2sig', wires')
  <2>1. UNCHANGED <<frames, expr2sig, escaped>> /\ wires' = Append(wires, Len(driverOf) + 1)
    BY <1>2 DEF HelperWire, EmissionWire, UntabledWire, NewWire
  <2> QED
    BY <1>0, <1>a, <2>1, CoveredGrown
<1>3. CASE CallDecorated
  <2> DEFINE frame == [kind |-> "call", counts |-> counts, expr2sig |-> expr2sig,
                       wires |-> wires, flag |-> opportunistic]
  <2>1. frames' = Append(frames, frame) /\ UNCHANGED escaped
    BY <1>3 DEF CallDecorated, Enter
  <2>2. frame \in CallOrBlock
    BY DEF SharedInv, SharedTyped, CallFrame, CallOrBlock
  <2>3. frame.kind = "call" /\ frame.expr2sig = expr2sig /\ frame.wires = wires
    OBVIOUS
  <2> HIDE DEF frame
  <2> QED
    BY <1>0, <1>a, <2>1, <2>2, <2>3, CoveredInCall
<1>4. ASSUME NEW enabled \in BOOLEAN, EnterFlat(enabled)
      PROVE  AllCovered(frames', expr2sig', wires')
  <2> DEFINE frame == [kind |-> "flat", flag |-> opportunistic]
  <2>1. frames' = Append(frames, frame) /\ UNCHANGED <<expr2sig, wires, escaped>>
    BY <1>4 DEF EnterFlat, Enter
  <2>2. frame \in CallOrBlock /\ frame.kind = "flat"
    BY DEF SharedInv, SharedTyped, FlatFrame, CallOrBlock
  <2> HIDE DEF frame
  <2> QED
    BY <1>0, <1>a, <2>1, <2>2, CoveredInBlock
<1>5. CASE EnterCapture
  <2> DEFINE frame == [kind |-> "capture", start |-> Len(wires), known |-> expr2sig]
  <2>1. frames' = Append(frames, frame) /\ UNCHANGED <<expr2sig, wires, escaped>>
    BY <1>5 DEF EnterCapture, Enter
  <2>2. frame \in CallOrBlock /\ frame.kind = "capture" /\ Covers(frame, expr2sig, wires)
    BY <1>0 DEF CaptureFrame, CallOrBlock, Covers
  <2> HIDE DEF frame
  <2> QED
    BY <1>0, <1>a, <2>1, <2>2, CoveredInBlock
<1>6. CASE ReturnDecorated
  <2>1. /\ frames # <<>> /\ frames[Len(frames)].kind = "call"
        /\ frames' = SubSeq(frames, 1, Len(frames) - 1)
        /\ expr2sig' = frames[Len(frames)].expr2sig /\ wires' = frames[Len(frames)].wires
        /\ UNCHANGED escaped
    BY <1>6 DEF ReturnDecorated, RestoredSignals, Innermost, Leave
  <2> QED
    BY <1>0, <1>a, <2>1, CoveredOutside
<1>7. CASE LeaveFlat \/ LeaveCapture \/ RaiseOut
  <2>1. /\ frames # <<>> /\ frames' = SubSeq(frames, 1, Len(frames) - 1)
        /\ UNCHANGED <<expr2sig, wires>>
    BY <1>7 DEF LeaveFlat, LeaveCapture, RaiseOut, Leave
  <2>2. Innermost.kind # "call" /\ ~escaped
    <3>1. CASE LeaveFlat \/ LeaveCapture
      <4>1. UNCHANGED escaped
        BY <3>1, Zenon DEF LeaveFlat, LeaveCapture
      <4>2. Innermost.kind # "call"
        BY <3>1 DEF LeaveFlat, LeaveCapture
      <4> QED
        BY <4>1, <4>2
    <3>2. CASE RaiseOut
      BY <3>2, Zenon DEF RaiseOut
    <3> QED
      BY <1>7, <3>1, <3>2
  <2> QED
    BY <1>0, <1>a, <2>1, <2>2, CoveredOutside DEF Innermost
<1>8. CASE ResetShared
  <2>1. Len(frames') = 0
    BY <1>8 DEF ResetShared
  <2> QED
    BY <2>1 DEF AllCovered
<1>9. CASE UNCHANGED sharedVars
  BY <1>9, <1>a DEF sharedVars
<1> QED
  BY <1>1, <1>2, <1>3, <1>4, <1>5, <1>6, <1>7, <1>8, <1>9 DEF SharedNext

(* An FSM optimizer's block finds every wire it should, however many       *)
(* decorated calls and other blocks begin and end, or raise out of a       *)
(* block, in between, and wherever the wires of emissions go.              *)
THEOREM SharedCapturesFind == SharedSpec => []CaptureFindsAll
<1>1. SharedInit => CapturesRight
  <2> SUFFICES ASSUME SharedInit
               PROVE  AllCovered(frames, expr2sig, wires)
    BY DEF CapturesRight
  <2>1. Len(frames) = 0
    BY DEF SharedInit
  <2> QED
    BY <2>1 DEF AllCovered
<1>2. SharedInv /\ CapturesRight => CaptureFindsAll
  <2> SUFFICES ASSUME SharedInv, CapturesRight, ~escaped, frames # <<>>, Innermost.kind = "capture"
               PROVE  Finds(NewWires(Innermost.start), expr2sig, Innermost.known)
    BY DEF CaptureFindsAll
  <2>1. frames \in Seq(CallOrBlock) /\ Len(frames) \in Nat \ {0}
    BY EmptySeq DEF SharedInv, SharedTyped
  <2>2. Len(frames) \in 1 .. Len(frames) /\ NoCall(frames, Len(frames) + 1, Len(frames))
    BY <2>1 DEF NoCall
  <2>3. Covers(Innermost, expr2sig, wires)
    BY <2>2 DEF CapturesRight, AllCovered, Innermost
  <2> QED
    BY <2>3 DEF Covers, Finds, NewWires
<1> QED
  BY <1>1, <1>2, CapturesRightStep, SharedInvHolds, PTL DEF SharedSpec
=============================================================================
