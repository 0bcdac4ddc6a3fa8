------------------------- MODULE AdmissionGateProofs ------------------------
(***************************************************************************)
(* What holds of admission for every number of processes, sources and      *)
(* structures, of calls and of kills.                                      *)
(***************************************************************************)
EXTENDS AdmissionGate, TLAPS

(* The steps of a call between the gate and its last write ...             *)
Verified == {"check_tmp", "rm_open", "rm_files", "mkdir", "write",
             "check_final", "admit"}
(* ... and all the steps of an insert before it returns.                   *)
Inserting == Verified \cup {"scan", "gate", "bump", "bump_write"}

(* What a process remembers is what its next step needs. *)
Remembers(p) ==
  /\ pc[p] \in Inserting => job[p] \in Hash /\ calls[p] \in 1 .. MaxCalls
  /\ pc[p] = "rm_files" => dir[p] \in Inode
  /\ pc[p] = "write" => written[p] < Len(FileOrder)

(* Past the gate, the structure is one the oracle passes. *)
PastGate(p) == pc[p] \in Verified => job[p] \in Correct

(* A call that has found a duplicate, or lost a race, has an admitted      *)
(* design of its structure to return.                                      *)
HasHit(p) ==
  \/ pc[p] \in {"bump", "bump_write"}
  \/ pc[p] \in {"rm_open", "rm_files"} /\ after[p] = "bump"

FoundHit(p) == HasHit(p) => hit[p] \in Derived /\ hit[p][2] = job[p]

GateInv ==
  /\ TypeOK
  /\ \A p \in Proc : Remembers(p) /\ PastGate(p) /\ FoundHit(p)
  /\ OnlyVerified
  /\ CacheOnlyLags

-----------------------------------------------------------------------------
LEMMA GateInvInit == ASSUME Init PROVE GateInv
<1> USE GateAssumption
<1>1. Derived = {}
  BY DEF Init, Derived
<1>2. TypeOK
  <2>1. /\ tmp \in [Id -> Inode \cup {None}]
        /\ final \in [Id -> Inode \cup {None}]
        /\ files \in [Inode -> SUBSET File]
        /\ cache \subseteq Id
        /\ crashes \in 0 .. MaxCrashes
    BY DEF Init
  <2>2. /\ job \in [Proc -> Hash \cup {None}]
        /\ hit \in [Proc -> Id \cup {None}]
        /\ after \in [Proc -> {"mkdir", "bump"}]
        /\ dir \in [Proc -> Inode \cup {None}]
        /\ todo \in [Proc -> SUBSET File]
        /\ view \in [Proc -> SUBSET Id]
        /\ outcome \in [Proc -> {"none", "stored", "rejected", "undecided",
                                 "failed"}]
        /\ calls \in [Proc -> 0 .. MaxCalls]
    BY DEF Init
  <2>3. written \in [Proc -> 0 .. Len(FileOrder)]
    BY DEF Init, FileOrder
  <2>4. pc \in [Proc -> {"idle"}]
    BY DEF Init
  <2> QED
    BY <2>1, <2>2, <2>3, <2>4 DEF TypeOK
<1>3. \A p \in Proc : Remembers(p) /\ PastGate(p) /\ FoundHit(p)
  BY DEF Init, Remembers, PastGate, FoundHit, HasHit, Inserting, Verified
<1>4. OnlyVerified /\ CacheOnlyLags
  BY <1>1 DEF Init, OnlyVerified, CacheOnlyLags
<1> QED
  BY <1>2, <1>3, <1>4 DEF GateInv

(* The identifier and the directory of a call that is inserting. *)
LEMMA MyIdTyped ==
  ASSUME NEW p \in Proc, TypeOK, Remembers(p), pc[p] \in Inserting
  PROVE  /\ MyId(p) \in Id /\ MyId(p)[2] = job[p] /\ job[p] \in Hash
         /\ <<p, calls[p]>> \in Inode
  BY GateAssumption DEF Remembers, MyId, Id, Inode

LEMMA FileOrderTyped ==
  /\ Len(FileOrder) = 4
  /\ \A k \in 1 .. 4 : FileOrder[k] \in File
  /\ "provenance.json" \in File
  BY DEF FileOrder, File

(* An exception that leaves the call keeps the types, ...                  *)
LEMMA RaiseTyped ==
  ASSUME NEW p \in Proc, TypeOK, Raise(p)
  PROVE  TypeOK'
  BY DEF TypeOK, Raise, End, Goto, disk, tallies

(* ... and so does giving one directory other entries. *)
LEMMA FilesTyped ==
  ASSUME NEW i \in Inode, NEW fs \in SUBSET File, TypeOK,
         files' = [files EXCEPT ![i] = fs]
  PROVE  files' \in [Inode -> SUBSET File]
  BY DEF TypeOK

(* Every step preserves the types. *)
LEMMA GateTypeStep == ASSUME GateInv, [Next]_gateVars PROVE TypeOK'
<1> USE GateAssumption
<1>0. TypeOK /\ \A p \in Proc : Remembers(p) /\ FoundHit(p)
  BY DEF GateInv
<1>1. ASSUME NEW p \in Proc, NEW h \in Hash, Begin(p, h) PROVE TypeOK'
  BY <1>0, <1>1 DEF Begin, TypeOK, Remembers, Goto, disk
<1>2. ASSUME NEW p \in Proc, Scan(p) PROVE TypeOK'
  <2>1. Duplicates(p) \subseteq Id
    BY DEF Duplicates, Derived
  <2>2. CASE \E id \in Duplicates(p) : Goto(p, "bump") /\ hit' = [hit EXCEPT ![p] = id]
    BY <1>0, <1>2, <2>1, <2>2 DEF Scan, TypeOK, Goto, disk, tallies
  <2>3. CASE Goto(p, "gate") /\ UNCHANGED hit
    BY <1>0, <1>2, <2>3 DEF Scan, TypeOK, Goto, disk, tallies
  <2> QED
    BY <1>2, <2>2, <2>3 DEF Scan
<1>3. ASSUME NEW p \in Proc, RunGate(p) PROVE TypeOK'
  BY <1>0, <1>3 DEF RunGate, TypeOK, Goto, End, disk, tallies
<1>4. ASSUME NEW p \in Proc, CheckTmp(p) PROVE TypeOK'
  BY <1>0, <1>4 DEF CheckTmp, TypeOK, Goto, disk, tallies
<1>5. ASSUME NEW p \in Proc, RmOpen(p) PROVE TypeOK'
  <2>1. CASE Raise(p)
    BY <1>0, <2>1, RaiseTyped
  <2>2. CASE ~Raise(p)
    <3>1. MyId(p) \in Id
      BY <1>0, <1>5, MyIdTyped DEF RmOpen, Inserting, Verified
    <3>2. tmp[MyId(p)] \in Inode /\ files[tmp[MyId(p)]] \subseteq File
      BY <1>0, <1>5, <2>2, <3>1 DEF RmOpen, TypeOK
    <3> QED
      BY <1>0, <1>5, <2>2, <3>2 DEF RmOpen, TypeOK, Goto, disk, tallies
  <2> QED
    BY <2>1, <2>2
<1>6. ASSUME NEW p \in Proc, RmUnlink(p) PROVE TypeOK'
  <2>1. CASE Raise(p)
    BY <1>0, <2>1, RaiseTyped
  <2>2. CASE ~Raise(p)
    <3>1. PICK f \in todo[p] :
            /\ Goto(p, "rm_files")
            /\ todo' = [todo EXCEPT ![p] = @ \ {f}]
            /\ files' = [files EXCEPT ![dir[p]] = @ \ {f}]
            /\ UNCHANGED <<tmp, final, cache, job, hit, after, dir, written,
                           view, outcome, tallies>>
      BY <1>6, <2>2 DEF RmUnlink
    <3>2. dir[p] \in Inode
      BY <1>0, <1>6 DEF RmUnlink, Remembers
    <3>3. files[dir[p]] \ {f} \in SUBSET File
      BY <1>0, <3>2 DEF TypeOK
    <3>4. files' \in [Inode -> SUBSET File]
      <4>1. PICK fs \in SUBSET File : fs = files[dir[p]] \ {f}
        BY <3>3
      <4>2. files' = [files EXCEPT ![dir[p]] = fs]
        BY <3>1, <4>1
      <4> QED
        BY <1>0, <3>2, <4>2, FilesTyped
    <3>5. todo' \in [Proc -> SUBSET File]
      BY <1>0, <3>1 DEF TypeOK
    <3> QED
      BY <1>0, <3>1, <3>4, <3>5 DEF TypeOK, Goto, tallies
  <2> QED
    BY <2>1, <2>2
<1>7. ASSUME NEW p \in Proc, RmDir(p) PROVE TypeOK'
  <2>1. CASE Raise(p)
    BY <1>0, <2>1, RaiseTyped
  <2>2. CASE ~Raise(p)
    <3>1. /\ Goto(p, after[p])
          /\ tmp' = [tmp EXCEPT ![MyId(p)] = None]
          /\ dir' = [dir EXCEPT ![p] = None]
          /\ UNCHANGED <<final, files, cache, job, hit, after, todo, written,
                         view, outcome, tallies>>
      BY <1>7, <2>2 DEF RmDir
    <3>2. after[p] \in {"mkdir", "bump"}
      BY <1>0 DEF TypeOK
    <3> QED
      BY <1>0, <3>1, <3>2 DEF TypeOK, Goto, tallies
  <2> QED
    BY <2>1, <2>2
<1>8. ASSUME NEW p \in Proc, MkDir(p) PROVE TypeOK'
  <2>1. CASE Raise(p)
    BY <1>0, <2>1, RaiseTyped
  <2>2. CASE ~Raise(p)
    <3>1. <<p, calls[p]>> \in Inode
      BY <1>0, <1>8, MyIdTyped DEF MkDir, Inserting, Verified
    <3>2. /\ Goto(p, "write")
          /\ tmp' = [tmp EXCEPT ![MyId(p)] = <<p, calls[p]>>]
          /\ files' = [files EXCEPT ![<<p, calls[p]>>] = {}]
          /\ written' = [written EXCEPT ![p] = 0]
          /\ UNCHANGED <<final, cache, job, hit, after, dir, todo, view,
                         outcome, tallies>>
      BY <1>8, <2>2 DEF MkDir
    <3>3. files' \in [Inode -> SUBSET File]
      BY <1>0, <3>1, <3>2, FilesTyped
    <3>4. tmp' \in [Id -> Inode \cup {None}]
      BY <1>0, <3>1, <3>2 DEF TypeOK
    <3>5. written' \in [Proc -> 0 .. Len(FileOrder)]
      BY <1>0, <3>2, FileOrderTyped DEF TypeOK
    <3> QED
      BY <1>0, <3>2, <3>3, <3>4, <3>5 DEF TypeOK, Goto, tallies
  <2> QED
    BY <2>1, <2>2
<1>9. ASSUME NEW p \in Proc, WriteFile(p) PROVE TypeOK'
  <2>1. CASE Raise(p)
    BY <1>0, <2>1, RaiseTyped
  <2>2. CASE ~Raise(p)
    <3>1. MyId(p) \in Id
      BY <1>0, <1>9, MyIdTyped DEF WriteFile, Inserting, Verified
    <3>2. tmp[MyId(p)] \in Inode
      BY <1>0, <1>9, <2>2, <3>1 DEF WriteFile, TypeOK
    <3>3. written[p] \in 0 .. 3
      BY <1>0, <1>9, FileOrderTyped DEF WriteFile, TypeOK, Remembers
    <3>4. FileOrder[written[p] + 1] \in File
      BY <3>3, FileOrderTyped
    <3>5. AfterWrites(written[p] + 1) \in {"check_final", "write"}
      BY DEF AfterWrites
    <3>6. /\ Goto(p, AfterWrites(written[p] + 1))
          /\ files' = [files EXCEPT ![tmp[MyId(p)]] =
                         @ \cup {FileOrder[written[p] + 1]}]
          /\ written' = [written EXCEPT ![p] = @ + 1]
          /\ UNCHANGED <<tmp, final, cache, job, hit, after, dir, todo, view,
                         outcome, tallies>>
      BY <1>9, <2>2 DEF WriteFile
    <3>7. files[tmp[MyId(p)]] \cup {FileOrder[written[p] + 1]} \in SUBSET File
      BY <1>0, <3>2, <3>4 DEF TypeOK
    <3>8. files' \in [Inode -> SUBSET File]
      BY <1>0, <3>2, <3>6, <3>7, FilesTyped
    <3>9. written' \in [Proc -> 0 .. Len(FileOrder)]
      BY <1>0, <3>3, <3>6, FileOrderTyped DEF TypeOK
    <3> QED
      BY <1>0, <3>5, <3>6, <3>8, <3>9 DEF TypeOK, Goto, tallies
  <2> QED
    BY <2>1, <2>2
<1>10. ASSUME NEW p \in Proc, CheckFinal(p) PROVE TypeOK'
  <2>1. MyId(p) \in Id
    BY <1>0, <1>10, MyIdTyped DEF CheckFinal, Inserting, Verified
  <2> QED
    BY <1>0, <1>10, <2>1 DEF CheckFinal, TypeOK, Goto, disk, tallies
<1>11. ASSUME NEW p \in Proc, Admit(p) PROVE TypeOK'
  <2>1. CASE Raise(p)
    BY <1>0, <2>1, RaiseTyped
  <2>2. CASE ~Raise(p)
    <3>1. MyId(p) \in Id
      BY <1>0, <1>11, MyIdTyped DEF Admit, Inserting, Verified
    <3> QED
      BY <1>0, <1>11, <2>2, <3>1 DEF Admit, TypeOK, Goto, tallies
  <2> QED
    BY <2>1, <2>2
<1>12. ASSUME NEW p \in Proc, BumpRead(p) PROVE TypeOK'
  BY <1>0, <1>12 DEF BumpRead, TypeOK, Goto, End, disk, tallies
<1>13. ASSUME NEW p \in Proc, BumpWrite(p) PROVE TypeOK'
  <2>1. final[hit[p]] \in Inode
    BY <1>0, <1>13 DEF BumpWrite, TypeOK, FoundHit, HasHit, Derived
  <2> QED
    BY <1>0, <1>13, <2>1, FileOrderTyped DEF BumpWrite, TypeOK, Goto, End, tallies
<1>14. ASSUME NEW p \in Proc, BeginRead(p) PROVE TypeOK'
  BY <1>0, <1>14 DEF BeginRead, TypeOK, Goto, disk, tallies
<1>15. ASSUME NEW p \in Proc, DeriveIndex(p) PROVE TypeOK'
  BY <1>0, <1>15 DEF DeriveIndex, TypeOK, Derived, Goto, disk, tallies
<1>16. ASSUME NEW p \in Proc, RefreshCache(p) PROVE TypeOK'
  BY <1>0, <1>16 DEF RefreshCache, TypeOK, Goto, End, tallies
<1>17. ASSUME NEW p \in Proc, Crash(p) PROVE TypeOK'
  BY <1>0, <1>17 DEF Crash, TypeOK, disk
<1>18. CASE UNCHANGED gateVars
  BY <1>0, <1>18 DEF TypeOK, gateVars
<1> QED
  BY <1>1, <1>2, <1>3, <1>4, <1>5, <1>6, <1>7, <1>8, <1>9, <1>10, <1>11,
     <1>12, <1>13, <1>14, <1>15, <1>16, <1>17, <1>18 DEF Next, Insert, Read
-----------------------------------------------------------------------------
(* Nobody removes an admitted design, and only Admit adds one. *)
LEMMA OnlyAdmitAdds ==
  ASSUME [Next]_gateVars, \A p \in Proc : ~Admit(p)
  PROVE  UNCHANGED final
<1>1. ASSUME NEW p \in Proc, Insert(p)
      PROVE  UNCHANGED final
  BY <1>1 DEF Insert, Begin, Scan, RunGate, CheckTmp, RmOpen, RmUnlink, RmDir,
              MkDir, WriteFile, CheckFinal, BumpRead, BumpWrite, Raise, disk
<1>2. ASSUME NEW p \in Proc, Read(p) \/ Crash(p)
      PROVE  UNCHANGED final
  BY <1>2 DEF Read, BeginRead, DeriveIndex, RefreshCache, Crash, disk
<1> QED
  BY <1>1, <1>2 DEF Next, gateVars

LEMMA AdmitAdds ==
  ASSUME GateInv, NEW p \in Proc, Admit(p)
  PROVE  Derived \subseteq Derived' /\ Derived' \subseteq Derived \cup {MyId(p)}
<1>1. CASE Raise(p)
  BY <1>1 DEF Raise, disk, Derived
<1>2. CASE ~Raise(p)
  <2>1. MyId(p) \in Id
    BY MyIdTyped DEF GateInv, Admit, Inserting, Verified
  <2> QED
    BY <1>2, <2>1 DEF Admit, Derived, GateInv, TypeOK
<1> QED
  BY <1>1, <1>2

LEMMA DerivedGrows ==
  ASSUME GateInv, [Next]_gateVars
  PROVE  Derived \subseteq Derived'
  BY OnlyAdmitAdds, AdmitAdds DEF Derived

(* A process keeps what it remembers through a step of another one. *)
SameMemory(q) ==
  /\ pc'[q] = pc[q] /\ job'[q] = job[q] /\ hit'[q] = hit[q]
  /\ after'[q] = after[q] /\ dir'[q] = dir[q] /\ written'[q] = written[q]
  /\ calls'[q] = calls[q]

Knows(q) == Remembers(q) /\ PastGate(q) /\ FoundHit(q)

LEMMA OthersKnow ==
  ASSUME GateInv, [Next]_gateVars, NEW q \in Proc, SameMemory(q)
  PROVE  Knows(q)'
<1>1. Knows(q) /\ Derived \subseteq Derived'
  BY DerivedGrows DEF GateInv, Knows
<1> QED
  BY <1>1
  DEF SameMemory, Knows, Remembers, PastGate, FoundHit, HasHit, Inserting,
      Verified

(* An idle process has nothing to remember. *)
LEMMA IdleKnows ==
  ASSUME NEW q \in Proc, pc'[q] = "idle"
  PROVE  Knows(q)'
  BY DEF Knows, Remembers, PastGate, FoundHit, HasHit, Inserting, Verified

LEMMA RaiseKnows ==
  ASSUME TypeOK, NEW p \in Proc, Raise(p)
  PROVE  Knows(p)'
  BY IdleKnows DEF Raise, End, Goto, TypeOK

LEMMA KnowsStep ==
  ASSUME GateInv, [Next]_gateVars
  PROVE  \A q \in Proc : Knows(q)'
<1> USE GateAssumption DEF Inserting, Verified
<1>0. TypeOK /\ \A q \in Proc : Knows(q)
  BY DEF GateInv, Knows
<1>a. Derived \subseteq Derived'
  BY DerivedGrows
<1>1. ASSUME NEW p \in Proc, NEW h \in Hash, Begin(p, h) PROVE \A q \in Proc : Knows(q)'
  <2>1. \A q \in Proc \ {p} : SameMemory(q)
    BY <1>0, <1>1 DEF Begin, SameMemory, TypeOK, Goto, End, Raise, disk, tallies
  <2>2. Knows(p)'
    BY <1>0, <1>a, <1>1
    DEF Begin, Knows, Remembers, PastGate, FoundHit, HasHit, TypeOK, Goto, End,
        Raise, disk, tallies
  <2> QED
    BY <2>1, <2>2, OthersKnow
<1>2. ASSUME NEW p \in Proc, Scan(p) PROVE \A q \in Proc : Knows(q)'
  <2>1. \A q \in Proc \ {p} : SameMemory(q)
    BY <1>0, <1>2 DEF Scan, SameMemory, TypeOK, Goto, End, Raise, disk, tallies
  <2>2. Knows(p)'
    <3>1. CASE \E id \in Duplicates(p) : Goto(p, "bump") /\ hit' = [hit EXCEPT ![p] = id]
      BY <1>0, <1>a, <1>2, <3>1
      DEF Scan, Duplicates, Knows, Remembers, PastGate, FoundHit, HasHit,
          TypeOK, Goto, tallies
    <3>2. CASE Goto(p, "gate") /\ UNCHANGED hit
      BY <1>0, <1>2, <3>2
      DEF Scan, Knows, Remembers, PastGate, FoundHit, HasHit, TypeOK, Goto,
          tallies
    <3> QED
      BY <1>2, <3>1, <3>2 DEF Scan
  <2> QED
    BY <2>1, <2>2, OthersKnow
<1>3. ASSUME NEW p \in Proc, RunGate(p) PROVE \A q \in Proc : Knows(q)'
  <2>1. \A q \in Proc \ {p} : SameMemory(q)
    BY <1>0, <1>3 DEF RunGate, SameMemory, TypeOK, Goto, End, Raise, disk, tallies
  <2>2. Knows(p)'
    <3>1. CASE PassesGate(job[p]) /\ Goto(p, "check_tmp") /\ UNCHANGED outcome
      BY <1>0, <1>3, <3>1
      DEF RunGate, PassesGate, Knows, Remembers, PastGate, FoundHit, HasHit,
          TypeOK, Goto, tallies
    <3>2. CASE End(p, "rejected") \/ End(p, "undecided")
      BY <1>0, <1>3, <3>2, IdleKnows DEF RunGate, End, Goto, TypeOK
    <3> QED
      BY <1>3, <3>1, <3>2 DEF RunGate
  <2> QED
    BY <2>1, <2>2, OthersKnow
<1>4. ASSUME NEW p \in Proc, CheckTmp(p) PROVE \A q \in Proc : Knows(q)'
  <2>1. \A q \in Proc \ {p} : SameMemory(q)
    BY <1>0, <1>4 DEF CheckTmp, SameMemory, TypeOK, Goto, End, Raise, disk, tallies
  <2>2. Knows(p)'
    BY <1>0, <1>a, <1>4
    DEF CheckTmp, Knows, Remembers, PastGate, FoundHit, HasHit, TypeOK, Goto, End,
        Raise, disk, tallies
  <2> QED
    BY <2>1, <2>2, OthersKnow
<1>5. ASSUME NEW p \in Proc, RmOpen(p) PROVE \A q \in Proc : Knows(q)'
  <2>1. \A q \in Proc \ {p} : SameMemory(q)
    BY <1>0, <1>5 DEF RmOpen, SameMemory, TypeOK, Goto, End, Raise, disk, tallies
  <2>2. Knows(p)'
    <3>1. MyId(p) \in Id
      BY <1>0, <1>5, MyIdTyped DEF RmOpen, Knows
    <3> QED
      BY <1>0, <1>a, <1>5, <3>1, RaiseKnows
      DEF RmOpen, Knows, Remembers, PastGate, FoundHit, HasHit, TypeOK, Goto,
          disk, tallies
  <2> QED
    BY <2>1, <2>2, OthersKnow
<1>6. ASSUME NEW p \in Proc, RmUnlink(p) PROVE \A q \in Proc : Knows(q)'
  <2>1. \A q \in Proc \ {p} : SameMemory(q)
    BY <1>0, <1>6 DEF RmUnlink, SameMemory, TypeOK, Goto, End, Raise, disk, tallies
  <2>2. Knows(p)'
    BY <1>0, <1>a, <1>6
    DEF RmUnlink, Knows, Remembers, PastGate, FoundHit, HasHit, TypeOK, Goto, End,
        Raise, disk, tallies
  <2> QED
    BY <2>1, <2>2, OthersKnow
<1>7. ASSUME NEW p \in Proc, RmDir(p) PROVE \A q \in Proc : Knows(q)'
  <2>1. \A q \in Proc \ {p} : SameMemory(q)
    BY <1>0, <1>7 DEF RmDir, SameMemory, TypeOK, Goto, End, Raise, disk, tallies
  <2>2. Knows(p)'
    BY <1>0, <1>a, <1>7
    DEF RmDir, Knows, Remembers, PastGate, FoundHit, HasHit, TypeOK, Goto, End,
        Raise, disk, tallies
  <2> QED
    BY <2>1, <2>2, OthersKnow
<1>8. ASSUME NEW p \in Proc, MkDir(p) PROVE \A q \in Proc : Knows(q)'
  <2>1. \A q \in Proc \ {p} : SameMemory(q)
    BY <1>0, <1>8 DEF MkDir, SameMemory, TypeOK, Goto, End, Raise, disk, tallies
  <2>2. Knows(p)'
    <3>1. CASE Raise(p)
      BY <1>0, <3>1, RaiseKnows
    <3>2. CASE ~Raise(p)
      <4>1. /\ pc'[p] = "write" /\ job'[p] = job[p] /\ calls'[p] = calls[p]
            /\ written'[p] = 0
        BY <1>0, <1>8, <3>2 DEF MkDir, Goto, TypeOK, tallies
      <4> QED
        BY <1>0, <1>8, <4>1, FileOrderTyped
        DEF MkDir, Knows, Remembers, PastGate, FoundHit, HasHit
    <3> QED
      BY <3>1, <3>2
  <2> QED
    BY <2>1, <2>2, OthersKnow
<1>9. ASSUME NEW p \in Proc, WriteFile(p) PROVE \A q \in Proc : Knows(q)'
  <2>1. \A q \in Proc \ {p} : SameMemory(q)
    BY <1>0, <1>9 DEF WriteFile, SameMemory, TypeOK, Goto, End, Raise, disk, tallies
  <2>2. Knows(p)'
    <3>1. CASE Raise(p)
      BY <1>0, <3>1, RaiseKnows
    <3>2. CASE ~Raise(p)
      <4>1. /\ pc'[p] = AfterWrites(written[p] + 1) /\ job'[p] = job[p]
            /\ calls'[p] = calls[p] /\ written'[p] = written[p] + 1
        BY <1>0, <1>9, <3>2 DEF WriteFile, Goto, TypeOK, tallies
      <4>2. written[p] \in 0 .. 3
        BY <1>0, <1>9, FileOrderTyped DEF WriteFile, Knows, Remembers, TypeOK
      <4> QED
        BY <1>0, <1>9, <4>1, <4>2, FileOrderTyped
        DEF WriteFile, AfterWrites, Knows, Remembers, PastGate, FoundHit, HasHit
    <3> QED
      BY <3>1, <3>2
  <2> QED
    BY <2>1, <2>2, OthersKnow
<1>10. ASSUME NEW p \in Proc, CheckFinal(p) PROVE \A q \in Proc : Knows(q)'
  <2>1. \A q \in Proc \ {p} : SameMemory(q)
    BY <1>0, <1>10 DEF CheckFinal, SameMemory, TypeOK, Goto, End, Raise, disk, tallies
  <2>2. Knows(p)'
    <3>1. MyId(p) \in Id /\ MyId(p)[2] = job[p]
      BY <1>0, <1>10, MyIdTyped DEF CheckFinal, Knows
    <3>2. /\ pc'[p] = IF final[MyId(p)] # None THEN "rm_open" ELSE "admit"
          /\ job'[p] = job[p] /\ calls'[p] = calls[p] /\ hit'[p] = MyId(p)
      BY <1>0, <1>10 DEF CheckFinal, Goto, TypeOK, tallies
    <3> QED
      BY <1>0, <1>a, <1>10, <3>1, <3>2
      DEF CheckFinal, Knows, Remembers, PastGate, FoundHit, HasHit, Derived
  <2> QED
    BY <2>1, <2>2, OthersKnow
<1>11. ASSUME NEW p \in Proc, Admit(p) PROVE \A q \in Proc : Knows(q)'
  <2>1. \A q \in Proc \ {p} : SameMemory(q)
    BY <1>0, <1>11 DEF Admit, SameMemory, TypeOK, Goto, End, Raise, disk, tallies
  <2>2. Knows(p)'
    BY <1>0, <1>a, <1>11
    DEF Admit, Knows, Remembers, PastGate, FoundHit, HasHit, TypeOK, Goto, End,
        Raise, disk, tallies
  <2> QED
    BY <2>1, <2>2, OthersKnow
<1>12. ASSUME NEW p \in Proc, BumpRead(p) PROVE \A q \in Proc : Knows(q)'
  <2>1. \A q \in Proc \ {p} : SameMemory(q)
    BY <1>0, <1>12 DEF BumpRead, SameMemory, TypeOK, Goto, End, Raise, disk, tallies
  <2>2. Knows(p)'
    BY <1>0, <1>a, <1>12
    DEF BumpRead, Knows, Remembers, PastGate, FoundHit, HasHit, TypeOK, Goto, End,
        Raise, disk, tallies
  <2> QED
    BY <2>1, <2>2, OthersKnow
<1>13. ASSUME NEW p \in Proc, BumpWrite(p) PROVE \A q \in Proc : Knows(q)'
  <2>1. \A q \in Proc \ {p} : SameMemory(q)
    BY <1>0, <1>13 DEF BumpWrite, SameMemory, TypeOK, Goto, End, Raise, disk, tallies
  <2>2. Knows(p)'
    BY <1>0, <1>a, <1>13
    DEF BumpWrite, Knows, Remembers, PastGate, FoundHit, HasHit, TypeOK, Goto, End,
        Raise, disk, tallies
  <2> QED
    BY <2>1, <2>2, OthersKnow
<1>14. ASSUME NEW p \in Proc, BeginRead(p) PROVE \A q \in Proc : Knows(q)'
  <2>1. \A q \in Proc \ {p} : SameMemory(q)
    BY <1>0, <1>14 DEF BeginRead, SameMemory, TypeOK, Goto, End, Raise, disk, tallies
  <2>2. Knows(p)'
    BY <1>0, <1>a, <1>14
    DEF BeginRead, Knows, Remembers, PastGate, FoundHit, HasHit, TypeOK, Goto, End,
        Raise, disk, tallies
  <2> QED
    BY <2>1, <2>2, OthersKnow
<1>15. ASSUME NEW p \in Proc, DeriveIndex(p) PROVE \A q \in Proc : Knows(q)'
  <2>1. \A q \in Proc \ {p} : SameMemory(q)
    BY <1>0, <1>15 DEF DeriveIndex, SameMemory, TypeOK, Goto, End, Raise, disk, tallies
  <2>2. Knows(p)'
    BY <1>0, <1>a, <1>15
    DEF DeriveIndex, Knows, Remembers, PastGate, FoundHit, HasHit, TypeOK, Goto, End,
        Raise, disk, tallies
  <2> QED
    BY <2>1, <2>2, OthersKnow
<1>16. ASSUME NEW p \in Proc, RefreshCache(p) PROVE \A q \in Proc : Knows(q)'
  <2>1. \A q \in Proc \ {p} : SameMemory(q)
    BY <1>0, <1>16 DEF RefreshCache, SameMemory, TypeOK, Goto, End, Raise, disk, tallies
  <2>2. Knows(p)'
    BY <1>0, <1>a, <1>16
    DEF RefreshCache, Knows, Remembers, PastGate, FoundHit, HasHit, TypeOK, Goto, End,
        Raise, disk, tallies
  <2> QED
    BY <2>1, <2>2, OthersKnow
<1>17. ASSUME NEW p \in Proc, Crash(p) PROVE \A q \in Proc : Knows(q)'
  <2>1. \A q \in Proc \ {p} : SameMemory(q)
    BY <1>0, <1>17 DEF Crash, SameMemory, TypeOK, Goto, End, Raise, disk, tallies
  <2>2. Knows(p)'
    BY <1>0, <1>a, <1>17
    DEF Crash, Knows, Remembers, PastGate, FoundHit, HasHit, TypeOK, Goto, End,
        Raise, disk, tallies
  <2> QED
    BY <2>1, <2>2, OthersKnow
<1>18. CASE UNCHANGED gateVars
  BY <1>18, OthersKnow DEF SameMemory, gateVars
<1> QED
  BY <1>1, <1>2, <1>3, <1>4, <1>5, <1>6, <1>7, <1>8, <1>9, <1>10, <1>11, <1>12, <1>13, <1>14, <1>15, <1>16, <1>17, <1>18
  DEF Next, Insert, Read
-----------------------------------------------------------------------------
(* The invariant's last parts: what was admitted, and what is listed. *)
LEMMA OnlyVerifiedStep ==
  ASSUME GateInv, [Next]_gateVars
  PROVE  OnlyVerified'
<1>1. ASSUME NEW p \in Proc, Admit(p) PROVE OnlyVerified'
  <2>1. MyId(p)[2] = job[p] /\ job[p] \in Correct
    BY <1>1, MyIdTyped DEF GateInv, Admit, PastGate, Inserting, Verified
  <2> QED
    BY <1>1, <2>1, AdmitAdds DEF GateInv, OnlyVerified
<1>2. CASE \A p \in Proc : ~Admit(p)
  BY <1>2, OnlyAdmitAdds DEF GateInv, OnlyVerified, Derived
<1> QED
  BY <1>1, <1>2

LEMMA CacheOnlyLagsStep ==
  ASSUME GateInv, [Next]_gateVars
  PROVE  CacheOnlyLags'
<1>0. Derived \subseteq Derived' /\ CacheOnlyLags /\ TypeOK
  BY DerivedGrows DEF GateInv
<1>1. ASSUME NEW p \in Proc, DeriveIndex(p) PROVE CacheOnlyLags'
  BY <1>0, <1>1 DEF DeriveIndex, CacheOnlyLags, TypeOK, disk
<1>2. ASSUME NEW p \in Proc, RefreshCache(p) PROVE CacheOnlyLags'
  BY <1>0, <1>2 DEF RefreshCache, CacheOnlyLags
<1>3. CASE \A p \in Proc : ~DeriveIndex(p) /\ ~RefreshCache(p)
  <2>1. UNCHANGED <<cache, view>>
    <3>1. ASSUME NEW p \in Proc, Insert(p)
          PROVE  UNCHANGED <<cache, view>>
      BY <3>1 DEF Insert, Begin, Scan, RunGate, CheckTmp, RmOpen, RmUnlink, RmDir,
                  MkDir, WriteFile, CheckFinal, Admit, BumpRead, BumpWrite, Raise, disk
    <3>2. ASSUME NEW p \in Proc, Read(p) \/ Crash(p)
          PROVE  UNCHANGED <<cache, view>>
      BY <1>3, <3>2 DEF Read, BeginRead, Crash, disk
    <3> QED
      BY <3>1, <3>2 DEF Next, gateVars
  <2> QED
    BY <1>0, <2>1 DEF CacheOnlyLags
<1> QED
  BY <1>1, <1>2, <1>3

LEMMA GateInvStep == ASSUME GateInv, [Next]_gateVars PROVE GateInv'
  BY GateTypeStep, KnowsStep, OnlyVerifiedStep, CacheOnlyLagsStep
  DEF GateInv, Knows

(* The inductive invariant of any number of racing fillers and readers.    *)
THEOREM GateInvHolds == Spec => []GateInv
  BY GateInvInit, GateInvStep, PTL DEF Spec

(* Every path names a directory some call made or nothing, and every       *)
(* process's memory is of its type, also under races and kills.            *)
THEOREM GateTypeOK == Spec => []TypeOK
  BY GateInvHolds, PTL DEF GateInv

(* Nothing gets into designs/ that the oracle did not pass: whatever the   *)
(* sources, the interleaving of the fillers, and the kills.                *)
THEOREM GateOnlyVerified == Spec => []OnlyVerified
  BY GateInvHolds, PTL DEF GateInv

(* index.json, and every index a reader has derived, list admitted designs *)
(* only.                                                                   *)
THEOREM GateCacheOnlyLags == Spec => []CacheOnlyLags
  BY GateInvHolds, PTL DEF GateInv

(* No step of any process withdraws an admitted design.                    *)
THEOREM GateNeverWithdrawn == Spec => NeverWithdrawn
<1>1. ASSUME GateInv, [Next]_gateVars
      PROVE  [Derived \subseteq Derived']_gateVars
  BY <1>1, DerivedGrows
<1> QED
  BY <1>1, GateInvHolds, PTL DEF Spec, NeverWithdrawn

-----------------------------------------------------------------------------
(***************************************************************************)
(* Admission by fillers that insert under sources of their own: what the   *)
(* documentation promises of all concurrent inserts holds of these, for    *)
(* every number of processes, calls and kills.                             *)
(***************************************************************************)

DistinctSources ==
  \A p, q \in Proc : SourceOf[p] = SourceOf[q] => p = q

(* A directory is at one path only, and in use by the process that made    *)
(* it, under the source of that process.                                   *)
Placed ==
  /\ \A id \in Id : tmp[id] # None =>
       /\ id[1] = SourceOf[tmp[id][1]]
       /\ tmp[id][2] <= calls[tmp[id][1]]
       /\ \A other \in Id : tmp[id] # final[other]
  /\ \A id \in Id : final[id] # None =>
       /\ id[1] = SourceOf[final[id][1]]
       /\ final[id][2] <= calls[final[id][1]]
Apart ==
  \A id, other \in Id :
    /\ tmp[id] # None /\ tmp[id] = tmp[other] => id = other
    /\ final[id] # None /\ final[id] = final[other] => id = other

(* The directory a call is going to make is not in use before.             *)
Fresh(p) ==
  pc[p] \in {"scan", "gate", "check_tmp", "rm_open", "rm_files", "mkdir"} =>
    \A id \in Id : tmp[id] # <<p, calls[p]>> /\ final[id] # <<p, calls[p]>>

FirstFiles(n) == {FileOrder[k] : k \in 1 .. n}

(* Nobody else works on the paths of a call: the dedup scan has shown that *)
(* its identifier is not admitted, and its .tmp directory is as it left it.*)
OwnPaths(p) ==
  /\ pc[p] \in Verified \cup {"gate"} => final[MyId(p)] = None
  /\ pc[p] \in {"rm_open", "rm_files"} => after[p] = "mkdir"
  /\ pc[p] \in {"rm_open", "rm_files", "write", "check_final", "admit"} =>
       tmp[MyId(p)] # None
  /\ pc[p] = "rm_files" =>
       dir[p] = tmp[MyId(p)] /\ files[tmp[MyId(p)]] = todo[p]
  /\ pc[p] = "mkdir" => tmp[MyId(p)] = None
  /\ pc[p] = "write" => files[tmp[MyId(p)]] = FirstFiles(written[p])
  /\ pc[p] \in {"check_final", "admit"} => files[tmp[MyId(p)]] = File

(* A call under way has no outcome yet, and after the rename it has an     *)
(* identifier to return.                                                   *)
Answers(p) ==
  /\ pc[p] # "idle" => outcome[p] = "none"
  /\ pc[p] = "admit" => hit[p] = MyId(p)
  /\ pc[p] \in {"derive", "refresh"} /\ job[p] # None =>
       hit[p] \in Derived /\ hit[p][2] = job[p]

OwnInv ==
  /\ GateInv
  /\ Placed /\ Apart
  /\ \A p \in Proc : Fresh(p) /\ OwnPaths(p) /\ Answers(p)
  /\ AdmittedComplete
  /\ NeverRaises
-----------------------------------------------------------------------------
(* The steps of such a call do not raise: what they do instead. *)
LEMMA OwnTyped ==
  ASSUME OwnInv, NEW p \in Proc, pc[p] \in Inserting
  PROVE  /\ TypeOK /\ Remembers(p) /\ OwnPaths(p)
         /\ MyId(p) \in Id /\ MyId(p)[1] = SourceOf[p] /\ MyId(p)[2] = job[p]
         /\ <<p, calls[p]>> \in Inode
<1>1. TypeOK /\ Remembers(p) /\ OwnPaths(p)
  BY DEF OwnInv, GateInv
<1> QED
  BY <1>1, MyIdTyped DEF MyId

LEMMA OwnRmOpen ==
  ASSUME OwnInv, NEW p \in Proc, RmOpen(p)
  PROVE  /\ Goto(p, "rm_files")
         /\ dir' = [dir EXCEPT ![p] = tmp[MyId(p)]]
         /\ todo' = [todo EXCEPT ![p] = files[tmp[MyId(p)]]]
         /\ UNCHANGED <<disk, job, hit, after, written, view, outcome, tallies>>
  BY OwnTyped DEF RmOpen, OwnPaths, Inserting, Verified

LEMMA OwnRmUnlink ==
  ASSUME OwnInv, NEW p \in Proc, RmUnlink(p)
  PROVE  \E f \in todo[p] :
           /\ Goto(p, "rm_files")
           /\ todo' = [todo EXCEPT ![p] = @ \ {f}]
           /\ files' = [files EXCEPT ![dir[p]] = @ \ {f}]
           /\ UNCHANGED <<tmp, final, cache, job, hit, after, dir, written, view,
                          outcome, tallies>>
<1>1. files[dir[p]] = todo[p]
  BY OwnTyped DEF RmUnlink, OwnPaths, Inserting, Verified
<1> QED
  BY <1>1 DEF RmUnlink

LEMMA OwnRmDir ==
  ASSUME OwnInv, NEW p \in Proc, RmDir(p)
  PROVE  /\ Goto(p, "mkdir")
         /\ tmp' = [tmp EXCEPT ![MyId(p)] = None]
         /\ dir' = [dir EXCEPT ![p] = None]
         /\ UNCHANGED <<final, files, cache, job, hit, after, todo, written,
                        view, outcome, tallies>>
<1>1. tmp[MyId(p)] # None /\ files[tmp[MyId(p)]] = {} /\ after[p] = "mkdir"
  BY OwnTyped DEF RmDir, OwnPaths, Inserting, Verified
<1> QED
  BY <1>1 DEF RmDir, Vacant

LEMMA OwnMkDir ==
  ASSUME OwnInv, NEW p \in Proc, MkDir(p)
  PROVE  /\ Goto(p, "write")
         /\ tmp' = [tmp EXCEPT ![MyId(p)] = <<p, calls[p]>>]
         /\ files' = [files EXCEPT ![<<p, calls[p]>>] = {}]
         /\ written' = [written EXCEPT ![p] = 0]
         /\ UNCHANGED <<final, cache, job, hit, after, dir, todo, view, outcome,
                        tallies>>
  BY OwnTyped DEF MkDir, OwnPaths, Inserting, Verified

LEMMA OwnWriteFile ==
  ASSUME OwnInv, NEW p \in Proc, WriteFile(p)
  PROVE  /\ Goto(p, AfterWrites(written[p] + 1))
         /\ files' = [files EXCEPT ![tmp[MyId(p)]] =
                        @ \cup {FileOrder[written[p] + 1]}]
         /\ written' = [written EXCEPT ![p] = @ + 1]
         /\ UNCHANGED <<tmp, final, cache, job, hit, after, dir, todo, view,
                        outcome, tallies>>
  BY OwnTyped DEF WriteFile, OwnPaths, Inserting, Verified

LEMMA OwnCheckFinal ==
  ASSUME OwnInv, NEW p \in Proc, CheckFinal(p)
  PROVE  /\ Goto(p, "admit")
         /\ after' = [after EXCEPT ![p] = "bump"]
         /\ hit' = [hit EXCEPT ![p] = MyId(p)]
         /\ UNCHANGED <<disk, job, dir, todo, written, view, outcome, tallies>>
  BY OwnTyped DEF CheckFinal, OwnPaths, Inserting, Verified

LEMMA OwnAdmit ==
  ASSUME OwnInv, NEW p \in Proc, Admit(p)
  PROVE  /\ Goto(p, "derive")
         /\ final' = [final EXCEPT ![MyId(p)] = tmp[MyId(p)]]
         /\ tmp' = [tmp EXCEPT ![MyId(p)] = None]
         /\ UNCHANGED <<files, cache, job, hit, after, dir, todo, written, view,
                        outcome, tallies>>
<1>1. tmp[MyId(p)] # None /\ final[MyId(p)] = None
  BY OwnTyped DEF Admit, OwnPaths, Inserting, Verified
<1> QED
  BY <1>1 DEF Admit, Vacant

(* The stored design whose count is raised has its provenance already. *)
LEMMA OwnBumpWrite ==
  ASSUME OwnInv, NEW p \in Proc, BumpWrite(p)
  PROVE  UNCHANGED files
<1>1. final[hit[p]] # None /\ hit[p] \in Id
  BY DEF OwnInv, GateInv, FoundHit, HasHit, BumpWrite, Derived
<1>2. files[final[hit[p]]] = File /\ "provenance.json" \in File
  BY <1>1, FileOrderTyped DEF OwnInv, AdmittedComplete
<1>3. files \in [Inode -> SUBSET File]
  BY DEF OwnInv, GateInv, TypeOK
<1>4. files' = [files EXCEPT ![final[hit[p]]] = @ \cup {"provenance.json"}]
  BY DEF BumpWrite
<1> QED
  BY <1>2, <1>3, <1>4

-----------------------------------------------------------------------------
(* A step of one process leaves the others' memory, paths and directories  *)
(* alone.                                                                  *)
Alone(p) ==
  /\ \A id \in Id :
       /\ id # MyId(p) => tmp'[id] = tmp[id] /\ final'[id] = final[id]
       /\ tmp'[id] \in {tmp[id], None, <<p, calls[p]>>}
       /\ final'[id] \in {final[id], tmp[id]}
  /\ \A i \in Inode :
       (MyId(p) \in Id => i # tmp[MyId(p)]) /\ i # <<p, calls[p]>> =>
         files'[i] = files[i]
  /\ \A q \in Proc \ {p} :
       SameMemory(q) /\ todo'[q] = todo[q] /\ outcome'[q] = outcome[q]

Step(p) == Insert(p) \/ Read(p) \/ Crash(p)

LEMMA StepAlone ==
  ASSUME OwnInv, NEW p \in Proc, Step(p)
  PROVE  Alone(p)
<1> USE DEF Alone, SameMemory, Goto, End, disk, tallies
<1>0. TypeOK
  BY DEF OwnInv, GateInv
<1>1. ASSUME NEW h \in Hash, Begin(p, h) PROVE Alone(p)
  BY <1>0, <1>1 DEF Begin, TypeOK
<1>2. ASSUME Scan(p) PROVE Alone(p)
  BY <1>0, <1>2 DEF Scan, TypeOK
<1>3. ASSUME RunGate(p) PROVE Alone(p)
  BY <1>0, <1>3 DEF RunGate, TypeOK
<1>4. ASSUME CheckTmp(p) PROVE Alone(p)
  BY <1>0, <1>4 DEF CheckTmp, TypeOK
<1>5. ASSUME RmOpen(p) PROVE Alone(p)
  BY <1>0, <1>5, OwnRmOpen DEF TypeOK
<1>6. ASSUME RmUnlink(p) PROVE Alone(p)
  <2>1. dir[p] = tmp[MyId(p)] /\ MyId(p) \in Id
    BY <1>6, OwnTyped DEF RmUnlink, OwnPaths, Inserting, Verified
  <2> QED
    BY <1>0, <1>6, <2>1, OwnRmUnlink DEF TypeOK
<1>7. ASSUME RmDir(p) PROVE Alone(p)
  BY <1>0, <1>7, OwnRmDir DEF TypeOK
<1>8. ASSUME MkDir(p) PROVE Alone(p)
  <2>1. /\ pc' = [pc EXCEPT ![p] = "write"]
        /\ tmp' = [tmp EXCEPT ![MyId(p)] = <<p, calls[p]>>]
        /\ files' = [files EXCEPT ![<<p, calls[p]>>] = {}]
        /\ written' = [written EXCEPT ![p] = 0]
        /\ UNCHANGED <<final, job, hit, after, dir, todo, outcome, calls>>
    BY <1>8, OwnMkDir
  <2>2. \A id \in Id :
          /\ id # MyId(p) => tmp'[id] = tmp[id] /\ final'[id] = final[id]
          /\ tmp'[id] \in {tmp[id], <<p, calls[p]>>}
          /\ final'[id] = final[id]
    BY <1>0, <2>1 DEF TypeOK
  <2>3. \A i \in Inode : i # <<p, calls[p]>> => files'[i] = files[i]
    BY <1>0, <2>1 DEF TypeOK
  <2>4. \A q \in Proc \ {p} :
          SameMemory(q) /\ todo'[q] = todo[q] /\ outcome'[q] = outcome[q]
    BY <1>0, <2>1 DEF TypeOK
  <2> QED
    BY <2>2, <2>3, <2>4
<1>9. ASSUME WriteFile(p) PROVE Alone(p)
  <2>1. MyId(p) \in Id
    BY <1>9, OwnTyped DEF WriteFile, Inserting, Verified
  <2> QED
    BY <1>0, <1>9, <2>1, OwnWriteFile DEF TypeOK
<1>10. ASSUME CheckFinal(p) PROVE Alone(p)
  BY <1>0, <1>10, OwnCheckFinal DEF TypeOK
<1>11. ASSUME Admit(p) PROVE Alone(p)
  <2>1. MyId(p) \in Id
    BY <1>11, OwnTyped DEF Admit, Inserting, Verified
  <2> QED
    BY <1>0, <1>11, <2>1, OwnAdmit DEF TypeOK
<1>12. ASSUME BumpRead(p) PROVE Alone(p)
  BY <1>0, <1>12 DEF BumpRead, TypeOK
<1>13. ASSUME BumpWrite(p) PROVE Alone(p)
  BY <1>0, <1>13, OwnBumpWrite DEF BumpWrite, TypeOK
<1>14. ASSUME BeginRead(p) PROVE Alone(p)
  BY <1>0, <1>14 DEF BeginRead, TypeOK
<1>15. ASSUME DeriveIndex(p) PROVE Alone(p)
  BY <1>0, <1>15 DEF DeriveIndex, TypeOK
<1>16. ASSUME RefreshCache(p) PROVE Alone(p)
  BY <1>0, <1>16 DEF RefreshCache, TypeOK
<1>17. ASSUME Crash(p) PROVE Alone(p)
  BY <1>0, <1>17 DEF Crash, TypeOK
<1> QED
  BY <1>1, <1>2, <1>3, <1>4, <1>5, <1>6, <1>7, <1>8, <1>9, <1>10, <1>11, <1>12, <1>13, <1>14, <1>15, <1>16, <1>17
  DEF Step, Insert, Read

LEMMA OthersOwn ==
  ASSUME DistinctSources, OwnInv, NEW p \in Proc, Step(p),
         NEW q \in Proc, q # p
  PROVE  Fresh(q)' /\ OwnPaths(q)' /\ Answers(q)'
<1>1. Alone(p) /\ SameMemory(q) /\ todo'[q] = todo[q] /\ outcome'[q] = outcome[q]
  BY StepAlone DEF Alone
<1>2. Fresh(q) /\ OwnPaths(q) /\ Answers(q) /\ TypeOK /\ Placed /\ Apart
  BY DEF OwnInv, GateInv
<1>3. <<q, calls[q]>> # <<p, calls[p]>>
  OBVIOUS
<1>4. /\ \A id \in Id :
           /\ id # MyId(p) => tmp'[id] = tmp[id] /\ final'[id] = final[id]
           /\ tmp'[id] \in {tmp[id], None, <<p, calls[p]>>}
           /\ final'[id] \in {final[id], tmp[id]}
      /\ pc'[q] = pc[q] /\ job'[q] = job[q] /\ hit'[q] = hit[q]
      /\ after'[q] = after[q] /\ dir'[q] = dir[q] /\ written'[q] = written[q]
      /\ calls'[q] = calls[q] /\ todo'[q] = todo[q] /\ outcome'[q] = outcome[q]
      /\ MyId(q)' = MyId(q)
  BY <1>1 DEF Alone, SameMemory, MyId
<1>5. Fresh(q)'
  <2>1. CASE pc[q] \in Inserting
    <3>1. <<q, calls[q]>> # None
      BY <2>1, OwnTyped, GateAssumption
    <3> QED
      BY <1>2, <1>3, <1>4, <3>1 DEF Fresh
  <2>2. CASE pc[q] \notin Inserting
    BY <1>4, <2>2 DEF Fresh, Inserting, Verified
  <2> QED
    BY <2>1, <2>2
<1>6. OwnPaths(q)'
  <2>1. CASE pc[q] \in Inserting
    <3>1. MyId(q) \in Id /\ MyId(q) # MyId(p)
      BY <2>1, OwnTyped DEF DistinctSources, MyId
    <3>2. tmp'[MyId(q)] = tmp[MyId(q)] /\ final'[MyId(q)] = final[MyId(q)]
      BY <1>4, <3>1
    <3>3. CASE tmp[MyId(q)] # None
      <4>1. tmp[MyId(q)] \in Inode /\ tmp[MyId(q)][1] \in Proc
        BY <1>2, <3>1, <3>3 DEF TypeOK, Inode
      <4>2. MyId(q)[1] = SourceOf[tmp[MyId(q)][1]] /\ MyId(q)[1] = SourceOf[q]
        BY <1>2, <3>1, <3>3 DEF Placed, MyId
      <4>3. tmp[MyId(q)][1] = q
        BY <4>1, <4>2 DEF DistinctSources
      <4>4. tmp[MyId(q)] # <<p, calls[p]>>
        BY <4>3
      <4>5. MyId(p) \in Id => tmp[MyId(q)] # tmp[MyId(p)]
        BY <1>2, <3>1, <3>3 DEF Apart
      <4>6. files'[tmp[MyId(q)]] = files[tmp[MyId(q)]]
        BY <1>1, <4>1, <4>4, <4>5 DEF Alone
      <4> QED
        BY <1>2, <1>4, <3>2, <4>6 DEF OwnPaths
    <3>4. CASE tmp[MyId(q)] = None
      BY <1>2, <1>4, <3>2, <3>4 DEF OwnPaths
    <3> QED
      BY <3>3, <3>4
  <2>2. CASE pc[q] \notin Inserting
    BY <1>4, <2>2 DEF OwnPaths, Inserting, Verified
  <2> QED
    BY <2>1, <2>2
<1>7. Answers(q)'
  <2>1. Derived \subseteq Derived'
    BY DerivedGrows DEF OwnInv, Step, Next
  <2> QED
    BY <1>2, <1>4, <2>1 DEF Answers
<1> QED
  BY <1>5, <1>6, <1>7
-----------------------------------------------------------------------------
(* The files written so far. *)
LEMMA FirstFilesGrow ==
  /\ FirstFiles(0) = {}
  /\ \A n \in 0 .. 3 : FirstFiles(n + 1) = FirstFiles(n) \cup {FileOrder[n + 1]}
  /\ FirstFiles(4) = File
  BY DEF FirstFiles, File, FileOrder

(* The process that makes a step knows what it needs for its next one.     *)
Prepared(p) == Fresh(p) /\ OwnPaths(p) /\ Answers(p)

LEMMA SelfOwn ==
  ASSUME OwnInv, NEW p \in Proc, Step(p)
  PROVE  Prepared(p)'
<1> USE DEF Inserting, Verified
<1>0. TypeOK /\ Knows(p) /\ Prepared(p) /\ Placed /\ AdmittedComplete
  BY DEF OwnInv, GateInv, Knows, Prepared
<1>a. Derived \subseteq Derived'
  BY DerivedGrows DEF OwnInv, Step, Next
<1>1. ASSUME NEW h \in Hash, Begin(p, h) PROVE Prepared(p)'
  <2>1. calls[p] \in 0 .. MaxCalls - 1 /\ MaxCalls \in Nat
    BY <1>0, <1>1, GateAssumption DEF Begin, TypeOK
  <2>2. <<p, calls[p] + 1>> \in Inode
    BY <2>1 DEF Inode
  <2>3. \A id \in Id : tmp[id] # <<p, calls[p] + 1>> /\ final[id] # <<p, calls[p] + 1>>
    <3> SUFFICES ASSUME NEW id \in Id, NEW i, i = <<p, calls[p] + 1>>
                 PROVE  tmp[id] # i /\ final[id] # i
      OBVIOUS
    <3>1. i # None /\ i[1] = p /\ ~(i[2] <= calls[p])
      BY <2>1, <2>2, GateAssumption
    <3> QED
      BY <1>0, <3>1 DEF Placed
  <2>4. /\ pc'[p] = "scan" /\ calls'[p] = calls[p] + 1 /\ outcome'[p] = "none"
        /\ tmp' = tmp /\ final' = final
    BY <1>0, <1>1 DEF Begin, Goto, TypeOK, disk
  <2> QED
    BY <2>3, <2>4 DEF Prepared, Fresh, OwnPaths, Answers
<1>2. ASSUME Scan(p) PROVE Prepared(p)'
  <2>1. MyId(p) \in Id /\ MyId(p)[2] = job[p] /\ MyId(p)' = MyId(p)
    BY <1>2, OwnTyped DEF Scan, MyId
  <2>2. CASE \E id \in Duplicates(p) : Goto(p, "bump") /\ hit' = [hit EXCEPT ![p] = id]
    BY <1>0, <1>2, <2>2
    DEF Scan, Prepared, Fresh, OwnPaths, Answers, TypeOK, Goto, disk, tallies
  <2>3. CASE Duplicates(p) = {} /\ Goto(p, "gate") /\ UNCHANGED hit
    <3>1. final[MyId(p)] = None
      <4> SUFFICES ASSUME final[MyId(p)] # None PROVE FALSE
        OBVIOUS
      <4>1. "provenance.json" \in files[final[MyId(p)]]
        BY <1>0, <2>1, FileOrderTyped DEF AdmittedComplete
      <4>2. MyId(p) \in Duplicates(p)
        BY <2>1, <4>1 DEF Duplicates, Derived, HasHash
      <4> QED
        BY <2>3, <4>2
    <3> QED
      BY <1>0, <1>2, <2>1, <2>3, <3>1
      DEF Scan, Prepared, Fresh, OwnPaths, Answers, TypeOK, Goto, disk, tallies
  <2> QED
    BY <1>2, <2>2, <2>3 DEF Scan
<1>3. ASSUME RunGate(p) PROVE Prepared(p)'
  BY <1>0, <1>a, <1>3
  DEF RunGate, Prepared, Fresh, OwnPaths, Answers, Knows, FoundHit, HasHit, TypeOK, MyId, Goto, End, disk, tallies
<1>4. ASSUME CheckTmp(p) PROVE Prepared(p)'
  BY <1>0, <1>a, <1>4
  DEF CheckTmp, Prepared, Fresh, OwnPaths, Answers, Knows, FoundHit, HasHit, TypeOK, MyId, Goto, End, disk, tallies
<1>5. ASSUME RmOpen(p) PROVE Prepared(p)'
  <2>1. MyId(p) \in Id /\ MyId(p)' = MyId(p)
    BY <1>5, OwnTyped, OwnRmOpen DEF RmOpen, MyId
  <2>2. /\ pc[p] = "rm_open" /\ pc'[p] = "rm_files"
        /\ dir'[p] = tmp[MyId(p)] /\ todo'[p] = files[tmp[MyId(p)]]
        /\ UNCHANGED <<tmp, final, files, job, hit, after, outcome, calls>>
    BY <1>0, <1>5, OwnRmOpen DEF RmOpen, Goto, TypeOK, disk, tallies
  <2> QED
    BY <1>0, <2>1, <2>2 DEF Prepared, Fresh, OwnPaths, Answers
<1>6. ASSUME RmUnlink(p) PROVE Prepared(p)'
  <2>1. MyId(p) \in Id /\ MyId(p)' = MyId(p) /\ tmp[MyId(p)] \in Inode
    <3>1. MyId(p) \in Id /\ tmp[MyId(p)] # None
      BY <1>6, OwnTyped DEF RmUnlink, OwnPaths
    <3>2. job' = job
      BY <1>6, OwnRmUnlink
    <3> QED
      BY <1>0, <3>1, <3>2 DEF MyId, TypeOK
  <2>2. PICK f \in todo[p] :
          /\ pc' = [pc EXCEPT ![p] = "rm_files"]
          /\ todo' = [todo EXCEPT ![p] = @ \ {f}]
          /\ files' = [files EXCEPT ![tmp[MyId(p)]] = @ \ {f}]
          /\ UNCHANGED <<tmp, final, job, hit, after, dir, outcome, calls>>
    BY <1>0, <1>6, OwnRmUnlink DEF RmUnlink, Prepared, OwnPaths, Goto, tallies
  <2>3. files'[tmp[MyId(p)]] = files[tmp[MyId(p)]] \ {f}
    BY <1>0, <2>1, <2>2 DEF TypeOK
  <2>4. todo'[p] = todo[p] \ {f} /\ pc'[p] = "rm_files" /\ pc[p] = "rm_files"
    BY <1>0, <1>6, <2>2 DEF TypeOK, RmUnlink
  <2> QED
    BY <1>0, <2>1, <2>2, <2>3, <2>4 DEF Prepared, Fresh, OwnPaths, Answers
<1>7. ASSUME RmDir(p) PROVE Prepared(p)'
  <2>1. MyId(p) \in Id /\ MyId(p)' = MyId(p)
    BY <1>7, OwnTyped, OwnRmDir DEF RmDir, MyId
  <2>2. /\ pc'[p] = "mkdir" /\ tmp'[MyId(p)] = None /\ final' = final
        /\ \A id \in Id : tmp'[id] \in {tmp[id], None}
        /\ UNCHANGED <<calls, outcome, job, hit>>
    BY <1>0, <1>7, <2>1, OwnRmDir DEF Goto, TypeOK, tallies
  <2>3. <<p, calls[p]>> # None
    BY <1>7, OwnTyped, GateAssumption DEF RmDir
  <2> QED
    BY <1>0, <1>7, <2>1, <2>2, <2>3 DEF RmDir, Prepared, Fresh, OwnPaths, Answers
<1>8. ASSUME MkDir(p) PROVE Prepared(p)'
  <2>1. MyId(p) \in Id /\ MyId(p)' = MyId(p) /\ <<p, calls[p]>> \in Inode
    BY <1>8, OwnTyped, OwnMkDir DEF MkDir, MyId
  <2>2. PICK i \in Inode : i = <<p, calls[p]>>
    BY <2>1
  <2>3. /\ pc' = [pc EXCEPT ![p] = "write"]
        /\ tmp' = [tmp EXCEPT ![MyId(p)] = i]
        /\ files' = [files EXCEPT ![i] = {}]
        /\ written' = [written EXCEPT ![p] = 0]
        /\ UNCHANGED <<final, outcome>>
    BY <1>8, <2>2, OwnMkDir DEF Goto
  <2>4. /\ pc'[p] = "write" /\ tmp'[MyId(p)] = i /\ files'[i] = {}
        /\ written'[p] = 0
    BY <1>0, <2>1, <2>3 DEF TypeOK
  <2>5. i # None
    BY GateAssumption
  <2> QED
    <3>1. Fresh(p)'
      BY <2>4 DEF Fresh
    <3>2. OwnPaths(p)'
      BY <1>0, <1>8, <2>1, <2>3, <2>4, <2>5, FirstFilesGrow
      DEF MkDir, Prepared, OwnPaths
    <3>3. Answers(p)'
      BY <1>0, <1>8, <2>3, <2>4 DEF MkDir, Prepared, Answers
    <3> QED
      BY <3>1, <3>2, <3>3 DEF Prepared
<1>9. ASSUME WriteFile(p) PROVE Prepared(p)'
  <2>1. MyId(p) \in Id /\ MyId(p)' = MyId(p) /\ tmp[MyId(p)] \in Inode
    <3>1. MyId(p) \in Id /\ tmp[MyId(p)] # None
      BY <1>9, OwnTyped DEF WriteFile, OwnPaths
    <3>2. job' = job
      BY <1>9, OwnWriteFile
    <3> QED
      BY <1>0, <3>1, <3>2 DEF MyId, TypeOK
  <2>2. written[p] \in 0 .. 3
    BY <1>0, <1>9, FileOrderTyped DEF WriteFile, Knows, Remembers, TypeOK
  <2>3. /\ pc'[p] = AfterWrites(written[p] + 1)
        /\ written'[p] = written[p] + 1
        /\ UNCHANGED <<tmp, final, outcome>>
    BY <1>0, <1>9, OwnWriteFile DEF Goto, TypeOK
  <2>4. files'[tmp[MyId(p)]] = FirstFiles(written[p]) \cup {FileOrder[written[p] + 1]}
    BY <1>0, <1>9, <2>1, OwnWriteFile DEF WriteFile, Prepared, OwnPaths, TypeOK
  <2>5. files'[tmp[MyId(p)]] = FirstFiles(written[p] + 1)
    BY <2>2, <2>4, FirstFilesGrow
  <2>6. CASE written[p] = 3
    BY <1>0, <1>9, <2>1, <2>3, <2>5, <2>6, FirstFilesGrow, FileOrderTyped
    DEF WriteFile, AfterWrites, Prepared, Fresh, OwnPaths, Answers
  <2>7. CASE written[p] # 3
    BY <1>0, <1>9, <2>1, <2>2, <2>3, <2>5, <2>7, FileOrderTyped
    DEF WriteFile, AfterWrites, Prepared, Fresh, OwnPaths, Answers
  <2> QED
    BY <2>6, <2>7
<1>10. ASSUME CheckFinal(p) PROVE Prepared(p)'
  BY <1>0, <1>a, <1>10, OwnCheckFinal, OwnTyped
  DEF CheckFinal, Prepared, Fresh, OwnPaths, Answers, TypeOK, MyId, Goto, disk, tallies
<1>11. ASSUME Admit(p) PROVE Prepared(p)'
  <2>1. MyId(p) \in Id /\ MyId(p)[2] = job[p] /\ tmp[MyId(p)] # None
    BY <1>11, OwnTyped DEF Admit, OwnPaths
  <2>2. /\ pc'[p] = "derive" /\ hit'[p] = MyId(p) /\ job'[p] = job[p]
        /\ outcome'[p] = "none" /\ final'[MyId(p)] = tmp[MyId(p)]
    BY <1>0, <1>11, <2>1, OwnAdmit DEF Admit, Prepared, Answers, Goto, TypeOK
  <2>3. hit'[p] \in Derived'
    BY <2>1, <2>2 DEF Derived
  <2> QED
    BY <2>1, <2>2, <2>3 DEF Prepared, Fresh, OwnPaths, Answers
<1>12. ASSUME BumpRead(p) PROVE Prepared(p)'
  BY <1>0, <1>a, <1>12
  DEF BumpRead, Prepared, Fresh, OwnPaths, Answers, Knows, FoundHit, HasHit, TypeOK, MyId, Goto, End, disk, tallies
<1>13. ASSUME BumpWrite(p) PROVE Prepared(p)'
  BY <1>0, <1>a, <1>13
  DEF BumpWrite, Prepared, Fresh, OwnPaths, Answers, Knows, FoundHit, HasHit, TypeOK, MyId, Goto, End, disk, tallies
<1>14. ASSUME BeginRead(p) PROVE Prepared(p)'
  BY <1>0, <1>a, <1>14
  DEF BeginRead, Prepared, Fresh, OwnPaths, Answers, Knows, FoundHit, HasHit, TypeOK, MyId, Goto, End, disk, tallies
<1>15. ASSUME DeriveIndex(p) PROVE Prepared(p)'
  BY <1>0, <1>a, <1>15
  DEF DeriveIndex, Prepared, Fresh, OwnPaths, Answers, Knows, FoundHit, HasHit, TypeOK, MyId, Goto, End, disk, tallies
<1>16. ASSUME RefreshCache(p) PROVE Prepared(p)'
  BY <1>0, <1>a, <1>16
  DEF RefreshCache, Prepared, Fresh, OwnPaths, Answers, Knows, FoundHit, HasHit, TypeOK, MyId, Goto, End, disk, tallies
<1>17. ASSUME Crash(p) PROVE Prepared(p)'
  BY <1>0, <1>a, <1>17
  DEF Crash, Prepared, Fresh, OwnPaths, Answers, Knows, FoundHit, HasHit, TypeOK, MyId, Goto, End, disk, tallies
<1> QED
  BY <1>1, <1>2, <1>3, <1>4, <1>5, <1>6, <1>7, <1>8, <1>9, <1>10, <1>11, <1>12, <1>13, <1>14, <1>15, <1>16, <1>17
  DEF Step, Insert, Read
-----------------------------------------------------------------------------
(* No step ends with an exception. *)
LEMMA NeverRaisesStep ==
  ASSUME OwnInv, NEW p \in Proc, Step(p)
  PROVE  NeverRaises'
<1>0. TypeOK /\ NeverRaises
  BY DEF OwnInv, GateInv
<1>1. ASSUME NEW h \in Hash, Begin(p, h) PROVE NeverRaises'
  BY <1>0, <1>1 DEF Begin, NeverRaises, TypeOK, End, Goto
<1>2. ASSUME Scan(p) PROVE NeverRaises'
  BY <1>0, <1>2 DEF Scan, NeverRaises, TypeOK, End, Goto
<1>3. ASSUME RunGate(p) PROVE NeverRaises'
  BY <1>0, <1>3 DEF RunGate, NeverRaises, TypeOK, End, Goto
<1>4. ASSUME CheckTmp(p) PROVE NeverRaises'
  BY <1>0, <1>4 DEF CheckTmp, NeverRaises, TypeOK, End, Goto
<1>5. ASSUME BumpRead(p) PROVE NeverRaises'
  BY <1>0, <1>5 DEF BumpRead, NeverRaises, TypeOK, End, Goto
<1>6. ASSUME BumpWrite(p) PROVE NeverRaises'
  BY <1>0, <1>6 DEF BumpWrite, NeverRaises, TypeOK, End, Goto
<1>7. ASSUME BeginRead(p) PROVE NeverRaises'
  BY <1>0, <1>7 DEF BeginRead, NeverRaises, TypeOK, End, Goto
<1>8. ASSUME DeriveIndex(p) PROVE NeverRaises'
  BY <1>0, <1>8 DEF DeriveIndex, NeverRaises, TypeOK, End, Goto
<1>9. ASSUME RefreshCache(p) PROVE NeverRaises'
  BY <1>0, <1>9 DEF RefreshCache, NeverRaises, TypeOK, End, Goto
<1>10. ASSUME Crash(p) PROVE NeverRaises'
  BY <1>0, <1>10 DEF Crash, NeverRaises, TypeOK, End, Goto
<1>11. CASE RmOpen(p) \/ RmUnlink(p) \/ RmDir(p) \/ MkDir(p) \/ WriteFile(p)
             \/ CheckFinal(p) \/ Admit(p)
  <2>1. UNCHANGED outcome
    BY <1>11, OwnRmOpen, OwnRmUnlink, OwnRmDir, OwnMkDir, OwnWriteFile,
       OwnCheckFinal, OwnAdmit
  <2> QED
    BY <1>0, <2>1 DEF NeverRaises
<1> QED
  BY <1>1, <1>2, <1>3, <1>4, <1>5, <1>6, <1>7, <1>8, <1>9, <1>10, <1>11
  DEF Step, Insert, Read

(* The directories stay apart, and complete where they are admitted. *)
Sorted == Placed /\ Apart /\ AdmittedComplete

(* A step that moves no directory, and touches no admitted one. *)
LEMMA StillSorted ==
  ASSUME TypeOK, Sorted, UNCHANGED <<tmp, final>>,
         \A q \in Proc : calls[q] \in Nat /\ calls'[q] \in {calls[q], calls[q] + 1},
         \A id \in Id : final[id] # None => files'[final[id]] = files[final[id]]
  PROVE  Sorted'
<1>1. \A i \in Inode : i[2] <= calls[i[1]] => i[2] <= calls'[i[1]]
  <2> SUFFICES ASSUME NEW i \in Inode, i[2] <= calls[i[1]]
               PROVE  i[2] <= calls'[i[1]]
    OBVIOUS
  <2>1. i[1] \in Proc /\ i[2] \in Nat
    BY GateAssumption DEF Inode
  <2>2. calls[i[1]] \in Nat /\ calls'[i[1]] \in {calls[i[1]], calls[i[1]] + 1}
    BY <2>1
  <2> QED
    BY <2>1, <2>2
<1>2. Placed'
  <2>1. \A id \in Id : tmp[id] \in Inode \cup {None} /\ final[id] \in Inode \cup {None}
    BY DEF TypeOK
  <2> QED
    BY <1>1, <2>1 DEF Sorted, Placed
<1> QED
  BY <1>2 DEF Sorted, Apart, AdmittedComplete

LEMMA SortedStep ==
  ASSUME DistinctSources, OwnInv, NEW p \in Proc, Step(p)
  PROVE  Sorted'
<1>0. TypeOK /\ Sorted /\ Alone(p) /\ Knows(p) /\ Prepared(p)
  BY StepAlone DEF OwnInv, GateInv, Sorted, Knows, Prepared
<1>a. \A q \in Proc : calls[q] \in Nat
  BY <1>0, GateAssumption DEF TypeOK
<1>b. \A id \in Id : final[id] # None => final[id] \in Inode
  BY <1>0 DEF TypeOK
<1>1. ASSUME NEW h \in Hash, Begin(p, h) PROVE Sorted'
  <2>1. UNCHANGED <<tmp, final, files>> /\ \A q \in Proc : calls'[q] \in {calls[q], calls[q] + 1}
    BY <1>0, <1>1 DEF Begin, TypeOK, disk, tallies
  <2> QED
    BY <1>0, <1>a, <2>1, StillSorted
<1>2. ASSUME Scan(p) PROVE Sorted'
  <2>1. UNCHANGED <<tmp, final, files>> /\ \A q \in Proc : calls'[q] \in {calls[q], calls[q] + 1}
    BY <1>0, <1>2 DEF Scan, TypeOK, disk, tallies
  <2> QED
    BY <1>0, <1>a, <2>1, StillSorted
<1>3. ASSUME RunGate(p) PROVE Sorted'
  <2>1. UNCHANGED <<tmp, final, files>> /\ \A q \in Proc : calls'[q] \in {calls[q], calls[q] + 1}
    BY <1>0, <1>3 DEF RunGate, TypeOK, disk, tallies
  <2> QED
    BY <1>0, <1>a, <2>1, StillSorted
<1>4. ASSUME CheckTmp(p) PROVE Sorted'
  <2>1. UNCHANGED <<tmp, final, files>> /\ \A q \in Proc : calls'[q] \in {calls[q], calls[q] + 1}
    BY <1>0, <1>4 DEF CheckTmp, TypeOK, disk, tallies
  <2> QED
    BY <1>0, <1>a, <2>1, StillSorted
<1>5. ASSUME RmOpen(p) PROVE Sorted'
  <2>1. UNCHANGED <<tmp, final, files>> /\ \A q \in Proc : calls'[q] \in {calls[q], calls[q] + 1}
    BY <1>0, <1>5, OwnRmOpen DEF RmOpen, TypeOK, disk, tallies
  <2> QED
    BY <1>0, <1>a, <2>1, StillSorted
<1>6. ASSUME CheckFinal(p) PROVE Sorted'
  <2>1. UNCHANGED <<tmp, final, files>> /\ \A q \in Proc : calls'[q] \in {calls[q], calls[q] + 1}
    BY <1>0, <1>6 DEF CheckFinal, TypeOK, disk, tallies
  <2> QED
    BY <1>0, <1>a, <2>1, StillSorted
<1>7. ASSUME BumpRead(p) PROVE Sorted'
  <2>1. UNCHANGED <<tmp, final, files>> /\ \A q \in Proc : calls'[q] \in {calls[q], calls[q] + 1}
    BY <1>0, <1>7 DEF BumpRead, TypeOK, disk, tallies
  <2> QED
    BY <1>0, <1>a, <2>1, StillSorted
<1>8. ASSUME BumpWrite(p) PROVE Sorted'
  <2>1. UNCHANGED <<tmp, final, files>> /\ \A q \in Proc : calls'[q] \in {calls[q], calls[q] + 1}
    BY <1>0, <1>8, OwnBumpWrite DEF BumpWrite, TypeOK, disk, tallies
  <2> QED
    BY <1>0, <1>a, <2>1, StillSorted
<1>9. ASSUME BeginRead(p) PROVE Sorted'
  <2>1. UNCHANGED <<tmp, final, files>> /\ \A q \in Proc : calls'[q] \in {calls[q], calls[q] + 1}
    BY <1>0, <1>9 DEF BeginRead, TypeOK, disk, tallies
  <2> QED
    BY <1>0, <1>a, <2>1, StillSorted
<1>10. ASSUME DeriveIndex(p) PROVE Sorted'
  <2>1. UNCHANGED <<tmp, final, files>> /\ \A q \in Proc : calls'[q] \in {calls[q], calls[q] + 1}
    BY <1>0, <1>10 DEF DeriveIndex, TypeOK, disk, tallies
  <2> QED
    BY <1>0, <1>a, <2>1, StillSorted
<1>11. ASSUME RefreshCache(p) PROVE Sorted'
  <2>1. UNCHANGED <<tmp, final, files>> /\ \A q \in Proc : calls'[q] \in {calls[q], calls[q] + 1}
    BY <1>0, <1>11 DEF RefreshCache, TypeOK, disk, tallies
  <2> QED
    BY <1>0, <1>a, <2>1, StillSorted
<1>12. ASSUME Crash(p) PROVE Sorted'
  <2>1. UNCHANGED <<tmp, final, files>> /\ \A q \in Proc : calls'[q] \in {calls[q], calls[q] + 1}
    BY <1>0, <1>12 DEF Crash, TypeOK, disk, tallies
  <2> QED
    BY <1>0, <1>a, <2>1, StillSorted
<1>13. ASSUME RmUnlink(p) PROVE Sorted'
  <2>1. MyId(p) \in Id /\ tmp[MyId(p)] # None
    BY <1>13, OwnTyped DEF RmUnlink, OwnPaths, Inserting, Verified
  <2>2. UNCHANGED <<tmp, final, calls>>
    BY <1>13, OwnRmUnlink DEF tallies
  <2>3. \A i \in Inode : i # tmp[MyId(p)] => files'[i] = files[i]
    BY <1>0, <1>13, <2>1, OwnRmUnlink DEF RmUnlink, Prepared, OwnPaths, TypeOK
  <2>4. \A id \in Id : final[id] # None => files'[final[id]] = files[final[id]]
    BY <1>0, <1>b, <2>1, <2>3 DEF Sorted, Placed
  <2> QED
    BY <1>0, <1>a, <2>2, <2>4, StillSorted
<1>14. ASSUME WriteFile(p) PROVE Sorted'
  <2>1. MyId(p) \in Id /\ tmp[MyId(p)] # None
    BY <1>14, OwnTyped DEF WriteFile, OwnPaths, Inserting, Verified
  <2>2. UNCHANGED <<tmp, final, calls>>
    BY <1>14, OwnWriteFile DEF tallies
  <2>3. \A i \in Inode : i # tmp[MyId(p)] => files'[i] = files[i]
    BY <1>0, <1>14, <2>1, OwnWriteFile DEF WriteFile, Prepared, OwnPaths, TypeOK
  <2>4. \A id \in Id : final[id] # None => files'[final[id]] = files[final[id]]
    BY <1>0, <1>b, <2>1, <2>3 DEF Sorted, Placed
  <2> QED
    BY <1>0, <1>a, <2>2, <2>4, StillSorted
<1>15. ASSUME RmDir(p) PROVE Sorted'
  <2>1. /\ \A id \in Id : tmp'[id] \in {tmp[id], None}
        /\ UNCHANGED <<final, files, calls>>
    BY <1>0, <1>15, OwnRmDir DEF TypeOK, tallies
  <2> QED
    BY <1>0, <2>1 DEF Sorted, Placed, Apart, AdmittedComplete
<1>16. ASSUME MkDir(p) PROVE Sorted'
  <2>1. /\ MyId(p) \in Id /\ MyId(p)[1] = SourceOf[p]
        /\ <<p, calls[p]>> \in Inode
    BY <1>16, OwnTyped DEF MkDir, Inserting, Verified
  <2>2. PICK i \in Inode : i = <<p, calls[p]>>
    BY <2>1
  <2>3. /\ tmp' = [tmp EXCEPT ![MyId(p)] = i]
        /\ files' = [files EXCEPT ![i] = {}]
        /\ UNCHANGED <<final, calls>>
    BY <1>16, <2>2, OwnMkDir DEF tallies
  <2>4. \A id \in Id : tmp[id] # i /\ final[id] # i
    BY <1>0, <1>16, <2>2 DEF MkDir, Prepared, Fresh
  <2>5. i[1] = p /\ i[2] = calls[p] /\ calls[p] <= calls[p]
    BY <1>a, <2>2
  <2>6. tmp'[MyId(p)] = i /\ \A id \in Id : id # MyId(p) => tmp'[id] = tmp[id]
    BY <1>0, <2>1, <2>3 DEF TypeOK
  <2>7. Placed'
    BY <1>0, <2>1, <2>3, <2>4, <2>5, <2>6 DEF Sorted, Placed
  <2>8. Apart'
    BY <1>0, <2>3, <2>4, <2>6 DEF Sorted, Apart
  <2>9. AdmittedComplete'
    BY <1>0, <1>b, <2>3, <2>4 DEF Sorted, AdmittedComplete, TypeOK
  <2> QED
    BY <2>7, <2>8, <2>9 DEF Sorted
<1>17. ASSUME Admit(p) PROVE Sorted'
  <2>1. /\ MyId(p) \in Id /\ tmp[MyId(p)] # None
        /\ files[tmp[MyId(p)]] = File
    BY <1>17, OwnTyped DEF Admit, OwnPaths, Inserting, Verified
  <2>2. /\ final'[MyId(p)] = tmp[MyId(p)] /\ tmp'[MyId(p)] = None
        /\ \A id \in Id : id # MyId(p) => final'[id] = final[id] /\ tmp'[id] = tmp[id]
        /\ UNCHANGED <<files, calls>>
    BY <1>0, <1>17, <2>1, OwnAdmit DEF TypeOK, tallies
  <2>3. \A id \in Id : id # MyId(p) /\ tmp[id] # None => tmp[id] # tmp[MyId(p)]
    BY <1>0, <2>1 DEF Sorted, Apart
  <2>4. Placed'
    BY <1>0, <2>1, <2>2, <2>3 DEF Sorted, Placed
  <2>5. Apart'
    BY <1>0, <2>1, <2>2, <2>3 DEF Sorted, Placed, Apart
  <2>6. AdmittedComplete'
    BY <1>0, <2>1, <2>2 DEF Sorted, AdmittedComplete
  <2> QED
    BY <2>4, <2>5, <2>6 DEF Sorted
<1> QED
  BY <1>1, <1>2, <1>3, <1>4, <1>5, <1>6, <1>7, <1>8, <1>9, <1>10, <1>11, <1>12, <1>13, <1>14, <1>15, <1>16, <1>17
  DEF Step, Insert, Read

-----------------------------------------------------------------------------
LEMMA OwnInvInit == ASSUME Init PROVE OwnInv
<1>1. GateInv
  BY GateInvInit
<1>2. Placed /\ Apart /\ AdmittedComplete /\ NeverRaises
  BY DEF Init, Placed, Apart, AdmittedComplete, NeverRaises
<1>3. \A p \in Proc : Fresh(p) /\ OwnPaths(p) /\ Answers(p)
  BY DEF Init, Fresh, OwnPaths, Answers, Verified
<1> QED
  BY <1>1, <1>2, <1>3 DEF OwnInv

LEMMA OwnInvStep ==
  ASSUME DistinctSources, OwnInv, [Next]_gateVars
  PROVE  OwnInv'
<1>1. GateInv'
  BY GateInvStep DEF OwnInv
<1>2. ASSUME NEW p \in Proc, Step(p) PROVE OwnInv'
  <2>1. \A q \in Proc : (Fresh(q) /\ OwnPaths(q) /\ Answers(q))'
    BY <1>2, SelfOwn, OthersOwn DEF Prepared
  <2> QED
    BY <1>1, <1>2, <2>1, NeverRaisesStep, SortedStep DEF OwnInv, Sorted
<1>3. CASE UNCHANGED gateVars
  BY <1>1, <1>3
  DEF gateVars, OwnInv, Placed, Apart, AdmittedComplete, NeverRaises, Fresh,
      OwnPaths, Answers, MyId, Derived
<1> QED
  BY <1>2, <1>3 DEF Next, Step

(* The inductive invariant of fillers with sources of their own.           *)
THEOREM OwnInvHolds == ASSUME DistinctSources PROVE Spec => []OwnInv
  BY OwnInvInit, OwnInvStep, PTL DEF Spec

(* Fillers with sources of their own never lose a file of an admitted      *)
(* design: "concurrent inserts cannot lose a design" holds of them,        *)
(* wherever they are killed.                                               *)
THEOREM OwnAdmittedComplete ==
  ASSUME DistinctSources PROVE Spec => []AdmittedComplete
<1>1. OwnInv => AdmittedComplete
  BY DEF OwnInv
<1> QED
  BY <1>1, OwnInvHolds, PTL

(* Nor does a left-over directory or a race make any of their calls raise. *)
THEOREM OwnNeverRaises ==
  ASSUME DistinctSources PROVE Spec => []NeverRaises
<1>1. OwnInv => NeverRaises
  BY DEF OwnInv
<1> QED
  BY <1>1, OwnInvHolds, PTL
-----------------------------------------------------------------------------
(* What the callers see: the steps of the abstract library.  *)
told == [p \in Proc |-> IF outcome[p] = "stored" THEN hit[p] ELSE None]

(* Most steps are invisible: an identifier found is not told yet. *)
LEMMA Invisible ==
  ASSUME UNCHANGED <<final, job, outcome>>,
         \A p \in Proc : outcome[p] = "stored" => hit'[p] = hit[p]
  PROVE  UNCHANGED Library!libraryVars
<1>1. told' = told
  BY DEF told
<1>2. Derived' = Derived
  BY DEF Derived
<1> QED
  BY <1>1, <1>2 DEF told, Library!libraryVars

(* The end of a call that returns the identifier it holds. *)
LEMMA Returns ==
  ASSUME TypeOK, NEW p \in Proc, job[p] # None, outcome[p] = "none",
         hit[p] \in Derived, hit[p][2] = job[p],
         outcome' = [outcome EXCEPT ![p] = "stored"],
         UNCHANGED <<final, job, hit>>
  PROVE  Library!LibraryNext
<1>1. PICK id \in Source \X Hash : id = hit[p]
  BY DEF Derived, Id
<1>2. told' = [told EXCEPT ![p] = id]
  BY <1>1 DEF told, TypeOK
<1>3. Derived' = Derived
  BY DEF Derived
<1>4. Library!ReturnStored(p, id)
  BY <1>1, <1>2, <1>3 DEF told, Library!ReturnStored
<1> QED
  BY <1>4 DEF Library!LibraryNext

LEMMA LibraryStep ==
  ASSUME DistinctSources, OwnInv, NEW p \in Proc, Step(p)
  PROVE  [Library!LibraryNext]_(Library!libraryVars)
<1> USE DEF Inserting, Verified
<1>0. TypeOK /\ Knows(p) /\ Prepared(p)
  BY DEF OwnInv, GateInv, Knows, Prepared
<1>1. ASSUME NEW h \in Hash, Begin(p, h) PROVE Library!Submit(p, h)
  <2>1. told' = [told EXCEPT ![p] = None]
    BY <1>0, <1>1 DEF Begin, told, TypeOK
  <2>2. Derived' = Derived
    BY <1>1 DEF Begin, Derived, disk
  <2> QED
    BY <1>1, <2>1, <2>2 DEF Begin, told, Library!Submit
<1>2. ASSUME BeginRead(p) PROVE Library!Submit(p, None)
  <2>1. told' = [told EXCEPT ![p] = None]
    BY <1>0, <1>2 DEF BeginRead, told, TypeOK
  <2>2. Derived' = Derived
    BY <1>2 DEF BeginRead, Derived, disk
  <2> QED
    BY <1>2, <2>1, <2>2 DEF BeginRead, told, Library!Submit
<1>3. ASSUME Crash(p) PROVE Library!Submit(p, None)
  <2>1. outcome[p] = "none" /\ outcome' = outcome
    BY <1>0, <1>3 DEF Crash, Prepared, Answers
  <2>2. outcome' = [outcome EXCEPT ![p] = "none"]
    BY <1>0, <2>1 DEF TypeOK
  <2>3. told' = [told EXCEPT ![p] = None]
    BY <1>0, <1>3, <2>1 DEF Crash, told, TypeOK
  <2>4. Derived' = Derived
    BY <1>3 DEF Crash, Derived, disk
  <2> QED
    BY <1>3, <2>2, <2>3, <2>4 DEF Crash, told, Library!Submit
<1>4. ASSUME Admit(p) PROVE Library!Enter(p, SourceOf[p])
  <2>1. MyId(p) \in Id /\ tmp[MyId(p)] # None /\ job[p] \in Correct
    BY <1>0, <1>4, OwnTyped DEF Admit, OwnPaths, Knows, PastGate
  <2>2. /\ \A id \in Id : final'[id] = IF id = MyId(p) THEN tmp[MyId(p)] ELSE final[id]
        /\ UNCHANGED <<job, hit, outcome>>
    BY <1>0, <1>4, OwnAdmit DEF TypeOK
  <2>3. Derived' = Derived \cup {<<SourceOf[p], job[p]>>}
    BY <2>1, <2>2 DEF Derived, MyId
  <2>4. told' = told
    BY <2>2 DEF told
  <2> QED
    BY <2>1, <2>2, <2>3, <2>4 DEF told, Library!Enter
<1>5. ASSUME RunGate(p), ~PassesGate(job[p]), End(p, "rejected")
      PROVE  Library!ReturnRejected(p)
  <2>1. /\ outcome[p] = "none" /\ outcome' = [outcome EXCEPT ![p] = "rejected"]
        /\ UNCHANGED <<final, job, hit>>
    BY <1>0, <1>5 DEF RunGate, End, Prepared, Answers, disk
  <2>2. told' = told
    BY <1>0, <2>1 DEF told, TypeOK
  <2>3. job[p] \in Hash \ Correct
    BY <1>0, <1>5 DEF RunGate, PassesGate, Knows, Remembers
  <2>4. Derived' = Derived
    BY <2>1 DEF Derived
  <2> QED
    BY <2>1, <2>2, <2>3, <2>4 DEF told, Library!ReturnRejected
<1>6. ASSUME BumpWrite(p) \/ (BumpRead(p) /\ "provenance.json" \notin files[final[hit[p]]])
      PROVE  Library!LibraryNext
  <2>1. /\ outcome' = [outcome EXCEPT ![p] = "stored"]
        /\ UNCHANGED <<final, job, hit>>
    BY <1>6 DEF BumpWrite, BumpRead, End, disk
  <2>2. pc[p] \in {"bump", "bump_write"}
    BY <1>6 DEF BumpWrite, BumpRead
  <2>3. job[p] \in Hash /\ job[p] # None /\ outcome[p] = "none"
    BY <1>0, <2>2, GateAssumption DEF Knows, Remembers, Prepared, Answers
  <2>4. hit[p] \in Derived /\ hit[p][2] = job[p]
    BY <1>0, <2>2 DEF Knows, FoundHit, HasHit
  <2> QED
    BY <1>0, <2>1, <2>3, <2>4, Returns
<1>7. ASSUME RefreshCache(p), job[p] # None PROVE Library!LibraryNext
  <2>1. /\ outcome' = [outcome EXCEPT ![p] = "stored"]
        /\ UNCHANGED <<final, job, hit>>
    BY <1>7 DEF RefreshCache, End
  <2>2. /\ outcome[p] = "none"
        /\ hit[p] \in Derived /\ hit[p][2] = job[p]
    BY <1>0, <1>7 DEF RefreshCache, Prepared, Answers
  <2> QED
    BY <1>0, <1>7, <2>1, <2>2, Returns
<1>8. ASSUME RefreshCache(p), job[p] = None PROVE UNCHANGED Library!libraryVars
  <2>1. outcome[p] = "none" /\ outcome' = [outcome EXCEPT ![p] = "none"]
    BY <1>0, <1>8 DEF RefreshCache, End, Prepared, Answers
  <2>2. outcome' = outcome
    BY <1>0, <2>1 DEF TypeOK
  <2> QED
    BY <1>8, <2>2, Invisible DEF RefreshCache
<1>9. ASSUME \/ Scan(p) \/ CheckTmp(p) \/ DeriveIndex(p)
             \/ (RunGate(p) /\ UNCHANGED outcome)
             \/ (BumpRead(p) /\ "provenance.json" \in files[final[hit[p]]])
      PROVE  UNCHANGED Library!libraryVars
  <2>1. UNCHANGED <<final, job, outcome>> /\ pc[p] # "idle"
    BY <1>9 DEF Scan, RunGate, CheckTmp, DeriveIndex, BumpRead, disk
  <2>2. \A q \in Proc \ {p} : hit'[q] = hit[q]
    BY <1>0, <1>9 DEF Scan, RunGate, CheckTmp, DeriveIndex, BumpRead, TypeOK
  <2>3. outcome[p] = "none"
    BY <1>0, <2>1 DEF Prepared, Answers
  <2> QED
    BY <2>1, <2>2, <2>3, Invisible
<1>10. ASSUME RmOpen(p) \/ RmUnlink(p) \/ RmDir(p) \/ MkDir(p) \/ WriteFile(p)
       PROVE  UNCHANGED Library!libraryVars
  <2>1. UNCHANGED <<final, job, outcome, hit>>
    BY <1>10, OwnRmOpen, OwnRmUnlink, OwnRmDir, OwnMkDir, OwnWriteFile DEF disk
  <2> QED
    BY <2>1, Invisible
<1>11. ASSUME CheckFinal(p) PROVE UNCHANGED Library!libraryVars
  <2>1. /\ UNCHANGED <<final, job, outcome>> /\ pc[p] # "idle"
        /\ hit' = [hit EXCEPT ![p] = MyId(p)]
    BY <1>11, OwnCheckFinal DEF CheckFinal, disk
  <2>2. outcome[p] = "none"
    BY <1>0, <2>1 DEF Prepared, Answers
  <2> QED
    BY <1>0, <2>1, <2>2, Invisible DEF TypeOK
<1>12. ASSUME NEW h \in Hash \cup {None}, Library!Submit(p, h)
       PROVE  Library!LibraryNext
  BY <1>12 DEF Library!LibraryNext
<1>13. ASSUME Library!Enter(p, SourceOf[p]) PROVE Library!LibraryNext
  BY <1>13, GateAssumption DEF Library!LibraryNext
<1>14. ASSUME Library!ReturnRejected(p) PROVE Library!LibraryNext
  BY <1>14 DEF Library!LibraryNext
<1>15. ASSUME RunGate(p), End(p, "undecided") PROVE Library!LibraryNext
  <2>1. /\ outcome[p] = "none" /\ outcome' = [outcome EXCEPT ![p] = "undecided"]
        /\ UNCHANGED <<final, job, hit>>
    BY <1>0, <1>15 DEF RunGate, End, Prepared, Answers, disk
  <2>2. told' = told
    BY <1>0, <2>1 DEF told, TypeOK
  <2>3. job[p] # None
    BY <1>0, <1>15, GateAssumption DEF RunGate, Knows, Remembers
  <2>4. Derived' = Derived
    BY <2>1 DEF Derived
  <2>5. Library!ReturnUndecided(p)
    BY <2>1, <2>2, <2>3, <2>4 DEF told, Library!ReturnUndecided
  <2> QED
    BY <2>5 DEF Library!LibraryNext
<1>16. CASE RunGate(p)
  BY <1>5, <1>9, <1>14, <1>15, <1>16 DEF RunGate
<1>17. CASE Insert(p)
  BY <1>1, <1>4, <1>6, <1>9, <1>10, <1>11, <1>12, <1>13, <1>16, <1>17
  DEF Insert
<1>18. CASE Read(p) \/ Crash(p)
  BY <1>2, <1>3, <1>7, <1>8, <1>9, <1>12, <1>18 DEF Read
<1> QED
  BY <1>17, <1>18 DEF Step

(* Fillers with sources of their own see the abstract library: what the    *)
(* .tmp directories, renames, dedup and kills do to one slot is never more *)
(* than entering verified designs and answering with one that is there.    *)
THEOREM OwnImplementsLibrary ==
  ASSUME DistinctSources PROVE Spec => ImplementsLibrary
<1>1. Init => Library!LibraryInit
  BY DEF Init, Derived, Library!LibraryInit
<1>2. ASSUME OwnInv, [Next]_gateVars
      PROVE  [Library!LibraryNext]_(Library!libraryVars)
  <2>1. CASE UNCHANGED gateVars
    BY <2>1, Invisible DEF gateVars
  <2> QED
    BY <1>2, <2>1, LibraryStep DEF Next, Step
<1> QED
  BY <1>1, <1>2, OwnInvHolds, PTL DEF Spec, ImplementsLibrary, Library!LibrarySpec
=============================================================================
