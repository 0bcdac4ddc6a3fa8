---------------------------- MODULE DesignLibrary ---------------------------
(***************************************************************************)
(* What a slot of the design DB promises the programs that insert into it, *)
(* without directories or files: a set of admitted designs that only       *)
(* grows, and only by structures the acceptance oracle passes; a program   *)
(* that submits a structure is told the identifier of an admitted design   *)
(* with that structure, that the oracle rejected it, or that the oracle    *)
(* did not decide in time.                                                 *)
(***************************************************************************)
CONSTANTS
  Proc,       \* the programs
  Source,     \* provenance tags
  Hash,       \* circuit structures
  Correct,    \* the structures the oracle passes
  None        \* no structure, no identifier

VARIABLES
  library,    \* identifiers of the admitted designs
  asked,      \* the structure each program submitted
  verdict,    \* "none", "stored", "rejected" or "undecided"
  told        \* the identifier each program was told

libraryVars == <<library, asked, verdict, told>>

LibraryInit ==
  /\ library = {}
  /\ asked = [p \in Proc |-> None]
  /\ verdict = [p \in Proc |-> "none"]
  /\ told = [p \in Proc |-> None]

(* A program submits a structure, or turns to something else (it dies, or  *)
(* only reads): its former answer is gone.                                 *)
Submit(p, h) ==
  /\ asked' = [asked EXCEPT ![p] = h]
  /\ verdict' = [verdict EXCEPT ![p] = "none"]
  /\ told' = [told EXCEPT ![p] = None]
  /\ UNCHANGED library

(* A structure somebody submitted enters the library under a source.       *)
Enter(p, s) ==
  /\ asked[p] \in Correct
  /\ library' = library \cup {<<s, asked[p]>>}
  /\ UNCHANGED <<asked, verdict, told>>

ReturnStored(p, id) ==
  /\ asked[p] # None /\ verdict[p] = "none"
  /\ id \in library /\ id[2] = asked[p]
  /\ verdict' = [verdict EXCEPT ![p] = "stored"]
  /\ told' = [told EXCEPT ![p] = id]
  /\ UNCHANGED <<library, asked>>

ReturnRejected(p) ==
  /\ asked[p] \in Hash \ Correct /\ verdict[p] = "none"
  /\ verdict' = [verdict EXCEPT ![p] = "rejected"]
  /\ UNCHANGED <<library, asked, told>>

ReturnUndecided(p) ==
  /\ asked[p] # None /\ verdict[p] = "none"
  /\ verdict' = [verdict EXCEPT ![p] = "undecided"]
  /\ UNCHANGED <<library, asked, told>>

LibraryNext ==
  \E p \in Proc :
    \/ \E h \in Hash \cup {None} : Submit(p, h)
    \/ \E s \in Source : Enter(p, s)
    \/ \E id \in Source \X Hash : ReturnStored(p, id)
    \/ ReturnRejected(p) \/ ReturnUndecided(p)

LibrarySpec == LibraryInit /\ [][LibraryNext]_libraryVars
=============================================================================
