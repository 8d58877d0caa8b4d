------------------------------ MODULE ReleaseLog ------------------------------
(* What the version pipeline promises about the history of an environment:  *)
(* a log whose entries are numbered one by one, one draft open at a time,   *)
(* each sealed once with all of the working copy, and kept while it is      *)
(* served or among the newest (version-service.ts:48-53 and                 *)
(* prisma-version-repository.ts:121-125 of the repository say so).          *)
(*                                                                          *)
(* While requests overlap, less is promised: numbers are still unique and   *)
(* without a gap, what is served is sealed, what is sealed was saved, and   *)
(* no draft is lost.  VersionPipeline implements this specification.        *)
EXTENDS Naturals, FiniteSets

CONSTANTS
  Ids,        \* names of entries
  Halves,     \* the parts of the working copy
  Contents,   \* what an entry may hold: part -> how many saves it has seen
  Keep,       \* how many of the newest entries are kept
  None        \* no entry, not sealed

VARIABLES
  working,    \* part -> the saves it has seen
  number,     \* entry -> its number, 0 if there is no such entry
  content,    \* entry -> what was sealed into it, None if it is a draft
  live,       \* the entry that is served, or None
  given,      \* the highest number given so far
  overlap     \* whether requests overlap

vars == <<working, number, content, live, given, overlap>>

Entries == {v \in Ids : number[v] # 0}
Draft(v) == v \in Entries /\ content[v] = None
Newer(v) == {u \in Entries : number[u] > number[v]}

Init ==
  /\ working = [h \in Halves |-> 0]
  /\ number = [v \in Ids |-> 0]
  /\ content = [v \in Ids |-> None]
  /\ live = None
  /\ given = 0
  /\ overlap = FALSE

Save(h) ==
  /\ working' = [working EXCEPT ![h] = @ + 1]
  /\ UNCHANGED <<number, content, live, given>>

\* A draft is opened when there is none, under the next number.
Open(v, n) ==
  /\ number[v] = 0
  /\ \A u \in Entries : number[u] # n
  /\ ~overlap => /\ \A u \in Entries : ~Draft(u) /\ number[u] < n
                 /\ n = 1 \/ \E u \in Entries : number[u] = n - 1
  /\ number' = [number EXCEPT ![v] = n]
  /\ given' = IF n > given THEN n ELSE given
  /\ UNCHANGED <<working, content, live>>

\* The working copy is sealed into a draft: all of it, at once, and for good.
Seal(v, s) ==
  /\ v \in Entries
  /\ \A h \in Halves : s[h] <= working[h]
  /\ ~overlap => Draft(v) /\ s = working
  /\ content' = [content EXCEPT ![v] = s]
  /\ UNCHANGED <<working, number, live, given>>

\* A publish or a rollback repoints the environment at a sealed entry.
Serve(v) ==
  /\ content[v] # None
  /\ live' = v
  /\ UNCHANGED <<working, number, content, given>>

\* Sealed entries go that are neither served nor among the newest.
Prune(gone) ==
  /\ \A v \in gone : content[v] # None
  /\ ~overlap => live \notin gone /\ \A v \in gone : Cardinality(Newer(v)) >= Keep
  /\ number' = [v \in Ids |-> IF v \in gone THEN 0 ELSE number[v]]
  /\ content' = [v \in Ids |-> IF v \in gone THEN None ELSE content[v]]
  /\ live' = IF live \in gone THEN None ELSE live
  /\ UNCHANGED <<working, given>>

\* Requests come and go.
Nothing == UNCHANGED <<working, number, content, live, given>>

Next ==
  /\ overlap' \in BOOLEAN
  /\ \/ Nothing
     \/ \E h \in Halves : Save(h)
     \/ \E v \in Ids : \E n \in 1..(given + 1) : Open(v, n)
     \/ \E v \in Ids, s \in Contents : Seal(v, s)
     \/ \E v \in Ids : Serve(v)
     \/ \E gone \in SUBSET Ids : Prune(gone)

Spec == Init /\ [][Next]_vars
=============================================================================
