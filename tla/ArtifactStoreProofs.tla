------------------------ MODULE ArtifactStoreProofs ------------------------
(***************************************************************************)
(* Proofs about ArtifactStore, for any artifacts, sessions and sizes.      *)
(* The queue of cleanups: a session has in flight exactly its own          *)
(* unfinished saves, so the copy that a cleanup takes of them has all      *)
(* those that wait in the queue before it.  The files: only an artifact's  *)
(* own save, update or retrieval makes its directory.                      *)
(***************************************************************************)
EXTENDS ArtifactStore, ListsProofs, FiniteSetTheorems, TLAPS

QueueTypes ==
  /\ pc \in [Artifacts -> Saving \cup {"new", "read", "rewrite", "reduced", "original"}]
  /\ inFlight \in [Sessions -> SUBSET Artifacts]
  /\ chain \in [Sessions -> Seq(Cleanup)]

InFlightInv ==
  \A a \in Artifacts, s \in Sessions :
    a \in inFlight[s] <=> s = SessionOf[a] /\ pc[a] \in Saving

(* A cleanup in the queue is one that a save of the session waits for.     *)
AwaitedInv ==
  \A s \in Sessions : \A i \in 1..Len(chain[s]) :
    chain[s][i].by # None => pc[chain[s][i].by] = "prune" /\ SessionOf[chain[s][i].by] = s

KeptInv ==
  \A s \in Sessions : \A i, j \in 1..Len(chain[s]) :
    i <= j /\ chain[s][i].by # None => chain[s][i].by \in chain[s][j].keep

(* A prune that has scanned is that of the first cleanup of the queue.     *)
PruneInv ==
  /\ DOMAIN left = Sessions
  /\ \A s \in Sessions :
       /\ DOMAIN left[s] = {"scanned", "items", "removing"}
       /\ left[s].scanned => chain[s] # <<>>

QueueInv == QueueTypes /\ InFlightInv /\ AwaitedInv /\ KeptInv /\ PruneInv

LEMMA InitQueue == Init => QueueInv
  <1> SUFFICES ASSUME Init PROVE QueueInv
    OBVIOUS
  <1>1. \A s \in Sessions : chain[s] = <<[by |-> None, keep |-> {}]>>
    BY DEF Init
  <1>2. QueueTypes
    BY OldAssumption DEF Init, QueueTypes, Cleanup, Saving
  <1>3. InFlightInv
    BY DEF Init, InFlightInv, Saving
  <1>4. AwaitedInv /\ KeptInv
    BY <1>1 DEF AwaitedInv, KeptInv
  <1>5. PruneInv
    BY <1>1 DEF Init, PruneInv, NoPrune
  <1> QED
    BY <1>2, <1>3, <1>4, <1>5 DEF QueueInv

(* A step of a save that leaves the queue alone: the save goes on within   *)
(* Saving, or its session forgets it.                                      *)
LEMMA SaveStep ==
  ASSUME QueueInv, NEW a \in Artifacts, NEW to, Goto(a, to), pc[a] # "prune",
         to \in Saving \cup {"new", "read", "rewrite", "reduced", "original"},
         to # "prune",
         UNCHANGED pruner,
         \/ (pc[a] \in Saving <=> to \in Saving) /\ UNCHANGED inFlight
         \/ to \in Saving /\ inFlight' = [inFlight EXCEPT ![SessionOf[a]] = @ \cup {a}]
         \/ to \notin Saving /\ inFlight' = [inFlight EXCEPT ![SessionOf[a]] = @ \ {a}]
  PROVE  QueueInv'
  <1> USE SessionOfAssumption
  <1>1. chain' = chain /\ left' = left
    BY DEF pruner
  <1>2. pc'[a] = to /\ \A b \in Artifacts \ {a} : pc'[b] = pc[b]
    BY DEF Goto, QueueInv, QueueTypes
  <1>3. pc' \in [Artifacts -> Saving \cup {"new", "read", "rewrite", "reduced", "original"}]
    BY DEF Goto, QueueInv, QueueTypes
  <1>4. inFlight' \in [Sessions -> SUBSET Artifacts] /\ InFlightInv'
    <2>1. SessionOf[a] \in Sessions /\ inFlight \in [Sessions -> SUBSET Artifacts]
      BY DEF QueueInv, QueueTypes
    <2>2. \A b \in Artifacts, s \in Sessions :
            b \in inFlight[s] <=> s = SessionOf[b] /\ pc[b] \in Saving
      BY DEF QueueInv, InFlightInv
    <2>3. CASE (pc[a] \in Saving <=> to \in Saving) /\ UNCHANGED inFlight
      BY <1>2, <2>1, <2>2, <2>3 DEF InFlightInv
    <2>4. CASE /\ to \in Saving
               /\ inFlight' = [inFlight EXCEPT ![SessionOf[a]] = @ \cup {a}]
      BY <1>2, <2>1, <2>2, <2>4 DEF InFlightInv
    <2>5. CASE /\ to \notin Saving
               /\ inFlight' = [inFlight EXCEPT ![SessionOf[a]] = @ \ {a}]
      BY <1>2, <2>1, <2>2, <2>5 DEF InFlightInv
    <2> QED
      BY <2>3, <2>4, <2>5
  <1>5. AwaitedInv'
    <2> SUFFICES ASSUME NEW s \in Sessions, NEW i \in 1..Len(chain[s]), chain[s][i].by # None
                 PROVE  pc'[chain[s][i].by] = "prune" /\ SessionOf[chain[s][i].by] = s
      BY <1>1 DEF AwaitedInv
    <2>1. pc[chain[s][i].by] = "prune" /\ SessionOf[chain[s][i].by] = s
      BY DEF QueueInv, AwaitedInv
    <2>2. chain[s][i] \in Cleanup
      BY DEF QueueInv, QueueTypes
    <2>3. chain[s][i].by \in Artifacts \ {a}
      BY <2>1, <2>2 DEF Cleanup
    <2> QED
      BY <1>2, <2>1, <2>3
  <1>6. KeptInv' /\ PruneInv'
    BY <1>1 DEF QueueInv, KeptInv, PruneInv
  <1> QED
    <2> QueueTypes'
      BY <1>1, <1>3, <1>4 DEF QueueInv, QueueTypes
    <2> QED
      BY <1>4, <1>5, <1>6 DEF QueueInv

(* A step of a prune that leaves the queue alone.                          *)
LEMMA PruneStep ==
  ASSUME QueueInv, UNCHANGED <<pc, inFlight, chain>>, PruneInv'
  PROVE  QueueInv'
  BY DEF QueueInv, QueueTypes, InFlightInv, AwaitedInv, KeptInv

LEMMA ScanKeeps == ASSUME QueueInv, NEW s \in Sessions, Scan(s) PROVE QueueInv'
  <1>1. chain[s] # <<>> /\ UNCHANGED <<pc, inFlight, chain>>
    BY DEF Scan
  <1>2. PICK items : left' = [left EXCEPT ![s].scanned = TRUE, ![s].items = items]
    BY DEF Scan
  <1>3. PruneInv'
    BY <1>1, <1>2 DEF QueueInv, PruneInv
  <1> QED
    BY <1>1, <1>3, PruneStep

LEMMA SkipKeeps == ASSUME QueueInv, NEW s \in Sessions, Skip(s) PROVE QueueInv'
  <1>1. UNCHANGED <<pc, inFlight, chain>> /\ PruneInv'
    BY DEF Skip, QueueInv, PruneInv
  <1> QED
    BY <1>1, PruneStep

LEMMA UnlinkFilesKeeps == ASSUME QueueInv, NEW s \in Sessions, UnlinkFiles(s) PROVE QueueInv'
  <1>1. UNCHANGED <<pc, inFlight, chain>> /\ PruneInv'
    BY DEF UnlinkFiles, QueueInv, PruneInv
  <1> QED
    BY <1>1, PruneStep

LEMMA RemoveDirectoryKeeps ==
  ASSUME QueueInv, NEW s \in Sessions, RemoveDirectory(s) PROVE QueueInv'
  <1>1. UNCHANGED <<pc, inFlight, chain>> /\ PruneInv'
    BY DEF RemoveDirectory, QueueInv, PruneInv
  <1> QED
    BY <1>1, PruneStep

(* What is left of the queue when its first cleanup has gone.              *)
LEMMA NextCleanupKeeps ==
  ASSUME QueueInv, NEW s \in Sessions, NextCleanup(s), chain[s] # <<>> PROVE QueueInv'
  <1>1. UNCHANGED <<pc, inFlight>> /\ chain' = [chain EXCEPT ![s] = Tail(@)]
    BY DEF NextCleanup
  <1>2. chain \in [Sessions -> Seq(Cleanup)]
    BY DEF QueueInv, QueueTypes
  <1>3. \A r \in Sessions : r # s => chain'[r] = chain[r]
    BY <1>1, <1>2
  <1>4. /\ chain'[s] = Tail(chain[s]) /\ chain'[s] \in Seq(Cleanup)
        /\ Len(chain'[s]) = Len(chain[s]) - 1
        /\ \A i \in 1..Len(chain'[s]) :
             i + 1 \in 1..Len(chain[s]) /\ chain'[s][i] = chain[s][i + 1]
    <2>1. chain'[s] = Tail(chain[s]) /\ chain[s] \in Seq(Cleanup)
      BY <1>1, <1>2
    <2> QED
      BY <2>1, HeadTailProperties
  <1>5. QueueTypes' /\ InFlightInv'
    BY <1>1, <1>2, <1>4 DEF QueueInv, QueueTypes, InFlightInv
  <1>6. AwaitedInv'
    <2> SUFFICES ASSUME NEW r \in Sessions, NEW i \in 1..Len(chain'[r]), chain'[r][i].by # None
                 PROVE  pc'[chain'[r][i].by] = "prune" /\ SessionOf[chain'[r][i].by] = r
      BY DEF AwaitedInv
    <2>1. CASE r = s
      <3>1. i + 1 \in 1..Len(chain[s]) /\ chain'[r][i] = chain[s][i + 1]
        BY <1>4, <2>1
      <3> QED
        BY <1>1, <2>1, <3>1 DEF QueueInv, AwaitedInv
    <2>2. CASE r # s
      BY <1>1, <1>3, <2>2 DEF QueueInv, AwaitedInv
    <2> QED
      BY <2>1, <2>2
  <1>7. KeptInv'
    <2> SUFFICES ASSUME NEW r \in Sessions,
                        NEW i \in 1..Len(chain'[r]), NEW j \in 1..Len(chain'[r]),
                        i <= j, chain'[r][i].by # None
                 PROVE  chain'[r][i].by \in chain'[r][j].keep
      BY DEF KeptInv
    <2>1. CASE r = s
      <3>1. /\ i + 1 \in 1..Len(chain[s]) /\ chain'[r][i] = chain[s][i + 1]
            /\ j + 1 \in 1..Len(chain[s]) /\ chain'[r][j] = chain[s][j + 1]
        BY <1>4, <2>1
      <3>2. i + 1 <= j + 1
        BY <1>4, <2>1
      <3> QED
        BY <3>1, <3>2 DEF QueueInv, KeptInv
    <2>2. CASE r # s
      BY <1>3, <2>2 DEF QueueInv, KeptInv
    <2> QED
      BY <2>1, <2>2
  <1>8. PruneInv'
    BY <1>3 DEF NextCleanup, NoPrune, QueueInv, PruneInv
  <1> QED
    BY <1>5, <1>6, <1>7, <1>8 DEF QueueInv

LEMMA EndPruneKeeps == ASSUME QueueInv, NEW s \in Sessions, EndPrune(s) PROVE QueueInv'
  <1>1. chain[s] # <<>> /\ NextCleanup(s)
    BY DEF EndPrune, QueueInv, PruneInv
  <1> QED
    BY <1>1, NextCleanupKeeps

LEMMA FailPruneKeeps == ASSUME QueueInv, NEW s \in Sessions, FailPrune(s) PROVE QueueInv'
  <1>1. chain[s] # <<>> /\ NextCleanup(s)
    BY DEF FailPrune
  <1> QED
    BY <1>1, NextCleanupKeeps

(* The cleanup that joins the queue keeps every save that the queue is of, *)
(* each being in flight, and its own.                                      *)
LEMMA RequestCleanupKeeps ==
  ASSUME QueueInv, NEW a \in Artifacts, RequestCleanup(a) PROVE QueueInv'
  <1> DEFINE s == SessionOf[a]
             n == Len(chain[s])
             new == [by |-> a, keep |-> inFlight[s]]
  <1> USE SessionOfAssumption, NoneAssumption
  <1>1. pc[a] = "cleanup" /\ pc' = [pc EXCEPT ![a] = "prune"] /\ UNCHANGED <<inFlight, left>>
    BY DEF RequestCleanup, Goto
  <1>2. QueueTypes /\ s \in Sessions /\ n \in Nat
    BY DEF QueueInv, QueueTypes
  <1>3. chain' = [chain EXCEPT ![s] = Append(chain[s], new)] /\ new \in Cleanup
    BY <1>2 DEF RequestCleanup, QueueTypes, Cleanup
  <1>4. /\ chain'[s] \in Seq(Cleanup) /\ Len(chain'[s]) = n + 1 /\ chain'[s][n + 1] = new
        /\ \A i \in 1..n : chain'[s][i] = chain[s][i]
        /\ chain'[s] # <<>>
    BY <1>2, <1>3 DEF QueueTypes
  <1>5. \A r \in Sessions : r # s => chain'[r] = chain[r]
    BY <1>2, <1>3 DEF QueueTypes
  <1>6. pc'[a] = "prune" /\ \A b \in Artifacts \ {a} : pc'[b] = pc[b]
    BY <1>1, <1>2 DEF QueueTypes
  <1>7. QueueTypes'
    BY <1>1, <1>2, <1>3, <1>4 DEF QueueTypes, Saving
  <1>8. InFlightInv'
    BY <1>1, <1>6 DEF QueueInv, InFlightInv, Saving
  <1>9. \A r \in Sessions : \A i \in 1..Len(chain[r]) :
          chain[r][i].by # None => /\ chain[r][i].by \in Artifacts
                                   /\ pc[chain[r][i].by] = "prune"
                                   /\ SessionOf[chain[r][i].by] = r
    <2> SUFFICES ASSUME NEW r \in Sessions, NEW i \in 1..Len(chain[r]), chain[r][i].by # None
                 PROVE  /\ chain[r][i].by \in Artifacts
                        /\ pc[chain[r][i].by] = "prune"
                        /\ SessionOf[chain[r][i].by] = r
      OBVIOUS
    <2>1. chain[r][i] \in Cleanup
      BY <1>2 DEF QueueTypes
    <2> QED
      BY <2>1 DEF Cleanup, QueueInv, AwaitedInv
  <1>10. AwaitedInv'
    <2> SUFFICES ASSUME NEW r \in Sessions, NEW i \in 1..Len(chain'[r]), chain'[r][i].by # None
                 PROVE  pc'[chain'[r][i].by] = "prune" /\ SessionOf[chain'[r][i].by] = r
      BY DEF AwaitedInv
    <2>1. CASE r = s /\ i = n + 1
      BY <1>4, <1>6, <2>1
    <2>2. CASE r # s \/ i # n + 1
      <3>1. i \in 1..Len(chain[r]) /\ chain'[r][i] = chain[r][i]
        BY <1>2, <1>4, <1>5, <2>2
      <3>2. pc[chain[r][i].by] = "prune" /\ SessionOf[chain[r][i].by] = r
            /\ chain[r][i].by \in Artifacts \ {a}
        BY <1>1, <1>9, <3>1
      <3> QED
        BY <1>6, <3>1, <3>2
    <2> QED
      BY <2>1, <2>2
  <1>11. KeptInv'
    <2> SUFFICES ASSUME NEW r \in Sessions,
                        NEW i \in 1..Len(chain'[r]), NEW j \in 1..Len(chain'[r]),
                        i <= j, chain'[r][i].by # None
                 PROVE  chain'[r][i].by \in chain'[r][j].keep
      BY DEF KeptInv
    <2>1. CASE r = s /\ j = n + 1
      <3>1. chain'[r][j].keep = inFlight[s]
        BY <1>4, <2>1
      <3>2. CASE i = n + 1
        <4>1. a \in inFlight[s]
          BY <1>1, <1>2 DEF QueueInv, InFlightInv, Saving
        <4> QED
          BY <1>4, <2>1, <3>1, <3>2, <4>1
      <3>3. CASE i # n + 1
        <4>1. i \in 1..n /\ chain'[r][i] = chain[s][i]
          BY <1>2, <1>4, <2>1, <3>3
        <4>2. /\ chain[s][i].by \in Artifacts /\ pc[chain[s][i].by] = "prune"
              /\ SessionOf[chain[s][i].by] = s
          BY <1>2, <1>9, <4>1
        <4>3. chain[s][i].by \in inFlight[s]
          BY <1>2, <4>2 DEF QueueInv, InFlightInv, Saving
        <4> QED
          BY <3>1, <4>1, <4>3
      <3> QED
        BY <3>2, <3>3
    <2>2. CASE r # s \/ j # n + 1
      <3>1. /\ i \in 1..Len(chain[r]) /\ j \in 1..Len(chain[r])
            /\ chain'[r][i] = chain[r][i] /\ chain'[r][j] = chain[r][j]
        BY <1>2, <1>4, <1>5, <2>2
      <3> QED
        BY <3>1 DEF QueueInv, KeptInv
    <2> QED
      BY <2>1, <2>2
  <1>12. PruneInv'
    BY <1>1, <1>4, <1>5 DEF QueueInv, PruneInv
  <1> QED
    BY <1>7, <1>8, <1>10, <1>11, <1>12 DEF QueueInv

LEMMA ReturnRecordKeeps ==
  ASSUME QueueInv, NEW a \in Artifacts, ReturnRecord(a) PROVE QueueInv'
  <1> DEFINE s == SessionOf[a]
  <1> USE SessionOfAssumption, NoneAssumption
  <1>1. pc[a] = "prune" /\ pc' = [pc EXCEPT ![a] = "read"] /\ UNCHANGED <<chain, left>>
        /\ inFlight' = [inFlight EXCEPT ![s] = @ \ {a}]
        /\ \A i \in DOMAIN chain[s] : chain[s][i].by # a
    BY DEF ReturnRecord, Goto, pruner
  <1>2. QueueTypes /\ s \in Sessions
    BY DEF QueueInv, QueueTypes
  <1>3. pc'[a] = "read" /\ \A b \in Artifacts \ {a} : pc'[b] = pc[b]
    BY <1>1, <1>2 DEF QueueTypes
  <1>4. QueueTypes'
    BY <1>1, <1>2 DEF QueueTypes
  <1>5. InFlightInv'
    <2>1. \A b \in Artifacts, r \in Sessions :
            b \in inFlight[r] <=> r = SessionOf[b] /\ pc[b] \in Saving
      BY DEF QueueInv, InFlightInv
    <2>2. "read" \notin Saving /\ inFlight \in [Sessions -> SUBSET Artifacts]
      BY <1>2 DEF Saving, QueueTypes
    <2> QED
      BY <1>1, <1>2, <1>3, <2>1, <2>2 DEF InFlightInv
  <1>6. AwaitedInv'
    <2> SUFFICES ASSUME NEW r \in Sessions, NEW i \in 1..Len(chain[r]), chain[r][i].by # None
                 PROVE  pc'[chain[r][i].by] = "prune" /\ SessionOf[chain[r][i].by] = r
      BY <1>1 DEF AwaitedInv
    <2>1. pc[chain[r][i].by] = "prune" /\ SessionOf[chain[r][i].by] = r
      BY DEF QueueInv, AwaitedInv
    <2>2. chain[r][i] \in Cleanup /\ DOMAIN chain[r] = 1..Len(chain[r])
      BY <1>2 DEF QueueTypes
    <2>3. chain[r][i].by \in Artifacts \ {a}
      BY <1>1, <2>1, <2>2 DEF Cleanup
    <2> QED
      BY <1>3, <2>1, <2>3
  <1>7. KeptInv' /\ PruneInv'
    BY <1>1 DEF QueueInv, KeptInv, PruneInv
  <1> QED
    BY <1>4, <1>5, <1>6, <1>7 DEF QueueInv

LEMMA NextQueue == QueueInv /\ [Next]_vars => QueueInv'
  <1> SUFFICES ASSUME QueueInv, [Next]_vars PROVE QueueInv'
    OBVIOUS
  <1>1. ASSUME NEW a \in Artifacts, BeginSave(a) PROVE QueueInv'
    <2>1. /\ pc[a] # "prune" /\ Goto(a, "directory") /\ UNCHANGED pruner
          /\ inFlight' = [inFlight EXCEPT ![SessionOf[a]] = @ \cup {a}]
      BY <1>1 DEF BeginSave
    <2> QED
      BY <2>1, SaveStep DEF Saving
  <1>2. ASSUME NEW a \in Artifacts, MakeDirectory(a) PROVE QueueInv'
    <2>1. pc[a] = "directory" /\ Goto(a, "raw") /\ UNCHANGED <<inFlight, pruner>>
      BY <1>2 DEF MakeDirectory
    <2> QED
      BY <2>1, SaveStep DEF Saving
  <1>3. ASSUME NEW a \in Artifacts, WriteRaw(a) PROVE QueueInv'
    <2>1. pc[a] = "raw" /\ Goto(a, "meta") /\ UNCHANGED <<inFlight, pruner>>
      BY <1>3 DEF WriteRaw
    <2> QED
      BY <2>1, SaveStep DEF Saving
  <1>4. ASSUME NEW a \in Artifacts, WriteMetadata(a) PROVE QueueInv'
    <2>1. pc[a] = "meta" /\ Goto(a, "cleanup") /\ UNCHANGED <<inFlight, pruner>>
      BY <1>4 DEF WriteMetadata
    <2> QED
      BY <2>1, SaveStep DEF Saving
  <1>5. ASSUME NEW a \in Artifacts, FailSave(a) PROVE QueueInv'
    <2>1. /\ pc[a] # "prune" /\ Goto(a, "original") /\ UNCHANGED pruner
          /\ inFlight' = [inFlight EXCEPT ![SessionOf[a]] = @ \ {a}]
      BY <1>5 DEF FailSave
    <2> QED
      BY <2>1, SaveStep DEF Saving
  <1>6. ASSUME NEW a \in Artifacts, ReadMetadata(a) PROVE QueueInv'
    <2>1. /\ pc[a] = "read" /\ UNCHANGED <<inFlight, pruner>>
          /\ Goto(a, "rewrite") \/ Goto(a, "original")
      BY <1>6 DEF ReadMetadata
    <2> QED
      BY <2>1, SaveStep DEF Saving
  <1>7. ASSUME NEW a \in Artifacts, RewriteMetadata(a) PROVE QueueInv'
    <2>1. /\ pc[a] = "rewrite" /\ UNCHANGED <<inFlight, pruner>>
          /\ Goto(a, "reduced") \/ Goto(a, "original")
      BY <1>7 DEF RewriteMetadata
    <2> QED
      BY <2>1, SaveStep DEF Saving
  <1>8. ASSUME UNCHANGED <<pc, inFlight, pruner>> PROVE QueueInv'
    BY <1>8 DEF pruner, QueueInv, QueueTypes, InFlightInv, AwaitedInv, KeptInv, PruneInv
  <1>9. ASSUME NEW a \in Artifacts, Retrieve(a) PROVE QueueInv'
    BY <1>8, <1>9 DEF Retrieve
  <1>10. CASE UNCHANGED vars
    BY <1>8, <1>10 DEF vars
  <1>11. CASE \E a \in Artifacts : BeginSave(a) \/ Save(a) \/ Retrieve(a)
    BY <1>1, <1>2, <1>3, <1>4, <1>5, <1>6, <1>7, <1>9, <1>11,
       RequestCleanupKeeps, ReturnRecordKeeps DEF Save
  <1>12. CASE \E s \in Sessions : Prune(s)
    BY <1>12, ScanKeeps, SkipKeeps, UnlinkFilesKeeps, RemoveDirectoryKeeps,
       EndPruneKeeps, FailPruneKeeps DEF Prune
  <1> QED
    BY <1>10, <1>11, <1>12 DEF Next

(* A save that waits for its cleanup is kept by its own and by every one   *)
(* behind it in its session's queue.                                       *)
THEOREM QueuedAreKept == Spec => []QueuedIsKept
  <1>1. QueueInv => QueuedIsKept
    <2> SUFFICES ASSUME QueueInv, NEW s \in Sessions PROVE DOMAIN chain[s] = 1..Len(chain[s])
      BY DEF QueueInv, KeptInv, QueuedIsKept
    <2> QED
      BY DEF QueueInv, QueueTypes
  <1> QED
    BY <1>1, InitQueue, NextQueue, PTL DEF Spec

-----------------------------------------------------------------------------
(* The type invariant and the bookkeeping.                                 *)

(* Files are in directories.                                               *)
FilesInv ==
  /\ order \in Seq(Artifacts)
  /\ expired \subseteq Artifacts /\ raw \subseteq Artifacts /\ meta \subseteq Artifacts
  /\ expired \cup raw \cup meta \subseteq Dirs

(* A prune removes something only while its total is above the maximum, so *)
(* that what it then takes off the total leaves a natural number.          *)
TotalInv ==
  /\ left \in [Sessions -> [scanned : BOOLEAN, items : Seq(Item), removing : Artifacts \cup {None}]]
  /\ total \in [Sessions -> Nat]
  /\ \A s \in Sessions :
       /\ left[s].items # <<>> => left[s].scanned
       /\ left[s].removing # None => left[s].items # <<>> /\ total[s] > MaxTotal

LEMMA RangeOfList ==
  ASSUME NEW A, NEW list \in Seq(A)
  PROVE  ToSet(list) = {list[i] : i \in 1..Len(list)} /\ ToSet(list) \subseteq A
  BY DEF ToSet

LEMMA RangeOfKept ==
  ASSUME NEW A, NEW list \in Seq(A), NEW S
  PROVE  Keep(list, S) \in Seq(A) /\ ToSet(Keep(list, S)) = ToSet(list) \cap S
  <1>1. Keep(list, S) \in Seq(A \cap S)
    BY KeepType
  <1>2. Keep(list, S) \in Seq(A)
    BY <1>1
  <1> QED
    BY <1>2, KeepRange, RangeOfList

LEMMA RangeOfAppended ==
  ASSUME NEW A, NEW list \in Seq(A), NEW x \in A
  PROVE  Append(list, x) \in Seq(A) /\ ToSet(Append(list, x)) = ToSet(list) \cup {x}
  <1>1. /\ Append(list, x) \in Seq(A) /\ Len(Append(list, x)) = Len(list) + 1
        /\ \A i \in 1..Len(list) : Append(list, x)[i] = list[i]
        /\ Append(list, x)[Len(list) + 1] = x
    BY AppendProperties
  <1>2. Len(list) \in Nat
    OBVIOUS
  <1>3. \A i \in 1..(Len(list) + 1) : i = Len(list) + 1 \/ i \in 1..Len(list)
    BY <1>2
  <1>4. Len(list) + 1 \in 1..(Len(list) + 1) /\ \A i \in 1..Len(list) : i \in 1..(Len(list) + 1)
    BY <1>2
  <1>5. {Append(list, x)[i] : i \in 1..(Len(list) + 1)} = {list[i] : i \in 1..Len(list)} \cup {x}
    BY <1>1, <1>3, <1>4
  <1> QED
    BY <1>1, <1>5, RangeOfList

LEMMA TouchAdds ==
  ASSUME FilesInv, NEW a \in Artifacts, Touch(a)
  PROVE  order' \in Seq(Artifacts) /\ Dirs' = Dirs \cup {a} /\ expired' = expired \ {a}
  <1> DEFINE others == Keep(order, Artifacts \ {a})
  <1>1. order \in Seq(Artifacts) /\ order' = Append(others, a) /\ expired' = expired \ {a}
    BY DEF FilesInv, Touch
  <1>2. others \in Seq(Artifacts) /\ ToSet(others) = Dirs \cap (Artifacts \ {a})
    BY <1>1, RangeOfKept DEF Dirs
  <1>3. Dirs \subseteq Artifacts
    BY <1>1, RangeOfList DEF Dirs
  <1> HIDE DEF others
  <1>4. order' \in Seq(Artifacts) /\ ToSet(order') = ToSet(others) \cup {a}
    BY <1>1, <1>2, RangeOfAppended
  <1>5. Dirs' = ToSet(order')
    BY DEF Dirs
  <1> QED
    BY <1>1, <1>2, <1>3, <1>4, <1>5

LEMMA RemoveTreeRemoves ==
  ASSUME FilesInv, NEW gone, RemoveTree(gone)
  PROVE  FilesInv' /\ Dirs' = Dirs \ gone
  <1>1. order \in Seq(Artifacts) /\ order' = Keep(order, Artifacts \ gone)
    BY DEF FilesInv, RemoveTree
  <1>2. order' \in Seq(Artifacts) /\ ToSet(order') = ToSet(order) \cap (Artifacts \ gone)
    BY <1>1, RangeOfKept
  <1>3. Dirs \subseteq Artifacts
    BY <1>1, RangeOfList DEF Dirs
  <1>4. Dirs' = Dirs \ gone
    <2>1. Dirs' = ToSet(order') /\ Dirs = ToSet(order)
      BY DEF Dirs
    <2> QED
      BY <1>2, <1>3, <2>1
  <1> QED
    BY <1>2, <1>4 DEF FilesInv, RemoveTree

LEMMA InitFiles == Init => FilesInv /\ TotalInv
  <1> SUFFICES ASSUME Init PROVE FilesInv /\ TotalInv
    OBVIOUS
  <1> DEFINE n == Cardinality(Old)
  <1>1. IsFiniteSet(Old) /\ n \in Nat /\ Old \subseteq Artifacts
    BY OldAssumption, FS_CardinalityType
  <1>2. order \in [1..n -> Old] /\ \A i, j \in 1..n : i # j => order[i] # order[j]
    BY DEF Init, SetToSeqs
  <1>3. order \in Seq(Artifacts) /\ DOMAIN order = 1..n
    BY <1>1, <1>2
  <1>4. Cardinality(1..n) = n
    BY <1>1, FS_Interval
  <1>5. order \in Injection(1..n, Old)
    BY <1>2 DEF Injection, IsInjective
  <1>6. order \in Surjection(1..n, Old)
    BY <1>1, <1>4, <1>5, FS_Injection
  <1>7. Dirs = Old
    BY <1>2, <1>3, <1>6 DEF Dirs, ToSet, Surjection
  <1>8. FilesInv
    BY <1>1, <1>3, <1>7 DEF Init, FilesInv
  <1>9. TotalInv
    BY DEF Init, TotalInv, NoPrune
  <1> QED
    BY <1>8, <1>9

LEMMA SumOfItems == ASSUME NEW items \in Seq(Item) PROVE Sum(items) \in Nat
  <1>1. IsFiniteSet(1..Len(items)) /\ DOMAIN items = 1..Len(items)
    BY FS_Interval
  <1>2. IsFiniteSet({i \in DOMAIN items : items[i].bytes = 1})
    BY <1>1, FS_Subset
  <1> QED
    BY <1>2, FS_CardinalityType DEF Sum

(* The files.                                                              *)
LEMMA NextFiles == QueueInv /\ FilesInv /\ TotalInv /\ [Next]_vars => FilesInv'
  <1> SUFFICES ASSUME QueueInv, FilesInv, TotalInv, [Next]_vars PROVE FilesInv'
    OBVIOUS
  <1>1. ASSUME UNCHANGED files PROVE FilesInv'
    BY <1>1 DEF files, FilesInv, Dirs
  <1>2. ASSUME NEW a \in Artifacts, Touch(a), raw' \subseteq raw \cup {a},
               meta' \subseteq meta \cup {a}
        PROVE  FilesInv'
    BY <1>2, TouchAdds DEF FilesInv
  <1>3. ASSUME NEW a \in Artifacts, UNCHANGED <<order, expired>>, raw' \subseteq raw,
               meta' \subseteq meta \/ (a \in Dirs /\ meta' = meta \cup {a})
        PROVE  FilesInv'
    BY <1>3 DEF FilesInv, Dirs
  <1>4. ASSUME NEW a \in Artifacts, BeginSave(a) \/ Save(a) \/ Retrieve(a) PROVE FilesInv'
    <2>1. CASE BeginSave(a) \/ RequestCleanup(a) \/ ReturnRecord(a)
      BY <1>1, <2>1 DEF BeginSave, RequestCleanup, ReturnRecord
    <2>2. CASE MakeDirectory(a) \/ Retrieve(a) \/ WriteRaw(a) \/ WriteMetadata(a)
      BY <1>2, <2>2 DEF MakeDirectory, Retrieve, WriteRaw, WriteMetadata
    <2>3. CASE FailSave(a)
      BY <1>1, <2>3, RemoveTreeRemoves DEF FailSave
    <2>4. CASE ReadMetadata(a)
      <3>1. CASE a \in Dirs
        BY <1>3, <2>4, <3>1 DEF ReadMetadata
      <3>2. CASE a \notin Dirs
        BY <1>2, <2>4, <3>2 DEF ReadMetadata
      <3> QED
        BY <3>1, <3>2
    <2>5. CASE RewriteMetadata(a)
      BY <1>3, <2>5 DEF RewriteMetadata
    <2> QED
      BY <1>4, <2>1, <2>2, <2>3, <2>4, <2>5 DEF Save
  <1>5. ASSUME NEW s \in Sessions, Prune(s) PROVE FilesInv'
    <2>1. CASE Scan(s)
      BY <2>1, RemoveTreeRemoves DEF Scan
    <2>2. CASE UnlinkFiles(s)
      BY <2>2 DEF UnlinkFiles, FilesInv, Dirs
    <2>3. CASE RemoveDirectory(s)
      BY <2>3, RemoveTreeRemoves DEF RemoveDirectory
    <2>4. CASE Skip(s) \/ EndPrune(s) \/ FailPrune(s)
      BY <1>1, <2>4 DEF Skip, EndPrune, FailPrune, NextCleanup
    <2> QED
      BY <1>5, <2>1, <2>2, <2>3, <2>4 DEF Prune
  <1>6. CASE UNCHANGED vars
    BY <1>1, <1>6 DEF vars
  <1> QED
    BY <1>4, <1>5, <1>6 DEF Next

(* The prunes.                                                             *)
LEMMA NextTotal == QueueInv /\ FilesInv /\ TotalInv /\ [Next]_vars => TotalInv'
  <1> SUFFICES ASSUME QueueInv, FilesInv, TotalInv, [Next]_vars PROVE TotalInv'
    OBVIOUS
  <1> USE MaxTotalAssumption, NoneAssumption
  <1>1. ASSUME UNCHANGED <<left, total>> PROVE TotalInv'
    BY <1>1 DEF TotalInv
  <1>2. ASSUME NEW a \in Artifacts, BeginSave(a) \/ Save(a) \/ Retrieve(a) PROVE TotalInv'
    BY <1>1, <1>2 DEF BeginSave, Save, Retrieve, MakeDirectory, WriteRaw, WriteMetadata, FailSave,
       RequestCleanup, ReturnRecord, ReadMetadata, RewriteMetadata, pruner
  <1>3. ASSUME NEW s \in Sessions, Scan(s) PROVE TotalInv'
    <2> DEFINE fresh == Keep(order, Artifacts \ expired)
               items == [i \in DOMAIN fresh |->
                          [slug |-> fresh[i], bytes |-> IF fresh[i] \in raw THEN 1 ELSE 0]]
    <2>1. fresh \in Seq(Artifacts)
      BY RangeOfKept DEF FilesInv
    <2>2. items \in Seq(Item)
      <3> HIDE DEF fresh
      <3>1. DOMAIN fresh = 1..Len(fresh) /\ Len(fresh) \in Nat /\ \A i \in DOMAIN fresh : fresh[i] \in Artifacts
        BY <2>1
      <3>2. \A i \in DOMAIN fresh :
              [slug |-> fresh[i], bytes |-> IF fresh[i] \in raw THEN 1 ELSE 0] \in Item
        BY <3>1 DEF Item
      <3> QED
        BY <3>1, <3>2
    <2>3. /\ left' = [left EXCEPT ![s].scanned = TRUE, ![s].items = items]
          /\ total' = [total EXCEPT ![s] = Sum(items)]
          /\ ~left[s].scanned
      BY <1>3 DEF Scan
    <2> HIDE DEF items
    <2>4. Sum(items) \in Nat
      BY <2>2, SumOfItems
    <2>5. left[s].removing = None
      BY <2>3 DEF TotalInv
    <2>6. /\ left' \in [Sessions -> [scanned : BOOLEAN, items : Seq(Item),
                                    removing : Artifacts \cup {None}]]
          /\ left'[s].scanned /\ left'[s].removing = None
          /\ \A r \in Sessions : r # s => left'[r] = left[r]
      BY <2>2, <2>3, <2>5 DEF TotalInv
    <2>7. total' \in [Sessions -> Nat] /\ \A r \in Sessions : r # s => total'[r] = total[r]
      BY <2>3, <2>4 DEF TotalInv
    <2> QED
      BY <2>6, <2>7 DEF TotalInv
  <1>4. ASSUME NEW s \in Sessions, Skip(s) PROVE TotalInv'
    <2>1. left[s].items \in Seq(Item) /\ left[s].items # <<>> /\ left[s].scanned
      BY <1>4 DEF Skip, TotalInv
    <2>2. Tail(left[s].items) \in Seq(Item)
      BY <2>1, HeadTailProperties
    <2>3. left' = [left EXCEPT ![s].items = Tail(@)] /\ total' = total /\ left[s].removing = None
      BY <1>4 DEF Skip
    <2> QED
      BY <2>1, <2>2, <2>3 DEF TotalInv
  <1>5. ASSUME NEW s \in Sessions, UnlinkFiles(s) PROVE TotalInv'
    <2>1. left[s].items \in Seq(Item) /\ left[s].items # <<>> /\ total[s] > MaxTotal
      BY <1>5 DEF UnlinkFiles, TotalInv
    <2>2. Head(left[s].items) \in Item
      BY <2>1, HeadTailProperties
    <2>3. /\ Head(left[s].items).slug \in Artifacts /\ total' = total
          /\ left' = [left EXCEPT ![s].removing = Head(left[s].items).slug]
      BY <1>5, <2>2 DEF UnlinkFiles, Item
    <2> QED
      BY <2>1, <2>3 DEF TotalInv
  <1>6. ASSUME NEW s \in Sessions, RemoveDirectory(s) PROVE TotalInv'
    <2>1. /\ left[s].items \in Seq(Item) /\ left[s].items # <<>> /\ left[s].scanned
          /\ total[s] \in Nat /\ total[s] > MaxTotal
      BY <1>6 DEF RemoveDirectory, TotalInv
    <2>2. Head(left[s].items) \in Item /\ Tail(left[s].items) \in Seq(Item)
      BY <2>1, HeadTailProperties
    <2>3. total[s] - Head(left[s].items).bytes \in Nat
      BY <2>1, <2>2 DEF Item
    <2>4. /\ left' = [left EXCEPT ![s].removing = None, ![s].items = Tail(@)]
          /\ total' = [total EXCEPT ![s] = @ - Head(left[s].items).bytes]
      BY <1>6 DEF RemoveDirectory
    <2> QED
      BY <2>1, <2>2, <2>3, <2>4 DEF TotalInv
  <1>7. ASSUME NEW s \in Sessions, EndPrune(s) \/ FailPrune(s) PROVE TotalInv'
    <2>1. left' = [left EXCEPT ![s] = NoPrune] /\ total' = [total EXCEPT ![s] = 0]
      BY <1>7 DEF EndPrune, FailPrune, NextCleanup
    <2> QED
      BY <2>1 DEF TotalInv, NoPrune
  <1>8. CASE UNCHANGED vars
    BY <1>1, <1>8 DEF vars, pruner
  <1> QED
    BY <1>2, <1>3, <1>4, <1>5, <1>6, <1>7, <1>8 DEF Next, Prune

LEMMA StoreInvariance == Spec => [](QueueInv /\ FilesInv /\ TotalInv)
  BY InitQueue, InitFiles, NextQueue, NextFiles, NextTotal, PTL DEF Spec

(* The state of the store and of the prunes stays well formed, whatever    *)
(* saves, cleanups and sessions overlap.                                   *)
THEOREM StoreIsConsistent == Spec => []IInv
  <1>1. QueueInv /\ FilesInv /\ TotalInv => TypeOK
    BY DEF QueueInv, QueueTypes, FilesInv, TotalInv, TypeOK
  <1>2. QueueInv /\ FilesInv /\ TotalInv => Bookkeeping
    <2> SUFFICES ASSUME QueueInv, FilesInv, TotalInv PROVE Bookkeeping
      OBVIOUS
    <2>1. \A s \in Sessions : DOMAIN chain[s] = 1..Len(chain[s])
      BY DEF QueueInv, QueueTypes
    <2>2. \A a \in Artifacts, s \in Sessions :
            a \in inFlight[s] <=> s = SessionOf[a] /\ pc[a] \in Saving
      BY DEF QueueInv, InFlightInv
    <2>3. \A s \in Sessions : \A i \in DOMAIN chain[s] :
            chain[s][i].by # None => pc[chain[s][i].by] = "prune"
      BY <2>1 DEF QueueInv, AwaitedInv
    <2>4. \A s \in Sessions :
            /\ left[s].scanned => chain[s] # <<>>
            /\ left[s].items # <<>> => left[s].scanned
            /\ left[s].removing # None => left[s].items # <<>>
      BY DEF QueueInv, PruneInv, TotalInv
    <2> QED
      BY <2>2, <2>3, <2>4 DEF FilesInv, Bookkeeping
  <1> QED
    BY <1>1, <1>2, StoreInvariance, PTL DEF IInv

-----------------------------------------------------------------------------
(* What is lost is not shown.                                              *)

(* The output is lost before its save is through, or has been given up.    *)
Lost(a) ==
  \/ pc[a] \in {"cleanup", "prune", "read", "rewrite"} /\ a \notin Dirs
  \/ pc[a] = "original"

LEMMA LostStays ==
  ASSUME NEW a \in Artifacts
  PROVE  Lost(a) /\ QueueInv /\ FilesInv /\ [Next]_vars => Lost(a)'
  <1> SUFFICES ASSUME Lost(a), QueueInv, FilesInv, [Next]_vars PROVE Lost(a)'
    OBVIOUS
  <1>0. /\ pc \in [Artifacts -> Saving \cup {"new", "read", "rewrite", "reduced", "original"}]
        /\ a \notin Dirs => a \notin meta
    BY DEF QueueInv, QueueTypes, FilesInv
  <1>1. ASSUME pc'[a] = pc[a], Dirs' \subseteq Dirs PROVE Lost(a)'
    BY <1>1 DEF Lost
  <1>2. ASSUME NEW b \in Artifacts, b # a, BeginSave(b) \/ Save(b) \/ Retrieve(b)
        PROVE  Lost(a)'
    <2>1. pc'[a] = pc[a]
      BY <1>0, <1>2 DEF BeginSave, Save, Retrieve, MakeDirectory, WriteRaw, WriteMetadata, FailSave,
         RequestCleanup, ReturnRecord, ReadMetadata, RewriteMetadata, Goto
    <2>2. UNCHANGED order \/ Touch(b) \/ RemoveTree({b})
      BY <1>2 DEF BeginSave, Save, Retrieve, MakeDirectory, WriteRaw, WriteMetadata, FailSave,
         RequestCleanup, ReturnRecord, ReadMetadata, RewriteMetadata, files
    <2>3. a \notin Dirs => a \notin Dirs'
      <3>1. CASE UNCHANGED order
        BY <3>1 DEF Dirs
      <3>2. CASE Touch(b)
        BY <1>2, <3>2, TouchAdds
      <3>3. CASE RemoveTree({b})
        BY <3>3, RemoveTreeRemoves
      <3> QED
        BY <2>2, <3>1, <3>2, <3>3
    <2> QED
      BY <2>1, <2>3 DEF Lost
  <1>3. ASSUME BeginSave(a) \/ Save(a) \/ Retrieve(a)
        PROVE  Lost(a)'
    <2>1. pc[a] \in {"cleanup", "prune", "read", "rewrite"} /\ a \notin Dirs
      BY <1>3 DEF Lost, BeginSave, Save, Retrieve, MakeDirectory, WriteRaw, WriteMetadata, FailSave,
         RequestCleanup, ReturnRecord, ReadMetadata, RewriteMetadata
    <2>2. CASE RequestCleanup(a) \/ ReturnRecord(a)
      BY <1>0, <2>1, <2>2 DEF RequestCleanup, ReturnRecord, files, Goto, Lost, Dirs
    <2>3. CASE ReadMetadata(a) \/ RewriteMetadata(a)
      <3>1. pc'[a] = "original"
        BY <1>0, <2>1, <2>3 DEF ReadMetadata, RewriteMetadata, Goto
      <3> QED
        BY <3>1 DEF Lost
    <2> QED
      BY <1>3, <2>1, <2>2, <2>3 DEF BeginSave, Save, Retrieve, MakeDirectory, WriteRaw,
         WriteMetadata, FailSave
  <1>4. ASSUME NEW s \in Sessions, Prune(s)
        PROVE  Lost(a)'
    <2>1. pc' = pc
      BY <1>4 DEF Prune, Scan, Skip, UnlinkFiles, RemoveDirectory, EndPrune, FailPrune, NextCleanup
    <2>2. UNCHANGED order \/ \E gone : RemoveTree(gone)
      BY <1>4 DEF Prune, Scan, Skip, UnlinkFiles, RemoveDirectory, EndPrune, FailPrune, NextCleanup, files
    <2>3. Dirs' \subseteq Dirs
      <3>1. CASE UNCHANGED order
        BY <3>1 DEF Dirs
      <3>2. CASE \E gone : RemoveTree(gone)
        BY <3>2, RemoveTreeRemoves
      <3> QED
        BY <2>2, <3>1, <3>2
    <2> QED
      BY <1>1, <2>1, <2>3
  <1>5. CASE UNCHANGED vars
    BY <1>1, <1>5 DEF vars, files, Dirs
  <1> QED
    BY <1>2, <1>3, <1>4, <1>5 DEF Next

(* An output that a cleanup of any session has removed before its save was *)
(* through is never replaced by an excerpt.                                *)
THEOREM LostOutputsStayOriginal == Spec => LostIsNeverShown
  <1>1. ASSUME NEW a \in Artifacts
        PROVE  Spec => [](pc[a] \in {"cleanup", "prune", "read", "rewrite"} /\ a \notin Dirs
                            => [](pc[a] # "reduced"))
    <2>1. pc[a] \in {"cleanup", "prune", "read", "rewrite"} /\ a \notin Dirs => Lost(a)
      BY DEF Lost
    <2>2. Lost(a) => pc[a] # "reduced"
      BY DEF Lost
    <2>3. Lost(a) /\ QueueInv /\ FilesInv /\ [Next]_vars => Lost(a)'
      BY LostStays
    <2> QED
      BY <2>1, <2>2, <2>3, StoreInvariance, PTL DEF Spec
  <1> QED
    BY <1>1 DEF LostIsNeverShown
=============================================================================
