--------------------------- MODULE ArtifactStore ---------------------------
(***************************************************************************)
(* The artifacts of the token-policy extension                             *)
(*   .omp/extensions/token-policy/artifacts.ts  (ArtifactStore)            *)
(*   .omp/extensions/token-policy/index.ts      (transformSafeToolResult)  *)
(* A large tool result is saved as a directory with the raw text and its   *)
(* metadata, and the model is shown an excerpt that refers to it.  Saves   *)
(* overlap at every await; each ends with a cleanup that prunes old        *)
(* artifacts, and the cleanups of one session run one after another.  Two  *)
(* sessions in one repository share the directory and nothing else.        *)
(***************************************************************************)
EXTENDS Naturals, Sequences, FiniteSets, SequencesExt, Lists

CONSTANTS
  Artifacts,   \* the artifacts ever saved
  Sessions,    \* the running sessions
  SessionOf,   \* the session that saves an artifact
  Old,         \* artifacts of long ago, past their retention
  MaxTotal,    \* maxTotalMb, every raw text being one unit long
  None         \* no artifact: the cleanup of session_start belongs to no save

ASSUME SessionOfAssumption == SessionOf \in [Artifacts -> Sessions]
ASSUME OldAssumption       == Old \subseteq Artifacts /\ IsFiniteSet(Old)
ASSUME MaxTotalAssumption  == MaxTotal \in Nat
ASSUME NoneAssumption      == None \notin Artifacts

VARIABLES
  order,     \* the directories that exist, from the oldest mtime to the newest
  expired,   \* those whose mtime is before the cutoff
  raw,       \* those that hold stdout.txt
  meta,      \* those that hold metadata.json
  pc,        \* where the save, and then the update, of each artifact is
  inFlight,  \* per session, ArtifactStore.inFlight
  chain,     \* per session, the cleanups of ArtifactStore.maintenance
  left,      \* per session, the running prune: what it has yet to look at,
             \* and what it is removing
  total      \* per session, its running total

files  == <<order, expired, raw, meta>>
pruner == <<chain, left, total>>
vars   == <<files, pc, inFlight, pruner>>

Dirs    == ToSet(order)
NoPrune == [scanned |-> FALSE, items |-> <<>>, removing |-> None]
Cleanup == [by : Artifacts \cup {None}, keep : SUBSET Artifacts]
Item    == [slug : Artifacts, bytes : {0, 1}]

Saving == {"directory", "raw", "meta", "cleanup", "prune"}

Init ==
  /\ order \in SetToSeqs(Old)
  /\ expired = Old
  /\ raw = Old
  /\ meta = Old
  /\ pc = [a \in Artifacts |-> IF a \in Old THEN "reduced" ELSE "new"]
  /\ inFlight = [s \in Sessions |-> {}]
  /\ chain = [s \in Sessions |-> <<[by |-> None, keep |-> {}]>>]
  /\ left = [s \in Sessions |-> NoPrune]
  /\ total = [s \in Sessions |-> 0]

-----------------------------------------------------------------------------
(* The file system.                                                        *)

(* A new directory, or a new entry in one, makes it the newest.            *)
Touch(a) ==
  /\ order' = Append(Keep(order, Artifacts \ {a}), a)
  /\ expired' = expired \ {a}

RemoveTree(gone) ==
  /\ order' = Keep(order, Artifacts \ gone)
  /\ expired' = expired \ gone
  /\ raw' = raw \ gone
  /\ meta' = meta \ gone

Goto(a, to) == pc' = [pc EXCEPT ![a] = to]

-----------------------------------------------------------------------------
(* save.                                                                   *)

BeginSave(a) ==
  /\ pc[a] = "new"
  /\ inFlight' = [inFlight EXCEPT ![SessionOf[a]] = @ \cup {a}]
  /\ Goto(a, "directory")
  /\ UNCHANGED <<files, pruner>>

MakeDirectory(a) ==
  /\ pc[a] = "directory"
  /\ Touch(a)
  /\ Goto(a, "raw")
  /\ UNCHANGED <<raw, meta, inFlight, pruner>>

WriteRaw(a) ==
  /\ pc[a] = "raw"
  /\ a \in Dirs
  /\ raw' = raw \cup {a}
  /\ Touch(a)
  /\ Goto(a, "meta")
  /\ UNCHANGED <<meta, inFlight, pruner>>

WriteMetadata(a) ==
  /\ pc[a] = "meta"
  /\ a \in Dirs
  /\ meta' = meta \cup {a}
  /\ Touch(a)
  /\ Goto(a, "cleanup")
  /\ UNCHANGED <<raw, inFlight, pruner>>

(* Fault: inFlight forgets only the saves that succeed.                    *)
ForgetOnlySaved(a) ==
  /\ pc[a] \in {"directory", "raw", "meta"}
  /\ RemoveTree({a}) \/ UNCHANGED files
  /\ Goto(a, "original")
  /\ UNCHANGED <<inFlight, pruner>>

(* A cancelled signal, an I/O error, or a directory that is gone.  The     *)
(* failure of rm is ignored.                                               *)
FailSave(a) ==
  /\ pc[a] \in {"directory", "raw", "meta"}
  /\ RemoveTree({a}) \/ UNCHANGED files
  /\ inFlight' = [inFlight EXCEPT ![SessionOf[a]] = @ \ {a}]
  /\ Goto(a, "original")
  /\ UNCHANGED pruner

(* Fault: the save leaves inFlight before its cleanup, not after it.       *)
LeaveBeforeCleanup(a) ==
  /\ pc[a] = "cleanup"
  /\ chain' = [chain EXCEPT ![SessionOf[a]] =
                 Append(@, [by |-> a, keep |-> inFlight[SessionOf[a]] \ {a}])]
  /\ Goto(a, "prune")
  /\ UNCHANGED <<files, inFlight, left, total>>

(* cleanup copies inFlight when it is called, and prunes when its turn     *)
(* has come.                                                               *)
RequestCleanup(a) ==
  /\ pc[a] = "cleanup"
  /\ chain' = [chain EXCEPT ![SessionOf[a]] =
                 Append(@, [by |-> a, keep |-> inFlight[SessionOf[a]]])]
  /\ Goto(a, "prune")
  /\ UNCHANGED <<files, inFlight, left, total>>

ReturnRecord(a) ==
  LET s == SessionOf[a]
  IN  /\ pc[a] = "prune"
      /\ \A i \in DOMAIN chain[s] : chain[s][i].by # a
      /\ inFlight' = [inFlight EXCEPT ![s] = @ \ {a}]
      /\ Goto(a, "read")
      /\ UNCHANGED <<files, pruner>>

-----------------------------------------------------------------------------
(* prune.                                                                  *)

Sum(items) == Cardinality({i \in DOMAIN items : items[i].bytes = 1})

(* readdir, and the removal of what is past its retention.                 *)
Scan(s) ==
  /\ chain[s] # <<>>
  /\ ~left[s].scanned
  /\ RemoveTree(expired \ Head(chain[s]).keep)
  /\ LET fresh == Keep(order, Artifacts \ expired)
         items == [i \in DOMAIN fresh |->
                    [slug |-> fresh[i], bytes |-> IF fresh[i] \in raw THEN 1 ELSE 0]]
     IN  /\ left' = [left EXCEPT ![s].scanned = TRUE, ![s].items = items]
         /\ total' = [total EXCEPT ![s] = Sum(items)]
  /\ UNCHANGED <<pc, inFlight, chain>>

(* Fault: a protected item is not passed over.                             *)
SkipRepeats(s) ==
  /\ left[s].items # <<>> /\ left[s].removing = None
  /\ total[s] > MaxTotal
  /\ Head(left[s].items).slug \in Head(chain[s]).keep
  /\ UNCHANGED vars

(* One item, the oldest first, while the total is above the maximum.  rm   *)
(* unlinks the files of a directory and then the directory.                *)
Skip(s) ==
  /\ left[s].items # <<>> /\ left[s].removing = None
  /\ total[s] > MaxTotal
  /\ Head(left[s].items).slug \in Head(chain[s]).keep
  /\ left' = [left EXCEPT ![s].items = Tail(@)]
  /\ UNCHANGED <<files, pc, inFlight, chain, total>>

UnlinkFiles(s) ==
  /\ left[s].items # <<>> /\ left[s].removing = None
  /\ total[s] > MaxTotal
  /\ LET a == Head(left[s].items).slug
     IN  /\ a \notin Head(chain[s]).keep
         /\ raw' = raw \ {a}
         /\ meta' = meta \ {a}
         /\ left' = [left EXCEPT ![s].removing = a]
  /\ UNCHANGED <<order, expired, pc, inFlight, chain, total>>

RemoveDirectory(s) ==
  /\ left[s].removing # None
  /\ RemoveTree({left[s].removing})
  /\ left' = [left EXCEPT ![s].removing = None, ![s].items = Tail(@)]
  /\ total' = [total EXCEPT ![s] = @ - Head(left[s].items).bytes]
  /\ UNCHANGED <<pc, inFlight, chain>>

(* The next cleanup runs whether this one succeeded or not: an error, such *)
(* as a directory that another session removes between readdir and its     *)
(* size, or a file that appears in the one being removed, is swallowed.    *)
NextCleanup(s) ==
  /\ left' = [left EXCEPT ![s] = NoPrune]
  /\ total' = [total EXCEPT ![s] = 0]
  /\ chain' = [chain EXCEPT ![s] = Tail(@)]
  /\ UNCHANGED <<files, pc, inFlight>>

EndPrune(s) ==
  /\ left[s].scanned /\ left[s].removing = None
  /\ left[s].items = <<>> \/ total[s] <= MaxTotal
  /\ NextCleanup(s)

FailPrune(s) ==
  /\ chain[s] # <<>>
  /\ \/ ~left[s].scanned
     \/ left[s].removing \in raw \cup meta
  /\ NextCleanup(s)

-----------------------------------------------------------------------------
(* updateMetadata, and the result of transformSafeToolResult: "reduced",   *)
(* with a reference, or "original", the tool's result unchanged.           *)

(* Fault: metadata that is not found counts as empty.                      *)
ReadMissingAsEmpty(a) ==
  /\ pc[a] = "read"
  /\ IF a \in Dirs THEN UNCHANGED <<order, expired>> ELSE Touch(a)
  /\ Goto(a, "rewrite") \/ Goto(a, "original")
  /\ UNCHANGED <<raw, meta, inFlight, pruner>>

(* safeDirectory makes the directory if it is gone; the file it then does  *)
(* not find.                                                               *)
ReadMetadata(a) ==
  /\ pc[a] = "read"
  /\ IF a \in Dirs THEN UNCHANGED <<order, expired>> ELSE Touch(a)
  /\ \/ a \in meta /\ Goto(a, "rewrite")
     \/ Goto(a, "original")
  /\ UNCHANGED <<raw, meta, inFlight, pruner>>

RewriteMetadata(a) ==
  /\ pc[a] = "rewrite"
  /\ \/ /\ a \in Dirs
        /\ meta' = meta \cup {a}
        /\ Goto(a, "reduced")
     \/ /\ Goto(a, "original")
        /\ UNCHANGED meta
  /\ UNCHANGED <<order, expired, raw, inFlight, pruner>>

(* token_context: an artifact that is gone is an error, and an empty       *)
(* directory.                                                              *)
Retrieve(a) ==
  /\ pc[a] = "reduced"
  /\ a \notin Dirs
  /\ Touch(a)
  /\ UNCHANGED <<raw, meta, pc, inFlight, pruner>>

Save(a) ==
  \/ MakeDirectory(a)
  \/ WriteRaw(a)
  \/ WriteMetadata(a)
  \/ FailSave(a)
  \/ RequestCleanup(a)
  \/ ReturnRecord(a)
  \/ ReadMetadata(a)
  \/ RewriteMetadata(a)

Prune(s) ==
  \/ Scan(s)
  \/ Skip(s)
  \/ UnlinkFiles(s)
  \/ RemoveDirectory(s)
  \/ EndPrune(s)
  \/ FailPrune(s)

Next ==
  \/ \E a \in Artifacts : BeginSave(a) \/ Save(a) \/ Retrieve(a)
  \/ \E s \in Sessions : Prune(s)

Spec == Init /\ [][Next]_vars

(* Promises settle: every await of a save and of a prune is answered.      *)
FairSpec ==
  /\ Spec
  /\ \A a \in Artifacts : WF_vars(Save(a))
  /\ \A s \in Sessions : WF_vars(Prune(s))

-----------------------------------------------------------------------------
(* Properties.                                                             *)

(* The type invariant.                                                     *)
TypeOK ==
  /\ order \in Seq(Artifacts)
  /\ expired \subseteq Artifacts /\ raw \subseteq Artifacts /\ meta \subseteq Artifacts
  /\ pc \in [Artifacts -> Saving \cup {"new", "read", "rewrite", "reduced", "original"}]
  /\ inFlight \in [Sessions -> SUBSET Artifacts]
  /\ chain \in [Sessions -> Seq(Cleanup)]
  /\ left \in [Sessions -> [scanned : BOOLEAN, items : Seq(Item),
                            removing : Artifacts \cup {None}]]
  /\ total \in [Sessions -> Nat]

(* A session has in flight exactly its own unfinished saves, files are in  *)
(* directories, and a cleanup in the queue is one that a save waits for.   *)
Bookkeeping ==
  /\ expired \cup raw \cup meta \subseteq Dirs
  /\ \A a \in Artifacts, s \in Sessions :
       a \in inFlight[s] <=> s = SessionOf[a] /\ pc[a] \in Saving
  /\ \A s \in Sessions :
       /\ left[s].scanned => chain[s] # <<>>
       /\ left[s].items # <<>> => left[s].scanned
       /\ left[s].removing # None => left[s].items # <<>>
       /\ \A i \in DOMAIN chain[s] :
            chain[s][i].by # None => pc[chain[s][i].by] = "prune"

IInv == TypeOK /\ Bookkeeping

(* From the moment a save asks for its cleanup until it returns, no        *)
(* cleanup of its session that runs then can prune it: its own and every   *)
(* one behind it in the queue keep it.  (One that was queued before the    *)
(* save began, or another session's, may.)                                 *)
QueuedIsKept ==
  \A s \in Sessions : \A i, j \in DOMAIN chain[s] :
    i <= j /\ chain[s][i].by # None => chain[s][i].by \in chain[s][j].keep

(* README.md of the extension, line 21: safe "stores the exact original".  *)
(* A saved output that a cleanup of any session has removed is not         *)
(* replaced by an excerpt: the update of the metadata finds the loss, even *)
(* though it makes the directory again, and the tool's result stays as it  *)
(* was.                                                                    *)
LostIsNeverShown ==
  \A a \in Artifacts :
    [](pc[a] \in {"cleanup", "prune", "read", "rewrite"} /\ a \notin Dirs
         => [](pc[a] # "reduced"))

(* A tool's result is returned, whatever happens to the cleanups: no save  *)
(* waits for ever for one, its own or those before it.                     *)
EverySaveEnds ==
  \A a \in Artifacts : pc[a] = "directory" ~> pc[a] \in {"reduced", "original"}
=============================================================================
