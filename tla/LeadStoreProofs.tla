-------------------------- MODULE LeadStoreProofs --------------------------
(***************************************************************************)
(* Proofs about LeadStore, for any number of processes, parcels, owners,   *)
(* phones and files.                                                       *)
(* The argument: a process that may write sees the file, or the file with  *)
(* its own changes, because a snapshot that others have overtaken is       *)
(* refused and one process at a time holds the lock.  So what is committed *)
(* contains what was committed before, and a look-up that found no owner   *)
(* is still true when the owner is inserted.                               *)
(***************************************************************************)
EXTENDS LeadStore, SequenceTheorems, TLAPS

(* The database and what was confirmed of it.                              *)
DbTypes ==
  /\ disk \in Database
  /\ txn \in [Procs -> {"none", "begun", "reading", "writing"}]
  /\ view \in [Procs -> Database]
  /\ stale \in [Procs -> BOOLEAN]
  /\ saved \in [Procs -> SUBSET Apns]

OneWriter == \A p, q \in Procs : txn[p] = "writing" /\ txn[q] = "writing" => p = q

Overtakes ==
  \A p \in Procs :
    /\ txn[p] = "reading" /\ ~stale[p] => view[p] = disk
    /\ txn[p] = "writing" => disk.props \subseteq view[p].props

SavedInv ==
  \A p \in Procs :
    /\ saved[p] \subseteq disk.props
    /\ txn[p] \in {"reading", "writing"} => saved[p] \subseteq view[p].props

OneRow(db) == \A r \in Rows : db.owners[r] <= 1

OneRowInv ==
  /\ OneRow(disk)
  /\ \A p \in Procs : txn[p] \in {"reading", "writing"} => OneRow(view[p])

DbInv == DbTypes /\ OneWriter /\ Overtakes /\ SavedInv /\ OneRowInv

(* The handlers.                                                           *)
RequestTypes ==
  /\ pc \in [Procs -> Places]
  /\ todo \in [Procs -> Seq(Record)]
  /\ phone \in [Procs -> Phones]
  /\ done \in [Procs -> SUBSET Apns]
  /\ listed \subseteq Phones
  /\ reply \in [Procs -> {"none", "listed", "clear"}]

SavingInv(p) ==
  /\ todo[p] # <<>>
  /\ Head(todo[p]).owner # None
  /\ Head(todo[p]).apn \in view[p].props
  /\ pc[p] = "insert" => view[p].owners[<<Head(todo[p]).apn, Head(todo[p]).owner>>] = 0

ListedInv(p) ==
  txn[p] = "writing" =>
    \/ listed \subseteq view[p].dnc
    \/ pc[p] = "commit_remove" /\ listed \ {phone[p]} \subseteq view[p].dnc

(* Only an import has saved parcels that it has not told yet.              *)
DoneInv(p) ==
  done[p] # {} => /\ pc[p] \in {"property", "find", "insert", "update"}
                  /\ txn[p] = "writing" /\ done[p] \subseteq view[p].props

LocalInv(p) ==
  /\ pc[p] \in Writing => txn[p] = "writing"
  /\ pc[p] = "down" => txn[p] = "none"
  /\ ListedInv(p)
  /\ pc[p] = "commit_add" => phone[p] \in view[p].dnc
  /\ DoneInv(p)
  /\ pc[p] \in {"find", "insert", "update"} => SavingInv(p)

AllLocal == \A p \in Procs : LocalInv(p)

StoreInv == DbInv /\ RequestTypes /\ listed \subseteq disk.dnc /\ AllLocal

LEMMA StoreInvIsEnough ==
  StoreInv => IInv /\ OneOwnerRow /\ ConfirmedIsDurable /\ ReadYourWrites
  <1> SUFFICES ASSUME StoreInv
               PROVE  IInv /\ OneOwnerRow /\ ConfirmedIsDurable /\ ReadYourWrites
    OBVIOUS
  <1>1. TypeOK
    BY DEF StoreInv, DbInv, DbTypes, RequestTypes, TypeOK
  <1>2. WriterInv
    BY DEF StoreInv, DbInv, OneWriter, AllLocal, LocalInv, WriterInv
  <1>3. SnapshotInv
    BY DEF StoreInv, DbInv, Overtakes, SavedInv, AllLocal, LocalInv, ListedInv, DoneInv,
       SnapshotInv
  <1>4. ImportInv
    BY DEF StoreInv, AllLocal, LocalInv, SavingInv, ImportInv
  <1>5. OneOwnerRow
    BY DEF StoreInv, DbInv, OneRowInv, OneRow, OneOwnerRow, Sees
  <1>6. ConfirmedIsDurable /\ ReadYourWrites
    BY DEF StoreInv, DbInv, SavedInv, ConfirmedIsDurable, ReadYourWrites, Sees
  <1> QED
    BY <1>1, <1>2, <1>3, <1>4, <1>5, <1>6 DEF IInv

-----------------------------------------------------------------------------
(* The database.                                                           *)

LEMMA EmptyType == Empty \in Database /\ OneRow(Empty)
  BY DEF Empty, Database, OneRow

(* A process that may write sees the latest database, or its own changes.  *)
LEMMA WriterSees ==
  ASSUME DbInv, NEW p \in Procs, ~Refused(p)
  PROVE  /\ Sees(p) \in Database /\ OneRow(Sees(p))
         /\ disk.props \subseteq Sees(p).props /\ saved[p] \subseteq Sees(p).props
         /\ txn[p] = "writing" => Sees(p) = view[p]
         /\ txn[p] # "writing" => Sees(p) = disk
  <1>1. CASE txn[p] = "writing"
    BY <1>1 DEF Sees, DbInv, DbTypes, Overtakes, SavedInv, OneRowInv
  <1>2. CASE txn[p] = "reading"
    <2>1. Sees(p) = disk
      BY <1>2 DEF Sees, Refused, DbInv, DbTypes, Overtakes
    <2> QED
      BY <1>2, <2>1 DEF DbInv, DbTypes, SavedInv, OneRowInv
  <1>3. CASE txn[p] \in {"none", "begun"}
    BY <1>3 DEF Sees, DbInv, DbTypes, SavedInv, OneRowInv
  <1> QED
    BY <1>1, <1>2, <1>3 DEF DbInv, DbTypes

(* What others see of a step of p: nothing but the file.                   *)
Aside(p) == \A q \in Procs \ {p} : txn'[q] = txn[q] /\ view'[q] = view[q]

LEMMA WriteKeeps ==
  ASSUME DbInv, NEW p \in Procs, NEW db \in Database, Write(p, db), UNCHANGED saved,
         Sees(p).props \subseteq db.props, OneRow(db)
  PROVE  /\ DbInv' /\ Aside(p) /\ disk' = disk
         /\ txn'[p] = "writing" /\ view'[p] = db
  <1>1. /\ txn'[p] = "writing" /\ view'[p] = db /\ disk' = disk /\ saved' = saved
        /\ \A q \in Procs \ {p} : txn'[q] = txn[q] /\ view'[q] = view[q] /\ stale'[q] = stale[q]
    BY DEF Write, DbInv, DbTypes
  <1>2. DbTypes'
    BY DEF Write, DbInv, DbTypes
  <1>3. disk.props \subseteq db.props /\ saved[p] \subseteq db.props
    BY WriterSees DEF Write
  <1>4. \A q \in Procs \ {p} : txn[q] # "writing"
    BY DEF Write, Refused, Locked
  <1>5. OneWriter'
    BY <1>1, <1>4 DEF OneWriter
  <1>6. Overtakes'
    BY <1>1, <1>3 DEF DbInv, Overtakes
  <1>7. SavedInv'
    BY <1>1, <1>3 DEF DbInv, SavedInv
  <1>8. OneRowInv'
    BY <1>1 DEF DbInv, OneRowInv, OneRow
  <1> QED
    BY <1>1, <1>2, <1>5, <1>6, <1>7, <1>8 DEF DbInv, Aside

LEMMA RaiseKeeps ==
  ASSUME DbInv, NEW p \in Procs, Raise(p), UNCHANGED saved
  PROVE  /\ DbInv' /\ Aside(p) /\ disk' = disk /\ view' = view
         /\ txn'[p] = (IF txn[p] = "none" THEN "begun" ELSE txn[p])
  <1>1. /\ txn'[p] = (IF txn[p] = "none" THEN "begun" ELSE txn[p])
        /\ disk' = disk /\ saved' = saved /\ view' = view /\ stale' = stale
        /\ \A q \in Procs \ {p} : txn'[q] = txn[q]
    BY DEF Raise, DbInv, DbTypes
  <1>2. DbTypes'
    BY DEF Raise, DbInv, DbTypes
  <1>3. \A q \in Procs : txn'[q] \in {"reading", "writing"} => txn'[q] = txn[q]
    BY <1>1
  <1>4. OneWriter'
    BY <1>3 DEF DbInv, OneWriter
  <1>5. Overtakes'
    BY <1>1, <1>3 DEF DbInv, Overtakes
  <1>6. SavedInv' /\ OneRowInv'
    BY <1>1, <1>3 DEF DbInv, SavedInv, OneRowInv, OneRow
  <1> QED
    BY <1>1, <1>2, <1>4, <1>5, <1>6 DEF DbInv, Aside

(* A SELECT changes nothing for a writer.                                  *)
LEMMA ReadKeeps ==
  ASSUME DbInv, NEW p \in Procs, Read(p), UNCHANGED saved
  PROVE  /\ DbInv' /\ Aside(p) /\ disk' = disk
         /\ txn[p] # "begun" => txn'[p] = txn[p] /\ view'[p] = view[p]
         /\ txn'[p] \in {"none", "writing"} => txn[p] = txn'[p]
         /\ txn[p] \in {"none", "writing"} => txn[p] = txn'[p]
  <1>1. /\ disk' = disk /\ saved' = saved /\ stale' = stale
        /\ \A q \in Procs \ {p} : txn'[q] = txn[q] /\ view'[q] = view[q]
        /\ txn'[p] = (IF txn[p] = "begun" THEN "reading" ELSE txn[p])
        /\ view'[p] = (IF txn[p] = "begun" THEN disk ELSE view[p])
    BY DEF Read, DbInv, DbTypes
  <1>2. DbTypes'
    BY DEF Read, DbInv, DbTypes
  <1>3. OneWriter'
    BY <1>1 DEF DbInv, OneWriter
  <1>4. Overtakes'
    BY <1>1 DEF DbInv, Overtakes
  <1>5. SavedInv'
    BY <1>1 DEF DbInv, SavedInv
  <1>6. OneRowInv'
    BY <1>1 DEF DbInv, OneRowInv, OneRow
  <1> QED
    BY <1>1, <1>2, <1>3, <1>4, <1>5, <1>6 DEF DbInv, Aside

(* A rollback, as the end of the process makes one.                        *)
LEMMA RollbackKeeps ==
  ASSUME DbInv, NEW p \in Procs, EndTransaction(p), UNCHANGED <<disk, saved>>,
         stale' = [stale EXCEPT ![p] = FALSE]
  PROVE  DbInv' /\ Aside(p) /\ disk' = disk /\ txn'[p] = "none"
  <1>1. /\ txn'[p] = "none" /\ disk' = disk /\ saved' = saved
        /\ \A q \in Procs \ {p} : txn'[q] = txn[q] /\ view'[q] = view[q] /\ stale'[q] = stale[q]
    BY DEF EndTransaction, DbInv, DbTypes
  <1>2. DbTypes'
    BY EmptyType DEF EndTransaction, DbInv, DbTypes
  <1>3. OneWriter'
    BY <1>1 DEF DbInv, OneWriter
  <1>4. Overtakes'
    BY <1>1 DEF DbInv, Overtakes
  <1>5. SavedInv'
    BY <1>1 DEF DbInv, SavedInv
  <1>6. OneRowInv'
    BY <1>1 DEF DbInv, OneRowInv, OneRow
  <1> QED
    BY <1>1, <1>2, <1>3, <1>4, <1>5, <1>6 DEF DbInv, Aside

(* A commit, of a transaction that wrote or not.  What it confirms is in   *)
(* the database it commits.                                                *)
LEMMA CommitKeeps ==
  ASSUME DbInv, NEW p \in Procs, Commit(p), NEW new \in SUBSET Apns,
         saved' = [saved EXCEPT ![p] = @ \cup new],
         new # {} => txn[p] = "writing" /\ new \subseteq view[p].props
  PROVE  /\ DbInv' /\ Aside(p) /\ txn'[p] = "none"
         /\ disk' = (IF txn[p] = "writing" THEN view[p] ELSE disk)
  <1>1. /\ txn'[p] = "none" /\ disk' = (IF txn[p] = "writing" THEN view[p] ELSE disk)
        /\ \A q \in Procs \ {p} : txn'[q] = txn[q] /\ view'[q] = view[q] /\ saved'[q] = saved[q]
        /\ saved'[p] = saved[p] \cup new
    BY DEF Commit, EndTransaction, DbInv, DbTypes
  <1>2. disk.props \subseteq disk'.props
    BY <1>1 DEF DbInv, Overtakes
  <1>3. stale' \in [Procs -> BOOLEAN]
    BY DEF Commit, DbInv, DbTypes
  <1>4. DbTypes'
    BY <1>1, <1>3, EmptyType DEF Commit, EndTransaction, DbInv, DbTypes
  <1>5. OneWriter'
    BY <1>1 DEF DbInv, OneWriter
  <1>6. Overtakes'
    <2> SUFFICES ASSUME NEW q \in Procs \ {p}
                 PROVE  /\ txn[q] = "reading" /\ ~stale'[q] => view[q] = disk'
                        /\ txn[q] = "writing" => disk'.props \subseteq view[q].props
      BY <1>1 DEF Overtakes
    <2>1. CASE txn[p] = "writing"
      <3>1. PICK moved \in BOOLEAN :
              /\ view[p] # disk => moved
              /\ stale' = [o \in Procs |-> o # p /\ (stale[o] \/ (moved /\ txn[o] = "reading"))]
        BY <2>1 DEF Commit
      <3>2. txn[q] # "writing"
        BY <2>1 DEF DbInv, OneWriter
      <3>3. txn[q] = "reading" /\ ~stale'[q] => ~stale[q] /\ ~moved
        BY <3>1
      <3> QED
        BY <1>1, <2>1, <3>1, <3>2, <3>3 DEF DbInv, Overtakes
    <2>2. CASE txn[p] # "writing"
      <3>1. disk' = disk /\ stale'[q] = stale[q]
        BY <2>2 DEF Commit, DbInv, DbTypes
      <3> QED
        BY <3>1 DEF DbInv, Overtakes
    <2> QED
      BY <2>1, <2>2
  <1>7. SavedInv'
    <2> SUFFICES ASSUME NEW q \in Procs
                 PROVE  /\ saved'[q] \subseteq disk'.props
                        /\ txn'[q] \in {"reading", "writing"} => saved'[q] \subseteq view'[q].props
      BY DEF SavedInv
    <2>1. CASE q = p
      BY <1>1, <1>2, <2>1 DEF DbInv, SavedInv
    <2>2. CASE q # p
      BY <1>1, <1>2, <2>2 DEF DbInv, SavedInv
    <2> QED
      BY <2>1, <2>2
  <1>8. OneRowInv'
    BY <1>1 DEF DbInv, OneRowInv, OneRow
  <1> QED
    BY <1>1, <1>4, <1>5, <1>6, <1>7, <1>8 DEF DbInv, Aside

(* A commit that confirms no parcel.                                       *)
LEMMA PlainCommitKeeps ==
  ASSUME DbInv, NEW p \in Procs, Commit(p), UNCHANGED saved
  PROVE  /\ DbInv' /\ Aside(p) /\ txn'[p] = "none"
         /\ disk' = (IF txn[p] = "writing" THEN view[p] ELSE disk)
  <1>1. saved' = [saved EXCEPT ![p] = @ \cup {}]
    BY DEF DbInv, DbTypes
  <1>2. {} \in SUBSET Apns
    OBVIOUS
  <1> QED
    BY <1>1, <1>2, CommitKeeps

-----------------------------------------------------------------------------
(* The handlers.                                                           *)

(* A handler's step is its own.                                            *)
OwnStep(p) ==
  \A q \in Procs \ {p} :
    pc'[q] = pc[q] /\ todo'[q] = todo[q] /\ done'[q] = done[q] /\ phone'[q] = phone[q]

LEMMA OthersKeep ==
  ASSUME AllLocal, NEW p \in Procs, Aside(p), OwnStep(p),
         listed' = listed \/ \A q \in Procs \ {p} : txn[q] # "writing",
         LocalInv(p)'
  PROVE  AllLocal'
  <1> SUFFICES ASSUME NEW q \in Procs \ {p} PROVE LocalInv(q)'
    BY DEF AllLocal
  <1>1. LocalInv(q)
    BY DEF AllLocal
  <1>2. /\ txn'[q] = txn[q] /\ view'[q] = view[q] /\ pc'[q] = pc[q] /\ todo'[q] = todo[q]
        /\ done'[q] = done[q] /\ phone'[q] = phone[q]
    BY DEF Aside, OwnStep
  <1>3. ListedInv(q)'
    BY <1>1, <1>2 DEF LocalInv, ListedInv
  <1>4. pc'[q] \in {"find", "insert", "update"} => SavingInv(q)'
    BY <1>1, <1>2 DEF LocalInv, SavingInv
  <1> QED
    BY <1>1, <1>2, <1>3, <1>4 DEF LocalInv, DoneInv

(* What a writer sees has every phone that was confirmed.                  *)
LEMMA WriterLists ==
  ASSUME StoreInv, NEW p \in Procs, ~Refused(p), pc[p] # "commit_remove"
  PROVE  listed \subseteq Sees(p).dnc
  <1>1. CASE txn[p] = "writing"
    BY <1>1 DEF StoreInv, AllLocal, LocalInv, ListedInv, Sees
  <1>2. CASE txn[p] # "writing"
    BY <1>2, WriterSees DEF StoreInv
  <1> QED
    BY <1>1, <1>2

(* A request that fails: the transaction stays, with nothing of it told.   *)
LEMMA GiveUpKeeps ==
  ASSUME StoreInv, NEW p \in Procs, Raise(p), Goto(p, "idle"), RequestTypes',
         OwnStep(p), UNCHANGED confirmed, done'[p] = {},
         pc[p] # "commit_remove"
  PROVE  StoreInv'
  <1>1. listed' = listed /\ saved' = saved
    BY DEF confirmed
  <1>2. /\ DbInv' /\ Aside(p) /\ disk' = disk /\ view' = view
        /\ txn'[p] = (IF txn[p] = "none" THEN "begun" ELSE txn[p])
    BY <1>1, RaiseKeeps DEF StoreInv
  <1>3. pc'[p] = "idle"
    BY DEF Goto, StoreInv, RequestTypes
  <1>4. ListedInv(p)'
    BY <1>1, <1>2 DEF StoreInv, AllLocal, LocalInv, ListedInv
  <1>5. LocalInv(p)'
    BY <1>3, <1>4 DEF LocalInv, DoneInv, Writing
  <1> QED
    BY <1>1, <1>2, <1>5, OthersKeep DEF StoreInv

(* A step that leaves the database and what was confirmed of it alone, and *)
(* begins or ends no write.                                                *)
LEMMA QuietKeeps ==
  ASSUME StoreInv, NEW p \in Procs, RequestTypes', OwnStep(p),
         UNCHANGED <<database, confirmed>>, UNCHANGED done,
         pc[p] \in {"down", "idle", "seed"},
         pc'[p] \in {"idle", "property", "add", "remove"}
  PROVE  StoreInv'
  <1>1. UNCHANGED <<disk, txn, view, stale, saved, listed>>
    BY DEF database, confirmed
  <1>2. DbInv'
    BY <1>1 DEF StoreInv, DbInv, DbTypes, OneWriter, Overtakes, SavedInv, OneRowInv, OneRow
  <1>3. Aside(p)
    BY <1>1 DEF Aside
  <1>4. LocalInv(p)'
    BY <1>1 DEF StoreInv, AllLocal, LocalInv, ListedInv, DoneInv, Writing
  <1> QED
    BY <1>1, <1>2, <1>3, <1>4, OthersKeep DEF StoreInv

LEMMA RequestKeeps ==
  ASSUME StoreInv, NEW p \in Procs, Import(p) \/ RequestAdd(p) \/ RequestRemove(p)
  PROVE  StoreInv'
  <1>1. CASE Import(p)
    <2>1. RequestTypes'
      BY <1>1, FilesAssumption DEF Import, Goto, confirmed, StoreInv, RequestTypes, Places
    <2>2. pc[p] = "idle" /\ pc'[p] = "property" /\ OwnStep(p)
      BY <1>1 DEF Import, Goto, OwnStep, StoreInv, RequestTypes
    <2> QED
      BY <1>1, <2>1, <2>2, QuietKeeps DEF Import
  <1>2. CASE RequestAdd(p) \/ RequestRemove(p)
    <2>1. RequestTypes'
      BY <1>2 DEF RequestAdd, RequestRemove, Goto, confirmed, StoreInv, RequestTypes, Places
    <2>2. pc[p] = "idle" /\ pc'[p] \in {"add", "remove"} /\ OwnStep(p)
      BY <1>2 DEF RequestAdd, RequestRemove, Goto, OwnStep, StoreInv, RequestTypes
    <2> QED
      BY <1>2, <2>1, <2>2, QuietKeeps DEF RequestAdd, RequestRemove
  <1> QED
    BY <1>1, <1>2

(* A process that starts has no transaction.                               *)
LEMMA StartKeeps ==
  ASSUME StoreInv, NEW p \in Procs, Start(p)
  PROVE  StoreInv'
  <1>1. RequestTypes'
    BY DEF Start, Goto, request, confirmed, StoreInv, RequestTypes, Places
  <1>2. pc[p] = "down" /\ pc'[p] = "idle" /\ OwnStep(p)
    BY DEF Start, Goto, request, OwnStep, StoreInv, RequestTypes
  <1> QED
    BY <1>1, <1>2, QuietKeeps DEF Start, request

(* CheckNumber and ReadLeads: one SELECT of an idle process.               *)
LEMMA SelectKeeps ==
  ASSUME StoreInv, NEW p \in Procs, CheckNumber(p) \/ ReadLeads(p)
  PROVE  StoreInv'
  <1>1. /\ Read(p) /\ pc[p] = "idle" /\ pc' = pc /\ todo' = todo /\ done' = done
        /\ saved' = saved /\ listed' = listed
    BY DEF CheckNumber, ReadLeads, request, confirmed
  <1>2. RequestTypes'
    BY <1>1 DEF CheckNumber, ReadLeads, request, StoreInv, RequestTypes
  <1>3. OwnStep(p)
    BY <1>1 DEF CheckNumber, ReadLeads, request, OwnStep, StoreInv, RequestTypes
  <1>4. /\ DbInv' /\ Aside(p) /\ disk' = disk
        /\ txn[p] # "begun" => txn'[p] = txn[p] /\ view'[p] = view[p]
        /\ txn'[p] \in {"none", "writing"} => txn[p] = txn'[p]
    BY <1>1, ReadKeeps DEF StoreInv
  <1>5. ListedInv(p)'
    BY <1>1, <1>4 DEF StoreInv, AllLocal, LocalInv, ListedInv
  <1>6. DoneInv(p)'
    BY <1>1, <1>4 DEF StoreInv, AllLocal, LocalInv, DoneInv
  <1>7. LocalInv(p)'
    BY <1>1, <1>5, <1>6 DEF LocalInv, DoneInv, Writing
  <1> QED
    BY <1>1, <1>2, <1>3, <1>4, <1>7, OthersKeep DEF StoreInv

LEMMA CrashKeeps ==
  ASSUME StoreInv, NEW p \in Procs, Crash(p)
  PROVE  StoreInv'
  <1>1. /\ EndTransaction(p) /\ stale' = [stale EXCEPT ![p] = FALSE]
        /\ disk' = disk /\ saved' = saved /\ listed' = listed
    BY DEF Crash, confirmed
  <1>2. DbInv' /\ Aside(p) /\ txn'[p] = "none"
    BY <1>1, RollbackKeeps DEF StoreInv
  <1>3. RequestTypes'
    BY DEF Crash, Goto, confirmed, StoreInv, RequestTypes, Places
  <1>4. pc'[p] = "down" /\ done'[p] = {} /\ OwnStep(p)
    BY DEF Crash, Goto, OwnStep, StoreInv, RequestTypes
  <1>5. LocalInv(p)'
    BY <1>2, <1>4 DEF LocalInv, ListedInv, DoneInv, Writing
  <1> QED
    BY <1>1, <1>2, <1>3, <1>4, <1>5, OthersKeep DEF StoreInv

-----------------------------------------------------------------------------
(* The import.                                                             *)

LEMMA AddPropertyType ==
  ASSUME NEW db \in Database, NEW r \in Record, OneRow(db)
  PROVE  /\ AddProperty(db, r) \in Database /\ OneRow(AddProperty(db, r))
         /\ AddProperty(db, r).props = db.props \cup {r.apn}
         /\ AddProperty(db, r).dnc = db.dnc
         /\ AddProperty(db, r).owners = db.owners
  BY DEF AddProperty, Database, Record, OneRow

(* An owner whom the look-up has not found is the first of its rows.       *)
LEMMA AddOwnerType ==
  ASSUME NEW db \in Database, NEW r \in Record, OneRow(db), r.owner # None,
         db.owners[<<r.apn, r.owner>>] = 0
  PROVE  /\ AddOwner(db, r) \in Database /\ OneRow(AddOwner(db, r))
         /\ AddOwner(db, r).props = db.props
         /\ AddOwner(db, r).dnc = db.dnc
  <1>1. <<r.apn, r.owner>> \in Rows /\ db.owners \in [Rows -> Nat]
    BY DEF Record, Rows, Database
  <1>2. AddOwner(db, r).owners = [db.owners EXCEPT ![<<r.apn, r.owner>>] = 1]
    BY <1>1 DEF AddOwner, Database
  <1> QED
    BY <1>1, <1>2 DEF AddOwner, Database, OneRow

(* The record is saved: the parcel is in the writer's database.            *)
LEMMA NextRecordKeeps ==
  ASSUME StoreInv, NEW p \in Procs, NEW db \in Database, Write(p, db), OneRow(db),
         Sees(p).props \subseteq db.props, db.dnc = Sees(p).dnc,
         todo[p] # <<>>, Head(todo[p]).apn \in db.props, NextRecord(p),
         pc[p] \in {"property", "insert", "update"}, pc' \in [Procs -> Places],
         pc'[p] = "property", \A q \in Procs \ {p} : pc'[q] = pc[q],
         UNCHANGED <<confirmed, reply>>
  PROVE  StoreInv'
  <1>1. saved' = saved /\ listed' = listed /\ reply' = reply /\ ~Refused(p)
    BY DEF confirmed, Write
  <1>2. /\ DbInv' /\ Aside(p) /\ disk' = disk
        /\ txn'[p] = "writing" /\ view'[p] = db
    BY <1>1, WriteKeeps DEF StoreInv
  <1>3. /\ todo[p] \in Seq(Record) /\ Head(todo[p]) \in Record /\ Tail(todo[p]) \in Seq(Record)
    BY HeadTailProperties DEF StoreInv, RequestTypes
  <1>4. RequestTypes'
    BY <1>1, <1>3 DEF NextRecord, StoreInv, RequestTypes, Record
  <1>5. OwnStep(p)
    BY DEF NextRecord, OwnStep, StoreInv, RequestTypes
  <1>6. listed \subseteq db.dnc
    BY <1>1, WriterLists
  <1>7. done'[p] \subseteq db.props
    <2>1. done'[p] = done[p] \cup {Head(todo[p]).apn}
      BY DEF NextRecord, StoreInv, RequestTypes
    <2>2. done[p] \subseteq Sees(p).props
      <3>1. CASE done[p] = {}
        BY <3>1
      <3>2. CASE done[p] # {}
        BY <3>2 DEF StoreInv, AllLocal, LocalInv, DoneInv, Sees
      <3> QED
        BY <3>1, <3>2
    <2> QED
      BY <2>1, <2>2
  <1>8. LocalInv(p)'
    BY <1>1, <1>2, <1>6, <1>7 DEF LocalInv, ListedInv, DoneInv, Writing
  <1> QED
    BY <1>1, <1>2, <1>4, <1>5, <1>8, OthersKeep DEF StoreInv

LEMMA UpsertPropertyKeeps ==
  ASSUME StoreInv, NEW p \in Procs, UpsertProperty(p)
  PROVE  StoreInv'
  <1> DEFINE r == Head(todo[p])
             db == AddProperty(Sees(p), r)
  <1>0. pc[p] = "property" /\ todo[p] # <<>> /\ UNCHANGED <<confirmed, reply>>
    BY DEF UpsertProperty
  <1>1. r \in Record
    BY <1>0, HeadTailProperties DEF StoreInv, RequestTypes
  <1>2. CASE ~r.bad /\ Write(p, db)
    <2>1. ~Refused(p) /\ Sees(p) \in Database /\ OneRow(Sees(p))
      BY <1>2, WriterSees DEF Write, StoreInv
    <2>2. /\ db \in Database /\ OneRow(db) /\ db.props = Sees(p).props \cup {r.apn}
          /\ db.dnc = Sees(p).dnc /\ db.owners = Sees(p).owners
      BY <1>1, <2>1, AddPropertyType
    <2> HIDE DEF db
    <2>3. CASE NextRecord(p) /\ UNCHANGED pc
      <3>1. pc' \in [Procs -> Places] /\ pc'[p] = "property"
            /\ \A q \in Procs \ {p} : pc'[q] = pc[q]
        BY <1>0, <2>3 DEF StoreInv, RequestTypes
      <3> QED
        BY <1>0, <1>2, <2>2, <2>3, <3>1, NextRecordKeeps
    <2>4. CASE r.owner # None /\ Goto(p, "find") /\ UNCHANGED request
      <3>1. saved' = saved /\ listed' = listed /\ reply' = reply
            /\ todo' = todo /\ phone' = phone /\ done' = done
        BY <1>0, <2>4 DEF confirmed, request
      <3>2. /\ DbInv' /\ Aside(p) /\ disk' = disk
            /\ txn'[p] = "writing" /\ view'[p] = db
        BY <1>2, <2>2, <3>1, WriteKeeps DEF StoreInv
      <3>3. RequestTypes' /\ pc'[p] = "find" /\ OwnStep(p)
        BY <2>4, <3>1 DEF Goto, StoreInv, RequestTypes, Places, OwnStep
      <3>4. listed \subseteq db.dnc
        BY <1>0, <2>1, <2>2, WriterLists
      <3>5. done[p] \subseteq db.props
        BY <2>2 DEF StoreInv, AllLocal, LocalInv, DoneInv, Sees
      <3>6. SavingInv(p)'
        BY <1>0, <2>2, <2>4, <3>1, <3>2, <3>3 DEF SavingInv
      <3>7. LocalInv(p)'
        BY <3>1, <3>2, <3>3, <3>4, <3>5, <3>6 DEF LocalInv, ListedInv, DoneInv, Writing
      <3> QED
        BY <3>1, <3>2, <3>3, <3>7, OthersKeep DEF StoreInv
    <2> QED
      BY <1>2, <2>3, <2>4 DEF UpsertProperty, Write, Busy
  <1>3. CASE Raise(p) /\ Fail(p)
    <2>1. Goto(p, "idle") /\ OwnStep(p) /\ done'[p] = {}
      BY <1>3 DEF Fail, Goto, OwnStep, StoreInv, RequestTypes
    <2>2. RequestTypes'
      BY <1>0, <1>3 DEF Fail, Goto, confirmed, StoreInv, RequestTypes, Places
    <2> QED
      BY <1>0, <1>3, <2>1, <2>2, GiveUpKeeps
  <1> QED
    BY <1>2, <1>3 DEF UpsertProperty, Busy

LEMMA FindOwnerKeeps ==
  ASSUME StoreInv, NEW p \in Procs, FindOwner(p)
  PROVE  StoreInv'
  <1> DEFINE r == Head(todo[p])
  <1>0. /\ pc[p] = "find" /\ Read(p)
        /\ Goto(p, IF Sees(p).owners[<<r.apn, r.owner>>] > 0 THEN "update" ELSE "insert")
        /\ todo' = todo /\ phone' = phone /\ done' = done
        /\ saved' = saved /\ listed' = listed /\ reply' = reply
    BY DEF FindOwner, request, confirmed
  <1>1. txn[p] = "writing" /\ SavingInv(p) /\ Sees(p) = view[p]
    BY <1>0 DEF StoreInv, AllLocal, LocalInv, Writing, Sees
  <1>2. /\ DbInv' /\ Aside(p) /\ disk' = disk
        /\ txn'[p] = txn[p] /\ view'[p] = view[p]
    BY <1>0, <1>1, ReadKeeps DEF StoreInv
  <1>3. /\ pc'[p] \in {"update", "insert"}
        /\ pc'[p] = "insert" => ~(view[p].owners[<<r.apn, r.owner>>] > 0)
    BY <1>0, <1>1 DEF Goto, StoreInv, RequestTypes
  <1>4. RequestTypes' /\ OwnStep(p)
    BY <1>0 DEF Goto, StoreInv, RequestTypes, Places, OwnStep
  <1>5. view[p].owners[<<r.apn, r.owner>>] \in Nat
    <2>1. r \in Record
      BY <1>1, HeadTailProperties DEF SavingInv, StoreInv, RequestTypes
    <2>2. <<r.apn, r.owner>> \in Rows
      BY <1>1, <2>1 DEF SavingInv, Record, Rows
    <2> QED
      BY <2>2 DEF StoreInv, DbInv, DbTypes, Database
  <1>6. SavingInv(p)'
    BY <1>0, <1>1, <1>2, <1>3, <1>5 DEF SavingInv
  <1>7. ListedInv(p)'
    BY <1>0, <1>2 DEF StoreInv, AllLocal, LocalInv, ListedInv
  <1>8. DoneInv(p)'
    BY <1>0, <1>2, <1>3 DEF StoreInv, AllLocal, LocalInv, DoneInv
  <1>9. LocalInv(p)'
    BY <1>1, <1>2, <1>3, <1>6, <1>7, <1>8 DEF LocalInv
  <1> QED
    BY <1>0, <1>2, <1>4, <1>9, OthersKeep DEF StoreInv

LEMMA SaveOwnerKeeps ==
  ASSUME StoreInv, NEW p \in Procs, SaveOwner(p)
  PROVE  StoreInv'
  <1> DEFINE r == Head(todo[p])
  <1>0. /\ pc[p] \in {"insert", "update"} /\ ~Refused(p)
        /\ NextRecord(p) /\ Goto(p, "property") /\ UNCHANGED <<confirmed, reply>>
    BY DEF SaveOwner, Write
  <1>1. txn[p] = "writing" /\ SavingInv(p) /\ Sees(p) = view[p]
    BY <1>0 DEF StoreInv, AllLocal, LocalInv, Writing, Sees
  <1>2. r \in Record /\ todo[p] # <<>> /\ r.apn \in Sees(p).props
    BY <1>1, HeadTailProperties DEF SavingInv, StoreInv, RequestTypes
  <1>3. Sees(p) \in Database /\ OneRow(Sees(p))
    BY <1>0, WriterSees DEF StoreInv
  <1>4. /\ pc' \in [Procs -> Places] /\ pc'[p] = "property"
        /\ \A q \in Procs \ {p} : pc'[q] = pc[q]
    BY <1>0 DEF Goto, StoreInv, RequestTypes, Places
  <1>5. CASE pc[p] = "insert" /\ Write(p, AddOwner(Sees(p), r))
    <2>1. /\ AddOwner(Sees(p), r) \in Database /\ OneRow(AddOwner(Sees(p), r))
          /\ AddOwner(Sees(p), r).props = Sees(p).props
          /\ AddOwner(Sees(p), r).dnc = Sees(p).dnc
      <3>1. r.owner # None /\ Sees(p).owners[<<r.apn, r.owner>>] = 0
        BY <1>1, <1>5 DEF SavingInv
      <3> QED
        BY <1>2, <1>3, <3>1, AddOwnerType
    <2> QED
      BY <1>0, <1>2, <1>4, <1>5, <2>1, NextRecordKeeps
  <1>6. CASE pc[p] = "update" /\ Write(p, Sees(p))
    BY <1>0, <1>2, <1>3, <1>4, <1>6, NextRecordKeeps
  <1> QED
    BY <1>5, <1>6 DEF SaveOwner

-----------------------------------------------------------------------------
(* Commits.                                                                *)

(* What a commit leaves in the file has every phone that was confirmed,    *)
(* but for the one being removed.                                          *)
LEMMA CommitLists ==
  ASSUME StoreInv, NEW p \in Procs,
         disk' = (IF txn[p] = "writing" THEN view[p] ELSE disk)
  PROVE  /\ pc[p] # "commit_remove" => listed \subseteq disk'.dnc
         /\ listed \ {phone[p]} \subseteq disk'.dnc
  BY DEF StoreInv, AllLocal, LocalInv, ListedInv

(* After a commit the process is idle, without a transaction.              *)
LEMMA CommittedKeeps ==
  ASSUME StoreInv, NEW p \in Procs, DbInv', Aside(p), txn'[p] = "none", RequestTypes',
         OwnStep(p), done'[p] = {}, pc'[p] \in {"idle", "seed"}, listed' \subseteq disk'.dnc,
         listed' = listed \/ txn[p] = "writing"
  PROVE  StoreInv'
  <1>1. LocalInv(p)'
    BY DEF LocalInv, ListedInv, DoneInv, Writing
  <1>2. listed' = listed \/ \A q \in Procs \ {p} : txn[q] # "writing"
    BY DEF StoreInv, DbInv, OneWriter
  <1> QED
    BY <1>1, <1>2, OthersKeep DEF StoreInv

LEMMA CommitImportKeeps ==
  ASSUME StoreInv, NEW p \in Procs, CommitImport(p)
  PROVE  StoreInv'
  <1>1. /\ pc[p] = "property" /\ Commit(p) /\ listed' = listed
        /\ saved' = [saved EXCEPT ![p] = @ \cup done[p]]
        /\ done[p] \in SUBSET Apns
        /\ done[p] # {} => txn[p] = "writing" /\ done[p] \subseteq view[p].props
    BY DEF CommitImport, StoreInv, RequestTypes, AllLocal, LocalInv, DoneInv
  <1>2. /\ DbInv' /\ Aside(p) /\ txn'[p] = "none"
        /\ disk' = (IF txn[p] = "writing" THEN view[p] ELSE disk)
    BY <1>1, CommitKeeps DEF StoreInv
  <1>3. RequestTypes'
    BY DEF CommitImport, Goto, StoreInv, RequestTypes, Places
  <1>4. pc'[p] = "idle" /\ done'[p] = {} /\ OwnStep(p)
    BY DEF CommitImport, Goto, OwnStep, StoreInv, RequestTypes
  <1>5. listed \subseteq disk'.dnc
    BY <1>1, <1>2, CommitLists
  <1> QED
    BY <1>1, <1>2, <1>3, <1>4, <1>5, CommittedKeeps

(* CommitAdd, CommitRemove, CommitSeed and the commit in ApplySchema.      *)
LEMMA OtherCommitsKeep ==
  ASSUME StoreInv, NEW p \in Procs,
         CommitAdd(p) \/ CommitRemove(p) \/ CommitSeed(p) \/ ApplySchema(p)
  PROVE  StoreInv'
  <1>1. /\ Commit(p) /\ saved' = saved /\ done' = done /\ todo' = todo /\ phone' = phone
        /\ reply' = reply
    BY DEF CommitAdd, CommitRemove, CommitSeed, ApplySchema, confirmed, request
  <1>2. /\ DbInv' /\ Aside(p) /\ txn'[p] = "none"
        /\ disk' = (IF txn[p] = "writing" THEN view[p] ELSE disk)
    BY <1>1, PlainCommitKeeps DEF StoreInv
  <1>3. RequestTypes'
    BY <1>1 DEF CommitAdd, CommitRemove, CommitSeed, ApplySchema, Goto, confirmed, StoreInv,
                RequestTypes, Places
  <1>4. pc'[p] \in {"idle", "seed"} /\ OwnStep(p)
    BY <1>1 DEF CommitAdd, CommitRemove, CommitSeed, ApplySchema, Goto, OwnStep, StoreInv,
                RequestTypes
  <1>5. listed' = listed \/ txn[p] = "writing"
    BY DEF CommitAdd, CommitRemove, CommitSeed, ApplySchema, confirmed, StoreInv, AllLocal,
           LocalInv, Writing
  <1>6. listed' \subseteq disk'.dnc
    <2>1. CASE CommitAdd(p)
      <3>1. pc[p] = "commit_add" /\ listed' = listed \cup {phone[p]}
        BY <2>1 DEF CommitAdd
      <3>2. txn[p] = "writing" /\ phone[p] \in view[p].dnc
        BY <3>1 DEF StoreInv, AllLocal, LocalInv, Writing
      <3> QED
        BY <1>2, <3>1, <3>2, CommitLists
    <2>2. CASE CommitRemove(p)
      BY <1>2, <2>2, CommitLists DEF CommitRemove
    <2>3. CASE CommitSeed(p) \/ ApplySchema(p)
      BY <1>2, <2>3, CommitLists DEF CommitSeed, ApplySchema, confirmed
    <2> QED
      BY <2>1, <2>2, <2>3
  <1>7. done'[p] = {}
    BY <1>1 DEF CommitAdd, CommitRemove, CommitSeed, ApplySchema, StoreInv, AllLocal, LocalInv,
                DoneInv
  <1> QED
    BY <1>1, <1>2, <1>3, <1>4, <1>5, <1>6, <1>7, CommittedKeeps

-----------------------------------------------------------------------------
(* The other statements that write.                                        *)

(* A number is added to what the writer sees, or taken from it, or nothing *)
(* is: the other numbers that were confirmed stay.                         *)
LEMMA StatementKeeps ==
  ASSUME StoreInv, NEW p \in Procs, NEW db \in Database, Write(p, db),
         db.props = Sees(p).props, db.owners = Sees(p).owners,
         pc[p] \in {"add", "remove", "seed"},
         \/ pc'[p] = "commit_add" /\ db.dnc = Sees(p).dnc \cup {phone[p]}
         \/ pc'[p] = "commit_remove" /\ db.dnc = Sees(p).dnc \ {phone[p]}
         \/ pc'[p] = "commit_seed" /\ db.dnc = Sees(p).dnc,
         RequestTypes', OwnStep(p), UNCHANGED <<request, confirmed>>
  PROVE  StoreInv'
  <1>1. /\ saved' = saved /\ listed' = listed /\ phone' = phone /\ done' = done
        /\ ~Refused(p)
    BY DEF confirmed, request, Write
  <1>2. OneRow(db)
    BY <1>1, WriterSees DEF StoreInv, OneRow
  <1>3. /\ DbInv' /\ Aside(p) /\ disk' = disk
        /\ txn'[p] = "writing" /\ view'[p] = db
    BY <1>1, <1>2, WriteKeeps DEF StoreInv
  <1>4. listed \subseteq Sees(p).dnc
    BY <1>1, WriterLists
  <1>5. ListedInv(p)'
    BY <1>1, <1>3, <1>4 DEF ListedInv
  <1>6. done'[p] = {}
    BY <1>1 DEF StoreInv, AllLocal, LocalInv, DoneInv
  <1>7. LocalInv(p)'
    BY <1>1, <1>3, <1>5, <1>6 DEF LocalInv, DoneInv, Writing
  <1> QED
    BY <1>1, <1>3, <1>7, OthersKeep DEF StoreInv

LEMMA WriteNumberKeeps ==
  ASSUME StoreInv, NEW p \in Procs, WriteNumber(p)
  PROVE  StoreInv'
  <1>0. pc[p] \in {"add", "remove"} /\ UNCHANGED <<request, confirmed, reply>>
    BY DEF WriteNumber
  <1>1. RequestTypes' /\ OwnStep(p)
    BY <1>0 DEF WriteNumber, Goto, request, confirmed, StoreInv, RequestTypes, Places, OwnStep
  <1>2. phone[p] \in Phones
    BY DEF StoreInv, RequestTypes
  <1>3. CASE Write(p, [Sees(p) EXCEPT !.dnc = @ \cup {phone[p]}]) /\ Goto(p, "commit_add")
    <2> DEFINE db == [Sees(p) EXCEPT !.dnc = @ \cup {phone[p]}]
    <2>1. Sees(p) \in Database
      BY <1>3, WriterSees DEF Write, StoreInv
    <2>2. /\ db \in Database /\ db.props = Sees(p).props /\ db.owners = Sees(p).owners
          /\ db.dnc = Sees(p).dnc \cup {phone[p]}
      BY <1>2, <2>1 DEF Database
    <2>3. pc'[p] = "commit_add"
      BY <1>3 DEF Goto, StoreInv, RequestTypes
    <2> QED
      BY <1>0, <1>1, <1>3, <2>2, <2>3, StatementKeeps
  <1>4. CASE Write(p, [Sees(p) EXCEPT !.dnc = @ \ {phone[p]}]) /\ Goto(p, "commit_remove")
    <2> DEFINE db == [Sees(p) EXCEPT !.dnc = @ \ {phone[p]}]
    <2>1. Sees(p) \in Database
      BY <1>4, WriterSees DEF Write, StoreInv
    <2>2. /\ db \in Database /\ db.props = Sees(p).props /\ db.owners = Sees(p).owners
          /\ db.dnc = Sees(p).dnc \ {phone[p]}
      BY <1>2, <2>1 DEF Database
    <2>3. pc'[p] = "commit_remove"
      BY <1>4 DEF Goto, StoreInv, RequestTypes
    <2> QED
      BY <1>0, <1>1, <1>4, <2>2, <2>3, StatementKeeps
  <1>5. CASE Raise(p) /\ Goto(p, "idle")
    <2>1. done'[p] = {}
      BY <1>0 DEF request, StoreInv, AllLocal, LocalInv, DoneInv
    <2> QED
      BY <1>0, <1>1, <1>5, <2>1, GiveUpKeeps
  <1> QED
    BY <1>3, <1>4, <1>5 DEF WriteNumber, Busy

LEMMA SeedKeeps ==
  ASSUME StoreInv, NEW p \in Procs, Seed(p)
  PROVE  StoreInv'
  <1>0. pc[p] = "seed" /\ UNCHANGED <<request, confirmed, reply>>
    BY DEF Seed
  <1>1. RequestTypes' /\ OwnStep(p)
    BY <1>0 DEF Seed, Goto, request, confirmed, StoreInv, RequestTypes, Places, OwnStep
  <1>2. CASE Write(p, Sees(p)) /\ Goto(p, "commit_seed")
    <2>1. Sees(p) \in Database
      BY <1>2, WriterSees DEF Write, StoreInv
    <2>2. pc'[p] = "commit_seed"
      BY <1>2 DEF Goto, StoreInv, RequestTypes
    <2> QED
      BY <1>0, <1>1, <1>2, <2>1, <2>2, StatementKeeps
  <1>3. CASE Raise(p) /\ Goto(p, "idle")
    <2>1. done'[p] = {}
      BY <1>0 DEF request, StoreInv, AllLocal, LocalInv, DoneInv
    <2> QED
      BY <1>0, <1>1, <1>3, <2>1, GiveUpKeeps
  <1>4. CASE UNCHANGED database /\ Goto(p, "idle")
    <2>1. pc'[p] = "idle"
      BY <1>4 DEF Goto, StoreInv, RequestTypes
    <2> QED
      BY <1>0, <1>1, <1>4, <2>1, QuietKeeps DEF request
  <1> QED
    BY <1>2, <1>3, <1>4 DEF Seed, Busy

-----------------------------------------------------------------------------
LEMMA InitStore == Init => StoreInv
  <1> SUFFICES ASSUME Init PROVE StoreInv
    OBVIOUS
  <1>1. DbInv
    BY EmptyType DEF Init, DbInv, DbTypes, OneWriter, Overtakes, SavedInv, OneRowInv
  <1>2. RequestTypes
    BY DEF Init, RequestTypes, Places
  <1>3. AllLocal
    BY DEF Init, AllLocal, LocalInv, ListedInv, DoneInv, Writing
  <1> QED
    BY <1>1, <1>2, <1>3 DEF Init, StoreInv

LEMMA UnchangedKeeps == StoreInv /\ UNCHANGED vars => StoreInv'
  <1> SUFFICES ASSUME StoreInv, UNCHANGED vars PROVE StoreInv'
    OBVIOUS
  <1> USE DEF vars, database, request, confirmed
  <1>1. DbInv'
    BY DEF StoreInv, DbInv, DbTypes, OneWriter, Overtakes, SavedInv, OneRowInv, OneRow
  <1>2. RequestTypes'
    BY DEF StoreInv, RequestTypes
  <1>3. AllLocal'
    BY DEF StoreInv, AllLocal, LocalInv, ListedInv, DoneInv, SavingInv
  <1> QED
    BY <1>1, <1>2, <1>3 DEF StoreInv

LEMMA StoreStep == StoreInv /\ [Next]_vars => StoreInv'
  <1> SUFFICES ASSUME StoreInv, NEW p \in Procs, Start(p) \/ Crash(p) \/ Request(p) \/ Handle(p)
               PROVE  StoreInv'
    BY UnchangedKeeps DEF Next
  <1>1. CASE Start(p) \/ Crash(p)
    BY <1>1, StartKeeps, CrashKeeps
  <1>2. CASE Request(p)
    BY <1>2, RequestKeeps, SelectKeeps, OtherCommitsKeep DEF Request
  <1>3. CASE Handle(p)
    BY <1>3, UpsertPropertyKeeps, FindOwnerKeeps, SaveOwnerKeeps, CommitImportKeeps,
       WriteNumberKeeps, OtherCommitsKeep, SeedKeeps
    DEF Handle
  <1> QED
    BY <1>1, <1>2, <1>3

(* The types, the one writer and what each process sees.                   *)
THEOREM StoreInvariant == Spec => []IInv
  BY InitStore, StoreStep, StoreInvIsEnough, PTL DEF Spec

(* discovery.py, save_to_database.  Whatever imports interleave, fail and  *)
(* leave their transactions open, no owner of a parcel has two rows.       *)
THEOREM OwnersAreUnique == Spec => []OneOwnerRow
  BY InitStore, StoreStep, StoreInvIsEnough, PTL DEF Spec

(* What a success response has confirmed stays in the file.                *)
THEOREM ConfirmedStays == Spec => []ConfirmedIsDurable
  BY InitStore, StoreStep, StoreInvIsEnough, PTL DEF Spec

(* A process never misses what it has confirmed itself.                    *)
THEOREM OwnWritesAreRead == Spec => []ReadYourWrites
  BY InitStore, StoreStep, StoreInvIsEnough, PTL DEF Spec

-----------------------------------------------------------------------------
(* Whole records.  A database is whole but for the parcel whose owner a    *)
(* handler is about to save; no commit comes before that.                  *)

AllRecords == UNION {{f[i] : i \in DOMAIN f} : f \in Files}

WholeDb(db, open) ==
  /\ \A a \in db.props \ open :
       \E r \in RecordsOf(a) : r.owner = None \/ db.owners[<<a, r.owner>>] > 0
  /\ \A r \in Rows : db.owners[r] > 0 => r[1] \in db.props

Open(p) == IF pc[p] \in {"find", "insert", "update"} THEN {Head(todo[p]).apn} ELSE {}

WholeOf(p) ==
  /\ txn[p] = "writing" => WholeDb(view[p], Open(p))
  /\ pc[p] = "update" => view[p].owners[<<Head(todo[p]).apn, Head(todo[p]).owner>>] > 0
  /\ \A i \in 1..Len(todo[p]) : todo[p][i] \in AllRecords

WholeInv == WholeDb(disk, {}) /\ \A p \in Procs : WholeOf(p)

LEMMA StepIsOwn ==
  ASSUME StoreInv, NEW p \in Procs, Start(p) \/ Crash(p) \/ Request(p) \/ Handle(p)
  PROVE  OwnStep(p) /\ Aside(p)
  <1> USE DEF StoreInv, RequestTypes, DbInv, DbTypes, OwnStep, Aside
  <1>1. CASE Start(p) \/ Import(p) \/ RequestAdd(p) \/ RequestRemove(p)
    BY <1>1 DEF Start, Import, RequestAdd, RequestRemove, Goto, database, request
  <1>2. CASE Crash(p) \/ CommitImport(p)
    BY <1>2 DEF Crash, CommitImport, Commit, EndTransaction, Goto
  <1>3. CASE CheckNumber(p) \/ ReadLeads(p) \/ FindOwner(p)
    BY <1>3 DEF CheckNumber, ReadLeads, FindOwner, Read, Goto, request
  <1>4. CASE CommitAdd(p) \/ CommitRemove(p) \/ CommitSeed(p) \/ ApplySchema(p)
    BY <1>4 DEF CommitAdd, CommitRemove, CommitSeed, ApplySchema, Commit, EndTransaction, Goto,
                request
  <1>5. CASE UpsertProperty(p)
    BY <1>5 DEF UpsertProperty, Write, Busy, Raise, Fail, NextRecord, Goto, request
  <1>6. CASE SaveOwner(p)
    BY <1>6 DEF SaveOwner, Write, NextRecord, Goto
  <1>7. CASE WriteNumber(p) \/ Seed(p)
    BY <1>7 DEF WriteNumber, Seed, Write, Busy, Raise, Goto, request, database
  <1> QED
    BY <1>1, <1>2, <1>3, <1>4, <1>5, <1>6, <1>7 DEF Request, Handle

LEMMA WholeOthersKeep ==
  ASSUME WholeInv, NEW p \in Procs, Aside(p), OwnStep(p), WholeDb(disk', {}), WholeOf(p)'
  PROVE  WholeInv'
  <1> SUFFICES ASSUME NEW q \in Procs \ {p} PROVE WholeOf(q)'
    BY DEF WholeInv, WholeDb
  <1>1. WholeOf(q)
    BY DEF WholeInv
  <1>2. /\ txn'[q] = txn[q] /\ view'[q] = view[q] /\ pc'[q] = pc[q] /\ todo'[q] = todo[q]
    BY DEF Aside, OwnStep
  <1>3. Open(q)' = Open(q)
    BY <1>2 DEF Open
  <1> QED
    BY <1>1, <1>2, <1>3 DEF WholeOf, WholeDb

LEMMA SeesWhole ==
  ASSUME StoreInv, WholeInv, NEW p \in Procs, ~Refused(p)
  PROVE  WholeDb(Sees(p), Open(p))
  <1>1. CASE txn[p] = "writing"
    BY <1>1 DEF WholeInv, WholeOf, Sees
  <1>2. CASE txn[p] # "writing"
    BY <1>2, WriterSees DEF WholeInv, StoreInv, WholeDb
  <1> QED
    BY <1>1, <1>2

(* A step that commits nothing and leaves a writer's parcels and owners.   *)
LEMMA SameRowsKeep ==
  ASSUME StoreInv, WholeInv, NEW p \in Procs, Aside(p), OwnStep(p), disk' = disk,
         Open(p) = {}, pc'[p] \notin {"find", "insert", "update"},
         \/ txn'[p] # "writing"
         \/ txn[p] = "writing" /\ view'[p] = view[p]
         \/ ~Refused(p) /\ view'[p].props = Sees(p).props /\ view'[p].owners = Sees(p).owners,
         \A i \in 1..Len(todo'[p]) : todo'[p][i] \in AllRecords
  PROVE  WholeInv'
  <1>1. Open(p)' = {}
    BY DEF Open
  <1>2. txn'[p] = "writing" => WholeDb(view'[p], {})
    BY SeesWhole DEF WholeInv, WholeOf, WholeDb
  <1>3. WholeOf(p)'
    BY <1>1, <1>2 DEF WholeOf
  <1>4. WholeDb(disk', {})
    BY DEF WholeInv
  <1> QED
    BY <1>3, <1>4, WholeOthersKeep

LEMMA WholeCommits ==
  ASSUME StoreInv, WholeInv, NEW p \in Procs, Aside(p), OwnStep(p), Commit(p),
         pc[p] \notin {"find", "insert", "update"}, pc'[p] \in {"idle", "seed"},
         todo'[p] = todo[p]
  PROVE  WholeInv'
  <1>1. txn'[p] = "none" /\ disk' = (IF txn[p] = "writing" THEN view[p] ELSE disk)
    BY DEF Commit, EndTransaction, StoreInv, DbInv, DbTypes
  <1>2. Open(p) = {}
    BY DEF Open
  <1>3. WholeDb(disk', {})
    BY <1>1, <1>2 DEF WholeInv, WholeOf
  <1>4. WholeOf(p)'
    BY <1>1 DEF WholeInv, WholeOf
  <1> QED
    BY <1>3, <1>4, WholeOthersKeep

(* The records still to save are records of the files.                     *)
LEMMA TailOfRecords ==
  ASSUME NEW seq \in Seq(Record), seq # <<>>,
         \A i \in 1..Len(seq) : seq[i] \in AllRecords
  PROVE  /\ Head(seq) \in AllRecords /\ Head(seq) \in Record
         /\ \A i \in 1..Len(Tail(seq)) : Tail(seq)[i] \in AllRecords
  <1>1. /\ Len(seq) \in Nat /\ Len(seq) >= 1 /\ Head(seq) = seq[1] /\ Head(seq) \in Record
        /\ Len(Tail(seq)) = Len(seq) - 1
        /\ \A i \in 1..Len(Tail(seq)) : Tail(seq)[i] = seq[i + 1]
    BY HeadTailProperties
  <1>2. \A i \in 1..Len(Tail(seq)) : i + 1 \in 1..Len(seq)
    BY <1>1
  <1> QED
    BY <1>1, <1>2

LEMMA WholeUpsert ==
  ASSUME StoreInv, WholeInv, NEW p \in Procs, Aside(p), OwnStep(p), UpsertProperty(p)
  PROVE  WholeInv'
  <1> DEFINE r == Head(todo[p])
             db == AddProperty(Sees(p), r)
  <1>0. pc[p] = "property" /\ todo[p] # <<>> /\ Open(p) = {}
    BY DEF UpsertProperty, Open
  <1>1. /\ r \in AllRecords /\ r \in Record
        /\ \A i \in 1..Len(todo[p]) : todo[p][i] \in AllRecords
        /\ \A i \in 1..Len(Tail(todo[p])) : Tail(todo[p])[i] \in AllRecords
    BY <1>0, TailOfRecords DEF StoreInv, RequestTypes, WholeInv, WholeOf
  <1>2. CASE ~r.bad /\ Write(p, db)
    <2>1. /\ Sees(p) \in Database /\ OneRow(Sees(p)) /\ WholeDb(Sees(p), {})
      BY <1>0, <1>2, WriterSees, SeesWhole DEF Write, StoreInv
    <2>2. db.props = Sees(p).props \cup {r.apn} /\ db.owners = Sees(p).owners
      BY <1>1, <2>1, AddPropertyType
    <2> HIDE DEF db
    <2>3. disk' = disk /\ view'[p] = db
      BY <1>2 DEF Write, StoreInv, DbInv, DbTypes
    <2>4. WholeDb(db, {r.apn})
      BY <2>1, <2>2 DEF WholeDb
    <2>5. CASE r.owner = None /\ NextRecord(p) /\ UNCHANGED pc
      <3>1. todo'[p] = Tail(todo[p]) /\ pc'[p] = "property"
        BY <1>0, <2>5 DEF NextRecord, StoreInv, RequestTypes
      <3>2. Open(p)' = {}
        BY <3>1 DEF Open
      <3>3. r \in RecordsOf(r.apn)
        BY <1>1 DEF RecordsOf, AllRecords
      <3>4. WholeDb(db, {})
        BY <2>4, <2>5, <3>3 DEF WholeDb
      <3>5. WholeOf(p)'
        BY <1>1, <2>3, <3>1, <3>2, <3>4 DEF WholeOf
      <3> QED
        BY <2>3, <3>5, WholeOthersKeep DEF WholeInv
    <2>6. CASE r.owner # None /\ Goto(p, "find") /\ UNCHANGED request
      <3>1. todo' = todo /\ pc'[p] = "find"
        BY <2>6 DEF Goto, request, StoreInv, RequestTypes
      <3>2. Open(p)' = {r.apn}
        BY <3>1 DEF Open
      <3>3. WholeOf(p)'
        BY <1>1, <2>3, <2>4, <3>1, <3>2 DEF WholeOf
      <3> QED
        BY <2>3, <3>3, WholeOthersKeep DEF WholeInv
    <2> QED
      BY <1>2, <2>5, <2>6 DEF UpsertProperty, Write, Busy
  <1>3. CASE Raise(p) /\ Fail(p)
    <2>1. /\ pc'[p] = "idle" /\ todo'[p] = <<>> /\ disk' = disk /\ view' = view
          /\ txn'[p] = "writing" => txn[p] = "writing"
      BY <1>3 DEF Raise, Fail, Goto, StoreInv, DbInv, DbTypes, RequestTypes
    <2> QED
      BY <1>0, <2>1, SameRowsKeep
  <1> QED
    BY <1>2, <1>3 DEF UpsertProperty, Busy

LEMMA WholeFind ==
  ASSUME StoreInv, WholeInv, NEW p \in Procs, Aside(p), OwnStep(p), FindOwner(p)
  PROVE  WholeInv'
  <1> DEFINE row == <<Head(todo[p]).apn, Head(todo[p]).owner>>
  <1>1. pc[p] = "find" /\ todo' = todo /\ disk' = disk
    BY DEF FindOwner, Read, request
  <1>2. txn[p] = "writing" /\ Sees(p) = view[p]
    BY <1>1 DEF StoreInv, AllLocal, LocalInv, Writing, Sees
  <1>3. txn'[p] = txn[p] /\ view'[p] = view[p]
    BY <1>2 DEF FindOwner, Read, StoreInv, DbInv, DbTypes
  <1>4. pc'[p] \in {"insert", "update"} /\ (pc'[p] = "update" => view[p].owners[row] > 0)
    BY <1>2 DEF FindOwner, Goto, StoreInv, RequestTypes
  <1>5. Open(p)' = Open(p)
    BY <1>1, <1>4 DEF Open
  <1>6. WholeOf(p)'
    BY <1>1, <1>3, <1>4, <1>5 DEF WholeInv, WholeOf
  <1> QED
    BY <1>1, <1>6, WholeOthersKeep DEF WholeInv

(* With its owner the record is whole.                                     *)
LEMMA WholeSave ==
  ASSUME StoreInv, WholeInv, NEW p \in Procs, Aside(p), OwnStep(p), SaveOwner(p)
  PROVE  WholeInv'
  <1> DEFINE r == Head(todo[p])
  <1>0. /\ pc[p] \in {"insert", "update"} /\ ~Refused(p)
        /\ NextRecord(p) /\ Goto(p, "property")
    BY DEF SaveOwner, Write
  <1>1. txn[p] = "writing" /\ SavingInv(p) /\ Sees(p) = view[p] /\ Open(p) = {r.apn}
    BY <1>0 DEF StoreInv, AllLocal, LocalInv, Writing, Sees, Open
  <1>2. /\ r \in AllRecords /\ r \in Record /\ r.owner # None
        /\ \A i \in 1..Len(Tail(todo[p])) : Tail(todo[p])[i] \in AllRecords
    BY <1>1, TailOfRecords DEF SavingInv, StoreInv, RequestTypes, WholeInv, WholeOf
  <1>3. r \in RecordsOf(r.apn) /\ <<r.apn, r.owner>> \in Rows
    BY <1>2 DEF RecordsOf, AllRecords, Record, Rows
  <1>4. Sees(p) \in Database /\ WholeDb(Sees(p), {r.apn}) /\ r.apn \in Sees(p).props
    BY <1>0, <1>1, WriterSees, SeesWhole DEF StoreInv, SavingInv
  <1>5. disk' = disk /\ pc'[p] = "property" /\ todo'[p] = Tail(todo[p])
    BY <1>0 DEF SaveOwner, Write, NextRecord, Goto, StoreInv, RequestTypes
  <1>6. WholeDb(view'[p], {})
    <2>1. CASE pc[p] = "insert" /\ Write(p, AddOwner(Sees(p), r))
      <3>1. view'[p] = AddOwner(Sees(p), r)
        BY <2>1 DEF Write, StoreInv, DbInv, DbTypes
      <3>2. Sees(p).owners[<<r.apn, r.owner>>] = 0
        BY <1>1, <2>1 DEF SavingInv
      <3>3. /\ view'[p].props = Sees(p).props
            /\ view'[p].owners = [Sees(p).owners EXCEPT ![<<r.apn, r.owner>>] = 1]
            /\ Sees(p).owners \in [Rows -> Nat]
        BY <1>3, <1>4, <3>1, <3>2 DEF AddOwner, Database
      <3>4. /\ view'[p].owners[<<r.apn, r.owner>>] = 1
            /\ \A o \in Rows : o # <<r.apn, r.owner>> => view'[p].owners[o] = Sees(p).owners[o]
        BY <1>3, <3>3
      <3>5. ASSUME NEW a \in view'[p].props
            PROVE  \E s \in RecordsOf(a) : s.owner = None \/ view'[p].owners[<<a, s.owner>>] > 0
        <4>1. CASE a = r.apn
          <5>1. r \in RecordsOf(a) /\ view'[p].owners[<<a, r.owner>>] > 0
            BY <1>3, <3>4, <4>1
          <5> QED
            BY <5>1
        <4>2. CASE a # r.apn
          <5>1. PICK s \in RecordsOf(a) : s.owner = None \/ Sees(p).owners[<<a, s.owner>>] > 0
            BY <1>4, <3>3, <4>2 DEF WholeDb
          <5>2. s \in Record /\ a \in Apns
            BY <1>4, <3>3, FilesAssumption DEF RecordsOf, Database
          <5>3. s.owner # None => <<a, s.owner>> \in Rows /\ <<a, s.owner>> # <<r.apn, r.owner>>
            BY <4>2, <5>2 DEF Record, Rows
          <5> QED
            BY <3>4, <5>1, <5>3
        <4> QED
          BY <4>1, <4>2
      <3>6. ASSUME NEW o \in Rows, view'[p].owners[o] > 0
            PROVE  o[1] \in view'[p].props
        <4>1. CASE o = <<r.apn, r.owner>>
          BY <1>4, <3>3, <4>1
        <4>2. CASE o # <<r.apn, r.owner>>
          BY <1>4, <3>3, <3>4, <3>6, <4>2 DEF WholeDb
        <4> QED
          BY <4>1, <4>2
      <3> QED
        BY <3>5, <3>6 DEF WholeDb
    <2>2. CASE pc[p] = "update" /\ Write(p, Sees(p))
      <3>1. view'[p] = Sees(p)
        BY <2>2 DEF Write, StoreInv, DbInv, DbTypes
      <3>2. Sees(p).owners[<<r.apn, r.owner>>] > 0
        BY <1>1, <2>2 DEF WholeInv, WholeOf
      <3> QED
        BY <1>3, <1>4, <3>1, <3>2 DEF WholeDb
    <2> QED
      BY <2>1, <2>2 DEF SaveOwner
  <1>7. Open(p)' = {}
    BY <1>5 DEF Open
  <1>8. WholeOf(p)'
    BY <1>2, <1>5, <1>6, <1>7 DEF WholeOf
  <1> QED
    BY <1>5, <1>8, WholeOthersKeep DEF WholeInv

(* The other steps write no parcel and no owner, or commit.                *)
LEMMA WholeRest ==
  ASSUME StoreInv, WholeInv, NEW p \in Procs, Aside(p), OwnStep(p),
         Start(p) \/ Crash(p) \/ Request(p) \/ Handle(p),
         ~UpsertProperty(p), ~FindOwner(p), ~SaveOwner(p)
  PROVE  WholeInv'
  <1> USE DEF StoreInv, RequestTypes, DbInv, DbTypes
  <1>0. \A i \in 1..Len(todo[p]) : todo[p][i] \in AllRecords
    BY DEF WholeInv, WholeOf
  <1>1. CASE CommitImport(p)
    BY <1>1, WholeCommits DEF CommitImport, Goto
  <1>2. CASE CommitAdd(p) \/ CommitRemove(p) \/ CommitSeed(p) \/ ApplySchema(p)
    <2>1. /\ Commit(p) /\ pc[p] \notin {"find", "insert", "update"}
          /\ pc'[p] \in {"idle", "seed"} /\ todo' = todo
      BY <1>2 DEF CommitAdd, CommitRemove, CommitSeed, ApplySchema, Goto, request
    <2> QED
      BY <2>1, WholeCommits
  <1>3. CASE Crash(p)
    <2>1. /\ disk' = disk /\ txn'[p] = "none" /\ pc'[p] = "down" /\ todo'[p] = <<>>
      BY <1>3 DEF Crash, EndTransaction, Goto
    <2>2. WholeOf(p)'
      BY <2>1 DEF WholeOf
    <2> QED
      BY <2>1, <2>2, WholeOthersKeep DEF WholeInv
  <1>4. CASE Import(p)
    <2>1. PICK f \in Files : todo' = [todo EXCEPT ![p] = f]
      BY <1>4 DEF Import
    <2>2. f \in Seq(Record) /\ \A i \in 1..Len(f) : f[i] \in AllRecords
      BY FilesAssumption DEF AllRecords
    <2>3. /\ disk' = disk /\ txn' = txn /\ view' = view /\ pc[p] = "idle"
          /\ pc'[p] = "property" /\ todo'[p] = f
      BY <1>4, <2>1 DEF Import, Goto, database
    <2> QED
      BY <2>2, <2>3, SameRowsKeep DEF Open
  <1>5. CASE Start(p) \/ RequestAdd(p) \/ RequestRemove(p)
    <2>1. /\ disk' = disk /\ txn' = txn /\ view' = view /\ todo' = todo
          /\ pc[p] \in {"down", "idle"} /\ pc'[p] \in {"idle", "add", "remove"}
      BY <1>5 DEF Start, RequestAdd, RequestRemove, Goto, database, request
    <2> QED
      BY <1>0, <2>1, SameRowsKeep DEF Open
  <1>6. CASE CheckNumber(p) \/ ReadLeads(p)
    <2>1. /\ Read(p) /\ pc[p] = "idle" /\ pc' = pc /\ todo' = todo
      BY <1>6 DEF CheckNumber, ReadLeads, request
    <2>2. /\ disk' = disk
          /\ txn'[p] = "writing" => txn[p] = "writing" /\ view'[p] = view[p]
      BY <2>1 DEF Read
    <2> QED
      BY <1>0, <2>1, <2>2, SameRowsKeep DEF Open
  <1>7. CASE WriteNumber(p) \/ Seed(p)
    <2>1. /\ pc[p] \in {"add", "remove", "seed"} /\ todo' = todo
          /\ pc'[p] \in {"idle", "commit_add", "commit_remove", "commit_seed"}
      BY <1>7 DEF WriteNumber, Seed, Goto, request
    <2>2. CASE \E db \in {[Sees(p) EXCEPT !.dnc = @ \cup {phone[p]}],
                          [Sees(p) EXCEPT !.dnc = @ \ {phone[p]}], Sees(p)} : Write(p, db)
      <3>1. PICK db \in {[Sees(p) EXCEPT !.dnc = @ \cup {phone[p]}],
                         [Sees(p) EXCEPT !.dnc = @ \ {phone[p]}], Sees(p)} : Write(p, db)
        BY <2>2
      <3>2. ~Refused(p) /\ disk' = disk /\ view'[p] = db
        BY <3>1 DEF Write
      <3>3. Sees(p) \in Database
        BY <3>2, WriterSees
      <3>4. db.props = Sees(p).props /\ db.owners = Sees(p).owners
        BY <3>1, <3>3 DEF Database
      <3> QED
        BY <1>0, <2>1, <3>2, <3>4, SameRowsKeep DEF Open
    <2>3. CASE Raise(p) \/ UNCHANGED database
      <3>1. /\ disk' = disk /\ view' = view
            /\ txn'[p] = "writing" => txn[p] = "writing"
        BY <2>3 DEF Raise, database
      <3> QED
        BY <1>0, <2>1, <3>1, SameRowsKeep DEF Open
    <2> QED
      BY <1>7, <2>2, <2>3 DEF WriteNumber, Seed, Busy
  <1> QED
    BY <1>1, <1>2, <1>3, <1>4, <1>5, <1>6, <1>7 DEF Request, Handle

LEMMA WholeStep == StoreInv /\ WholeInv /\ [Next]_vars => WholeInv'
  <1> SUFFICES ASSUME StoreInv, WholeInv, [Next]_vars PROVE WholeInv'
    OBVIOUS
  <1>1. ASSUME NEW p \in Procs, Start(p) \/ Crash(p) \/ Request(p) \/ Handle(p)
        PROVE  WholeInv'
    BY <1>1, StepIsOwn, WholeUpsert, WholeFind, WholeSave, WholeRest
  <1>2. CASE UNCHANGED vars
    <2>1. \A p \in Procs : Open(p)' = Open(p)
      BY <1>2 DEF vars, Open, request
    <2> QED
      BY <1>2, <2>1 DEF vars, database, request, WholeInv, WholeOf, WholeDb
  <1> QED
    BY <1>1, <1>2 DEF Next

LEMMA InitWhole == Init => WholeInv
  BY DEF Init, Empty, WholeInv, WholeOf, WholeDb, Open

(* discovery.py, save_to_database.  What reaches the file is whole         *)
(* records, though nothing rolls a failed import back and its rows are     *)
(* committed with whatever is committed next.                              *)
THEOREM RecordsAreWhole == Spec => []WholeRecords
  <1>1. WholeInv => WholeRecords
    BY DEF WholeInv, WholeDb, WholeRecords
  <1> QED
    BY <1>1, InitStore, StoreStep, InitWhole, WholeStep, PTL DEF Spec

-----------------------------------------------------------------------------
(* The serial store.  A process that takes the lock sees the file, so its  *)
(* draft starts from what the last one has committed.                      *)

Draft == IF Writers = {} THEN disk ELSE view[CHOOSE p \in Procs : txn[p] = "writing"]

VersionOf(p) == IF txn[p] = "reading" THEN {view[p]} ELSE {}

Versions == [p \in Procs |-> VersionOf(p)]

LEMMA DraftOfWriter ==
  ASSUME OneWriter, NEW p \in Procs, txn[p] = "writing"
  PROVE  Writers = {p} /\ Draft = view[p]
  BY DEF OneWriter, Writers, Draft

LEMMA DraftOfNextWriter ==
  ASSUME OneWriter', NEW p \in Procs, txn'[p] = "writing"
  PROVE  Writers' = {p} /\ Draft' = view'[p]
  BY DEF OneWriter, Writers, Draft

LEMMA DraftOfNone ==
  /\ (\A p \in Procs : txn[p] # "writing") => Writers = {} /\ Draft = disk
  /\ (\A p \in Procs : txn'[p] # "writing") => Writers' = {} /\ Draft' = disk'
  BY DEF Writers, Draft

LEMMA VersionsAside ==
  ASSUME NEW p \in Procs, Aside(p)
  PROVE  Versions' = [Versions EXCEPT ![p] = VersionOf(p)']
  BY DEF Aside, Versions, VersionOf

(* The draft and the writer stay when the lock does.                       *)
LEMMA DraftStays ==
  ASSUME OneWriter, OneWriter', disk' = disk,
         \A p \in Procs : txn'[p] = "writing" <=> txn[p] = "writing",
         \A p \in Procs : txn[p] = "writing" => view'[p] = view[p]
  PROVE  Writers' = Writers /\ Draft' = Draft
  <1>1. CASE \E p \in Procs : txn[p] = "writing"
    <2>1. PICK p \in Procs : txn[p] = "writing"
      BY <1>1
    <2> QED
      BY <2>1, DraftOfWriter, DraftOfNextWriter
  <1>2. CASE \A p \in Procs : txn[p] # "writing"
    BY <1>2, DraftOfNone
  <1> QED
    BY <1>1, <1>2

SerialVars == <<disk, Draft, Writers, Versions, reply>>

(* A statement that writes.                                                *)
LEMMA WriteChanges ==
  ASSUME DbInv, DbInv', NEW p \in Procs, NEW db, Write(p, db), db \in Serial!Changes(Sees(p)),
         Aside(p), reply' = reply
  PROVE  Serial!Change(p)
  <1>1. ~Refused(p) /\ disk' = disk /\ txn'[p] = "writing" /\ view'[p] = db
    BY DEF Write, DbInv, DbTypes
  <1>2. Writers \subseteq {p}
    BY <1>1 DEF Refused, Locked, Writers
  <1>3. Versions[p] \subseteq {disk}
    BY <1>1 DEF Versions, VersionOf, Refused, DbInv, Overtakes, DbTypes
  <1>4. Writers' = {p} /\ Draft' = db
    BY <1>1, DraftOfNextWriter DEF DbInv
  <1>5. Draft = Sees(p)
    <2>1. CASE txn[p] = "writing"
      BY <2>1, DraftOfWriter DEF DbInv, Sees
    <2>2. CASE txn[p] # "writing"
      <3>1. Draft = disk
        BY <2>2, <1>2, DraftOfNone DEF Writers
      <3> QED
        BY <1>1, <2>2, <3>1, WriterSees
    <2> QED
      BY <2>1, <2>2
  <1>6. Versions' = [Versions EXCEPT ![p] = {}]
    BY <1>1, VersionsAside DEF VersionOf
  <1> QED
    BY <1>1, <1>2, <1>3, <1>4, <1>5, <1>6
    DEF Serial!Change, Draft, Versions, VersionOf

(* Whatever leaves the snapshots that are pinned, and the lock, is not     *)
(* seen by the others.                                                     *)
LEMMA RaiseStutters ==
  ASSUME DbInv, DbInv', NEW p \in Procs, Raise(p) \/ UNCHANGED database, reply' = reply
  PROVE  UNCHANGED SerialVars
  <1>1. /\ disk' = disk /\ view' = view
        /\ \A q \in Procs : txn'[q] = txn[q] \/ (txn[q] = "none" /\ txn'[q] = "begun")
    BY DEF Raise, database, DbInv, DbTypes
  <1>2. Writers' = Writers /\ Draft' = Draft
    BY <1>1, DraftStays DEF DbInv
  <1>3. Versions' = Versions
    BY <1>1 DEF Versions, VersionOf
  <1> QED
    BY <1>1, <1>2, <1>3 DEF SerialVars

(* A SELECT keeps the lock, and pins what it finds in the file.            *)
LEMMA ReadPins ==
  ASSUME DbInv, DbInv', NEW p \in Procs, Read(p), Aside(p)
  PROVE  /\ disk' = disk /\ Writers' = Writers /\ Draft' = Draft
         /\ \/ Versions' = Versions
            \/ /\ p \notin Writers /\ Versions[p] = {}
               /\ Versions' = [Versions EXCEPT ![p] = {disk}]
  <1>1. /\ disk' = disk
        /\ txn'[p] = (IF txn[p] = "begun" THEN "reading" ELSE txn[p])
        /\ view'[p] = (IF txn[p] = "begun" THEN disk ELSE view[p])
        /\ \A q \in Procs \ {p} : txn'[q] = txn[q] /\ view'[q] = view[q]
    BY DEF Read, DbInv, DbTypes
  <1>2. Writers' = Writers /\ Draft' = Draft
    BY <1>1, DraftStays DEF DbInv
  <1>3. CASE txn[p] = "begun"
    <2>1. p \notin Writers /\ Versions[p] = {} /\ VersionOf(p)' = {disk}
      BY <1>1, <1>3 DEF Writers, Versions, VersionOf
    <2> QED
      BY <1>1, <1>2, <2>1, VersionsAside
  <1>4. CASE txn[p] # "begun"
    <2>1. Versions' = Versions
      BY <1>1, <1>4 DEF Versions, VersionOf
    <2> QED
      BY <1>1, <1>2, <2>1
  <1> QED
    BY <1>3, <1>4

LEMMA ReadKeepsVersion ==
  ASSUME DbInv, DbInv', NEW p \in Procs, Read(p), Aside(p), reply' = reply
  PROVE  Serial!Keep(p) \/ UNCHANGED SerialVars
  BY ReadPins DEF Serial!Keep, Serial!Pin, SerialVars, Draft, Versions, VersionOf

LEMMA CheckLooksUp ==
  ASSUME DbInv, DbInv', RequestTypes, NEW p \in Procs, CheckNumber(p), Aside(p)
  PROVE  Serial!LookUp(p)
  <1>1. PICK n \in Phones :
          reply' = [reply EXCEPT ![p] = IF n \in Sees(p).dnc THEN "listed" ELSE "clear"]
    BY DEF CheckNumber
  <1>2. Read(p)
    BY DEF CheckNumber
  <1>3. Sees(p) \in (IF p \in Writers THEN {Draft}
                     ELSE IF Versions[p] # {} THEN Versions[p] ELSE {disk})
    <2>1. CASE txn[p] = "writing"
      BY <2>1, DraftOfWriter DEF DbInv, Sees
    <2>2. CASE txn[p] = "reading"
      BY <2>2 DEF Writers, Versions, VersionOf, Sees
    <2>3. CASE txn[p] \in {"none", "begun"}
      BY <2>3 DEF Writers, Versions, VersionOf, Sees
    <2> QED
      BY <2>1, <2>2, <2>3 DEF DbInv, DbTypes
  <1>4. Sees(p) \in Serial!Seen(p)
    BY <1>3 DEF Serial!Seen, Draft, Versions, VersionOf
  <1> QED
    BY <1>1, <1>2, <1>4, ReadPins
    DEF Serial!LookUp, Serial!Pin, Draft, Versions, VersionOf

(* A commit publishes the draft, or ends a reading, or had nothing to do.  *)
LEMMA CommitPublishes ==
  ASSUME DbInv, DbInv', NEW p \in Procs, Commit(p), Aside(p), reply' = reply
  PROVE  Serial!Publish(p) \/ Serial!Leave(p) \/ UNCHANGED SerialVars
  <1>1. txn'[p] = "none" /\ disk' = (IF txn[p] = "writing" THEN view[p] ELSE disk)
    BY DEF Commit, EndTransaction, DbInv, DbTypes
  <1>2. Versions' = [Versions EXCEPT ![p] = {}]
    BY <1>1, VersionsAside DEF VersionOf
  <1>3. CASE txn[p] = "writing"
    <2>1. Writers = {p} /\ Draft = view[p]
      BY <1>3, DraftOfWriter DEF DbInv
    <2>2. \A q \in Procs : txn'[q] # "writing"
      BY <1>1, <2>1 DEF Aside, Writers
    <2>3. Writers' = {} /\ Draft' = disk'
      BY <2>2, DraftOfNone
    <2>4. Versions' = Versions
      BY <1>2, <1>3 DEF Versions, VersionOf
    <2> QED
      BY <1>1, <1>3, <2>1, <2>3, <2>4 DEF Serial!Publish, Draft, Versions, VersionOf
  <1>4. CASE txn[p] # "writing"
    <2>1. Writers' = Writers /\ Draft' = Draft
      BY <1>1, <1>4, DraftStays DEF Aside, DbInv
    <2>2. p \notin Writers
      BY <1>4 DEF Writers
    <2> QED
      BY <1>1, <1>2, <1>4, <2>1, <2>2 DEF Serial!Leave, Draft, Versions, VersionOf
  <1> QED
    BY <1>3, <1>4

(* The end of a process drops its draft or its version.                    *)
LEMMA CrashLeaves ==
  ASSUME DbInv, DbInv', NEW p \in Procs, Crash(p), Aside(p)
  PROVE  Serial!Leave(p)
  <1>1. txn'[p] = "none" /\ disk' = disk /\ reply' = reply
    BY DEF Crash, EndTransaction, DbInv, DbTypes
  <1>2. Versions' = [Versions EXCEPT ![p] = {}]
    BY <1>1, VersionsAside DEF VersionOf
  <1>3. Writers' = Writers \ {p}
    BY <1>1 DEF Aside, Writers
  <1>4. Draft' = (IF p \in Writers THEN disk ELSE Draft)
    <2>1. CASE txn[p] = "writing"
      <3>1. Writers = {p}
        BY <2>1, DraftOfWriter DEF DbInv
      <3>2. \A q \in Procs : txn'[q] # "writing"
        BY <1>1, <3>1 DEF Aside, Writers
      <3> QED
        BY <1>1, <3>1, <3>2, DraftOfNone
    <2>2. CASE txn[p] # "writing"
      <3>1. Draft' = Draft
        BY <1>1, <2>2, DraftStays DEF Aside, DbInv
      <3> QED
        BY <2>2, <3>1 DEF Writers
    <2> QED
      BY <2>1, <2>2
  <1> QED
    BY <1>1, <1>2, <1>3, <1>4 DEF Serial!Leave, Draft, Versions, VersionOf

(* What each statement changes is one row.                                 *)
LEMMA SameIsChange == \A db : db \in Serial!Changes(db)
  BY DEF Serial!Changes

LEMMA UpsertIsChange ==
  ASSUME StoreInv, NEW p \in Procs, UpsertProperty(p)
  PROVE  AddProperty(Sees(p), Head(todo[p])) \in Serial!Changes(Sees(p))
  <1>1. Head(todo[p]) \in Record
    BY HeadTailProperties DEF UpsertProperty, StoreInv, RequestTypes
  <1>2. Head(todo[p]).apn \in Apns
    BY <1>1 DEF Record
  <1> QED
    BY <1>2 DEF AddProperty, Serial!Changes

LEMMA OwnerIsChange ==
  ASSUME StoreInv, NEW p \in Procs, SaveOwner(p), pc[p] = "insert"
  PROVE  AddOwner(Sees(p), Head(todo[p])) \in Serial!Changes(Sees(p))
  <1> DEFINE row == <<Head(todo[p]).apn, Head(todo[p]).owner>>
  <1>1. txn[p] = "writing" /\ Sees(p) = view[p] /\ SavingInv(p)
    BY DEF StoreInv, AllLocal, LocalInv, Writing, Sees
  <1>2. Head(todo[p]) \in Record
    BY <1>1, HeadTailProperties DEF SavingInv, StoreInv, RequestTypes
  <1>3. row \in Apns \X Owners /\ row[1] \in Sees(p).props /\ Sees(p).owners[row] = 0
    BY <1>1, <1>2 DEF SavingInv, Record
  <1>4. AddOwner(Sees(p), Head(todo[p])) = [Sees(p) EXCEPT !.owners[row] = 1]
    BY <1>1, <1>3 DEF AddOwner, StoreInv, DbInv, DbTypes, Database
  <1> HIDE DEF row
  <1> QED
    BY <1>3, <1>4 DEF Serial!Changes, Serial!Rows

LEMMA WritesAreChanges ==
  ASSUME StoreInv, DbInv', NEW p \in Procs, Aside(p),
         UpsertProperty(p) \/ SaveOwner(p) \/ WriteNumber(p) \/ Seed(p)
  PROVE  Serial!Change(p) \/ UNCHANGED SerialVars
  <1>0. DbInv
    BY DEF StoreInv
  <1>1. CASE UpsertProperty(p)
    <2>1. Write(p, AddProperty(Sees(p), Head(todo[p]))) \/ Raise(p)
      BY <1>1 DEF UpsertProperty, Busy
    <2>2. reply' = reply
      BY <1>1 DEF UpsertProperty
    <2> QED
      BY <1>0, <1>1, <2>1, <2>2, UpsertIsChange, WriteChanges, RaiseStutters
  <1>2. CASE SaveOwner(p)
    <2>1. \/ pc[p] = "insert" /\ Write(p, AddOwner(Sees(p), Head(todo[p])))
          \/ Write(p, Sees(p))
      BY <1>2 DEF SaveOwner
    <2>2. reply' = reply
      BY <1>2 DEF SaveOwner
    <2> QED
      BY <1>0, <1>2, <2>1, <2>2, OwnerIsChange, SameIsChange, WriteChanges
  <1>3. CASE WriteNumber(p)
    <2> DEFINE added   == [Sees(p) EXCEPT !.dnc = @ \cup {phone[p]}]
               removed == [Sees(p) EXCEPT !.dnc = @ \ {phone[p]}]
    <2>1. Write(p, added) \/ Write(p, removed) \/ Raise(p)
      BY <1>3 DEF WriteNumber, Busy
    <2>2. reply' = reply
      BY <1>3 DEF WriteNumber
    <2>3. phone[p] \in Phones
      BY DEF StoreInv, RequestTypes
    <2>4. added \in Serial!Changes(Sees(p)) /\ removed \in Serial!Changes(Sees(p))
      BY <2>3 DEF Serial!Changes
    <2> HIDE DEF added, removed
    <2> QED
      BY <1>0, <2>1, <2>2, <2>4, WriteChanges, RaiseStutters
  <1>4. CASE Seed(p)
    <2>1. Write(p, Sees(p)) \/ Raise(p) \/ UNCHANGED database
      BY <1>4 DEF Seed, Busy
    <2>2. reply' = reply
      BY <1>4 DEF Seed
    <2> QED
      BY <1>0, <2>1, <2>2, SameIsChange, WriteChanges, RaiseStutters
  <1> QED
    BY <1>1, <1>2, <1>3, <1>4

LEMMA SerialStep == StoreInv /\ [Next]_vars => [Serial!Next]_(Serial!vars)
  <1> SUFFICES ASSUME StoreInv, [Next]_vars
               PROVE  Serial!Next \/ UNCHANGED SerialVars
    BY DEF Serial!vars, SerialVars, Draft, Versions, VersionOf
  <1>0. StoreInv' /\ DbInv /\ DbInv'
    BY StoreStep DEF StoreInv
  <1>1. CASE UNCHANGED vars
    BY <1>0, <1>1 DEF vars, database, SerialVars, Writers, Draft, Versions, VersionOf
  <1>2. ASSUME NEW p \in Procs, Start(p) \/ Crash(p) \/ Request(p) \/ Handle(p)
        PROVE  \/ Serial!Change(p) \/ Serial!Publish(p) \/ Serial!Leave(p)
               \/ Serial!Keep(p) \/ Serial!LookUp(p)
               \/ UNCHANGED SerialVars
    <2>0. Aside(p)
      BY <1>2, StepIsOwn DEF StoreInv
    <2>1. CASE Start(p) \/ Import(p) \/ RequestAdd(p) \/ RequestRemove(p)
      <3>1. UNCHANGED database /\ reply' = reply
        BY <2>1 DEF Start, Import, RequestAdd, RequestRemove
      <3> QED
        BY <1>0, <3>1, RaiseStutters
    <2>2. CASE Crash(p)
      BY <1>0, <2>0, <2>2, CrashLeaves
    <2>3. CASE CheckNumber(p)
      BY <1>0, <2>0, <2>3, CheckLooksUp DEF StoreInv
    <2>4. CASE ReadLeads(p) \/ FindOwner(p)
      <3>1. Read(p) /\ reply' = reply
        BY <2>4 DEF ReadLeads, FindOwner
      <3> QED
        BY <1>0, <2>0, <3>1, ReadKeepsVersion
    <2>5. CASE ApplySchema(p) \/ CommitImport(p) \/ CommitAdd(p) \/ CommitRemove(p) \/ CommitSeed(p)
      <3>1. Commit(p) /\ reply' = reply
        BY <2>5 DEF ApplySchema, CommitImport, CommitAdd, CommitRemove, CommitSeed
      <3> QED
        BY <1>0, <2>0, <3>1, CommitPublishes
    <2>6. CASE UpsertProperty(p) \/ SaveOwner(p) \/ WriteNumber(p) \/ Seed(p)
      BY <1>0, <2>0, <2>6, WritesAreChanges
    <2> QED
      BY <1>2, <2>1, <2>2, <2>3, <2>4, <2>5, <2>6 DEF Request, Handle
  <1>3. CASE Next
    BY <1>2, <1>3 DEF Next, Serial!Next
  <1> QED
    BY <1>1, <1>3

LEMMA InitSerial == Init => Serial!Init
  <1> SUFFICES ASSUME Init PROVE Serial!Init
    OBVIOUS
  <1>1. \A p \in Procs : txn[p] = "none"
    BY DEF Init
  <1>2. Writers = {} /\ Draft = disk
    BY <1>1, DraftOfNone
  <1>3. Versions = [p \in Procs |-> {}]
    BY <1>1 DEF Versions, VersionOf
  <1>4. disk = Serial!Nothing /\ reply = [p \in Procs |-> "none"]
    BY DEF Init, Empty, Rows, Serial!Nothing, Serial!Rows
  <1> QED
    BY <1>2, <1>3, <1>4 DEF Serial!Init, Draft, Versions, VersionOf

(* The processes' statements, in whatever order they run, fail and crash,  *)
(* leave in the file what the drafts of one process after the other make   *)
(* of it: no update is lost, and no uncommitted row is read by another.    *)
THEOREM WritesAreSerial == Spec => ImplementsSerialStore
  <1>1. Spec => Serial!Init /\ [][Serial!Next]_(Serial!vars)
    BY InitStore, StoreStep, InitSerial, SerialStep, PTL DEF Spec
  <1> QED
    BY <1>1 DEF ImplementsSerialStore, Serial!Spec
=============================================================================
