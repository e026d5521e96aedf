----------------------------- MODULE LeadStore -----------------------------
(***************************************************************************)
(* The sidecars' use of the one SQLite file:                               *)
(*   src/main.py                   (_handle_command, main)                 *)
(*   src/agents/discovery.py       (save_to_database)                      *)
(*   src/compliance/dnc_checker.py (add, remove, check)                    *)
(*   src/db/connection.py, src/db/schema.py                                *)
(* A process handles one request at a time, but two processes may have the *)
(* file open: the container of docker-compose.yml beside the desktop app,  *)
(* or a sidecar that outlives its app beside the next one.  No handler     *)
(* rolls back: a request that fails leaves its transaction open.           *)
(***************************************************************************)
EXTENDS Naturals, Sequences, FiniteSets

CONSTANTS
  Procs,    \* the sidecar processes that share the file
  Apns,     \* parcel numbers
  Owners,   \* recorded owners
  Phones,   \* normalised phone numbers
  Files,    \* the CSV files, as the records parse_csv_import returns
  None      \* a record without an owner

(* The assessed value of a bad record overflows SQLite's INTEGER, and the  *)
(* statement that would store it raises.                                   *)
Record == [apn : Apns, owner : Owners \cup {None}, bad : BOOLEAN]

ASSUME FilesAssumption == Files \subseteq Seq(Record)
ASSUME NoneAssumption  == None \notin Owners

VARIABLES
  disk,    \* the committed database
  txn,     \* per process: "none", "begun" (no snapshot yet), "reading", "writing"
  view,    \* per process: the database its transaction sees
  stale,   \* per process: another has committed since its snapshot
  pc,      \* per process: where its handler is
  todo,    \* per process: the records of the import still to save
  phone,   \* per process: the phone of the request
  (* observed, read by no action *)
  done,    \* per process: the parcels its import has saved so far
  saved,   \* per process: the parcels of the imports it has confirmed
  listed,  \* the phones confirmed as added and not removed since
  reply    \* per process: what check_dnc last answered

database    == <<disk, txn, view, stale>>
request     == <<todo, phone, done>>
confirmed   == <<saved, listed>>
vars == <<database, pc, request, confirmed, reply>>

Rows  == Apns \X Owners
Empty == [props |-> {}, owners |-> [r \in Rows |-> 0], dnc |-> {}]

(* There is no UNIQUE on (apn, recorded_owner): owners counts the rows.    *)
Database == [props : SUBSET Apns, owners : [Rows -> Nat], dnc : SUBSET Phones]

Places == {"down", "idle", "property", "find", "insert", "update", "add",
           "commit_add", "remove", "commit_remove", "seed", "commit_seed"}

Init ==
  /\ disk = Empty
  /\ txn = [p \in Procs |-> "none"]
  /\ view = [p \in Procs |-> Empty]
  /\ stale = [p \in Procs |-> FALSE]
  /\ pc = [p \in Procs |-> "down"]
  /\ todo = [p \in Procs |-> <<>>]
  /\ phone \in [Procs -> Phones]
  /\ done = [p \in Procs |-> {}]
  /\ saved = [p \in Procs |-> {}]
  /\ listed = {}
  /\ reply = [p \in Procs |-> "none"]

-----------------------------------------------------------------------------
(* SQLite in WAL mode under Python's sqlite3, which opens a deferred       *)
(* transaction before the first INSERT, UPDATE or DELETE.                  *)

Sees(p) == IF txn[p] \in {"reading", "writing"} THEN view[p] ELSE disk

Locked(p) == \E q \in Procs \ {p} : txn[q] = "writing"
Refused(p) == Locked(p) \/ (txn[p] = "reading" /\ stale[p])

(* A statement that writes takes the lock and leaves the database as db.   *)
Write(p, db) ==
  /\ ~Refused(p)
  /\ txn' = [txn EXCEPT ![p] = "writing"]
  /\ view' = [view EXCEPT ![p] = db]
  /\ stale' = [stale EXCEPT ![p] = FALSE]
  /\ UNCHANGED disk

(* A statement that raises after the transaction was begun.                *)
Raise(p) ==
  /\ txn' = [txn EXCEPT ![p] = IF @ = "none" THEN "begun" ELSE @]
  /\ UNCHANGED <<disk, view, stale>>

(* "database is locked": after busy_timeout, or at once on a stale one.    *)
Busy(p) == Refused(p) /\ Raise(p)

(* A SELECT pins the snapshot of a transaction that has none.              *)
Read(p) ==
  /\ txn' = [txn EXCEPT ![p] = IF @ = "begun" THEN "reading" ELSE @]
  /\ view' = [view EXCEPT ![p] = IF txn[p] = "begun" THEN disk ELSE @]
  /\ UNCHANGED <<disk, stale>>

EndTransaction(p) ==
  /\ txn' = [txn EXCEPT ![p] = "none"]
  /\ view' = [view EXCEPT ![p] = Empty]

(* What has changed no page makes nobody stale; an UPDATE or a REPLACE     *)
(* that leaves the rows as they are has changed one.                       *)
Commit(p) ==
  /\ EndTransaction(p)
  /\ IF txn[p] = "writing"
     THEN /\ disk' = view[p]
          /\ \E moved \in BOOLEAN :
               /\ view[p] # disk => moved
               /\ stale' = [q \in Procs |->
                    q # p /\ (stale[q] \/ (moved /\ txn[q] = "reading"))]
     ELSE /\ stale' = [stale EXCEPT ![p] = FALSE]
          /\ UNCHANGED disk

Goto(p, to) == pc' = [pc EXCEPT ![p] = to]

-----------------------------------------------------------------------------
(* discovery.import_csv: save_to_database.                                 *)

Import(p) ==
  /\ pc[p] = "idle"
  /\ \E f \in Files : todo' = [todo EXCEPT ![p] = f]
  /\ Goto(p, "property")
  /\ UNCHANGED <<database, phone, done, confirmed, reply>>

AddProperty(db, r) == [db EXCEPT !.props = @ \cup {r.apn}]
AddOwner(db, r)    == [db EXCEPT !.owners[<<r.apn, r.owner>>] = @ + 1]

(* The handler gives up; the response is an error.                         *)
Fail(p) ==
  /\ Goto(p, "idle")
  /\ todo' = [todo EXCEPT ![p] = <<>>]
  /\ done' = [done EXCEPT ![p] = {}]
  /\ UNCHANGED phone

NextRecord(p) ==
  /\ todo' = [todo EXCEPT ![p] = Tail(@)]
  /\ done' = [done EXCEPT ![p] = @ \cup {Head(todo[p]).apn}]
  /\ UNCHANGED phone

(* Fault: the upsert is committed by itself, as in autocommit mode.        *)
UpsertAndCommit(p) ==
  /\ pc[p] = "property"
  /\ todo[p] # <<>>
  /\ ~Refused(p) /\ ~Head(todo[p]).bad
  /\ disk' = AddProperty(Sees(p), Head(todo[p]))
  /\ EndTransaction(p)
  /\ stale' = [q \in Procs |-> q # p /\ txn[q] = "reading"]
  /\ IF Head(todo[p]).owner = None
     THEN NextRecord(p) /\ UNCHANGED pc
     ELSE Goto(p, "find") /\ UNCHANGED request
  /\ UNCHANGED <<confirmed, reply>>

(* INSERT OR REPLACE INTO properties.                                      *)
UpsertProperty(p) ==
  /\ pc[p] = "property"
  /\ todo[p] # <<>>
  /\ LET r == Head(todo[p])
     IN  \/ /\ ~r.bad
            /\ Write(p, AddProperty(Sees(p), r))
            /\ IF r.owner = None
               THEN NextRecord(p) /\ UNCHANGED pc
               ELSE Goto(p, "find") /\ UNCHANGED request
         \/ /\ r.bad
            /\ Raise(p)
            /\ Fail(p)
         \/ /\ ~r.bad
            /\ Busy(p)
            /\ Fail(p)
  /\ UNCHANGED <<confirmed, reply>>

(* Fault: what is computed for the owner's row may raise.                  *)
FindOwnerRaises(p) ==
  /\ pc[p] = "find"
  /\ Read(p)
  /\ \/ Fail(p)
     \/ Goto(p, "insert") /\ UNCHANGED request
  /\ UNCHANGED <<confirmed, reply>>

(* SELECT id FROM ownership WHERE apn = ? AND recorded_owner = ?           *)
FindOwner(p) ==
  /\ pc[p] = "find"
  /\ Read(p)
  /\ LET r == Head(todo[p])
     IN  Goto(p, IF Sees(p).owners[<<r.apn, r.owner>>] > 0 THEN "update" ELSE "insert")
  /\ UNCHANGED <<request, confirmed, reply>>

(* The lock is already held, so neither statement finds it taken.          *)
SaveOwner(p) ==
  /\ \/ pc[p] = "insert" /\ Write(p, AddOwner(Sees(p), Head(todo[p])))
     \/ pc[p] = "update" /\ Write(p, Sees(p))
  /\ NextRecord(p)
  /\ Goto(p, "property")
  /\ UNCHANGED <<confirmed, reply>>

(* Fault: the import has a connection of its own, and the one that answers *)
(* the other requests keeps the snapshot it had.                           *)
CommitElsewhere(p) ==
  /\ pc[p] = "property"
  /\ todo[p] = <<>> /\ txn[p] = "writing"
  /\ disk' = view[p]
  /\ view' = [view EXCEPT ![p] = disk]
  /\ txn' = [txn EXCEPT ![p] = "reading"]
  /\ stale' = [q \in Procs |-> TRUE]
  /\ saved' = [saved EXCEPT ![p] = @ \cup done[p]]
  /\ done' = [done EXCEPT ![p] = {}]
  /\ Goto(p, "idle")
  /\ UNCHANGED <<todo, phone, listed, reply>>

CommitImport(p) ==
  /\ pc[p] = "property"
  /\ todo[p] = <<>>
  /\ Commit(p)
  /\ saved' = [saved EXCEPT ![p] = @ \cup done[p]]
  /\ done' = [done EXCEPT ![p] = {}]
  /\ Goto(p, "idle")
  /\ UNCHANGED <<todo, phone, listed, reply>>

-----------------------------------------------------------------------------
(* compliance.add_dnc, compliance.remove_dnc and compliance.dnc_check.     *)

RequestAdd(p) ==
  /\ pc[p] = "idle"
  /\ \E n \in Phones : phone' = [phone EXCEPT ![p] = n]
  /\ Goto(p, "add")
  /\ UNCHANGED <<database, todo, done, confirmed, reply>>

RequestRemove(p) ==
  /\ pc[p] = "idle"
  /\ \E n \in Phones : phone' = [phone EXCEPT ![p] = n]
  /\ Goto(p, "remove")
  /\ UNCHANGED <<database, todo, done, confirmed, reply>>

(* Fault: a statement that finds the lock taken is tried again for ever.   *)
RetryForever(p) ==
  /\ \/ /\ pc[p] = "add"
        /\ Write(p, [Sees(p) EXCEPT !.dnc = @ \cup {phone[p]}])
        /\ Goto(p, "commit_add")
     \/ /\ pc[p] = "remove"
        /\ Write(p, [Sees(p) EXCEPT !.dnc = @ \ {phone[p]}])
        /\ Goto(p, "commit_remove")
  /\ UNCHANGED <<request, confirmed, reply>>

(* add_dnc_number answers "added": false when it finds the lock taken; for *)
(* remove_dnc_number the response is an error.                             *)
WriteNumber(p) ==
  /\ \/ /\ pc[p] = "add"
        /\ Write(p, [Sees(p) EXCEPT !.dnc = @ \cup {phone[p]}])
        /\ Goto(p, "commit_add")
     \/ /\ pc[p] = "remove"
        /\ Write(p, [Sees(p) EXCEPT !.dnc = @ \ {phone[p]}])
        /\ Goto(p, "commit_remove")
     \/ /\ pc[p] \in {"add", "remove"}
        /\ Busy(p)
        /\ Goto(p, "idle")
  /\ UNCHANGED <<request, confirmed, reply>>

(* Fault: the answer is sent without the commit.                           *)
AddWithoutCommit(p) ==
  /\ pc[p] = "commit_add"
  /\ listed' = listed \cup {phone[p]}
  /\ Goto(p, "idle")
  /\ UNCHANGED <<database, request, saved, reply>>

CommitAdd(p) ==
  /\ pc[p] = "commit_add"
  /\ Commit(p)
  /\ listed' = listed \cup {phone[p]}
  /\ Goto(p, "idle")
  /\ UNCHANGED <<request, saved, reply>>

CommitRemove(p) ==
  /\ pc[p] = "commit_remove"
  /\ Commit(p)
  /\ listed' = listed \ {phone[p]}
  /\ Goto(p, "idle")
  /\ UNCHANGED <<request, saved, reply>>

(* system.health, settings.get and the exports: one SELECT.                *)
ReadLeads(p) ==
  /\ pc[p] = "idle"
  /\ Read(p)
  /\ UNCHANGED <<pc, request, confirmed, reply>>

CheckNumber(p) ==
  /\ pc[p] = "idle"
  /\ \E n \in Phones :
       /\ phone' = [phone EXCEPT ![p] = n]
       /\ reply' = [reply EXCEPT ![p] = IF n \in Sees(p).dnc THEN "listed" ELSE "clear"]
  /\ Read(p)
  /\ UNCHANGED <<pc, todo, done, confirmed>>

-----------------------------------------------------------------------------
(* schema.apply: executescript commits first, then each of its statements  *)
(* commits by itself; the seeds are one transaction.                       *)
ApplySchema(p) ==
  /\ pc[p] = "idle"
  /\ Commit(p)
  /\ Goto(p, "seed")
  /\ UNCHANGED <<request, confirmed, reply>>

Seed(p) ==
  /\ pc[p] = "seed"
  /\ \/ Write(p, Sees(p)) /\ Goto(p, "commit_seed")
     \/ Busy(p) /\ Goto(p, "idle")
     \/ Refused(p) /\ UNCHANGED database /\ Goto(p, "idle")
  /\ UNCHANGED <<request, confirmed, reply>>

CommitSeed(p) ==
  /\ pc[p] = "commit_seed"
  /\ Commit(p)
  /\ Goto(p, "idle")
  /\ UNCHANGED <<request, confirmed, reply>>

(* main applies the schema before it reads a line, and exits if it cannot. *)
Start(p) ==
  /\ pc[p] = "down"
  /\ ~Locked(p)
  /\ Goto(p, "idle")
  /\ UNCHANGED <<database, request, confirmed, reply>>

(* The process ends, at any moment; its transaction is rolled back.        *)
Crash(p) ==
  /\ pc[p] # "down"
  /\ EndTransaction(p)
  /\ stale' = [stale EXCEPT ![p] = FALSE]
  /\ todo' = [todo EXCEPT ![p] = <<>>]
  /\ done' = [done EXCEPT ![p] = {}]
  /\ Goto(p, "down")
  /\ UNCHANGED <<disk, phone, confirmed, reply>>

Request(p) ==
  \/ Import(p)
  \/ RequestAdd(p)
  \/ RequestRemove(p)
  \/ CheckNumber(p)
  \/ ReadLeads(p)
  \/ ApplySchema(p)

Handle(p) ==
  \/ UpsertProperty(p)
  \/ FindOwner(p)
  \/ SaveOwner(p)
  \/ CommitImport(p)
  \/ WriteNumber(p)
  \/ CommitAdd(p)
  \/ CommitRemove(p)
  \/ Seed(p)
  \/ CommitSeed(p)

Next == \E p \in Procs : Start(p) \/ Crash(p) \/ Request(p) \/ Handle(p)

Spec == Init /\ [][Next]_vars

(* A running handler goes on; nothing makes a request or a crash happen.   *)
FairSpec == Spec /\ \A p \in Procs : WF_vars(Handle(p))

-----------------------------------------------------------------------------
(* Properties.                                                             *)

TypeOK ==
  /\ disk \in Database
  /\ txn \in [Procs -> {"none", "begun", "reading", "writing"}]
  /\ view \in [Procs -> Database]
  /\ stale \in [Procs -> BOOLEAN]
  /\ pc \in [Procs -> Places]
  /\ todo \in [Procs -> Seq(Record)]
  /\ phone \in [Procs -> Phones]
  /\ done \in [Procs -> SUBSET Apns]
  /\ saved \in [Procs -> SUBSET Apns]
  /\ listed \subseteq Phones
  /\ reply \in [Procs -> {"none", "listed", "clear"}]

(* The write lock has one holder, and a handler that is past its first     *)
(* write is the one.                                                       *)
Writing == {"find", "insert", "update", "commit_add", "commit_remove", "commit_seed"}

WriterInv ==
  /\ \A p, q \in Procs : txn[p] = "writing" /\ txn[q] = "writing" => p = q
  /\ \A p \in Procs : pc[p] \in Writing => txn[p] = "writing"
  /\ \A p \in Procs : pc[p] = "down" => txn[p] = "none"

(* A writer's database is the file with its own changes, a reader's is the *)
(* file as it was, and both hold the parcels their process has confirmed.  *)
SnapshotInv ==
  \A p \in Procs :
    /\ txn[p] = "reading" /\ ~stale[p] => view[p] = disk
    /\ txn[p] = "writing" => disk.props \subseteq view[p].props
    /\ txn[p] \in {"reading", "writing"} => saved[p] \subseteq view[p].props
    /\ txn[p] = "writing" =>
         \/ listed \subseteq view[p].dnc
         \/ pc[p] = "commit_remove" /\ listed \ {phone[p]} \subseteq view[p].dnc
    /\ pc[p] = "commit_add" => phone[p] \in view[p].dnc
    /\ done[p] # {} => txn[p] = "writing" /\ done[p] \subseteq view[p].props

(* Where an import is in its records, and the rows it is about to write.   *)
ImportInv ==
  \A p \in Procs :
    pc[p] \in {"find", "insert", "update"} =>
      /\ todo[p] # <<>>
      /\ LET r == Head(todo[p])
         IN  /\ r.owner # None
             /\ r.apn \in view[p].props
             /\ pc[p] = "insert" => view[p].owners[<<r.apn, r.owner>>] = 0

IInv == TypeOK /\ WriterInv /\ SnapshotInv /\ ImportInv

(* save_to_database looks an owner up and then inserts it, and no UNIQUE   *)
(* constraint backs it: yet no two imports, of one process or two, leave   *)
(* two ownership rows for one owner of a parcel.                           *)
OneOwnerRow ==
  \A r \in Rows : disk.owners[r] <= 1 /\ \A p \in Procs : Sees(p).owners[r] <= 1

(* Nothing rolls a failed import back, and its rows reach the file with    *)
(* the next commit of anything.  What reaches it is whole records: never a *)
(* parcel without the owner of its record, or an owner without a parcel.   *)
RecordsOf(a) == {r \in UNION {{f[i] : i \in DOMAIN f} : f \in Files} : r.apn = a}

WholeRecords ==
  /\ \A a \in disk.props :
       \E r \in RecordsOf(a) : r.owner = None \/ disk.owners[<<a, r.owner>>] > 0
  /\ \A r \in Rows : disk.owners[r] > 0 => r[1] \in disk.props

(* What a success response has confirmed is in the file, whatever other    *)
(* process writes, fails or crashes afterwards: no commit overwrites       *)
(* another's rows.                                                         *)
ConfirmedIsDurable ==
  /\ \A p \in Procs : saved[p] \subseteq disk.props
  /\ listed \subseteq disk.dnc

(* A process stuck in an old snapshot may miss what others write; it never *)
(* misses what it has confirmed itself.                                    *)
ReadYourWrites == \A p \in Procs : saved[p] \subseteq Sees(p).props

(* The handlers' statements on the shared file implement SerialStore: the  *)
(* writer is the process that holds the lock, its draft what it sees.  No  *)
(* update of one process is lost to another's, a transaction that was left *)
(* open by a failed request included, and no one reads another's draft.    *)
Writers == {p \in Procs : txn[p] = "writing"}

Serial == INSTANCE SerialStore WITH
  Clients <- Procs,
  data    <- disk,
  draft   <- IF Writers = {} THEN disk ELSE view[CHOOSE p \in Procs : txn[p] = "writing"],
  writer  <- Writers,
  version <- [p \in Procs |-> IF txn[p] = "reading" THEN {view[p]} ELSE {}],
  answer  <- reply

ImplementsSerialStore == Serial!Spec

(* Every request is answered though a failed one keeps the write lock: the *)
(* busy timeout turns the wait into an error.                              *)
EveryRequestIsAnswered ==
  \A p \in Procs : pc[p] \notin {"down", "idle"} ~> pc[p] \in {"down", "idle"}

(* dnc_checker.py:93-94 say that check_dnc returns "True if the number IS  *)
(* on the DNC list" and False if it "is clear to call".                    *)
CheckSeesTheList ==
  [][\A p \in Procs : CheckNumber(p) /\ reply'[p] = "clear"
                        => phone'[p] \notin disk.dnc]_vars
=============================================================================
