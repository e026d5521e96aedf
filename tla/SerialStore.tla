---------------------------- MODULE SerialStore ----------------------------
(***************************************************************************)
(* What the sidecars that share a file may rely on, with the statements,   *)
(* the locks and the failures hidden: one client at a time has a draft of  *)
(* the data, which starts as the data itself, changes by one row at a time *)
(* and becomes the data or is forgotten as a whole.  So the data is what   *)
(* the clients' drafts make of it one after the other, with no change      *)
(* lost.  A client may read a version that was the data once, but cannot   *)
(* start a draft from one that is no longer.                               *)
(***************************************************************************)
EXTENDS Naturals

CONSTANTS Clients, Apns, Owners, Phones

VARIABLES
  data,      \* what is stored
  draft,     \* what the client that writes has made of it, else the data
  writer,    \* the client that has a draft, if any
  version,   \* of each client, the earlier data that it reads, if any
  answer     \* of each client, the last answer to a look-up

vars == <<data, draft, writer, version, answer>>

Rows == Apns \X Owners

Nothing == [props |-> {}, owners |-> [r \in Rows |-> 0], dnc |-> {}]

Init ==
  /\ data = Nothing
  /\ draft = data
  /\ writer = {}
  /\ version = [c \in Clients |-> {}]
  /\ answer = [c \in Clients |-> "none"]

(* An owner's row is added to a parcel that is there, and only once.       *)
Changes(db) ==
  {db}
    \cup {[db EXCEPT !.props = @ \cup {a}] : a \in Apns}
    \cup {[db EXCEPT !.owners[r] = 1] : r \in {s \in Rows : s[1] \in db.props /\ db.owners[s] = 0}}
    \cup {[db EXCEPT !.dnc = @ \cup {n}] : n \in Phones}
    \cup {[db EXCEPT !.dnc = @ \ {n}] : n \in Phones}

Change(c) ==
  /\ writer \subseteq {c}
  /\ version[c] \subseteq {data}
  /\ writer' = {c}
  /\ draft' \in Changes(draft)
  /\ version' = [version EXCEPT ![c] = {}]
  /\ UNCHANGED <<data, answer>>

Publish(c) ==
  /\ writer = {c}
  /\ writer' = {}
  /\ data' = draft
  /\ UNCHANGED <<draft, version, answer>>

(* The end of a client, or of its reading.                                 *)
Leave(c) ==
  /\ writer' = writer \ {c}
  /\ draft' = IF c \in writer THEN data ELSE draft
  /\ version' = [version EXCEPT ![c] = {}]
  /\ UNCHANGED <<data, answer>>

(* From now on c reads the data as it is, whatever others make of it.      *)
Pin(c) ==
  /\ c \notin writer
  /\ version[c] = {}
  /\ version' = [version EXCEPT ![c] = {data}]

Keep(c) ==
  /\ Pin(c)
  /\ UNCHANGED <<data, draft, writer, answer>>

(* Its own draft, the version it has, or the data.                         *)
Seen(c) ==
  IF c \in writer THEN {draft} ELSE IF version[c] # {} THEN version[c] ELSE {data}

LookUp(c) ==
  /\ \E db \in Seen(c), n \in Phones :
       answer' = [answer EXCEPT ![c] = IF n \in db.dnc THEN "listed" ELSE "clear"]
  /\ Pin(c) \/ UNCHANGED version
  /\ UNCHANGED <<data, draft, writer>>

Next ==
  \E c \in Clients :
    \/ Change(c)
    \/ Publish(c)
    \/ Leave(c)
    \/ Keep(c)
    \/ LookUp(c)

Spec == Init /\ [][Next]_vars
=============================================================================
