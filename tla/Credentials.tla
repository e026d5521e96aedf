---------------------------- MODULE Credentials ----------------------------
(***************************************************************************)
(* Where the API keys of the LLM providers are:                            *)
(*   src/utils/credentials.py    (keychain, file, migrate_from_sqlite)     *)
(*   src/main.py                 (llm_settings.set, start-up)              *)
(* A key is stored in the keychain of the operating system or, when that   *)
(* fails, in a file; the row of llm_settings keeps a mask of it.  Rows of  *)
(* older versions hold whole keys, which every start of the sidecar tries  *)
(* to move.                                                                *)
(***************************************************************************)
EXTENDS Naturals

CONSTANTS
  Providers,  \* the LLM providers of llm_settings
  Keys,       \* whole API keys
  Short,      \* those of at most four characters
  None,       \* no key stored, no row
  Empty       \* the empty string

ASSUME ShortAssumption == Short \subseteq Keys
ASSUME NoneAssumption  ==
  None \notin Keys \cup Providers /\ Empty \notin Keys /\ None # Empty

VARIABLES
  keychain,  \* per provider, the key in the operating system's keychain
  file,      \* per provider, the key in ~/.leadgen/.credentials.enc
  row,       \* per provider, the committed api_key of its row
  pc,        \* where the sidecar is
  req,       \* the provider and api_key being stored
  todo,      \* start-up: the rows still to move
  masked,    \* start-up: the rows masked in the open transaction
  (* observed, read by no action *)
  kept,      \* per provider, the last key store_credential has confirmed
  doubt      \* the providers whose key was not stored anew since the file
             \* could not be read, or a write of it was cut short

stores == <<keychain, file>>
credentialVars == <<stores, row, pc, req, todo, masked, kept, doubt>>

(* "****" is the mask of no key: it tells none apart.                      *)
Masks == [of : Keys \cup {None}]
Stars == [of |-> None]

(* The first four characters and "****", of a key or of a mask.            *)
Mask(v) == IF v \in Keys THEN [of |-> v] ELSE v

ApiKeys == Keys \cup Masks \cup {Empty}

(* llm_settings.set masks what is longer than four characters.             *)
RowValue(v) == IF v \in Short THEN v ELSE Mask(v)

NoRequest == [provider |-> None, api |-> Empty]

CredentialInit ==
  /\ keychain = [p \in Providers |-> None]
  /\ file = [p \in Providers |-> None]
  /\ row \in [Providers -> Keys \cup {None}]
  /\ pc = "down"
  /\ req = NoRequest
  /\ todo = {}
  /\ masked = {}
  /\ kept = [p \in Providers |-> None]
  /\ doubt = {}

-----------------------------------------------------------------------------
(* store_credential.                                                       *)

Confirm(p, k) == kept' = [kept EXCEPT ![p] = k]

Stored(p) == doubt' = doubt \ {p}

InKeychain(p, k) ==
  /\ keychain' = [keychain EXCEPT ![p] = k]
  /\ Confirm(p, k)
  /\ Stored(p)
  /\ UNCHANGED file

Only(p, k) == [q \in Providers |-> IF q = p THEN k ELSE None]

(* Fault: the file is written from an empty store, not from what it held.  *)
OverwriteFile(p, k, stored) ==
  /\ file' = Only(p, k)
  /\ Confirm(p, IF stored THEN k ELSE None)
  /\ Stored(p)
  /\ UNCHANGED keychain

(* The file is read, changed and written whole.  Whatever fails in reading *)
(* or decoding it, another host name too, is read as {}.  A failing chmod  *)
(* makes the answer False though the key has replaced the one before.      *)
InFile(p, k, stored) ==
  /\ \/ file' = [file EXCEPT ![p] = k] /\ Stored(p)
     \/ file' = Only(p, k) /\ doubt' = Providers \ {p}
  /\ Confirm(p, IF stored THEN k ELSE None)
  /\ UNCHANGED keychain

(* write_text truncates first: a write cut short leaves what is read as {}. *)
CutShort ==
  /\ file' = [p \in Providers |-> None]
  /\ doubt' = Providers
  /\ UNCHANGED <<keychain, kept>>

(* store_credential(p, k) answers stored.                                  *)
StoreCredential(p, k, stored) ==
  \/ stored /\ InKeychain(p, k)
  \/ InFile(p, k, stored)
  \/ ~stored /\ CutShort
  \/ ~stored /\ UNCHANGED <<stores, kept, doubt>>

-----------------------------------------------------------------------------
(* The request of Settings.js, llm_settings.set, with a key, a mask that   *)
(* was shown in place of one, or nothing.                                  *)
SetKey(p) ==
  /\ pc = "idle"
  /\ \E v \in ApiKeys : req' = [provider |-> p, api |-> v]
  /\ pc' = "set"
  /\ UNCHANGED <<stores, row, todo, masked, kept, doubt>>

(* llm_settings.set stores a key that is given and no mask, and does not   *)
(* look at the answer.                                                     *)
StoreKey ==
  /\ pc = "set"
  /\ IF req.api \in Keys
     THEN \E stored \in BOOLEAN : StoreCredential(req.provider, req.api, stored)
     ELSE UNCHANGED <<stores, kept, doubt>>
  /\ pc' = "row"
  /\ UNCHANGED <<row, req, todo, masked>>

(* The row is replaced and committed, or the statement raises: the handler *)
(* answers with an error, and the key stays where it was put.              *)
WriteRow ==
  /\ pc = "row"
  /\ \/ row' = [row EXCEPT ![req.provider] = RowValue(req.api)]
     \/ UNCHANGED row
  /\ pc' = "idle"
  /\ req' = NoRequest
  /\ UNCHANGED <<stores, todo, masked, kept, doubt>>

-----------------------------------------------------------------------------
(* main: migrate_from_sqlite runs before the first command is read.        *)

Start ==
  /\ pc = "down"
  /\ todo' = {p \in Providers : row[p] \in Keys}
  /\ pc' = "migrate"
  /\ UNCHANGED <<stores, row, req, masked, kept, doubt>>

(* Fault: the row is masked whether its key could be stored or not.        *)
MaskRegardless(p) ==
  /\ pc = "migrate"
  /\ p \in todo
  /\ todo' = todo \ {p}
  /\ \E stored \in BOOLEAN : StoreCredential(p, row[p], stored)
  /\ masked' = masked \cup {p}
  /\ UNCHANGED <<row, pc, req>>

MigrateRow(p) ==
  /\ pc = "migrate"
  /\ p \in todo
  /\ todo' = todo \ {p}
  /\ \E stored \in BOOLEAN :
       /\ StoreCredential(p, row[p], stored)
       /\ masked' = IF stored THEN masked \cup {p} ELSE masked
  /\ UNCHANGED <<row, pc, req>>

CommitMasks ==
  /\ pc = "migrate"
  /\ todo = {}
  /\ row' = [p \in Providers |->
               IF p \notin masked THEN row[p]
               ELSE IF row[p] \in Short THEN Stars ELSE Mask(row[p])]
  /\ masked' = {}
  /\ pc' = "idle"
  /\ UNCHANGED <<stores, req, todo, kept, doubt>>

(* The process ends: at a statement that raises in main, at the end of     *)
(* stdin, or when it is killed, in the middle of writing the file too.     *)
Stop ==
  /\ pc # "down"
  /\ pc' = "down"
  /\ req' = NoRequest
  /\ todo' = {}
  /\ masked' = {}
  /\ \/ /\ (pc = "set" /\ req.api \in Keys) \/ todo # {}
        /\ CutShort
     \/ UNCHANGED <<stores, kept, doubt>>
  /\ UNCHANGED row

CredentialNext ==
  \/ \E p \in Providers : SetKey(p) \/ MigrateRow(p)
  \/ StoreKey
  \/ WriteRow
  \/ Start
  \/ CommitMasks
  \/ Stop

CredentialSpec == CredentialInit /\ [][CredentialNext]_credentialVars

-----------------------------------------------------------------------------
(* Properties.                                                             *)

(* The type invariant.                                                     *)
CredentialTypeOK ==
  /\ keychain \in [Providers -> Keys \cup {None}]
  /\ file \in [Providers -> Keys \cup {None}]
  /\ row \in [Providers -> ApiKeys \cup {None}]
  /\ req \in [provider : Providers, api : ApiKeys] \cup {NoRequest}
  /\ todo \subseteq Providers /\ masked \subseteq Providers
  /\ kept \in [Providers -> Keys \cup {None}]
  /\ doubt \subseteq Providers

(* What start-up has still to move and what it has masked are rows with    *)
(* whole keys, and a masked one's key is the last that was confirmed.      *)
MigrationInv ==
  /\ pc \in {"set", "row"} => req # NoRequest
  /\ pc # "migrate" => todo = {} /\ masked = {}
  /\ todo \cap masked = {}
  /\ \A p \in todo \cup masked : row[p] \in Keys
  /\ \A p \in masked : kept[p] = row[p]

(* credentials.py:48: "True if stored successfully".  A key that           *)
(* store_credential has confirmed stays in the keychain or in the file     *)
(* until another is written for its provider: whatever is stored for the   *)
(* others, whichever of the two stores refuses when, and whenever the      *)
(* process ends.  Only a file that cannot be read, or a write of it that   *)
(* is cut short, can lose keys, and none of those that are stored later.   *)
ConfirmedKeyIsKept ==
  \A p \in Providers \ doubt : kept[p] \in {None, keychain[p], file[p]}

(* A whole key leaves its row only when a client saves the provider anew,  *)
(* or when start-up has confirmed that very key to be stored elsewhere.    *)
OnlyStoredKeysAreMasked ==
  [][\A p \in Providers :
       row[p] \in Keys /\ row'[p] # row[p] => req.provider = p \/ kept[p] = row[p]
    ]_credentialVars
=============================================================================
