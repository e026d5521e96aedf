-------------------------- MODULE EntityUnmasking --------------------------
(***************************************************************************)
(* The method entity.unmask, from the recorded owner to a person's name:   *)
(*   src/main.py                     (entity.unmask)                       *)
(*   src/agents/entity_unmasking.py  (EntityUnmaskingAgent)                *)
(*   src/scrapers/ca_sos_parser.py   (CASOSParser)                         *)
(*   src/llm/                        (factory and providers)               *)
(* The sidecar serves it between the requests of Credentials, whose rows   *)
(* say which provider answers and with which key.                          *)
(***************************************************************************)
EXTENDS Credentials

CONSTANTS
  Rank,       \* the providers' place in ORDER BY provider
  Anthropic,  \* the provider whose client needs a key and a base_url
  Local       \* those whose server takes any key

ASSUME RankAssumption ==
  /\ Rank \in [Providers -> Nat]
  /\ \A p, q \in Providers : Rank[p] = Rank[q] => p = q
  /\ \A S \in (SUBSET Providers) \ {{}} : \E p \in S : \A q \in S : Rank[p] <= Rank[q]
ASSUME LocalAssumption == Local \subseteq Providers \ {Anthropic}

VARIABLES
  at,      \* the step of entity.unmask, or "idle"
  client,  \* the LLM client: its provider and the key it sends
  pdf,     \* the request's temporary file: "none", "partial", "whole", or
           \* "tried", one that could not be removed
  answer   \* the response so far: where the name in it is from, and the
           \* status of the look-up, "failed" being an error response

unmaskVars == <<at, client, pdf, answer>>
vars == <<credentialVars, unmaskVars>>

NoClient == [provider |-> None, api |-> Empty]
NoAnswer == [name |-> "none", status |-> "none"]

Init ==
  /\ CredentialInit
  /\ at = "idle"
  /\ client = NoClient
  /\ pdf = "none"
  /\ answer = NoAnswer

-----------------------------------------------------------------------------
(* get_active_llm_client: Settings.js makes every row it saves active.     *)

Active == {p \in Providers : row[p] # None}
First  == CHOOSE p \in Active : \A q \in Active : Rank[p] <= Rank[q]

(* The clients it can return; none is its ValueError.  A local server      *)
(* without a key gets "sk-unused", which is as good as the empty one.      *)
Clients ==
  IF Active = {} \/ (First = Anthropic /\ row[First] = Empty) THEN {NoClient}
  ELSE {[provider |-> First, api |-> row[First]]}

(* Without a base_url the Anthropic branch reads an attribute that the     *)
(* class does not have: no ValueError, so the request fails.               *)
ClientRaises == Active # {} /\ First = Anthropic /\ row[First] # Empty

Goto(step) == at' = step

Respond(name, status) ==
  /\ answer' = [name |-> name, status |-> status]
  /\ Goto("done")

-----------------------------------------------------------------------------
(* entity.unmask in main.py, and unmask_entity.                            *)

(* A request that lacks a parameter is refused once the client is made.    *)
(* An owner that is no entity is its own principal.                        *)
Unmask ==
  /\ at = "idle" /\ pc = "idle"
  /\ \E entity \in BOOLEAN, c \in Clients, complete \in BOOLEAN :
       /\ client' = c
       /\ \/ /\ complete /\ entity /\ c # NoClient
             /\ answer' = NoAnswer
             /\ Goto("search")
          \/ /\ complete /\ entity /\ c = NoClient
             /\ Respond("none", "none")
          \/ /\ complete /\ ~entity
             /\ Respond("owner", "none")
          \/ /\ ClientRaises \/ ~complete
             /\ Respond("none", "failed")
  /\ UNCHANGED pdf

(* A hit with a number, one without, no hit or a request that fails, an    *)
(* HTTP status or a response of another shape, and a hit that is no        *)
(* object: what is read of it raises after the search's try.               *)
SearchSos ==
  /\ at = "search"
  /\ \/ Goto("download") /\ UNCHANGED answer
     \/ Respond("none", "found")
     \/ Respond("none", "not_found")
     \/ Respond("none", "error")
     \/ Respond("none", "failed")
  /\ UNCHANGED <<client, pdf>>

(* A request that fails leaves the look-up without principals; an HTTP     *)
(* status is caught nowhere.  Nor is a failure to make the temporary file, *)
(* or to write it: the try that removes it is yet to come.                 *)
DownloadPdf ==
  /\ at = "download"
  /\ \/ /\ pdf' = "whole"
        /\ Goto("parse")
        /\ UNCHANGED answer
     \/ Respond("none", "found") /\ UNCHANGED pdf
     \/ Respond("none", "failed") /\ pdf' \in {"none", "partial"}
  /\ UNCHANGED client

(* The finally of the look-up: the file is removed, or the removal raises  *)
(* in place of whatever came before.                                       *)
Finally(name, status) ==
  \/ Respond(name, status) /\ pdf' = "none"
  \/ Respond("none", "failed") /\ pdf' = "tried"

(* No text: an _error, no principals and no call to the provider.          *)
ExtractText ==
  /\ at = "parse"
  /\ \/ Goto("llm") /\ UNCHANGED <<answer, pdf>>
     \/ Finally("none", "found")
  /\ UNCHANGED client

(* The service: it refuses what is not a key, and may refuse one.          *)
Accepts(c) == c.provider \in Local \/ c.api \in Keys

(* Fault: the file is removed only when the provider has answered.         *)
KeepFileOnError ==
  /\ at = "llm"
  /\ \/ Accepts(client) /\ Finally("principal", "found")
     \/ Finally("none", "found")
     \/ Respond("none", "failed") /\ UNCHANGED pdf
  /\ UNCHANGED client

(* generate_structured_json and what main makes of it: the first           *)
(* principal's name; none, or a RuntimeError; another exception, or a      *)
(* principal that is no object.                                            *)
AskProvider ==
  /\ at = "llm"
  /\ \/ Accepts(client) /\ Finally("principal", "found")
     \/ Finally("none", "found")
     \/ Accepts(client) /\ Finally("none", "failed")
  /\ UNCHANGED client

(* The response is written, and nothing of the request is kept: a file     *)
(* that is still there has no owner any more.                              *)
Forget ==
  /\ Goto("idle")
  /\ client' = NoClient
  /\ pdf' = "none"
  /\ answer' = NoAnswer

Reply == at = "done" /\ Forget

(* The process ends, leaving a temporary file to the system.               *)
Abort ==
  /\ at # "idle"
  /\ Stop
  /\ Forget

Next ==
  \/ CredentialNext /\ at = "idle" /\ UNCHANGED unmaskVars
  \/ /\ Unmask \/ SearchSos \/ DownloadPdf \/ ExtractText \/ AskProvider \/ Reply
     /\ UNCHANGED credentialVars
  \/ Abort

Spec == Init /\ [][Next]_vars

-----------------------------------------------------------------------------
(* Properties.                                                             *)

(* The type invariant, and what the steps of a request rely on.            *)
UnmaskInv ==
  /\ at \in {"idle", "search", "download", "parse", "llm", "done"}
  /\ client \in [provider : Providers, api : ApiKeys] \cup {NoClient}
  /\ pdf \in {"none", "partial", "whole", "tried"}
  /\ answer \in [name : {"none", "owner", "principal"},
                 status : {"none", "found", "not_found", "error", "failed"}]
  /\ at # "idle" => pc = "idle"
  /\ at \in {"search", "download", "parse", "llm"} => client # NoClient

IInv ==
  /\ CredentialTypeOK /\ MigrationInv
  /\ UnmaskInv

(* The statement of information is written to a temporary file that        *)
(* nobody but the sidecar removes.  A file that was written whole is there *)
(* while it is read, and its removal is tried however the parser and the   *)
(* provider end, by an answer or an exception.  One whose writing failed   *)
(* stays, and so does one that cannot be removed: the response is then an  *)
(* error, so a request that is answered leaves no file.                    *)
WholeFileIsRemoved ==
  /\ pdf = "whole" <=> at \in {"parse", "llm"}
  /\ at = "done" /\ pdf # "none" => answer.status = "failed"

(* factory.py:26: "A configured LLMProvider instance".  A client that is   *)
(* asked after a key of its provider was confirmed to be stored sends a    *)
(* key.  It does not: it is built from the row, which has the mask.        *)
ClientHasTheKey ==
  at = "search" /\ kept[client.provider] # None => client.api \in Keys
=============================================================================
