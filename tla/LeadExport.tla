----------------------------- MODULE LeadExport -----------------------------
(***************************************************************************)
(* From a list of leads to a file or to HubSpot's contacts:                *)
(*   src/main.py                    (output.*, compliance.*, settings.set) *)
(*   src/agents/output_synthesis.py (deduplicate, export_to_hubspot)       *)
(*   src/utils/hubspot_client       (batch_upsert, _parse_error)           *)
(*   src/compliance/dnc_checker.py  (normalise_phone, check_dnc)           *)
(* One request at a time, as the sidecar serves them.  What HubSpot makes  *)
(* of a batch, and says of it in the two lists of the response, is left    *)
(* out: of the response the kind is kept.                                  *)
(***************************************************************************)
EXTENDS Integers, Sequences, Lists

CONSTANTS
  Apns,      \* parcel numbers
  Emails,    \* principals' e-mail addresses
  Numbers,   \* telephone numbers, those of other countries included
  Phones,    \* the ways in which they are written
  Requests,  \* the lists of leads that are exported
  MaxOpen,   \* bound on the HTTP clients left open
  None       \* an empty field

(* How a number is written: a plus or none, and the digits among whatever  *)
(* else there is.                                                          *)
Phone == [plus : BOOLEAN, digits : Seq(0..9), number : Numbers]
Lead  == [apn : Apns \cup {None}, email : Emails \cup {None}, phone : Phone]

ASSUME PhonesAssumption   == Phones \subseteq Phone
ASSUME RequestsAssumption == Requests \subseteq Seq(Lead)
ASSUME MaxOpenAssumption  == MaxOpen \in Nat

VARIABLES
  token,   \* the setting hubspot_api_key: "none", "good" or "bad"
  dnc,     \* dnc_list: ten digits for each number
  open,    \* the HTTP clients not closed
  at,      \* where the handler is
  leads,   \* the parameter of the request
  report,  \* the response to it: its kind
  (* observed, read by no action *)
  out,     \* the leads handed out in the response or to HubSpot
  asked,   \* the numbers confirmed as added, and not removed since
  empties  \* the HubSpot exports without leads

request == <<leads, report, out>>
vars == <<token, dnc, open, at, request, asked, empties>>

Replies == {"none", "file", "ok", "auth", "ratelimit", "validation", "internal"}

Init ==
  /\ token = "none"
  /\ dnc = {}
  /\ open = 0
  /\ at = "idle"
  /\ leads = <<>>
  /\ report = "none"
  /\ out = <<>>
  /\ asked = {}
  /\ empties = 0

-----------------------------------------------------------------------------
(* dnc_checker.py.                                                         *)

(* Fault: of the code dialled before the country's, one digit is left.     *)
KeepOneDigit(digits) ==
  IF Len(digits) = 11 /\ digits[1] = 1 THEN SubSeq(digits, 2, 11)
  ELSE IF Len(digits) = 12 /\ digits[1] = 1 /\ digits[2] = 1 THEN SubSeq(digits, 2, 11)
  ELSE digits

(* One 1 is the country's code, two are the code dialled before it as well. *)
WithoutCode(digits) ==
  IF Len(digits) = 11 /\ digits[1] = 1 THEN SubSeq(digits, 2, 11)
  ELSE IF Len(digits) = 12 /\ digits[1] = 1 /\ digits[2] = 1 THEN SubSeq(digits, 3, 12)
  ELSE digits

(* The ten digits, or None.                                                *)
NormalisePhone(phone) ==
  IF Len(WithoutCode(phone.digits)) = 10 THEN WithoutCode(phone.digits) ELSE None

(* Another country's number is blocked, and of the rest what cannot be      *)
(* normalised is clear.  No config is passed by the handler, so no area    *)
(* code is blocked.                                                        *)
CheckDnc(phone) ==
  \/ phone.plus /\ phone.digits[1] # 1
  \/ NormalisePhone(phone) \in dnc

AddNumber ==
  /\ at = "idle"
  /\ \E phone \in Phones :
       /\ NormalisePhone(phone) # None
       /\ dnc' = dnc \cup {NormalisePhone(phone)}
       /\ asked' = asked \cup {phone.number}
  /\ UNCHANGED <<token, open, at, request, empties>>

RemoveNumber ==
  /\ at = "idle"
  /\ \E phone \in Phones :
       /\ NormalisePhone(phone) # None
       /\ dnc' = dnc \ {NormalisePhone(phone)}
       /\ asked' = asked \ {phone.number}
  /\ UNCHANGED <<token, open, at, request, empties>>

SetToken ==
  /\ at = "idle"
  /\ token' \in {"none", "good", "bad"}
  /\ UNCHANGED <<dnc, open, at, request, asked, empties>>

-----------------------------------------------------------------------------
(* output_synthesis.py.                                                    *)

(* Fault: the first lead of a parcel stays.                                *)
AssignOnce(seen, lead) ==
  IF lead.apn = None \/ \E i \in DOMAIN seen : seen[i].apn = lead.apn
  THEN seen
  ELSE Append(seen, lead)

(* A dictionary by parcel, as the list of its values: a parcel that it has *)
(* stays where it is and gets the new lead.                                *)
Assign(seen, lead) ==
  IF lead.apn = None THEN seen
  ELSE IF \E i \in DOMAIN seen : seen[i].apn = lead.apn
  THEN [i \in DOMAIN seen |-> IF seen[i].apn = lead.apn THEN lead ELSE seen[i]]
  ELSE Append(seen, lead)

(* What deduplicate has seen after each lead of the list.                  *)
Seen(list) ==
  LET seen[n \in 0..Len(list)] == IF n = 0 THEN <<>> ELSE Assign(seen[n - 1], list[n])
  IN  seen

Deduplicate(list) == Seen(list)[Len(list)]

(* Leads without an e-mail address are skipped.                            *)
Contacts(list) ==
  Keep(Deduplicate(list), {l \in Lead : l.email # None})

Respond(reply) ==
  /\ report' = reply
  /\ at' = "done"

(* output.export_csv and output.export_json: every field of every lead.    *)
ExportFile ==
  /\ at = "idle"
  /\ leads' \in Requests
  /\ out' = Deduplicate(leads')
  /\ Respond("file")
  /\ UNCHANGED <<token, dnc, open, asked, empties>>

-----------------------------------------------------------------------------
(* output.export_hubspot.                                                  *)

(* The client is made before the leads are looked at.                      *)
ExportHubspot ==
  /\ at = "idle"
  /\ leads' \in Requests
  /\ \/ /\ token = "none"
        /\ Respond("validation")
        /\ UNCHANGED <<open, empties>>
     \/ /\ token # "none" /\ leads' = <<>>
        /\ open < MaxOpen
        /\ open' = open + 1
        /\ empties' = empties + 1
        /\ Respond("validation")
     \/ /\ token # "none" /\ leads' # <<>>
        /\ open < MaxOpen
        /\ open' = open + 1
        /\ at' = "upsert"
        /\ UNCHANGED <<report, empties>>
  /\ UNCHANGED <<token, dnc, out, asked>>

(* Fault: an error in the handler's try block leaves the client open.      *)
RespondOpen(reply) ==
  /\ Respond(reply)
  /\ open' = IF reply = "ok" THEN open - 1 ELSE open

(* The handler's finally block.                                            *)
RespondAndClose(reply) ==
  /\ Respond(reply)
  /\ open' = open - 1

(* Nothing to send counts as success.                                      *)
NothingToSend ==
  /\ at = "upsert"
  /\ Contacts(leads) = <<>>
  /\ RespondAndClose("ok")
  /\ UNCHANGED <<token, dnc, leads, out, asked, empties>>

(* One request for all contacts.  It counts as answered whatever the       *)
(* answer says of each of them.                                            *)
BatchUpsert ==
  /\ at = "upsert"
  /\ Contacts(leads) # <<>>
  /\ token = "good"
  /\ out' = Contacts(leads)
  /\ RespondAndClose("ok")
  /\ UNCHANGED <<token, dnc, leads, asked, empties>>

(* The token is refused, HubSpot refuses for another reason, or its answer *)
(* is lost or unreadable: what of the batch it has written is not known.   *)
BatchFails ==
  /\ at = "upsert"
  /\ Contacts(leads) # <<>>
  /\ out' = Contacts(leads)
  /\ \/ token = "bad"  /\ RespondAndClose("auth")
     \/ token = "good" /\ \E reply \in {"ratelimit", "internal", "validation"} :
                             RespondAndClose(reply)
  /\ UNCHANGED <<token, dnc, leads, asked, empties>>

(* The response is written, and nothing of the request is kept.            *)
Reply ==
  /\ at = "done"
  /\ at' = "idle"
  /\ leads' = <<>>
  /\ report' = "none"
  /\ out' = <<>>
  /\ UNCHANGED <<token, dnc, open, asked, empties>>

Next ==
  \/ AddNumber
  \/ RemoveNumber
  \/ SetToken
  \/ ExportFile
  \/ ExportHubspot
  \/ NothingToSend
  \/ BatchUpsert
  \/ BatchFails
  \/ Reply

Spec == Init /\ [][Next]_vars

-----------------------------------------------------------------------------
(* Properties.                                                             *)

(* The types, and the client of the request that is served.                *)
TypeOK ==
  /\ token \in {"none", "good", "bad"}
  /\ \A digits \in dnc : digits \in Seq(0..9) /\ Len(digits) = 10
  /\ asked \subseteq Numbers
  /\ open \in 0..MaxOpen /\ empties \in 0..MaxOpen
  /\ at \in {"idle", "upsert", "done"}
  /\ leads \in Requests \cup {<<>>}
  /\ report \in Replies
  /\ out \in Seq(Lead)
  /\ at = "upsert" => open > 0 /\ token # "none"

(* The requests leave no HTTP client open, however they end: but for those *)
(* without leads, whose return is outside the try block (main.py:291).     *)
OnlyEmptyExportsLeak == open = empties + (IF at = "upsert" THEN 1 ELSE 0)

IInv == TypeOK /\ OnlyEmptyExportsLeak

IsLastOfParcel(k) == \A j \in DOMAIN leads : leads[j].apn = leads[k].apn => j <= k

(* output_synthesis.py:65: "keeping the last occurrence".  What an export  *)
(* hands out of a parcel is the last lead that the request has of it, no   *)
(* parcel is handed out twice, and an export that succeeds leaves no       *)
(* parcel out: HubSpot's only those whose last lead has no address.        *)
LastLeadIsExported ==
  /\ \A i \in DOMAIN out :
       /\ \A j \in DOMAIN out : out[i].apn = out[j].apn => i = j
       /\ \E k \in DOMAIN leads : leads[k] = out[i] /\ IsLastOfParcel(k)
  /\ report \in {"file", "ok"} =>
       \A k \in DOMAIN leads :
         (/\ leads[k].apn # None /\ IsLastOfParcel(k)
          /\ report = "file" \/ leads[k].email # None)
         => \E i \in DOMAIN out : out[i] = leads[k]

(* dnc_checker.py:50-65.  A number that was confirmed as added, written in *)
(* one way, and not removed since, written in another, is found in every   *)
(* way of writing it that leaves ten digits.  (With an extension, or 011   *)
(* for a call from abroad, more are left: it is neither added nor found,   *)
(* though dnc_checker.py:88 takes "any common format".)                    *)
ListedIsFound ==
  \A phone \in Phones :
    phone.number \in asked /\ NormalisePhone(phone) # None => CheckDnc(phone)

(* README.md:31, "Do-Not-Call filtering before any lead export", and       *)
(* README.md:194, "DNC registry check before any lead export".  No lead    *)
(* whose number is on the list is handed out.  None is checked.            *)
ListedIsNotExported == \A i \in DOMAIN out : NormalisePhone(out[i].phone) \notin dnc
=============================================================================
