---------------------------- MODULE ArcgisQuery ----------------------------
(***************************************************************************)
(* Queries of the county assessors' servers, and HubSpot requests between  *)
(* them on the same thread and clock:                                      *)
(*   src/scrapers/county_assessor.py       (_arcgis_query)                 *)
(*   src/utils/rate_limiter.py             (RateLimiter)                   *)
(*   src/utils/hubspot_client/__init__.py  (see HubSpotLimiter)            *)
(* Pauses come from two rules that know nothing of each other: a query is  *)
(* delayed by the failures its domain has had in a row, an attempt within  *)
(* it by its own number.                                                   *)
(***************************************************************************)
EXTENDS HubSpotLimiter

CONSTANTS
  Domains,     \* the counties, by their label for the limiter
  MaxRetries,  \* MAX_RETRIES
  Backoff,     \* RETRY_BACKOFF
  Base,        \* t_base
  MaxBackoff,  \* MAX_BACKOFF
  Overflow,    \* the failures at which base * 2**n is no float any more
  Slow,        \* bound: how long a request takes
  Horizon,     \* bound: no call starts later
  MaxCalls,    \* bound: the requests of one HubSpot client
  None         \* no domain

ASSUME CountsAssumption ==
  /\ {MaxRetries, Base, MaxBackoff, Overflow, Slow, Horizon, MaxCalls} \subseteq Nat
  /\ Backoff \in Seq(Nat) /\ Backoff # <<>>
  /\ None \notin Domains

VARIABLES
  failures,  \* _failures, per domain
  at,        \* "idle", or "send" when a request is about to be sent
  query      \* the domain and the attempt being made

hubspot == <<stamps, log>>
vars == <<now, failures, at, query, hubspot>>

NoQuery == [domain |-> None, attempt |-> 0]

Init ==
  /\ now = 0
  /\ failures = [d \in Domains |-> 0]
  /\ at = "idle"
  /\ query = NoQuery
  /\ stamps = <<>>
  /\ log = <<>>

-----------------------------------------------------------------------------
(* rate_limiter.py.  _last_call is read and never written, so the gap that *)
(* MIN_INTERVAL asks for is always 0, and the failures alone make a delay. *)

AtMost(x, y) == IF x <= y THEN x ELSE y

TwoTo(n) ==
  LET power[i \in 0..n] == IF i = 0 THEN 1 ELSE 2 * power[i - 1]
  IN  power[n]

Delay(n, jitter) ==
  IF n = 0 THEN 0 ELSE AtMost(Base * TwoTo(n) + jitter, MaxBackoff)

RecordFailure(d) == failures' = [failures EXCEPT ![d] = @ + 1]
RecordSuccess(d) == failures' = [failures EXCEPT ![d] = 0]

-----------------------------------------------------------------------------
(* _arcgis_query.                                                          *)

(* wait_if_needed, once for all attempts.  When 2**n is larger than a      *)
(* float can be, the call raises and changes nothing.                      *)
Query(d) ==
  /\ at = "idle"
  /\ now <= Horizon
  /\ failures[d] < Overflow
  /\ \E jitter \in 0..1 : now' = now + Delay(failures[d], jitter)
  /\ at' = "send"
  /\ query' = [domain |-> d, attempt |-> 0]
  /\ UNCHANGED <<failures, hubspot>>

(* A request is sent and ends after some time, and then the thread sleeps. *)
EndRequest(sleep) == \E taken \in 0..Slow : now' = now + taken + sleep

Return ==
  /\ at' = "idle"
  /\ query' = NoQuery
  /\ UNCHANGED hubspot

(* A feature, no feature, or one without attributes.                       *)
Answered ==
  /\ at = "send"
  /\ EndRequest(0)
  /\ RecordSuccess(query.domain)
  /\ Return

(* A status that is not worth a retry, or JSON of another shape.           *)
Refused ==
  /\ at = "send"
  /\ EndRequest(0)
  /\ RecordFailure(query.domain)
  /\ Return

(* A body that is no JSON raises past the limiter.                         *)
Unreadable ==
  /\ at = "send"
  /\ EndRequest(0)
  /\ Return
  /\ UNCHANGED failures

RetrySleep(attempt) ==
  IF attempt < Len(Backoff) THEN Backoff[attempt + 1] ELSE Backoff[Len(Backoff)]

(* Fault: a failed request is sent again at once, and the attempts wrap.   *)
RetryForever ==
  /\ at = "send"
  /\ failures' = [failures EXCEPT ![query.domain] = AtMost(@ + 1, Overflow)]
  /\ query' = [query EXCEPT !.attempt = (@ + 1) % (MaxRetries + 1)]
  /\ UNCHANGED <<now, at, hubspot>>

(* A timeout, a connection error or a retryable status: the last attempt   *)
(* sleeps as well before it gives up.                                      *)
Retry ==
  /\ at = "send"
  /\ EndRequest(RetrySleep(query.attempt))
  /\ RecordFailure(query.domain)
  /\ IF query.attempt < MaxRetries
     THEN /\ query' = [query EXCEPT !.attempt = @ + 1]
          /\ UNCHANGED <<at, hubspot>>
     ELSE Return

-----------------------------------------------------------------------------
(* The clients of HubSpot, on the same thread.                             *)

Upsert ==
  /\ at = "idle"
  /\ now <= Horizon
  /\ Len(log) < MaxCalls
  /\ LetThrough
  /\ UNCHANGED <<failures, at, query>>

Export ==
  /\ at = "idle"
  /\ NewClient
  /\ UNCHANGED <<failures, at, query>>

Idle ==
  /\ at = "idle"
  /\ now <= Horizon
  /\ now' = now + 1
  /\ UNCHANGED <<failures, at, query, hubspot>>

Attempt == Answered \/ Refused \/ Unreadable \/ Retry

Next ==
  \/ \E d \in Domains : Query(d)
  \/ Attempt
  \/ Upsert
  \/ Export
  \/ Idle

Spec == Init /\ [][Next]_vars

(* A request ends, if by its timeout; no call ever has to be made.         *)
FairSpec == Spec /\ WF_vars(Attempt)

-----------------------------------------------------------------------------
(* Properties.                                                             *)

(* The type invariant.                                                     *)
TypeOK ==
  /\ now \in Nat
  /\ failures \in [Domains -> Nat]
  /\ at \in {"idle", "send"}
  /\ query \in [domain : Domains, attempt : 0..MaxRetries] \cup {NoQuery}
  /\ at = "send" => query # NoQuery

IInv == TypeOK /\ LimiterTypeOK /\ StampsInv

(* A query ends, whatever the server does and however often.               *)
EveryQueryReturns == at = "send" ~> at = "idle"
=============================================================================
