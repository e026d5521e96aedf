--------------------------- MODULE HubSpotLimiter ---------------------------
(***************************************************************************)
(* The client-side limit of one HubSpotClient:                             *)
(*   src/utils/hubspot_client/__init__.py (_wait_if_needed)                *)
(* A deque of at most MAX_REQUESTS time stamps, pruned before the sleep    *)
(* and appended to after it.                                               *)
(***************************************************************************)
EXTENDS Naturals, Sequences

CONSTANTS
  MaxRequests,  \* MAX_REQUESTS
  Window,       \* WINDOW_SECONDS
  Slack         \* how much longer than asked for a sleep may last

ASSUME MaxRequestsAssumption == MaxRequests \in Nat \ {0}
ASSUME WindowAssumption      == Window \in Nat
ASSUME SlackAssumption       == Slack \in Nat

VARIABLES
  now,     \* the monotonic clock
  stamps,  \* _request_timestamps
  log      \* observed: when each request of this client was let through

limiterVars == <<now, stamps, log>>

LimiterInit ==
  /\ now \in Nat
  /\ stamps = <<>>
  /\ log = <<>>

(* How many stamps popleft drops: those at the front that the window has   *)
(* left behind.                                                            *)
IsPruned(k) ==
  /\ \A i \in 1..k : stamps[i] + Window <= now
  /\ k < Len(stamps) => stamps[k + 1] + Window > now

(* The end of the sleep, if the deque is full without its first k.         *)
Awake(k) ==
  IF Len(stamps) - k >= MaxRequests THEN stamps[k + 1] + Window ELSE now

(* append on a deque with maxlen drops the oldest of a full one.           *)
Push(seq, t) ==
  IF Len(seq) = MaxRequests THEN Append(Tail(seq), t) ELSE Append(seq, t)

(* Fault: the stamp is the time read before the sleep.                     *)
StampBeforeSleep ==
  \E k \in 0..Len(stamps), late \in 0..Slack :
    /\ IsPruned(k)
    /\ stamps' = Push(SubSeq(stamps, k + 1, Len(stamps)), now)
    /\ now' = Awake(k) + late
    /\ log' = Append(log, now')

(* _wait_if_needed, as upsert_contact and batch_upsert call it.            *)
LetThrough ==
  \E k \in 0..Len(stamps), late \in 0..Slack :
    /\ IsPruned(k)
    /\ now' = Awake(k) + late
    /\ stamps' = Push(SubSeq(stamps, k + 1, Len(stamps)), now')
    /\ log' = Append(log, now')

(* output.export_hubspot makes a client for each export.                   *)
NewClient ==
  /\ stamps' = <<>>
  /\ log' = <<>>
  /\ UNCHANGED now

TimePasses ==
  /\ now' \in Nat
  /\ now' >= now
  /\ UNCHANGED <<stamps, log>>

LimiterNext == LetThrough \/ NewClient \/ TimePasses

LimiterSpec == LimiterInit /\ [][LimiterNext]_limiterVars

-----------------------------------------------------------------------------
(* Properties.                                                             *)

(* The type invariant.                                                     *)
LimiterTypeOK ==
  /\ now \in Nat
  /\ stamps \in Seq(Nat) /\ Len(stamps) <= MaxRequests
  /\ log \in Seq(Nat)

(* The deque has the latest requests of the log, which is in order; what   *)
(* it lacks of the last MAX_REQUESTS is older than the window.             *)
StampsInv ==
  /\ Len(stamps) <= Len(log)
  /\ \A i \in 1..Len(stamps) : stamps[i] = log[Len(log) - Len(stamps) + i]
  /\ \A i \in 1..Len(log) : log[i] <= now
  /\ \A i \in 1..Len(log) :
       i + MaxRequests > Len(log) /\ i + Len(stamps) <= Len(log) => log[i] + Window <= now

(* hubspot_client/__init__.py:94-98.  Of any MAX_REQUESTS + 1 requests in  *)
(* a row of one client, the last comes no sooner than WINDOW_SECONDS after *)
(* the first, whatever the pauses between them and however long the sleeps *)
(* really last: no window ever has more than MAX_REQUESTS.                 *)
WindowIsKept ==
  \A i \in 1..Len(log) :
    i + MaxRequests <= Len(log) => log[i] + Window <= log[i + MaxRequests]
=============================================================================
