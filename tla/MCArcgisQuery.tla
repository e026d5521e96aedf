--------------------------- MODULE MCArcgisQuery ---------------------------
(* Two counties; RETRY_BACKOFF and the window are scaled down, and a float *)
(* overflows after few failures.                                           *)
EXTENDS ArcgisQuery

CONSTANTS orange, la

MCDomains == {orange, la}
MCBackoff == <<1, 2>>
=============================================================================
