---------------------------- MODULE MCLeadExport ----------------------------
(* All lists of up to three leads, of two parcels or none, some of which   *)
(* share an e-mail address or have none.  One number is written in seven   *)
(* ways: bare, with the country's code, with it and a plus, with 11, as    *)
(* from abroad, and with extensions of one and two digits.  Another number *)
(* is British.                                                             *)
EXTENDS LeadExport

CONSTANTS a, b, e, f, n, m

MCApns    == {a, b}
MCEmails  == {e, f}
MCNumbers == {n, m}

Ten == <<9, 4, 9, 5, 5, 5, 1, 2, 3, 4>>

Us(plus, prefix, extension) ==
  [plus |-> plus, digits |-> prefix \o Ten \o extension, number |-> n]
Bare    == Us(FALSE, <<>>, <<>>)
British == [plus |-> TRUE, digits |-> <<4, 4, 2, 0, 7, 9, 4, 6, 0, 9, 5, 8>>, number |-> m]

MCPhones ==
  {Bare, Us(FALSE, <<1>>, <<>>), Us(TRUE, <<1>>, <<>>), Us(FALSE, <<1, 1>>, <<>>),
   Us(FALSE, <<0, 1, 1, 1>>, <<>>), Us(FALSE, <<>>, <<5>>), Us(FALSE, <<1>>, <<1, 2>>),
   British}

L(apn, email, phone) == [apn |-> apn, email |-> email, phone |-> phone]

MCLeads    == {L(a, e, Us(TRUE, <<1>>, <<>>)), L(a, f, Bare), L(b, e, Bare),
               L(b, None, British), L(None, f, Bare)}
MCRequests == UNION {[1..k -> MCLeads] : k \in 0..3}
=============================================================================
