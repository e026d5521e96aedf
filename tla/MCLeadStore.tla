---------------------------- MODULE MCLeadStore ----------------------------
(* Small instances of LeadStore for TLC: two processes; files that save,   *)
(* that name one owner twice, that fail at the first or at a later record, *)
(* and one with no records.                                                *)
EXTENDS LeadStore

CONSTANTS p, q, a, b, o, n

MCProcs  == {p, q}
MCApns   == {a, b}
MCOwners == {o}
MCPhones == {n}

Good(apn, owner) == [apn |-> apn, owner |-> owner, bad |-> FALSE]
Bad(apn, owner)  == [apn |-> apn, owner |-> owner, bad |-> TRUE]

MCFiles == {<<>>, <<Bad(a, o)>>, <<Good(a, o), Bad(b, o)>>,
            <<Good(a, o), Good(b, None), Good(a, o)>>}
=============================================================================
