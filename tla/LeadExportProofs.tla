-------------------------- MODULE LeadExportProofs --------------------------
(***************************************************************************)
(* Proofs about LeadExport, for any lists of leads, addresses and numbers. *)
(* What deduplicate makes of a list is proved by induction on the prefixes *)
(* of the list (ListsProofs).                                              *)
(***************************************************************************)
EXTENDS LeadExport, ListsProofs, TLAPS

-----------------------------------------------------------------------------
(* deduplicate.                                                            *)

(* Lead k of the list is the last of its parcel among the first n.         *)
IsLast(list, k, n) == \A m \in 1..n : list[m].apn = list[k].apn => m <= k

(* One lead for each parcel, its last.                                     *)
LastLeads(seen, list, n) ==
  /\ seen \in Seq(Lead)
  /\ \A i \in 1..Len(seen) : seen[i].apn # None
  /\ \A i, j \in 1..Len(seen) : seen[i].apn = seen[j].apn => i = j
  /\ \A i \in 1..Len(seen) : \E k \in 1..n : list[k] = seen[i] /\ IsLast(list, k, n)
  /\ \A k \in 1..n : list[k].apn # None /\ IsLast(list, k, n) =>
       \E i \in 1..Len(seen) : seen[i] = list[k]

(* f is the recursive function that Seen defines, up to n.                 *)
SeenUpTo(f, n, list) ==
  f = [i \in 0..n |-> IF i = 0 THEN <<>> ELSE Assign(f[i - 1], list[i])]

LEMMA SeenExists ==
  ASSUME NEW list
  PROVE  \A n \in Nat : \E f : SeenUpTo(f, n, list)
  <1> DEFINE T == {n \in Nat : \E f : SeenUpTo(f, n, list)}
  <1>1. 0 \in T
    <2>1. SeenUpTo([i \in 0..0 |-> <<>>], 0, list)
      BY DEF SeenUpTo
    <2> QED
      BY <2>1
  <1>2. ASSUME NEW n \in Nat, n \in T PROVE n + 1 \in T
    <2>1. PICK f : SeenUpTo(f, n, list)
      BY <1>2
    <2>2. \A i \in 0..n : f[i] = (IF i = 0 THEN <<>> ELSE Assign(f[i - 1], list[i]))
      BY <2>1 DEF SeenUpTo
    <2> DEFINE x == Assign(f[n], list[n + 1])
               g == [i \in 0..(n + 1) |-> IF i = n + 1 THEN x ELSE f[i]]
    <2>3. (\A i \in 0..n : g[i] = f[i]) /\ g[n + 1] = x
      OBVIOUS
    <2>4. g = [i \in 0..(n + 1) |-> g[i]]
      OBVIOUS
    <2> HIDE DEF g
    <2>5. \A i \in 0..(n + 1) : g[i] = (IF i = 0 THEN <<>> ELSE Assign(g[i - 1], list[i]))
      <3>1. TAKE i \in 0..(n + 1)
      <3>2. CASE i = n + 1
        <4>1. i # 0 /\ i - 1 = n /\ g[i - 1] = f[n]
          BY <2>3, <3>2
        <4> QED
          BY <2>3, <3>2, <4>1
      <3>3. CASE i # n + 1
        <4>1. i \in 0..n /\ (i # 0 => i - 1 \in 0..n)
          BY <3>3
        <4>2. g[i] = f[i] /\ (i # 0 => g[i - 1] = f[i - 1])
          BY <2>3, <4>1
        <4> QED
          BY <2>2, <4>1, <4>2
      <3> QED
        BY <3>2, <3>3
    <2>6. SeenUpTo(g, n + 1, list)
      BY <2>4, <2>5 DEF SeenUpTo
    <2> QED
      BY <2>6
  <1> HIDE DEF T
  <1>3. Nat \subseteq T
    BY <1>1, <1>2, SetInduction
  <1> QED
    BY <1>3 DEF T

(* The equations that define Seen.                                         *)
LEMMA SeenStep ==
  ASSUME NEW list, Len(list) \in Nat
  PROVE  /\ Seen(list)[0] = <<>>
         /\ \A n \in 1..Len(list) : Seen(list)[n] = Assign(Seen(list)[n - 1], list[n])
  <1>1. Seen(list) = CHOOSE f : SeenUpTo(f, Len(list), list)
    BY DEF Seen, SeenUpTo
  <1>2. SeenUpTo(Seen(list), Len(list), list)
    BY <1>1, SeenExists
  <1> DEFINE seen == Seen(list)
  <1> HIDE DEF seen
  <1>3. \A i \in 0..Len(list) : seen[i] = (IF i = 0 THEN <<>> ELSE Assign(seen[i - 1], list[i]))
    BY <1>2 DEF SeenUpTo, seen
  <1>4. 0 \in 0..Len(list) /\ \A n \in 1..Len(list) : n \in 0..Len(list) /\ n # 0
    OBVIOUS
  <1> QED
    BY <1>3, <1>4 DEF seen

(* One assignment to the dictionary.                                       *)
LEMMA AssignKeepsLast ==
  ASSUME NEW list \in Seq(Lead), NEW n \in 1..Len(list), NEW old,
         LastLeads(old, list, n - 1)
  PROVE  LastLeads(Assign(old, list[n]), list, n)
  <1> DEFINE new == Assign(old, list[n])
             lead == list[n]
  <1>0. /\ lead \in Lead /\ old \in Seq(Lead) /\ Len(old) \in Nat /\ DOMAIN old = 1..Len(old)
        /\ n \in Nat /\ \A m \in 1..(n - 1) : m \in 1..n /\ m < n
        /\ n \in 1..n /\ \A m \in 1..n : m = n \/ m \in 1..(n - 1)
    BY DEF LastLeads
  <1>1. IsLast(list, n, n)
    BY <1>0 DEF IsLast
  <1>2. \A k \in 1..(n - 1) : list[k].apn # lead.apn =>
          (IsLast(list, k, n) <=> IsLast(list, k, n - 1))
    BY <1>0 DEF IsLast
  <1>3. \A k \in 1..(n - 1) : list[k].apn = lead.apn => ~IsLast(list, k, n)
    BY <1>0 DEF IsLast
  <1>4. \A i \in 1..Len(old) :
          \E k \in 1..(n - 1) : list[k] = old[i] /\ IsLast(list, k, n - 1)
    BY DEF LastLeads
  <1>5. \A k \in 1..(n - 1) : list[k].apn # None /\ IsLast(list, k, n - 1) =>
          \E i \in 1..Len(old) : old[i] = list[k]
    BY DEF LastLeads
  <1>6. /\ \A i, j \in 1..Len(old) : old[i].apn = old[j].apn => i = j
        /\ \A i \in 1..Len(old) : old[i].apn # None
    BY DEF LastLeads
  (* What is not of this lead's parcel stays as it was.                    *)
  <1>7. \A i \in 1..Len(old) : old[i].apn # lead.apn =>
          \E k \in 1..n : list[k] = old[i] /\ IsLast(list, k, n)
    <2> SUFFICES ASSUME NEW i \in 1..Len(old), old[i].apn # lead.apn
                 PROVE  \E k \in 1..n : list[k] = old[i] /\ IsLast(list, k, n)
      OBVIOUS
    <2>1. PICK k \in 1..(n - 1) : list[k] = old[i] /\ IsLast(list, k, n - 1)
      BY <1>4
    <2>2. k \in 1..n /\ IsLast(list, k, n)
      BY <1>0, <1>2, <2>1
    <2> QED
      BY <2>1, <2>2
  <1>8. CASE lead.apn = None
    <2>1. new = old
      BY <1>8 DEF Assign
    <2>2. \A i \in 1..Len(old) : \E k \in 1..n : list[k] = old[i] /\ IsLast(list, k, n)
      BY <1>6, <1>7, <1>8
    <2>3. \A k \in 1..n : list[k].apn # None /\ IsLast(list, k, n) =>
            \E i \in 1..Len(old) : old[i] = list[k]
      <3> SUFFICES ASSUME NEW k \in 1..n, list[k].apn # None, IsLast(list, k, n)
                   PROVE  \E i \in 1..Len(old) : old[i] = list[k]
        OBVIOUS
      <3>1. k \in 1..(n - 1)
        BY <1>0, <1>8
      <3>2. IsLast(list, k, n - 1)
        BY <1>2, <1>8, <3>1
      <3> QED
        BY <1>5, <3>1, <3>2
    <2>4. LastLeads(old, list, n)
      BY <1>0, <1>6, <2>2, <2>3 DEF LastLeads
    <2> QED
      BY <2>1, <2>4
  <1>9. CASE lead.apn # None /\ \A i \in 1..Len(old) : old[i].apn # lead.apn
    <2>1. new = Append(old, lead)
      BY <1>0, <1>9 DEF Assign
    <2> HIDE DEF new, lead
    <2>2. /\ new \in Seq(Lead) /\ Len(new) = Len(old) + 1
          /\ \A i \in 1..Len(old) : new[i] = old[i]
          /\ new[Len(old) + 1] = lead
      BY <1>0, <2>1, AppendProperties
    <2>3. /\ \A i \in 1..Len(new) : i \in 1..Len(old) \/ i = Len(old) + 1
          /\ \A i \in 1..Len(old) : i \in 1..Len(new)
          /\ Len(old) + 1 \in 1..Len(new)
      BY <1>0, <2>2
    <2>4. \A i \in 1..Len(new) : new[i].apn # None
      BY <1>6, <1>9, <2>2, <2>3
    <2>5. \A i, j \in 1..Len(new) : new[i].apn = new[j].apn => i = j
      BY <1>6, <1>9, <2>2, <2>3
    <2>6. \A i \in 1..Len(new) : \E k \in 1..n : list[k] = new[i] /\ IsLast(list, k, n)
      <3>1. TAKE i \in 1..Len(new)
      <3>2. CASE i \in 1..Len(old)
        BY <1>7, <1>9, <2>2, <3>2
      <3>3. CASE i = Len(old) + 1
        BY <1>0, <1>1, <2>2, <3>3 DEF lead
      <3> QED
        BY <2>3, <3>2, <3>3
    <2>7. \A k \in 1..n : list[k].apn # None /\ IsLast(list, k, n) =>
            \E i \in 1..Len(new) : new[i] = list[k]
      <3> SUFFICES ASSUME NEW k \in 1..n, list[k].apn # None, IsLast(list, k, n)
                   PROVE  \E i \in 1..Len(new) : new[i] = list[k]
        OBVIOUS
      <3>1. CASE k = n
        BY <2>2, <2>3, <3>1 DEF lead
      <3>2. CASE k # n
        <4>1. k \in 1..(n - 1) /\ list[k].apn # lead.apn
          BY <1>0, <1>3, <3>2
        <4>2. IsLast(list, k, n - 1)
          BY <1>2, <4>1
        <4>3. PICK i \in 1..Len(old) : old[i] = list[k]
          BY <1>5, <4>1, <4>2
        <4> QED
          BY <2>2, <2>3, <4>3
      <3> QED
        BY <3>1, <3>2
    <2> QED
      BY <2>2, <2>4, <2>5, <2>6, <2>7 DEF LastLeads, new, lead
  <1>10. CASE lead.apn # None /\ \E i \in 1..Len(old) : old[i].apn = lead.apn
    <2>1. PICK p \in 1..Len(old) : old[p].apn = lead.apn
      BY <1>10
    <2>2. new = [i \in 1..Len(old) |-> IF old[i].apn = lead.apn THEN lead ELSE old[i]]
      BY <1>0, <1>10 DEF Assign
    <2> HIDE DEF new, lead
    <2>3. /\ new \in Seq(Lead) /\ Len(new) = Len(old)
          /\ \A i \in 1..Len(old) : new[i] = IF old[i].apn = lead.apn THEN lead ELSE old[i]
      BY <1>0, <2>2
    <2>4. new[p] = lead /\ \A i \in 1..Len(old) : i # p => new[i] = old[i] /\ old[i].apn # lead.apn
      BY <1>6, <2>1, <2>3
    <2>5. \A i \in 1..Len(new) : new[i].apn # None
      BY <1>6, <1>10, <2>3
    <2>6. \A i, j \in 1..Len(new) : new[i].apn = new[j].apn => i = j
      BY <1>6, <2>1, <2>3, <2>4
    <2>7. \A i \in 1..Len(new) : \E k \in 1..n : list[k] = new[i] /\ IsLast(list, k, n)
      <3>1. TAKE i \in 1..Len(new)
      <3>2. CASE i = p
        BY <1>0, <1>1, <2>4, <3>2 DEF lead
      <3>3. CASE i # p
        BY <1>7, <2>3, <2>4, <3>3
      <3> QED
        BY <3>2, <3>3
    <2>8. \A k \in 1..n : list[k].apn # None /\ IsLast(list, k, n) =>
            \E i \in 1..Len(new) : new[i] = list[k]
      <3> SUFFICES ASSUME NEW k \in 1..n, list[k].apn # None, IsLast(list, k, n)
                   PROVE  \E i \in 1..Len(new) : new[i] = list[k]
        OBVIOUS
      <3>1. CASE k = n
        BY <2>3, <2>4, <3>1 DEF lead
      <3>2. CASE k # n
        <4>1. k \in 1..(n - 1) /\ list[k].apn # lead.apn
          BY <1>0, <1>3, <3>2
        <4>2. IsLast(list, k, n - 1)
          BY <1>2, <4>1
        <4>3. PICK i \in 1..Len(old) : old[i] = list[k]
          BY <1>5, <4>1, <4>2
        <4>4. i # p
          BY <2>1, <4>1, <4>3
        <4> QED
          BY <2>3, <2>4, <4>3, <4>4
      <3> QED
        BY <3>1, <3>2
    <2> QED
      BY <2>3, <2>5, <2>6, <2>7, <2>8 DEF LastLeads, new, lead
  <1> QED
    BY <1>8, <1>9, <1>10

LEMMA DeduplicateKeepsLast ==
  ASSUME NEW list \in Seq(Lead)
  PROVE  LastLeads(Deduplicate(list), list, Len(list))
  <1> DEFINE T == {n \in Nat : n <= Len(list) => LastLeads(Seen(list)[n], list, n)}
  <1>0. Len(list) \in Nat
    OBVIOUS
  <1>1. /\ Seen(list)[0] = <<>>
        /\ \A n \in 1..Len(list) : Seen(list)[n] = Assign(Seen(list)[n - 1], list[n])
    BY <1>0, SeenStep
  <1>2. 0 \in T
    <2>1. LastLeads(<<>>, list, 0)
      BY DEF LastLeads
    <2> QED
      BY <1>1, <2>1
  <1>3. ASSUME NEW n \in 1..Len(list), n - 1 \in T PROVE n \in T
    <2>1. LastLeads(Seen(list)[n - 1], list, n - 1)
      BY <1>3
    <2>2. LastLeads(Assign(Seen(list)[n - 1], list[n]), list, n)
      BY <2>1, AssignKeepsLast
    <2>3. LastLeads(Seen(list)[n], list, n)
      BY <1>1, <2>2
    <2> QED
      BY <2>3
  <1> HIDE DEF T
  <1>4. 0..Len(list) \subseteq T
    BY <1>0, <1>2, <1>3, PrefixInduction
  <1>5. Len(list) \in T
    BY <1>0, <1>4
  <1> QED
    BY <1>5 DEF T, Deduplicate

-----------------------------------------------------------------------------
(* What an export hands out.                                               *)

(* Leads of the list, each the last of its parcel, no parcel twice.        *)
LastOfEach(handed, list) ==
  /\ handed \in Seq(Lead)
  /\ \A i, j \in 1..Len(handed) : handed[i].apn = handed[j].apn => i = j
  /\ \A i \in 1..Len(handed) :
       \E k \in 1..Len(list) : list[k] = handed[i] /\ IsLast(list, k, Len(list))

WithEmail == {l \in Lead : l.email # None}

LEMMA DeduplicateHandsOut ==
  ASSUME NEW list \in Seq(Lead)
  PROVE  LastOfEach(Deduplicate(list), list)
  BY DeduplicateKeepsLast DEF LastLeads, LastOfEach

LEMMA ContactsHandOut ==
  ASSUME NEW list \in Seq(Lead)
  PROVE  /\ LastOfEach(Contacts(list), list)
         /\ \A i \in 1..Len(Contacts(list)) : Contacts(list)[i].email \in Emails
         /\ \A k \in 1..Len(list) :
              list[k].apn # None /\ list[k].email # None /\ IsLast(list, k, Len(list)) =>
                \E i \in 1..Len(Contacts(list)) : Contacts(list)[i] = list[k]
  <1> DEFINE all == Deduplicate(list)
             contacts == Keep(all, WithEmail)
  <1>1. Contacts(list) = contacts
    BY DEF Contacts, WithEmail
  <1>2. LastLeads(all, list, Len(list)) /\ all \in Seq(Lead)
    BY DeduplicateKeepsLast DEF LastLeads
  <1> HIDE DEF all
  <1>3. contacts \in Seq(Lead \cap WithEmail)
    BY <1>2, KeepType
  <1>4. {contacts[i] : i \in 1..Len(contacts)} = {all[i] : i \in 1..Len(all)} \cap WithEmail
    BY <1>2, KeepRange
  <1>5. \A i, j \in 1..Len(contacts) : i < j =>
          \E p, q \in 1..Len(all) : p < q /\ contacts[i] = all[p] /\ contacts[j] = all[q]
    BY <1>2, KeepOrder
  <1> HIDE DEF contacts
  <1>6. contacts \in Seq(Lead) /\ Len(contacts) \in Nat /\ Len(all) \in Nat
    BY <1>2, <1>3
  <1>7. \A i, j \in 1..Len(all) : all[i].apn = all[j].apn => i = j
    BY <1>2 DEF LastLeads
  <1>8. ASSUME NEW i \in 1..Len(contacts), NEW j \in 1..Len(contacts), i < j
        PROVE  contacts[i].apn # contacts[j].apn
    <2>1. PICK p \in 1..Len(all), q \in 1..Len(all) :
            p < q /\ contacts[i] = all[p] /\ contacts[j] = all[q]
      BY <1>5, <1>8
    <2>2. p # q
      BY <1>6, <2>1
    <2> QED
      BY <1>7, <2>1, <2>2
  <1>9. \A i, j \in 1..Len(contacts) : contacts[i].apn = contacts[j].apn => i = j
    <2> SUFFICES ASSUME NEW i \in 1..Len(contacts), NEW j \in 1..Len(contacts), i # j
                 PROVE  contacts[i].apn # contacts[j].apn
      OBVIOUS
    <2>1. i < j \/ j < i
      BY <1>6
    <2> QED
      BY <1>8, <2>1
  <1>10. \A i \in 1..Len(contacts) :
           \E k \in 1..Len(list) : list[k] = contacts[i] /\ IsLast(list, k, Len(list))
    <2>1. TAKE i \in 1..Len(contacts)
    <2>2. PICK p \in 1..Len(all) : contacts[i] = all[p]
      BY <1>4
    <2> QED
      BY <1>2, <2>2 DEF LastLeads
  <1>11. \A i \in 1..Len(contacts) : contacts[i].email \in Emails
    <2>1. TAKE i \in 1..Len(contacts)
    <2>2. contacts[i] \in Lead \cap WithEmail
      BY <1>3
    <2> QED
      BY <2>2 DEF WithEmail, Lead
  <1>12. ASSUME NEW k \in 1..Len(list), list[k].apn # None, list[k].email # None,
                IsLast(list, k, Len(list))
         PROVE  \E i \in 1..Len(contacts) : contacts[i] = list[k]
    <2>1. PICK p \in 1..Len(all) : all[p] = list[k]
      BY <1>2, <1>12 DEF LastLeads
    <2>2. all[p] \in WithEmail
      BY <1>12, <2>1 DEF WithEmail
    <2> QED
      BY <1>4, <2>1, <2>2
  <1> QED
    BY <1>1, <1>6, <1>9, <1>10, <1>11, <1>12 DEF LastOfEach

-----------------------------------------------------------------------------
(* The inductive invariant: what the request being served has come to.     *)

RequestInv ==
  /\ at = "idle" => leads = <<>>
  /\ at \in {"idle", "upsert"} => report = "none" /\ out = <<>>
  /\ out \in {<<>>, Deduplicate(leads), Contacts(leads)}
  /\ report = "file" => out = Deduplicate(leads)
  /\ report = "ok" => out = Contacts(leads)

ExportInv == TypeOK /\ OnlyEmptyExportsLeak /\ RequestInv

LEMMA InitExport == Init => ExportInv
  <1> SUFFICES ASSUME Init PROVE ExportInv
    OBVIOUS
  <1>1. TypeOK
    BY MaxOpenAssumption DEF Init, TypeOK, Replies
  <1>2. RequestInv
    BY DEF Init, RequestInv
  <1> QED
    BY <1>1, <1>2 DEF Init, ExportInv, OnlyEmptyExportsLeak

LEMMA RequestsAreLists == ASSUME TypeOK PROVE leads \in Seq(Lead)
  <1>1. leads \in Requests \/ leads = <<>>
    BY DEF TypeOK
  <1>2. CASE leads = <<>>
    BY <1>2, EmptySeq
  <1>3. CASE leads \in Requests
    BY <1>3, RequestsAssumption
  <1> QED
    BY <1>1, <1>2, <1>3

IsDncList(list) == \A digits \in list : digits \in Seq(0..9) /\ Len(digits) = 10

(* What a number is normalised to, if it is, are ten digits.               *)
LEMMA NormalisedIsTen ==
  ASSUME NEW phone \in Phones, NormalisePhone(phone) # None
  PROVE  NormalisePhone(phone) \in Seq(0..9) /\ Len(NormalisePhone(phone)) = 10
  <1>1. phone.digits \in Seq(0..9)
    BY PhonesAssumption DEF Phone
  <1>2. NormalisePhone(phone) = WithoutCode(phone.digits) /\ Len(WithoutCode(phone.digits)) = 10
    BY DEF NormalisePhone
  <1>3. WithoutCode(phone.digits) \in Seq(0..9)
    BY <1>1 DEF WithoutCode
  <1> QED
    BY <1>2, <1>3

(* The settings and the list of numbers.                                   *)
LEMMA SettingsKeep ==
  ASSUME ExportInv, at = "idle", UNCHANGED <<open, at, request, empties>>,
         token' \in {"none", "good", "bad"},
         IsDncList(dnc'), asked' \subseteq Numbers
  PROVE  ExportInv'
  <1>1. leads' = leads /\ report' = report /\ out' = out
    BY DEF request
  <1>2. TypeOK'
    BY <1>1 DEF ExportInv, TypeOK, IsDncList
  <1>3. RequestInv'
    BY <1>1 DEF ExportInv, RequestInv
  <1> QED
    BY <1>2, <1>3 DEF ExportInv, OnlyEmptyExportsLeak

LEMMA NumbersKeep == ASSUME ExportInv, AddNumber \/ RemoveNumber PROVE ExportInv'
  <1>1. /\ at = "idle" /\ UNCHANGED <<token, open, at, request, empties>>
        /\ token \in {"none", "good", "bad"}
        /\ IsDncList(dnc) /\ asked \subseteq Numbers
    BY DEF AddNumber, RemoveNumber, ExportInv, TypeOK, IsDncList
  <1>2. PICK phone \in Phones :
          /\ NormalisePhone(phone) # None
          /\ \/ /\ dnc' = dnc \cup {NormalisePhone(phone)}
                /\ asked' = asked \cup {phone.number}
             \/ /\ dnc' = dnc \ {NormalisePhone(phone)}
                /\ asked' = asked \ {phone.number}
    BY DEF AddNumber, RemoveNumber
  <1>3. IsDncList({NormalisePhone(phone)}) /\ phone.number \in Numbers
    BY <1>2, NormalisedIsTen, PhonesAssumption DEF IsDncList, Phone
  <1>4. IsDncList(dnc') /\ asked' \subseteq Numbers
    BY <1>1, <1>2, <1>3 DEF IsDncList
  <1> QED
    BY <1>1, <1>4, SettingsKeep

LEMMA SetTokenKeeps == ASSUME ExportInv, SetToken PROVE ExportInv'
  BY SettingsKeep DEF SetToken, ExportInv, TypeOK, IsDncList

LEMMA ExportFileKeeps == ASSUME ExportInv, ExportFile PROVE ExportInv'
  <1>1. /\ at = "idle" /\ at' = "done" /\ leads' \in Requests
        /\ out' = Deduplicate(leads') /\ report' = "file"
        /\ UNCHANGED <<token, dnc, open, asked, empties>>
    BY DEF ExportFile, Respond
  <1>2. leads' \in Seq(Lead)
    BY <1>1, RequestsAssumption
  <1>3. out' \in Seq(Lead)
    BY <1>1, <1>2, DeduplicateHandsOut DEF LastOfEach
  <1>4. TypeOK'
    BY <1>1, <1>3 DEF ExportInv, TypeOK, Replies
  <1>5. RequestInv'
    BY <1>1 DEF RequestInv
  <1>6. OnlyEmptyExportsLeak'
    BY <1>1 DEF ExportInv, OnlyEmptyExportsLeak
  <1> QED
    BY <1>4, <1>5, <1>6 DEF ExportInv

LEMMA ExportHubspotKeeps == ASSUME ExportInv, ExportHubspot PROVE ExportInv'
  <1> USE MaxOpenAssumption
  <1>1. /\ at = "idle" /\ leads' \in Requests
        /\ UNCHANGED <<token, dnc, out, asked>>
    BY DEF ExportHubspot
  <1>2. out = <<>> /\ report = "none" /\ open = empties
    BY <1>1 DEF ExportInv, RequestInv, OnlyEmptyExportsLeak, TypeOK
  <1>3. \/ /\ report' = "validation" /\ at' = "done"
           /\ UNCHANGED <<open, empties>>
        \/ /\ report' = "validation" /\ at' = "done"
           /\ open < MaxOpen /\ open' = open + 1 /\ empties' = empties + 1
        \/ /\ token # "none" /\ at' = "upsert" /\ UNCHANGED <<report, empties>>
           /\ open < MaxOpen /\ open' = open + 1
    BY DEF ExportHubspot, Respond
  <1>4. TypeOK'
    BY <1>1, <1>2, <1>3 DEF ExportInv, TypeOK, Replies
  <1>5. RequestInv'
    BY <1>1, <1>2, <1>3 DEF RequestInv
  <1>6. OnlyEmptyExportsLeak'
    BY <1>1, <1>2, <1>3 DEF ExportInv, OnlyEmptyExportsLeak, TypeOK
  <1> QED
    BY <1>4, <1>5, <1>6 DEF ExportInv

(* An attempt at the upsert ends, with the client closed.                  *)
LEMMA UpsertEnds ==
  ASSUME ExportInv, at = "upsert",
         NEW reply \in Replies, RespondAndClose(reply),
         UNCHANGED <<token, dnc, leads, asked, empties>>,
         out' \in {<<>>, Contacts(leads)},
         reply # "file", reply = "ok" => out' = Contacts(leads)
  PROVE  ExportInv'
  <1>1. report' = reply /\ at' = "done" /\ open' = open - 1
    BY DEF RespondAndClose, Respond
  <1>2. /\ leads \in Seq(Lead) /\ open \in 0..MaxOpen /\ open > 0 /\ empties \in 0..MaxOpen
        /\ open = empties + 1
    BY RequestsAreLists DEF ExportInv, TypeOK, OnlyEmptyExportsLeak
  <1>4. out' \in Seq(Lead)
    <2>1. Contacts(leads) \in Seq(Lead)
      BY <1>2, ContactsHandOut DEF LastOfEach
    <2>2. <<>> \in Seq(Lead)
      BY EmptySeq
    <2>3. out' = <<>> \/ out' = Contacts(leads)
      OBVIOUS
    <2> QED
      BY <2>1, <2>2, <2>3
  <1>5. TypeOK'
    <2>1. open' \in 0..MaxOpen
      BY <1>1, <1>2, MaxOpenAssumption
    <2> QED
      BY <1>1, <1>4, <2>1 DEF ExportInv, TypeOK
  <1>6. RequestInv'
    BY <1>1 DEF RequestInv
  <1>7. OnlyEmptyExportsLeak'
    BY <1>1, <1>2 DEF ExportInv, OnlyEmptyExportsLeak
  <1> QED
    BY <1>5, <1>6, <1>7 DEF ExportInv

LEMMA NothingToSendKeeps == ASSUME ExportInv, NothingToSend PROVE ExportInv'
  <1>1. /\ at = "upsert" /\ RespondAndClose("ok")
        /\ UNCHANGED <<token, dnc, leads, out, asked, empties>>
    BY DEF NothingToSend
  <1>2. out = <<>> /\ Contacts(leads) = <<>> /\ "ok" \in Replies
    BY <1>1 DEF NothingToSend, ExportInv, RequestInv, Replies
  <1> QED
    BY <1>1, <1>2, UpsertEnds

LEMMA BatchUpsertKeeps == ASSUME ExportInv, BatchUpsert PROVE ExportInv'
  BY UpsertEnds DEF BatchUpsert, Replies

LEMMA BatchFailsKeeps == ASSUME ExportInv, BatchFails PROVE ExportInv'
  <1>1. PICK reply \in Replies \ {"file", "ok"} : RespondAndClose(reply)
    BY DEF BatchFails, Replies
  <1> QED
    BY <1>1, UpsertEnds DEF BatchFails

LEMMA ReplyKeeps == ASSUME ExportInv, Reply PROVE ExportInv'
  <1>1. /\ at = "done" /\ at' = "idle" /\ leads' = <<>> /\ report' = "none" /\ out' = <<>>
        /\ UNCHANGED <<token, dnc, open, asked, empties>>
    BY DEF Reply
  <1>2. TypeOK'
    BY <1>1 DEF ExportInv, TypeOK, Replies
  <1>3. RequestInv'
    BY <1>1 DEF RequestInv
  <1> QED
    BY <1>1, <1>2, <1>3 DEF ExportInv, OnlyEmptyExportsLeak

LEMMA NextExport == ExportInv /\ [Next]_vars => ExportInv'
  <1>1. ExportInv /\ UNCHANGED vars => ExportInv'
    BY DEF vars, request, ExportInv, TypeOK, OnlyEmptyExportsLeak, RequestInv
  <1> QED
    BY <1>1, NumbersKeep, SetTokenKeeps, ExportFileKeeps, ExportHubspotKeeps,
       NothingToSendKeeps, BatchUpsertKeeps, BatchFailsKeeps, ReplyKeeps DEF Next

LEMMA ExportInvariance == Spec => []ExportInv
  BY InitExport, NextExport, PTL DEF Spec

-----------------------------------------------------------------------------
(* The state stays well formed, and every export's client is closed but    *)
(* those of the exports without leads.                                     *)
THEOREM ExportTypeCorrect == Spec => []IInv
  <1>1. ExportInv => IInv
    BY DEF ExportInv, IInv
  <1> QED
    BY <1>1, ExportInvariance, PTL

(* Of every parcel an export hands out the last lead of the request, no    *)
(* parcel twice and none left out, whatever the list.                      *)
THEOREM LastLeadsAreExported == Spec => []LastLeadIsExported
  <1>1. ExportInv => LastLeadIsExported
    <2> SUFFICES ASSUME ExportInv PROVE LastLeadIsExported
      OBVIOUS
    <2>1. leads \in Seq(Lead) /\ out \in Seq(Lead)
      BY RequestsAreLists DEF ExportInv, TypeOK
    <2>2. LastOfEach(<<>>, leads)
      BY DEF LastOfEach
    <2>3. LastOfEach(out, leads)
      BY <2>1, <2>2, DeduplicateHandsOut, ContactsHandOut DEF ExportInv, RequestInv
    <2>4. DOMAIN out = 1..Len(out) /\ DOMAIN leads = 1..Len(leads)
      BY <2>1
    <2>5. \A k \in DOMAIN leads : IsLastOfParcel(k) <=> IsLast(leads, k, Len(leads))
      BY <2>4 DEF IsLastOfParcel, IsLast
    <2>6. \A i \in DOMAIN out : \A j \in DOMAIN out : out[i].apn = out[j].apn => i = j
      BY <2>3, <2>4 DEF LastOfEach
    <2>7. \A i \in DOMAIN out :
            \E k \in DOMAIN leads : leads[k] = out[i] /\ IsLastOfParcel(k)
      BY <2>3, <2>4, <2>5 DEF LastOfEach
    <2>8. ASSUME NEW k \in DOMAIN leads, leads[k].apn # None, IsLastOfParcel(k),
                 \/ report = "file"
                 \/ report = "ok" /\ leads[k].email # None
          PROVE  \E i \in DOMAIN out : out[i] = leads[k]
      <3>1. IsLast(leads, k, Len(leads)) /\ k \in 1..Len(leads)
        BY <2>4, <2>5, <2>8
      <3>2. CASE report = "file"
        <4>1. out = Deduplicate(leads)
          BY <3>2 DEF ExportInv, RequestInv
        <4>2. LastLeads(out, leads, Len(leads))
          BY <2>1, <4>1, DeduplicateKeepsLast
        <4>3. \E i \in 1..Len(out) : out[i] = leads[k]
          BY <2>8, <3>1, <4>2 DEF LastLeads
        <4> QED
          BY <2>4, <4>3
      <3>3. CASE report = "ok" /\ leads[k].email # None
        <4>1. out = Contacts(leads)
          BY <3>3 DEF ExportInv, RequestInv
        <4> QED
          BY <2>1, <2>4, <2>8, <3>1, <3>3, <4>1, ContactsHandOut
      <3> QED
        BY <2>8, <3>2, <3>3
    <2> QED
      BY <2>6, <2>7, <2>8 DEF LastLeadIsExported
  <1> QED
    BY <1>1, ExportInvariance, PTL

(* Every client is closed, but for those of the requests without leads.    *)
THEOREM ClientsAreClosed == Spec => []OnlyEmptyExportsLeak
  <1>1. ExportInv => OnlyEmptyExportsLeak
    BY DEF ExportInv
  <1> QED
    BY <1>1, ExportInvariance, PTL
=============================================================================
