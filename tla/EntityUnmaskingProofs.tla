----------------------- MODULE EntityUnmaskingProofs -----------------------
(***************************************************************************)
(* Proofs about EntityUnmasking, for all providers and keys.  Its steps    *)
(* outside a request are those of Credentials; a request writes none of    *)
(* their variables, and only the end of the process crosses both.          *)
(***************************************************************************)
EXTENDS EntityUnmasking, TLAPS

-----------------------------------------------------------------------------
(* The credential store.                                                   *)

CredentialIInv == CredentialTypeOK /\ MigrationInv /\ ConfirmedKeyIsKept

StoreTypes ==
  /\ keychain \in [Providers -> Keys \cup {None}]
  /\ file \in [Providers -> Keys \cup {None}]
  /\ kept \in [Providers -> Keys \cup {None}]
  /\ doubt \subseteq Providers

-----------------------------------------------------------------------------
(* Masks.                                                                  *)

LEMMA MaskType ==
  ASSUME NEW v \in ApiKeys
  PROVE  Mask(v) \in Masks \cup {Empty}
  BY DEF ApiKeys, Mask, Masks

LEMMA RowValueType ==
  ASSUME NEW v \in ApiKeys
  PROVE  RowValue(v) \in ApiKeys
  BY MaskType, ShortAssumption DEF RowValue, ApiKeys

-----------------------------------------------------------------------------
(* store_credential, whatever fails in it: unless the file fails, a key    *)
(* that was confirmed before is still there, and so is one confirmed now.  *)
LEMMA StoreKeeps ==
  ASSUME StoreTypes, ConfirmedKeyIsKept,
         NEW p \in Providers, NEW k \in Keys, NEW stored \in BOOLEAN,
         StoreCredential(p, k, stored)
  PROVE  /\ StoreTypes' /\ ConfirmedKeyIsKept'
         /\ stored => kept'[p] = k
         /\ \A q \in Providers \ {p} : kept'[q] = kept[q]
  <1>1. CASE stored /\ InKeychain(p, k)
    BY <1>1 DEF InKeychain, Confirm, Stored, StoreTypes, ConfirmedKeyIsKept
  <1>2. CASE InFile(p, k, stored)
    <2>1. CASE file' = [file EXCEPT ![p] = k] /\ Stored(p)
      BY <1>2, <2>1 DEF InFile, Confirm, Stored, StoreTypes, ConfirmedKeyIsKept
    <2>2. CASE file' = Only(p, k) /\ doubt' = Providers \ {p}
      BY <1>2, <2>2 DEF InFile, Only, Confirm, StoreTypes, ConfirmedKeyIsKept
    <2> QED
      BY <1>2, <2>1, <2>2 DEF InFile
  <1>3. CASE ~stored /\ CutShort
    BY <1>3 DEF CutShort, StoreTypes, ConfirmedKeyIsKept
  <1>4. CASE ~stored /\ UNCHANGED <<stores, kept, doubt>>
    BY <1>4 DEF stores, StoreTypes, ConfirmedKeyIsKept
  <1> QED
    BY <1>1, <1>2, <1>3, <1>4 DEF StoreCredential

LEMMA UnchangedStores ==
  ASSUME StoreTypes, ConfirmedKeyIsKept, UNCHANGED <<stores, kept, doubt>>
  PROVE  StoreTypes' /\ ConfirmedKeyIsKept'
  BY DEF stores, StoreTypes, ConfirmedKeyIsKept

LEMMA InitCredentials == CredentialInit => CredentialIInv
  BY DEF CredentialInit, CredentialIInv, CredentialTypeOK, MigrationInv, ConfirmedKeyIsKept, ApiKeys, NoRequest

LEMMA SetKeyKeeps ==
  ASSUME CredentialIInv, NEW p \in Providers, SetKey(p)
  PROVE  CredentialIInv'
  <1>1. PICK v \in ApiKeys : req' = [provider |-> p, api |-> v]
    BY DEF SetKey
  <1>2. CredentialTypeOK'
    BY <1>1 DEF SetKey, stores, CredentialIInv, CredentialTypeOK
  <1>3. req' # NoRequest
    BY <1>1, NoneAssumption DEF NoRequest
  <1>4. MigrationInv'
    BY <1>3 DEF SetKey, CredentialIInv, MigrationInv
  <1> QED
    BY <1>2, <1>4 DEF SetKey, stores, CredentialIInv, ConfirmedKeyIsKept

LEMMA StoreKeyKeeps == CredentialIInv /\ StoreKey => CredentialIInv'
  <1> SUFFICES ASSUME CredentialIInv, StoreKey PROVE CredentialIInv'
    OBVIOUS
  <1>0. StoreTypes /\ ConfirmedKeyIsKept /\ masked = {} /\ todo = {} /\ req # NoRequest
    BY DEF StoreKey, CredentialIInv, CredentialTypeOK, MigrationInv, StoreTypes
  <1>1. req.provider \in Providers
    BY <1>0 DEF CredentialIInv, CredentialTypeOK
  <1>2. StoreTypes' /\ ConfirmedKeyIsKept'
    BY <1>0, <1>1, StoreKeeps, UnchangedStores DEF StoreKey
  <1>3. CredentialTypeOK'
    BY <1>2 DEF StoreKey, StoreTypes, CredentialIInv, CredentialTypeOK
  <1>4. MigrationInv'
    BY <1>0 DEF StoreKey, MigrationInv
  <1> QED
    BY <1>2, <1>3, <1>4 DEF CredentialIInv

LEMMA WriteRowKeeps == CredentialIInv /\ WriteRow => CredentialIInv'
  <1> SUFFICES ASSUME CredentialIInv, WriteRow PROVE CredentialIInv'
    OBVIOUS
  <1>0. masked = {} /\ todo = {} /\ req # NoRequest
    BY DEF WriteRow, CredentialIInv, MigrationInv
  <1>1. req.provider \in Providers /\ RowValue(req.api) \in ApiKeys
    BY <1>0, RowValueType DEF CredentialIInv, CredentialTypeOK
  <1>2. row' \in [Providers -> ApiKeys \cup {None}]
    BY <1>1 DEF WriteRow, CredentialIInv, CredentialTypeOK
  <1>3. CredentialTypeOK'
    BY <1>2 DEF WriteRow, stores, CredentialIInv, CredentialTypeOK
  <1>4. MigrationInv'
    BY <1>0 DEF WriteRow, MigrationInv
  <1> QED
    BY <1>3, <1>4 DEF WriteRow, stores, CredentialIInv, ConfirmedKeyIsKept

LEMMA StartKeeps == CredentialIInv /\ Start => CredentialIInv'
  <1> SUFFICES ASSUME CredentialIInv, Start PROVE CredentialIInv'
    OBVIOUS
  <1>1. CredentialTypeOK'
    BY DEF Start, stores, CredentialIInv, CredentialTypeOK
  <1>2. MigrationInv'
    BY DEF Start, CredentialIInv, MigrationInv
  <1> QED
    BY <1>1, <1>2 DEF Start, stores, CredentialIInv, ConfirmedKeyIsKept

(* The row that is moved is masked only after its own key was confirmed.   *)
LEMMA MigrateRowKeeps ==
  ASSUME CredentialIInv, NEW p \in Providers, MigrateRow(p)
  PROVE  CredentialIInv'
  <1>0. PICK stored \in BOOLEAN :
          /\ StoreCredential(p, row[p], stored)
          /\ masked' = IF stored THEN masked \cup {p} ELSE masked
    BY DEF MigrateRow
  <1>1. StoreTypes /\ ConfirmedKeyIsKept /\ row[p] \in Keys /\ p \notin masked
    BY DEF MigrateRow, CredentialIInv, CredentialTypeOK, MigrationInv, StoreTypes
  <1>2. /\ StoreTypes' /\ ConfirmedKeyIsKept'
        /\ stored => kept'[p] = row[p]
        /\ \A q \in Providers \ {p} : kept'[q] = kept[q]
    BY <1>0, <1>1, StoreKeeps
  <1>3. CredentialTypeOK'
    BY <1>0, <1>2 DEF MigrateRow, StoreTypes, CredentialIInv, CredentialTypeOK
  <1>4. MigrationInv'
    BY <1>0, <1>1, <1>2 DEF MigrateRow, CredentialIInv, CredentialTypeOK, MigrationInv
  <1> QED
    BY <1>2, <1>3, <1>4 DEF CredentialIInv

LEMMA CommitMasksKeeps == CredentialIInv /\ CommitMasks => CredentialIInv'
  <1> SUFFICES ASSUME CredentialIInv, CommitMasks PROVE CredentialIInv'
    OBVIOUS
  <1>1. Stars \in ApiKeys
    BY DEF Stars, ApiKeys, Masks
  <1>2. \A p \in masked : Mask(row[p]) \in ApiKeys
    BY MaskType DEF CredentialIInv, MigrationInv, ApiKeys
  <1>3. row' \in [Providers -> ApiKeys \cup {None}]
    BY <1>1, <1>2 DEF CommitMasks, CredentialIInv, CredentialTypeOK
  <1>4. CredentialTypeOK'
    BY <1>3 DEF CommitMasks, stores, CredentialIInv, CredentialTypeOK
  <1>5. MigrationInv'
    BY DEF CommitMasks, MigrationInv
  <1> QED
    BY <1>4, <1>5 DEF CommitMasks, stores, CredentialIInv, ConfirmedKeyIsKept

LEMMA StopKeeps == CredentialIInv /\ Stop => CredentialIInv'
  <1> SUFFICES ASSUME CredentialIInv, Stop PROVE CredentialIInv'
    OBVIOUS
  <1>0. StoreTypes /\ ConfirmedKeyIsKept
    BY DEF CredentialIInv, CredentialTypeOK, StoreTypes
  <1>1. StoreTypes' /\ ConfirmedKeyIsKept'
    <2>1. CASE CutShort
      BY <1>0, <2>1 DEF CutShort, StoreTypes, ConfirmedKeyIsKept
    <2>2. CASE UNCHANGED <<stores, kept, doubt>>
      BY <1>0, <2>2, UnchangedStores
    <2> QED
      BY <2>1, <2>2 DEF Stop
  <1>2. CredentialTypeOK'
    BY <1>1 DEF Stop, StoreTypes, CredentialIInv, CredentialTypeOK
  <1>3. MigrationInv'
    BY DEF Stop, MigrationInv
  <1> QED
    BY <1>1, <1>2, <1>3 DEF CredentialIInv

LEMMA CredentialStep == CredentialIInv /\ [CredentialNext]_credentialVars => CredentialIInv'
  <1>1. CredentialIInv /\ UNCHANGED credentialVars => CredentialIInv'
    BY DEF credentialVars, stores, CredentialIInv, CredentialTypeOK, MigrationInv,
           ConfirmedKeyIsKept
  <1> QED
    BY <1>1, SetKeyKeeps, StoreKeyKeeps, WriteRowKeeps, StartKeeps, MigrateRowKeeps,
       CommitMasksKeeps, StopKeeps
    DEF CredentialNext

(* A row loses its whole key to a client, or to the key's own copy.        *)
LEMMA MaskStep ==
  ASSUME CredentialIInv, [CredentialNext]_credentialVars, NEW p \in Providers,
         row[p] \in Keys, row'[p] # row[p]
  PROVE  req.provider = p \/ kept[p] = row[p]
  <1>1. CASE WriteRow
    BY <1>1 DEF WriteRow, CredentialIInv, CredentialTypeOK
  <1>2. CASE CommitMasks
    <2>1. p \in masked
      BY <1>2 DEF CommitMasks
    <2> QED
      BY <2>1 DEF CredentialIInv, MigrationInv
  <1>3. CASE StoreKey \/ Start \/ Stop
    BY <1>3 DEF StoreKey, Start, Stop
  <1>4. ASSUME NEW q \in Providers, SetKey(q) \/ MigrateRow(q)
        PROVE  UNCHANGED row
    BY <1>4 DEF SetKey, MigrateRow
  <1>5. CASE UNCHANGED credentialVars
    BY <1>5 DEF credentialVars
  <1> QED
    BY <1>1, <1>2, <1>3, <1>4, <1>5 DEF CredentialNext

(* credentials.py:48, between the requests of the LLM.  A key that was     *)
(* confirmed since the file last failed stays in one of the two stores.    *)
THEOREM KeysAreKept == CredentialSpec => []ConfirmedKeyIsKept
  <1>1. CredentialIInv => ConfirmedKeyIsKept
    BY DEF CredentialIInv
  <1> QED
    BY <1>1, InitCredentials, CredentialStep, PTL DEF CredentialSpec

-----------------------------------------------------------------------------
(* A request.                                                              *)

(* There is no file before the download, and none between the requests.    *)
Progress == at \in {"idle", "search", "download"} => pdf = "none"

Answers == [name : {"none", "owner", "principal"},
            status : {"none", "found", "not_found", "error", "failed"}]

RequestIInv == UnmaskInv /\ Progress /\ WholeFileIsRemoved

-----------------------------------------------------------------------------
(* The LLM client is that of the first active provider.                    *)
LEMMA ClientType ==
  ASSUME CredentialTypeOK, NEW c \in Clients
  PROVE  c \in [provider : Providers, api : ApiKeys] \cup {NoClient}
  <1>1. CASE Active = {}
    BY <1>1 DEF Clients
  <1>2. CASE Active # {}
    <2>1. Active \in (SUBSET Providers) \ {{}}
      BY <1>2 DEF Active
    <2>2. \E p \in Active : \A q \in Active : Rank[p] <= Rank[q]
      BY <2>1, RankAssumption
    <2>3. First \in Active
      BY <2>2 DEF First
    <2>4. First \in Providers /\ row[First] \in ApiKeys
      BY <2>3 DEF Active, CredentialTypeOK
    <2> QED
      BY <2>4 DEF Clients
  <1> QED
    BY <1>1, <1>2

LEMMA UnmaskKeeps == CredentialTypeOK /\ RequestIInv /\ Unmask /\ UNCHANGED pc => RequestIInv'
  <1> SUFFICES ASSUME CredentialTypeOK, RequestIInv, Unmask, UNCHANGED pc PROVE RequestIInv'
    OBVIOUS
  <1>0. PICK entity \in BOOLEAN, c \in Clients, complete \in BOOLEAN :
          /\ client' = c
          /\ \/ /\ complete /\ entity /\ c # NoClient
                /\ answer' = NoAnswer
                /\ Goto("search")
             \/ /\ complete /\ entity /\ c = NoClient
                /\ Respond("none", "none")
             \/ /\ complete /\ ~entity
                /\ Respond("owner", "none")
             \/ /\ ClientRaises \/ ~complete
                /\ Respond("none", "failed")
    BY DEF Unmask
  <1>1. at = "idle" /\ pc = "idle" /\ pdf' = "none"
    BY DEF Unmask, RequestIInv, Progress
  <1>2. c \in [provider : Providers, api : ApiKeys] \cup {NoClient}
    BY ClientType
  <1>3. answer' \in Answers
    BY <1>0 DEF Goto, Respond, NoAnswer, Answers
  <1>4. at' \in {"search", "done"} /\ (at' = "search" => c # NoClient)
    BY <1>0 DEF Goto, Respond
  <1>5. UnmaskInv'
    BY <1>0, <1>1, <1>2, <1>3, <1>4 DEF UnmaskInv, Answers, RequestIInv
  <1>6. Progress' /\ WholeFileIsRemoved'
    BY <1>1, <1>4 DEF Progress, WholeFileIsRemoved
  <1> QED
    BY <1>5, <1>6 DEF RequestIInv

LEMMA SearchSosKeeps == RequestIInv /\ SearchSos /\ UNCHANGED pc => RequestIInv'
  <1> SUFFICES ASSUME RequestIInv, SearchSos, UNCHANGED pc PROVE RequestIInv'
    OBVIOUS
  <1>1. answer' \in Answers /\ at' \in {"download", "done"}
    BY DEF SearchSos, Goto, Respond, RequestIInv, UnmaskInv, Answers
  <1>2. at = "search" /\ client' = client /\ pdf' = "none"
    BY DEF SearchSos, RequestIInv, UnmaskInv, Progress
  <1>3. UnmaskInv'
    BY <1>1, <1>2 DEF UnmaskInv, Answers, RequestIInv
  <1> QED
    BY <1>1, <1>2, <1>3 DEF RequestIInv, Progress, WholeFileIsRemoved

(* The file that is handed to the parser is whole; a failure leaves none   *)
(* or a part of one.                                                       *)
LEMMA DownloadPdfKeeps == RequestIInv /\ DownloadPdf /\ UNCHANGED pc => RequestIInv'
  <1> SUFFICES ASSUME RequestIInv, DownloadPdf, UNCHANGED pc PROVE RequestIInv'
    OBVIOUS
  <1>0. at = "download" /\ client' = client /\ pdf = "none"
    BY DEF DownloadPdf, RequestIInv, UnmaskInv, Progress
  <1>1. answer' \in Answers
    BY DEF DownloadPdf, Goto, Respond, RequestIInv, UnmaskInv, Answers
  <1>2. \/ at' = "parse" /\ pdf' = "whole"
        \/ at' = "done" /\ pdf' = "none"
        \/ at' = "done" /\ pdf' = "partial" /\ answer'.status = "failed"
    BY <1>0 DEF DownloadPdf, Goto, Respond
  <1>3. UnmaskInv'
    BY <1>0, <1>1, <1>2 DEF UnmaskInv, Answers, RequestIInv
  <1> QED
    BY <1>2, <1>3 DEF RequestIInv, Progress, WholeFileIsRemoved

(* After the finally, the request is answered and its file is not whole.   *)
LEMMA FinallyEnds ==
  ASSUME NEW name \in {"none", "principal"}, NEW status \in {"found", "failed"},
         Finally(name, status)
  PROVE  /\ answer' \in Answers /\ at' = "done"
         /\ pdf' = "none" \/ (pdf' = "tried" /\ answer'.status = "failed")
  BY DEF Finally, Respond, Goto, Answers

LEMMA ExtractTextKeeps == RequestIInv /\ ExtractText /\ UNCHANGED pc => RequestIInv'
  <1> SUFFICES ASSUME RequestIInv, ExtractText, UNCHANGED pc PROVE RequestIInv'
    OBVIOUS
  <1>0. at = "parse" /\ client' = client /\ pdf = "whole"
    BY DEF ExtractText, RequestIInv, WholeFileIsRemoved
  <1>1. CASE Goto("llm") /\ UNCHANGED <<answer, pdf>>
    BY <1>0, <1>1 DEF Goto, RequestIInv, UnmaskInv, Progress, WholeFileIsRemoved
  <1>2. CASE Finally("none", "found")
    <2>1. /\ answer' \in Answers /\ at' = "done"
          /\ pdf' = "none" \/ (pdf' = "tried" /\ answer'.status = "failed")
      BY <1>2, FinallyEnds
    <2>2. UnmaskInv'
      BY <1>0, <2>1 DEF RequestIInv, UnmaskInv, Answers
    <2> QED
      BY <2>1, <2>2 DEF RequestIInv, Progress, WholeFileIsRemoved
  <1> QED
    BY <1>1, <1>2 DEF ExtractText

LEMMA AskProviderKeeps == RequestIInv /\ AskProvider /\ UNCHANGED pc => RequestIInv'
  <1> SUFFICES ASSUME RequestIInv, AskProvider, UNCHANGED pc PROVE RequestIInv'
    OBVIOUS
  <1>1. /\ answer' \in Answers /\ at' = "done"
        /\ pdf' = "none" \/ (pdf' = "tried" /\ answer'.status = "failed")
    BY FinallyEnds DEF AskProvider
  <1>2. at = "llm" /\ client' = client
    BY DEF AskProvider, RequestIInv, UnmaskInv
  <1>3. UnmaskInv'
    BY <1>1, <1>2 DEF RequestIInv, UnmaskInv, Answers
  <1> QED
    BY <1>1, <1>3 DEF RequestIInv, Progress, WholeFileIsRemoved

(* A request that has ended leaves nothing behind that the next one knows. *)
LEMMA ForgetKeeps == RequestIInv /\ Forget => RequestIInv'
  BY DEF Forget, Goto, NoAnswer, RequestIInv, UnmaskInv, Progress, WholeFileIsRemoved

LEMMA IdleKeeps == RequestIInv /\ at = "idle" /\ UNCHANGED unmaskVars => RequestIInv'
  BY DEF unmaskVars, RequestIInv, UnmaskInv, Progress, WholeFileIsRemoved

AllIInv == CredentialIInv /\ RequestIInv

LEMMA InitAll == Init => AllIInv
  <1> SUFFICES ASSUME Init PROVE AllIInv
    OBVIOUS
  <1>1. CredentialIInv
    BY InitCredentials DEF Init
  <1>2. UnmaskInv /\ Progress /\ WholeFileIsRemoved
    BY DEF Init, UnmaskInv, Progress, WholeFileIsRemoved, NoClient, NoAnswer
  <1> QED
    BY <1>1, <1>2 DEF AllIInv, RequestIInv

LEMMA AllStep == AllIInv /\ [Next]_vars => AllIInv' /\ [CredentialNext]_credentialVars
  <1> SUFFICES ASSUME AllIInv, [Next]_vars
               PROVE  AllIInv' /\ [CredentialNext]_credentialVars
    OBVIOUS
  <1>0. CredentialIInv /\ RequestIInv /\ CredentialTypeOK
    BY DEF AllIInv, CredentialIInv
  <1>1. [CredentialNext]_credentialVars
    BY DEF Next, Abort, vars, CredentialNext
  <1>2. CredentialIInv'
    BY <1>0, <1>1, CredentialStep
  <1>3. CASE CredentialNext /\ at = "idle" /\ UNCHANGED unmaskVars
    BY <1>0, <1>1, <1>2, <1>3, IdleKeeps DEF AllIInv
  <1>4. CASE /\ Unmask \/ SearchSos \/ DownloadPdf \/ ExtractText \/ AskProvider \/ Reply
             /\ UNCHANGED credentialVars
    <2>1. UNCHANGED pc
      BY <1>4 DEF credentialVars
    <2>2. RequestIInv'
      BY <1>0, <1>4, <2>1, UnmaskKeeps, SearchSosKeeps, DownloadPdfKeeps, ExtractTextKeeps,
         AskProviderKeeps, ForgetKeeps DEF Reply
    <2> QED
      BY <1>1, <1>2, <2>2 DEF AllIInv
  <1>5. CASE Abort
    BY <1>0, <1>1, <1>2, <1>5, ForgetKeeps DEF Abort, AllIInv
  <1>6. CASE UNCHANGED vars
    <2>1. RequestIInv'
      BY <1>0, <1>6 DEF vars, unmaskVars, credentialVars, RequestIInv, UnmaskInv, Progress,
         WholeFileIsRemoved
    <2> QED
      BY <1>1, <1>2, <2>1 DEF AllIInv
  <1> QED
    BY <1>3, <1>4, <1>5, <1>6 DEF Next

-----------------------------------------------------------------------------
(* The types, and what start-up and the steps of a request rely on.        *)
THEOREM UnmaskingInvariant == Spec => []IInv
  <1>1. AllIInv => IInv
    BY DEF AllIInv, CredentialIInv, RequestIInv, IInv
  <1> QED
    BY <1>1, InitAll, AllStep, PTL DEF Spec

(* credentials.py:48.  A key that store_credential has confirmed stays in  *)
(* the keychain or in the file, whichever refuses when and whenever the    *)
(* process ends, unless the file can later not be read, or a write of it   *)
(* is cut short.                                                           *)
THEOREM ConfirmedKeysStay == Spec => []ConfirmedKeyIsKept
  <1>1. AllIInv => ConfirmedKeyIsKept
    BY DEF AllIInv, CredentialIInv
  <1> QED
    BY <1>1, InitAll, AllStep, PTL DEF Spec

(* What the requests do to the stores and the rows is one of               *)
(* the steps that Credentials describes, or nothing.                       *)
THEOREM UnmaskingImplementsCredentials == Spec => CredentialSpec
  <1>1. Init => CredentialInit
    BY DEF Init
  <1> QED
    BY <1>1, InitAll, AllStep, PTL DEF Spec, CredentialSpec

(* A file that was written whole is there while it is read, and its        *)
(* removal is tried whatever the parser, the provider or the answer does:  *)
(* a request that is answered without an error leaves no file.             *)
THEOREM FilesAreRemoved == Spec => []WholeFileIsRemoved
  <1>1. AllIInv => WholeFileIsRemoved
    BY DEF AllIInv, RequestIInv
  <1> QED
    BY <1>1, InitAll, AllStep, PTL DEF Spec

(* A whole key leaves its row only by a client or for its confirmed copy. *)
THEOREM RowsKeepUnstoredKeys == Spec => OnlyStoredKeysAreMasked
  <1> DEFINE Masking == \A p \in Providers :
               row[p] \in Keys /\ row'[p] # row[p] => req.provider = p \/ kept[p] = row[p]
  <1>1. AllIInv /\ [Next]_vars => [Masking]_credentialVars
    BY AllStep, MaskStep DEF AllIInv
  <1> QED
    BY <1>1, InitAll, AllStep, PTL DEF Spec, OnlyStoredKeysAreMasked
=============================================================================
