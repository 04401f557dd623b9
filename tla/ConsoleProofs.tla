---------------------------- MODULE ConsoleProofs ----------------------------
(***************************************************************************)
(* Theorems about Console: it is well typed, a toast has a timer and says  *)
(* the truth, the ledger shows the latest auctions, and the directory is   *)
(* what was uploaded less what was deleted, for any form input and any     *)
(* number of clicks.                                                       *)
(***************************************************************************)
EXTENDS Console, SequenceTheorems, TLAPS

\* What Without returns: the elements before i, then those after it.
LEMMA WithoutProperties ==
    ASSUME NEW S, NEW seq \in Seq(S), NEW i \in 1..Len(seq)
    PROVE  /\ Without(seq, i) \in Seq(S)
           /\ Len(Without(seq, i)) = Len(seq) - 1
           /\ \A j \in 1..(Len(seq) - 1) :
                 Without(seq, i)[j] = IF j < i THEN seq[j] ELSE seq[j + 1]
<1> DEFINE before == SubSeq(seq, 1, i - 1)
           after == SubSeq(seq, i + 1, Len(seq))
<1>1. /\ before \in Seq(S) /\ Len(before) = i - 1
      /\ \A j \in 1..(i - 1) : before[j] = seq[j]
  OBVIOUS
<1>2. /\ after \in Seq(S) /\ Len(after) = Len(seq) - i
      /\ \A j \in 1..(Len(seq) - i) : after[j] = seq[i + j]
  OBVIOUS
<1>3. Without(seq, i) = before \o after
  BY DEF Without
<1> HIDE DEF before, after
<1>4. /\ before \o after \in Seq(S)
      /\ Len(before \o after) = Len(seq) - 1
  BY <1>1, <1>2
<1>5. ASSUME NEW j \in 1..(Len(seq) - 1)
      PROVE  (before \o after)[j] = IF j < i THEN seq[j] ELSE seq[j + 1]
  <2>1. CASE j < i
    <3>1. j \in 1..(i - 1) /\ j \in 1..Len(before)
      BY <1>1, <2>1
    <3>2. (before \o after)[j] = before[j]
      BY <1>1, <1>2, <3>1
    <3>3. before[j] = seq[j]
      BY <1>1, <3>1
    <3> QED BY <2>1, <3>2, <3>3
  <2>2. CASE j >= i
    <3>1. (before \o after)[j] = after[j - (i - 1)]
      BY <1>1, <1>2, <2>2
    <3>2. after[j - (i - 1)] = seq[j + 1]
      BY <1>2, <2>2
    <3> QED BY <2>2, <3>1, <3>2
  <2>3. j < i \/ j >= i
    OBVIOUS
  <2> QED BY <2>1, <2>2, <2>3, Zenon
<1> QED BY <1>3, <1>4, <1>5

\* What the directory holds when a new object is put before the others.
LEMMA ConsProperties ==
    ASSUME NEW S, NEW seq \in Seq(S), NEW new \in S
    PROVE  /\ <<new>> \o seq \in Seq(S)
           /\ Len(<<new>> \o seq) = Len(seq) + 1
           /\ (<<new>> \o seq)[1] = new
           /\ \A j \in 1..Len(seq) : (<<new>> \o seq)[j + 1] = seq[j]
  OBVIOUS

-----------------------------------------------------------------------------
(* Types *)

\* What parseInt makes of an option's size is a number.
LEMMA ParsedType == \A size \in SizeOption : size.parsed \in Nat
<1> SUFFICES ASSUME NEW size \in SizeOption PROVE size.parsed \in Nat
  OBVIOUS
<1>1. CASE size = Size("64 MB", 64)
  BY <1>1 DEF Size
<1>2. CASE size = Size("128 MB", 128)
  BY <1>2 DEF Size
<1>3. CASE size = Size("256 MB", 256)
  BY <1>3 DEF Size
<1>4. CASE size = Size("1 GB", 1)
  BY <1>4 DEF Size
<1> QED BY <1>1, <1>2, <1>3, <1>4, Zenon DEF SizeOption

\* An object is a record of its fields.
LEMMA ObjectType ==
    ASSUME NEW id \in Nat, NEW key \in Seq(Char), NEW bucket \in Bucket,
           NEW size \in SizeOption \cup {Telemetry, Checkpoint, Dataset},
           NEW chunks \in Nat
    PROVE  Object(id, key, bucket, size, chunks) \in ObjectRecord
<1> DEFINE sizes == SizeOption \cup {Telemetry, Checkpoint, Dataset}
<1>1. size \in sizes
  OBVIOUS
<1>2. ObjectRecord = [id : Nat, key : Seq(Char), bucket : Bucket,
                      size : sizes, chunks : Nat]
  BY DEF ObjectRecord
<1> HIDE DEF sizes
<1> QED BY <1>1, <1>2 DEF Object

\* The record that handleUploadObject makes is an object.
LEMMA NewObjectType ==
    ASSUME TypeOK, newObjectKey # << >>
    PROVE  Object(uploads + 1, StoredKey(newObjectKey), newObjectBucket,
                  newObjectSize, Chunks(newObjectSize)) \in ObjectRecord
<1>1. StoredKey(newObjectKey) \in Seq(Char)
  BY DEF TypeOK, StoredKey
<1>2. newObjectSize \in SizeOption /\ newObjectSize.parsed \in Nat
  BY ParsedType DEF TypeOK
<1>3. newObjectSize.parsed \div 8 \in Nat
  BY <1>2
<1>4. Chunks(newObjectSize) \in Nat
  BY <1>3 DEF Chunks
<1>5. uploads + 1 \in Nat /\ newObjectBucket \in Bucket
  BY DEF TypeOK
<1> QED BY <1>1, <1>2, <1>4, <1>5, ObjectType

MessageRecord == [about : Topic, of : Nat]

\* The messages of the buttons, the lists and the cleared toast are messages.
LEMMA MessageType ==
    /\ NoToast \in MessageRecord /\ Message("report", 0) \in MessageRecord
    /\ \A of \in Nat, about \in {"stored", "streamed", "deleted", "auction"} :
          Message(about, of) \in MessageRecord
<1>1. \A about \in Topic, of \in Nat : Message(about, of) \in MessageRecord
  BY DEF Message, MessageRecord
<1>2. /\ "none" \in Topic /\ "report" \in Topic /\ 0 \in Nat
      /\ {"stored", "streamed", "deleted", "auction"} \subseteq Topic
  BY DEF Topic
<1> QED BY <1>1, <1>2, Zenon DEF NoToast

\* The ledger after an auction.
LEMMA LedgerProperties ==
    ASSUME TypeOK, TriggerAuctionSimulation
    PROVE  /\ auctionsList' \in Seq(Nat)
           /\ Len(auctionsList') = IF Len(auctionsList) < 5
                                   THEN Len(auctionsList) + 1 ELSE 6
           /\ auctionsList'[1] = auctions + 1
           /\ \A i \in 2..Len(auctionsList') :
                 auctionsList'[i] = auctionsList[i - 1]
<1> DEFINE n == IF Len(auctionsList) < 5 THEN Len(auctionsList) ELSE 5
           kept == SubSeq(auctionsList, 1, n)
<1>1. /\ kept \in Seq(Nat) /\ Len(kept) = n
      /\ \A i \in 1..n : kept[i] = auctionsList[i]
      /\ n \in Nat /\ n <= Len(auctionsList)
  BY DEF TypeOK
<1>2. auctionsList' = <<auctions + 1>> \o kept
  BY DEF TriggerAuctionSimulation
<1>3. auctions + 1 \in Nat
  BY DEF TypeOK
<1>4. n = IF Len(auctionsList) < 5 THEN Len(auctionsList) ELSE 5
  OBVIOUS
<1> HIDE DEF kept, n
<1> DEFINE list == <<auctions + 1>> \o kept
<1>5. /\ list \in Seq(Nat)
      /\ Len(list) = Len(kept) + 1
      /\ list[1] = auctions + 1
      /\ \A i \in 1..Len(kept) : list[i + 1] = kept[i]
  BY <1>1, <1>3, ConsProperties
<1> HIDE DEF list
<1>6. ASSUME NEW i \in 2..Len(list)
      PROVE  list[i] = auctionsList[i - 1]
  <2>1. i - 1 \in 1..n /\ (i - 1) + 1 = i
    BY <1>1, <1>5
  <2>2. list[(i - 1) + 1] = kept[i - 1]
    BY <1>1, <1>5, <2>1
  <2> QED BY <1>1, <2>1, <2>2
<1>7. Len(auctionsList) \in Nat
  BY DEF TypeOK
<1>8. Len(list) = IF Len(auctionsList) < 5 THEN Len(auctionsList) + 1 ELSE 6
  BY <1>1, <1>4, <1>5, <1>7
<1>9. auctionsList' = list
  BY <1>2 DEF list
<1> QED BY <1>5, <1>6, <1>8, <1>9

\* Initially every variable has its type.
LEMMA InitTypeOK == Init => TypeOK
<1> SUFFICES ASSUME Init PROVE TypeOK
  OBVIOUS
<1>1. /\ activeTab \in Tab /\ isMobileMenuOpen \in BOOLEAN
      /\ modalType \in {"none", "deploy"} /\ deleted \in SUBSET Nat
  BY Zenon DEF Init, Tab
<1>2. /\ toasts \in Nat /\ auctions \in Nat /\ uploads \in Nat
      /\ timers \in Seq(Nat) /\ newObjectKey \in Seq(Char)
      /\ auctionsList \in Seq(Nat)
  <2>1. /\ toasts = 0 /\ auctions = 4 /\ uploads = 3
        /\ timers = << >> /\ newObjectKey = << >>
        /\ auctionsList = <<4, 3, 2, 1>>
    BY Zenon DEF Init
  <2> QED BY <2>1
<1>3. newObjectSize \in SizeOption /\ newObjectBucket \in Bucket
  BY Zenon DEF Init, SizeOption, Bucket
<1> DEFINE Samples == {Telemetry, Checkpoint, Dataset}
<1>4. \A id \in Nat, key \in Seq(Char), bucket \in Bucket, size \in Samples,
         chunks \in Nat : Object(id, key, bucket, size, chunks) \in ObjectRecord
  BY ObjectType
<1>5. objects \in Seq(ObjectRecord)
  <2> DEFINE key == <<"x">>
             ml == "vault-ml-bucket"
             ai == "vault-ai-models"
             tele == "vault-telemetry"
  <2>1. /\ key \in Seq(Char)
        /\ ml \in Bucket /\ ai \in Bucket /\ tele \in Bucket
    BY DEF Char, Bucket
  <2>2. Dataset \in Samples /\ Checkpoint \in Samples /\ Telemetry \in Samples
    OBVIOUS
  <2> DEFINE dataset == Object(3, key, ml, Dataset, 1775)
             checkpoint == Object(2, key, ai, Checkpoint, 6075)
             telemetry == Object(1, key, tele, Telemetry, 262)
  <2>3. objects = <<dataset, checkpoint, telemetry>>
    BY Zenon DEF Init
  <2> HIDE DEF Samples, key, ml, ai, tele
  <2>4. /\ 1 \in Nat /\ 2 \in Nat /\ 3 \in Nat
        /\ 1775 \in Nat /\ 6075 \in Nat /\ 262 \in Nat
    OBVIOUS
  <2>5. dataset \in ObjectRecord
    BY <2>1, <2>2, <2>4, <1>4
  <2>6. checkpoint \in ObjectRecord
    BY <2>1, <2>2, <2>4, <1>4
  <2>7. telemetry \in ObjectRecord
    BY <2>1, <2>2, <2>4, <1>4
  <2> HIDE DEF dataset, checkpoint, telemetry
  <2> QED BY <2>3, <2>5, <2>6, <2>7
<1>6. toastMessage \in MessageRecord
  BY MessageType, Zenon DEF Init
<1> QED BY <1>1, <1>2, <1>3, <1>5, <1>6, Zenon DEF TypeOK, MessageRecord

\* The objects have numbers.
LEMMA IdType == ASSUME TypeOK, NEW i \in 1..Len(objects)
                PROVE  objects[i].id \in Nat
<1>1. objects[i] \in ObjectRecord
  BY DEF TypeOK
<1> QED BY <1>1 DEF ObjectRecord

\* What showToast does to the toast and its timers.
LEMMA ShowToastType ==
    ASSUME TypeOK, NEW msg \in MessageRecord, ShowToast(msg)
    PROVE  /\ toastMessage' \in MessageRecord
           /\ timers' \in Seq(Nat) /\ toasts' \in Nat
<1>1. timers \in Seq(Nat) /\ toasts + 1 \in Nat
  BY DEF TypeOK
<1>2. toasts' = toasts + 1 /\ toastMessage' = msg /\ timers' = Append(timers, toasts')
  BY Zenon DEF ShowToast
<1> QED BY <1>1, <1>2

\* Whatever it looks like, a button that changes no list sets the tab, opens or
\* closes the menu or the modal, or reports something.
LEMMA ButtonCases ==
    ASSUME Button
    PROVE  \/ \E tab \in Tab : SetActiveTab(tab) \/ ChooseInMobileMenu(tab)
           \/ ToggleMobileMenu \/ OpenModal \/ CloseModal \/ Report
<1>1. CASE FooterLink
  BY <1>1, Zenon DEF FooterLink, Tab
<1>2. CASE InspectAuctions \/ DeployBanner
  BY <1>2, Zenon DEF InspectAuctions, DeployBanner, Tab
<1>3. CASE HeaderButton \/ FleetToolbar
  BY <1>3, Zenon DEF HeaderButton, FleetToolbar
<1>4. CASE QuickAction \/ ViewRacks \/ NodeAction \/ CopyInstallCommand
           \/ DownloadPdf
  BY <1>4, Zenon DEF QuickAction, ViewRacks, NodeAction, CopyInstallCommand,
                     DownloadPdf
<1> QED BY <1>1, <1>2, <1>3, <1>4, Zenon DEF Button

\* The lists stay as they are, and the toast too unless it is cleared or says
\* something that no list shows.
Quiet ==
    /\ UNCHANGED <<auctionVars, objectVars>>
    /\ \/ UNCHANGED toastVars \/ Timeout
       \/ ShowToast(Message("report", 0))

\* The steps that change a list, or say something about one, and the others.
LEMMA StepCases ==
    ASSUME [Next]_vars
    PROVE  \/ TriggerAuctionSimulation \/ HandleUploadObject
           \/ \E i \in 1..Len(objects) : GetObject(i) \/ DeleteObject(i)
           \/ Quiet
<1>1. CASE Timeout
  BY <1>1, Zenon DEF Timeout, Quiet, auctionVars, objectVars
<1>2. CASE Button
  <2>1. ASSUME NEW tab \in Tab, SetActiveTab(tab) \/ ChooseInMobileMenu(tab)
        PROVE  Quiet
    BY <2>1, Zenon DEF SetActiveTab, ChooseInMobileMenu, Quiet, auctionVars,
                       objectVars, toastVars
  <2>2. CASE ToggleMobileMenu \/ OpenModal \/ CloseModal \/ Report
    BY <2>2, Zenon DEF ToggleMobileMenu, OpenModal, CloseModal, Report, Quiet,
                       auctionVars, objectVars, toastVars
  <2> QED BY <1>2, <2>1, <2>2, ButtonCases, Zenon
<1>3. CASE EditForm
  BY <1>3, Zenon DEF EditForm, EditKey, EditSize, EditBucket, Quiet,
                     auctionVars, objectVars, toastVars
<1>4. CASE UNCHANGED vars
  BY <1>4, Zenon DEF vars, Quiet, auctionVars, objectVars, toastVars
<1> QED BY <1>1, <1>2, <1>3, <1>4, Zenon DEF Next

\* Every step keeps the types.
LEMMA NextTypeOK == TypeOK /\ [Next]_vars => TypeOK'
<1> SUFFICES ASSUME TypeOK, [Next]_vars PROVE TypeOK'
  OBVIOUS
<1> DEFINE ToastTypes == /\ toastMessage \in MessageRecord
                         /\ timers \in Seq(Nat) /\ toasts \in Nat
           NavTypes == /\ activeTab \in Tab /\ isMobileMenuOpen \in BOOLEAN
                       /\ modalType \in {"none", "deploy"}
           LedgerTypes == auctionsList \in Seq(Nat) /\ auctions \in Nat
           FormTypes == /\ newObjectKey \in Seq(Char)
                        /\ newObjectSize \in SizeOption
                        /\ newObjectBucket \in Bucket
           ListTypes == /\ objects \in Seq(ObjectRecord)
                        /\ uploads \in Nat /\ deleted \in SUBSET Nat
<1>1. ToastTypes /\ NavTypes /\ LedgerTypes /\ FormTypes /\ ListTypes
  BY Zenon DEF TypeOK, MessageRecord
<1>2. /\ UNCHANGED toastVars => ToastTypes'
      /\ UNCHANGED navVars => NavTypes'
      /\ UNCHANGED auctionVars => LedgerTypes'
      /\ UNCHANGED formVars => FormTypes'
      /\ UNCHANGED objectVars => ListTypes'
  <2>1. UNCHANGED toastVars => ToastTypes'
    BY <1>1, Zenon DEF toastVars
  <2>2. UNCHANGED navVars => NavTypes'
    BY <1>1, Zenon DEF navVars
  <2>3. UNCHANGED auctionVars => LedgerTypes'
    BY <1>1, Zenon DEF auctionVars
  <2>4. UNCHANGED formVars => FormTypes'
    BY <1>1, Zenon DEF formVars
  <2>5. UNCHANGED objectVars => ListTypes'
    BY <1>1, Zenon DEF objectVars
  <2> QED BY <2>1, <2>2, <2>3, <2>4, <2>5, Zenon
<1>3. \A msg \in MessageRecord : ShowToast(msg) => ToastTypes'
  BY ShowToastType
<1> SUFFICES ToastTypes' /\ NavTypes' /\ LedgerTypes' /\ FormTypes' /\ ListTypes'
  BY Zenon DEF TypeOK, MessageRecord
<1> HIDE DEF ToastTypes, NavTypes, LedgerTypes, FormTypes, ListTypes
<1>4. CASE Timeout
  <2>1. toastMessage' = NoToast /\ timers' = Tail(timers) /\ toasts' = toasts
        /\ timers # << >>
    BY <1>4, Zenon DEF Timeout
  <2>2. ToastTypes'
    BY <1>1, <2>1, MessageType DEF ToastTypes
  <2> QED BY <1>2, <1>4, <2>2, Zenon DEF Timeout
<1>5. CASE Button
  <2>1. ASSUME NEW tab \in Tab, SetActiveTab(tab) \/ ChooseInMobileMenu(tab)
        PROVE  NavTypes'
    BY <1>1, <2>1, Zenon DEF SetActiveTab, ChooseInMobileMenu, NavTypes
  <2>2. CASE ToggleMobileMenu
    <3>1. isMobileMenuOpen' \in BOOLEAN
      BY <2>2 DEF ToggleMobileMenu
    <3> QED BY <1>1, <1>2, <2>2, <3>1, Zenon DEF ToggleMobileMenu, NavTypes
  <2>3. CASE OpenModal
    BY <1>1, <1>2, <2>3, Zenon DEF OpenModal, NavTypes
  <2>4. CASE CloseModal
    BY <1>1, <1>2, <1>3, <2>4, MessageType, Zenon DEF CloseModal, NavTypes
  <2>5. CASE Report
    BY <1>2, <1>3, <2>5, MessageType, Zenon DEF Report
  <2>6. ASSUME NEW tab \in Tab, SetActiveTab(tab) \/ ChooseInMobileMenu(tab)
        PROVE  ToastTypes' /\ LedgerTypes' /\ FormTypes' /\ ListTypes'
    BY <1>2, <2>6, Zenon DEF SetActiveTab, ChooseInMobileMenu
  <2> QED BY <1>5, <2>1, <2>2, <2>3, <2>4, <2>5, <2>6, ButtonCases, Zenon
<1>6. CASE EditForm
  <2>1. ASSUME NEW key \in KeyInput, EditKey(key) PROVE FormTypes'
    BY <1>1, <2>1, FormAssumption, Zenon DEF EditKey, FormTypes
  <2>2. ASSUME NEW size \in SizeInput, EditSize(size) PROVE FormTypes'
    BY <1>1, <2>2, FormAssumption, Zenon DEF EditSize, FormTypes
  <2>3. ASSUME NEW bucket \in BucketInput, EditBucket(bucket) PROVE FormTypes'
    BY <1>1, <2>3, FormAssumption, Zenon DEF EditBucket, FormTypes
  <2>4. FormTypes'
    BY <1>6, <2>1, <2>2, <2>3, Zenon DEF EditForm
  <2>5. UNCHANGED <<navVars, toastVars, auctionVars, objectVars>>
    BY <1>6, Zenon DEF EditForm, EditKey, EditSize, EditBucket
  <2> QED BY <1>2, <2>4, <2>5, Zenon
<1>7. CASE TriggerAuctionSimulation
  <2>1. auctions' \in Nat
    BY <1>1, <1>7 DEF TriggerAuctionSimulation, LedgerTypes
  <2>2. ToastTypes'
    BY <1>3, <1>7, <2>1, MessageType, Zenon DEF TriggerAuctionSimulation
  <2>3. LedgerTypes'
    BY <1>7, <2>1, LedgerProperties, Zenon DEF LedgerTypes
  <2> QED BY <1>2, <1>7, <2>2, <2>3, Zenon DEF TriggerAuctionSimulation
<1>8. CASE HandleUploadObject
  <2>1. uploads' = uploads + 1 /\ uploads \in Nat
    BY <1>1, <1>8 DEF HandleUploadObject, ListTypes
  <2>2. objects' \in Seq(ObjectRecord)
    BY <1>1, <1>8, NewObjectType, ConsProperties DEF HandleUploadObject, ListTypes
  <2>3. uploads' \in Nat
    BY <2>1
  <2>4. ToastTypes'
    BY <1>3, <1>8, <2>3, MessageType, Zenon DEF HandleUploadObject
  <2>5. ListTypes'
    BY <1>1, <1>8, <2>2, <2>3, Zenon DEF HandleUploadObject, ListTypes
  <2>6. << >> \in Seq(Char)
    OBVIOUS
  <2>7. FormTypes'
    BY <1>1, <1>8, <2>6, Zenon DEF HandleUploadObject, FormTypes
  <2> QED BY <1>2, <1>8, <2>4, <2>5, <2>7, Zenon DEF HandleUploadObject
<1>9. ASSUME NEW i \in 1..Len(objects), GetObject(i) \/ DeleteObject(i)
      PROVE  ToastTypes' /\ NavTypes' /\ LedgerTypes' /\ FormTypes' /\ ListTypes'
  <2>1. objects[i].id \in Nat
    BY IdType
  <2>2. ToastTypes'
    BY <1>3, <1>9, <2>1, MessageType, Zenon DEF GetObject, DeleteObject
  <2>3. CASE GetObject(i)
    BY <1>2, <2>2, <2>3, Zenon DEF GetObject
  <2>4. CASE DeleteObject(i)
    <3>1. objects' \in Seq(ObjectRecord)
      BY <1>1, <2>4, WithoutProperties DEF DeleteObject, ListTypes
    <3>2. deleted' \in SUBSET Nat
      BY <1>1, <2>1, <2>4 DEF DeleteObject, ListTypes
    <3>3. ListTypes'
      BY <1>1, <2>4, <3>1, <3>2, Zenon DEF DeleteObject, ListTypes
    <3> QED BY <1>2, <2>2, <2>4, <3>3, Zenon DEF DeleteObject
  <2> QED BY <1>9, <2>3, <2>4
<1>10. CASE UNCHANGED vars
  BY <1>2, <1>10, Zenon DEF vars
<1> QED
  BY <1>4, <1>5, <1>6, <1>7, <1>8, <1>9, <1>10, Zenon DEF Next

\* Every reachable state of the console is well typed.
THEOREM TypeCorrect == Spec => []TypeOK
  BY InitTypeOK, NextTypeOK, PTL DEF Spec

-----------------------------------------------------------------------------
(* The toast's timer and the ledger *)

\* Every step keeps a timer for the toast.
LEMMA ToastStep ==
    ASSUME TypeOK, ToastHasItsTimer, [Next]_vars
    PROVE  ToastHasItsTimer'
<1>1. CASE Timeout
  BY <1>1, Zenon DEF Timeout, ToastHasItsTimer, ToastOnScreen
<1>2. ASSUME NEW msg, ShowToast(msg) PROVE ToastHasItsTimer'
  <2>1. toasts' = toasts + 1 /\ timers' = Append(timers, toasts + 1)
    BY <1>2, Zenon DEF ShowToast
  <2>2. timers \in Seq(Nat) /\ toasts + 1 \in Nat
    BY DEF TypeOK
  <2>3. timers' # << >> /\ timers'[Len(timers')] = toasts'
    BY <2>1, <2>2
  <2> QED BY <2>3, Zenon DEF ToastHasItsTimer
<1>3. CASE UNCHANGED toastVars
  <2>1. UNCHANGED <<toastMessage, timers, toasts>>
    BY <1>3 DEF toastVars
  <2> QED BY <2>1 DEF ToastHasItsTimer, ToastOnScreen
<1>4. Timeout \/ UNCHANGED toastVars \/ \E msg : ShowToast(msg)
  BY StepCases, Zenon DEF Quiet, TriggerAuctionSimulation, HandleUploadObject,
                          GetObject, DeleteObject
<1> QED BY <1>1, <1>2, <1>3, <1>4, Zenon

\* Every step keeps the ledger the list of the latest auctions.
LEMMA LedgerStep ==
    ASSUME TypeOK, AuctionsAreLatest, [Next]_vars
    PROVE  AuctionsAreLatest'
<1>1. CASE TriggerAuctionSimulation
  <2>1. auctions' = auctions + 1
    BY <1>1 DEF TriggerAuctionSimulation
  <2>2. auctions \in Nat /\ Len(auctionsList) \in Nat
    BY DEF TypeOK
  <2>3. Len(auctionsList') = IF auctions' < 6 THEN auctions' ELSE 6
    BY <1>1, <2>1, <2>2, LedgerProperties DEF AuctionsAreLatest
  <2>4. ASSUME NEW i \in 1..Len(auctionsList')
        PROVE  auctionsList'[i] = auctions' + 1 - i
    <3>1. CASE i = 1
      BY <1>1, <2>1, <2>2, <3>1, LedgerProperties
    <3>2. CASE i # 1
      <4>0. Len(auctionsList') \in Nat
        BY <1>1, LedgerProperties
      <4>1. i \in 2..Len(auctionsList') /\ i - 1 \in 1..Len(auctionsList)
        <5>1. Len(auctionsList') = IF Len(auctionsList) < 5
                                   THEN Len(auctionsList) + 1 ELSE 6
          BY <1>1, LedgerProperties
        <5> QED BY <2>2, <3>2, <4>0, <5>1
      <4>2. auctionsList'[i] = auctionsList[i - 1]
        BY <1>1, <4>1, LedgerProperties
      <4>3. auctionsList[i - 1] = auctions + 1 - (i - 1)
        BY <4>1 DEF AuctionsAreLatest
      <4> QED BY <2>1, <2>2, <4>2, <4>3
    <3> QED BY <3>1, <3>2
  <2> QED BY <2>3, <2>4 DEF AuctionsAreLatest
<1>2. CASE UNCHANGED auctionVars
  BY <1>2 DEF auctionVars, AuctionsAreLatest
<1>3. TriggerAuctionSimulation \/ UNCHANGED auctionVars
  BY StepCases, Zenon DEF Quiet, HandleUploadObject, GetObject, DeleteObject
<1> QED BY <1>1, <1>2, <1>3

-----------------------------------------------------------------------------
(* The directory *)

\* No object is reported as deleted before it was uploaded, so that the number
\* of a new one is not among them.
DirectoryInv ==
    /\ DirectoryIsUploadsLessDeleted
    /\ deleted \subseteq 1..uploads

Ids(seq) == {seq[i].id : i \in 1..Len(seq)}

\* Newest first, by number.
NewestFirst(seq) ==
    \A i, j \in 1..Len(seq) : i < j => seq[i].id > seq[j].id

\* A new, larger number in front.
LEMMA ConsDirectory ==
    ASSUME TypeOK, NewestFirst(objects), NEW new \in ObjectRecord,
           \A i \in 1..Len(objects) : objects[i].id < new.id
    PROVE  /\ NewestFirst(<<new>> \o objects)
           /\ Ids(<<new>> \o objects) = {new.id} \cup Ids(objects)
<1> DEFINE n == Len(objects)
           list == <<new>> \o objects
<1>1. objects \in Seq(ObjectRecord) /\ n \in Nat
  BY DEF TypeOK
<1>2. /\ Len(list) = n + 1 /\ list[1] = new
      /\ \A j \in 1..n : list[j + 1] = objects[j]
  BY <1>1, ConsProperties
<1> HIDE DEF list
<1>3. ASSUME NEW j \in 2..(n + 1)
      PROVE  j - 1 \in 1..n /\ list[j] = objects[j - 1]
  <2>1. j - 1 \in 1..n /\ (j - 1) + 1 = j
    BY <1>1
  <2>2. list[(j - 1) + 1] = objects[j - 1]
    BY <1>2, <2>1
  <2> QED BY <2>1, <2>2
<1>4. ASSUME NEW i \in 1..(n + 1), NEW j \in 1..(n + 1), i < j
      PROVE  list[i].id > list[j].id
  <2>1. j \in 2..(n + 1)
    BY <1>1, <1>4
  <2>2. list[j] = objects[j - 1] /\ j - 1 \in 1..n
    BY <1>3, <2>1
  <2>3. objects[j - 1].id \in Nat
    BY <2>2, IdType
  <2>4. CASE i = 1
    BY <1>2, <2>2, <2>3, <2>4 DEF ObjectRecord
  <2>5. CASE i # 1
    <3>1. i \in 2..(n + 1)
      BY <1>1, <2>5
    <3>2. list[i] = objects[i - 1] /\ i - 1 \in 1..n
      BY <1>3, <3>1
    <3>3. i - 1 < j - 1
      BY <1>1, <1>4
    <3>4. objects[i - 1].id > objects[j - 1].id
      BY <2>2, <3>2, <3>3 DEF NewestFirst
    <3> QED BY <2>2, <3>2, <3>4
  <2> QED BY <2>4, <2>5
<1>5. NewestFirst(list)
  BY <1>2, <1>4 DEF NewestFirst
<1>6. ASSUME NEW x PROVE x \in Ids(list) <=> x = new.id \/ x \in Ids(objects)
  <2>1. ASSUME x \in Ids(list) PROVE x = new.id \/ x \in Ids(objects)
    <3>1. PICK j \in 1..(n + 1) : x = list[j].id
      BY <1>2, <2>1 DEF Ids
    <3>2. CASE j = 1
      BY <1>2, <3>1, <3>2
    <3>3. CASE j # 1
      <4>1. j \in 2..(n + 1)
        BY <1>1, <3>3
      <4> QED BY <1>3, <3>1, <4>1 DEF Ids
    <3> QED BY <3>2, <3>3
  <2>2. ASSUME x = new.id PROVE x \in Ids(list)
    <3>1. 1 \in 1..Len(list)
      BY <1>1, <1>2
    <3> QED BY <1>2, <2>2, <3>1 DEF Ids
  <2>3. ASSUME x \in Ids(objects) PROVE x \in Ids(list)
    <3>1. PICK j \in 1..n : x = objects[j].id
      BY <2>3 DEF Ids
    <3>2. j + 1 \in 1..Len(list) /\ list[j + 1] = objects[j]
      BY <1>1, <1>2
    <3> QED BY <3>1, <3>2 DEF Ids
  <2> QED BY <2>1, <2>2, <2>3
<1> QED BY <1>5, <1>6 DEF list

\* A row less: its number, and no other, leaves the directory.
LEMMA WithoutDirectory ==
    ASSUME TypeOK, NewestFirst(objects), NEW i \in 1..Len(objects)
    PROVE  /\ NewestFirst(Without(objects, i))
           /\ Ids(Without(objects, i)) = Ids(objects) \ {objects[i].id}
<1> DEFINE n == Len(objects)
           list == Without(objects, i)
           old(j) == IF j < i THEN j ELSE j + 1
<1>1. objects \in Seq(ObjectRecord) /\ n \in Nat /\ i \in 1..n
  BY DEF TypeOK
<1>2. Len(list) = n - 1 /\ \A j \in 1..(n - 1) : list[j] = objects[old(j)]
  <2>1. /\ Len(list) = n - 1
        /\ \A j \in 1..(n - 1) :
              list[j] = IF j < i THEN objects[j] ELSE objects[j + 1]
    BY <1>1, WithoutProperties
  <2> HIDE DEF list
  <2> QED BY <2>1
<1> HIDE DEF list
<1>3. \A j \in 1..(n - 1) : old(j) \in 1..n /\ old(j) # i
  BY <1>1
<1>4. \A j, k \in 1..(n - 1) : j < k => old(j) < old(k)
  BY <1>1
<1>5. ASSUME NEW m \in 1..n, m # i
      PROVE  \E j \in 1..(n - 1) : old(j) = m
  <2>1. CASE m < i
    <3>1. m \in 1..(n - 1) /\ old(m) = m
      BY <1>1, <2>1
    <3> QED BY <3>1
  <2>2. CASE m > i
    <3>1. m - 1 \in 1..(n - 1) /\ old(m - 1) = m
      BY <1>1, <2>2
    <3> QED BY <3>1
  <2> QED BY <1>1, <1>5, <2>1, <2>2
<1>6. \A j, k \in 1..n : j # k => objects[j].id # objects[k].id
  <2> SUFFICES ASSUME NEW j \in 1..n, NEW k \in 1..n, j # k
               PROVE  objects[j].id # objects[k].id
    OBVIOUS
  <2>1. objects[j].id \in Nat /\ objects[k].id \in Nat
    BY IdType
  <2>2. j < k \/ k < j
    BY <1>1
  <2> QED BY <2>1, <2>2 DEF NewestFirst
<1> HIDE DEF old
<1>7. NewestFirst(list)
  <2> SUFFICES ASSUME NEW j \in 1..(n - 1), NEW k \in 1..(n - 1), j < k
               PROVE  list[j].id > list[k].id
    BY <1>2 DEF NewestFirst
  <2>1. old(j) \in 1..n /\ old(k) \in 1..n /\ old(j) < old(k)
    BY <1>3, <1>4
  <2>2. objects[old(j)].id > objects[old(k)].id
    BY <2>1 DEF NewestFirst
  <2> QED BY <1>2, <2>2
<1>8. ASSUME NEW x
      PROVE  x \in Ids(list) <=> x \in Ids(objects) /\ x # objects[i].id
  <2>1. ASSUME x \in Ids(list)
        PROVE  x \in Ids(objects) /\ x # objects[i].id
    <3>1. PICK j \in 1..(n - 1) : x = list[j].id
      BY <1>2, <2>1 DEF Ids
    <3>2. old(j) \in 1..n /\ old(j) # i /\ x = objects[old(j)].id
      BY <1>2, <1>3, <3>1
    <3> QED BY <1>1, <1>6, <3>2 DEF Ids
  <2>2. ASSUME x \in Ids(objects), x # objects[i].id
        PROVE  x \in Ids(list)
    <3>1. PICK m \in 1..n : x = objects[m].id
      BY <2>2 DEF Ids
    <3>2. PICK j \in 1..(n - 1) : old(j) = m
      BY <1>5, <2>2, <3>1
    <3>3. list[j] = objects[m]
      BY <1>2, <3>2
    <3> QED BY <1>2, <3>1, <3>3 DEF Ids
  <2> QED BY <2>1, <2>2
<1> QED BY <1>7, <1>8 DEF list

\* DirectoryIsUploadsLessDeleted, in the terms of the lemmas.
LEMMA DirectoryTerms ==
    DirectoryIsUploadsLessDeleted <=>
        NewestFirst(objects) /\ Ids(objects) = (1..uploads) \ deleted
  BY Zenon DEF DirectoryIsUploadsLessDeleted, NewestFirst, Ids

\* The same after a step.
LEMMA DirectoryTermsNext ==
    DirectoryIsUploadsLessDeleted' <=>
        NewestFirst(objects') /\ Ids(objects') = (1..uploads') \ deleted'
  BY Zenon DEF DirectoryIsUploadsLessDeleted, NewestFirst, Ids

\* Every step keeps the directory exact.
LEMMA DirectoryStep ==
    ASSUME TypeOK, DirectoryInv, [Next]_vars
    PROVE  DirectoryInv'
<1>1. /\ NewestFirst(objects) /\ Ids(objects) = (1..uploads) \ deleted
      /\ deleted \subseteq 1..uploads
  BY DirectoryTerms DEF DirectoryInv
<1>2. uploads \in Nat
  BY DEF TypeOK
<1>3. CASE HandleUploadObject
  <2> DEFINE new == Object(uploads + 1, StoredKey(newObjectKey), newObjectBucket,
                           newObjectSize, Chunks(newObjectSize))
  <2>1. /\ objects' = <<new>> \o objects /\ uploads' = uploads + 1
        /\ deleted' = deleted
    BY <1>3, Zenon DEF HandleUploadObject
  <2>2. new \in ObjectRecord
    BY <1>3, NewObjectType DEF HandleUploadObject
  <2>3. new.id = uploads + 1
    BY DEF Object
  <2>4. ASSUME NEW i \in 1..Len(objects) PROVE objects[i].id < new.id
    <3>1. objects[i].id \in Ids(objects)
      BY DEF Ids
    <3>2. objects[i].id \in 1..uploads
      BY <1>1, <3>1
    <3> QED BY <1>2, <2>3, <3>2
  <2> HIDE DEF new
  <2>5. /\ NewestFirst(objects')
        /\ Ids(objects') = {uploads + 1} \cup Ids(objects)
    BY <1>1, <2>1, <2>2, <2>3, <2>4, ConsDirectory
  <2>6. {uploads + 1} \cup ((1..uploads) \ deleted) = (1..(uploads + 1)) \ deleted
    BY <1>1, <1>2
  <2>7. deleted \subseteq 1..(uploads + 1)
    BY <1>1, <1>2
  <2>8. DirectoryIsUploadsLessDeleted'
    BY <1>1, <2>1, <2>5, <2>6, DirectoryTermsNext
  <2> QED BY <2>1, <2>7, <2>8 DEF DirectoryInv
<1>4. ASSUME NEW i \in 1..Len(objects), DeleteObject(i) PROVE DirectoryInv'
  <2>1. /\ objects' = Without(objects, i) /\ uploads' = uploads
        /\ deleted' = deleted \cup {objects[i].id}
    BY <1>4, Zenon DEF DeleteObject
  <2>2. objects[i].id \in 1..uploads
    BY <1>1 DEF Ids
  <2>3. /\ NewestFirst(objects')
        /\ Ids(objects') = Ids(objects) \ {objects[i].id}
    BY <1>1, <2>1, WithoutDirectory
  <2>4. DirectoryIsUploadsLessDeleted'
    BY <1>1, <2>1, <2>3, DirectoryTermsNext
  <2> QED BY <1>1, <2>1, <2>2, <2>4 DEF DirectoryInv
<1>5. CASE UNCHANGED objectVars
  BY <1>5 DEF objectVars, DirectoryInv, DirectoryIsUploadsLessDeleted
<1>6. \/ HandleUploadObject \/ UNCHANGED objectVars
      \/ \E i \in 1..Len(objects) : DeleteObject(i)
  BY StepCases, Zenon DEF Quiet, TriggerAuctionSimulation, GetObject
<1> QED BY <1>3, <1>4, <1>5, <1>6, Zenon

\* The toast on the screen always has its own timer still to come.
THEOREM ToastsAreTimed == Spec => []ToastHasItsTimer
<1>1. Init => ToastHasItsTimer
  <2> SUFFICES ASSUME Init PROVE ToastHasItsTimer
    OBVIOUS
  <2>1. toastMessage = NoToast
    BY Zenon DEF Init
  <2> QED BY <2>1 DEF ToastHasItsTimer, ToastOnScreen
<1> QED BY <1>1, InitTypeOK, NextTypeOK, ToastStep, PTL DEF Spec

\* The ledger always shows the latest auctions, newest first.
THEOREM LedgerIsLatest == Spec => []AuctionsAreLatest
<1>1. Init => AuctionsAreLatest
  <2> SUFFICES ASSUME Init PROVE AuctionsAreLatest
    OBVIOUS
  <2>1. auctions = 4 /\ auctionsList = <<4, 3, 2, 1>>
    BY Zenon DEF Init
  <2>2. Len(auctionsList) = 4
    BY <2>1
  <2>3. ASSUME NEW i \in 1..4 PROVE auctionsList[i] = 5 - i
    BY <2>1
  <2> QED BY <2>1, <2>2, <2>3 DEF AuctionsAreLatest
<1> QED BY <1>1, InitTypeOK, NextTypeOK, LedgerStep, PTL DEF Spec

\* The directory is exact at the start.
LEMMA InitDirectory == Init => DirectoryInv
<1> SUFFICES ASSUME Init PROVE DirectoryInv
  OBVIOUS
<1> DEFINE dataset == Object(3, <<"x">>, "vault-ml-bucket", Dataset, 1775)
           checkpoint == Object(2, <<"x">>, "vault-ai-models", Checkpoint, 6075)
           telemetry == Object(1, <<"x">>, "vault-telemetry", Telemetry, 262)
<1>1. /\ objects = <<dataset, checkpoint, telemetry>>
      /\ uploads = 3 /\ deleted = {}
  BY Zenon DEF Init
<1>2. dataset.id = 3 /\ checkpoint.id = 2 /\ telemetry.id = 1
  BY DEF Object
<1> HIDE DEF dataset, checkpoint, telemetry
<1>3. Len(objects) = 3 /\ \A i \in 1..3 : objects[i].id = 4 - i
  BY <1>1, <1>2
<1>4. \A i, j \in 1..3 : i < j => 4 - i > 4 - j
  OBVIOUS
<1>5. {4 - i : i \in 1..3} = 1..3
  OBVIOUS
<1>6. NewestFirst(objects)
  BY <1>3, <1>4 DEF NewestFirst
<1>7. Ids(objects) = {4 - i : i \in 1..3}
  BY <1>3 DEF Ids
<1> QED BY <1>1, <1>5, <1>6, <1>7, DirectoryTerms DEF DirectoryInv

\* The directory is always the uploads less the deletions, newest first.
THEOREM DirectoryIsExact == Spec => []DirectoryIsUploadsLessDeleted
<1>1. DirectoryInv => DirectoryIsUploadsLessDeleted
  BY DEF DirectoryInv
<1> QED BY <1>1, InitDirectory, InitTypeOK, NextTypeOK, DirectoryStep, PTL DEF Spec

-----------------------------------------------------------------------------
(* What a toast says *)

\* What the toast says is true of the lists, whether drawn or not.
ToastHolds ==
    /\ toastMessage.about = "stored" =>
          /\ objects # << >> /\ objects[1].id = toastMessage.of
    /\ toastMessage.about = "streamed" => toastMessage.of \in Ids(objects)
    /\ toastMessage.about = "deleted" => toastMessage.of \notin Ids(objects)
    /\ toastMessage.about = "auction" => auctionsList[1] = toastMessage.of

\* What is true of the lists is true of their drawings.
LEMMA ToastHoldsIsTrue == ASSUME TypeOK, ToastHolds PROVE ToastIsTrue
<1>1. ASSUME toastMessage.about = "stored"
      PROVE  toastMessage.of \in Ids(objects) /\ objects[1].id = toastMessage.of
  <2>1. objects # << >> /\ objects[1].id = toastMessage.of
    BY <1>1 DEF ToastHolds
  <2>2. objects \in Seq(ObjectRecord)
    BY DEF TypeOK
  <2>3. 1 \in 1..Len(objects)
    BY <2>1, <2>2
  <2> QED BY <2>1, <2>3, Zenon DEF Ids
<1>2. ASSUME toastMessage.about = "auction", NEW list \in {AuctionFeed, LedgerTable},
             list # << >>
      PROVE  list[1] = toastMessage.of
  BY <1>2 DEF ToastHolds, AuctionFeed, LedgerTable
<1>3. /\ toastMessage.about = "streamed" => toastMessage.of \in Ids(objects)
      /\ toastMessage.about = "deleted" => toastMessage.of \notin Ids(objects)
  BY Zenon DEF ToastHolds
<1> QED BY <1>1, <1>2, <1>3 DEF ToastIsTrue, Ids

\* A message that is about no list holds.
LEMMA QuietHolds ==
    ASSUME toastMessage' = NoToast \/ toastMessage' = Message("report", 0)
    PROVE  ToastHolds'
<1>1. toastMessage'.about = "none" \/ toastMessage'.about = "report"
  BY DEF NoToast, Message
<1> QED BY <1>1 DEF ToastHolds

\* Every step that changes a list replaces the toast by one about the change.
LEMMA TruthStep ==
    ASSUME TypeOK, DirectoryInv, ToastHolds, [Next]_vars
    PROVE  ToastHolds'
<1>1. CASE Quiet
  <2>1. CASE Timeout \/ ShowToast(Message("report", 0))
    BY <2>1, QuietHolds, Zenon DEF Timeout, ShowToast
  <2>2. CASE UNCHANGED toastVars
    <3>1. UNCHANGED <<toastMessage, objects, auctionsList>>
      BY <1>1, <2>2, Zenon DEF Quiet, toastVars, objectVars, auctionVars
    <3> QED BY <3>1, Zenon DEF ToastHolds, Ids
  <2> QED BY <1>1, <2>1, <2>2, Zenon DEF Quiet
<1>2. CASE TriggerAuctionSimulation
  <2>1. toastMessage' = Message("auction", auctions + 1)
    BY <1>2, Zenon DEF TriggerAuctionSimulation, ShowToast
  <2>2. auctionsList'[1] = auctions + 1
    BY <1>2, LedgerProperties
  <2> QED BY <2>1, <2>2 DEF ToastHolds, Message
<1>3. CASE HandleUploadObject
  <2> DEFINE new == Object(uploads + 1, StoredKey(newObjectKey), newObjectBucket,
                           newObjectSize, Chunks(newObjectSize))
  <2>1. /\ objects' = <<new>> \o objects
        /\ toastMessage' = Message("stored", uploads + 1)
    BY <1>3, Zenon DEF HandleUploadObject, ShowToast
  <2>2. new \in ObjectRecord /\ new.id = uploads + 1
    BY <1>3, NewObjectType DEF HandleUploadObject, Object
  <2> HIDE DEF new
  <2>3. objects' # << >> /\ objects'[1] = new
    <3>1. objects \in Seq(ObjectRecord)
      BY DEF TypeOK
    <3>2. Len(objects') = Len(objects) + 1 /\ objects'[1] = new
      BY <2>1, <2>2, <3>1, ConsProperties
    <3> QED BY <3>1, <3>2
  <2>4. objects' # << >> /\ objects'[1].id = uploads + 1
    BY <2>2, <2>3
  <2> QED BY <2>1, <2>4 DEF ToastHolds, Message
<1>4. ASSUME NEW i \in 1..Len(objects), GetObject(i) PROVE ToastHolds'
  <2>1. objects' = objects /\ toastMessage' = Message("streamed", objects[i].id)
    BY <1>4, Zenon DEF GetObject, ShowToast, objectVars
  <2>2. objects[i].id \in Ids(objects')
    BY <2>1 DEF Ids
  <2> QED BY <2>1, <2>2 DEF ToastHolds, Message
<1>5. ASSUME NEW i \in 1..Len(objects), DeleteObject(i) PROVE ToastHolds'
  <2>1. /\ objects' = Without(objects, i)
        /\ toastMessage' = Message("deleted", objects[i].id)
    BY <1>5, Zenon DEF DeleteObject, ShowToast
  <2>2. NewestFirst(objects)
    BY DirectoryTerms DEF DirectoryInv
  <2>3. objects[i].id \notin Ids(objects')
    BY <2>1, <2>2, WithoutDirectory
  <2> QED BY <2>1, <2>3 DEF ToastHolds, Message
<1> QED BY <1>1, <1>2, <1>3, <1>4, <1>5, StepCases, Zenon

\* What the toast on the screen says is true of the lists on the screen.
THEOREM ToastsAreTrue == Spec => []ToastIsTrue
<1>1. Init => ToastHolds
  <2> SUFFICES ASSUME Init PROVE ToastHolds
    OBVIOUS
  <2>1. toastMessage = NoToast
    BY Zenon DEF Init
  <2>2. toastMessage.about = "none"
    BY <2>1 DEF NoToast, Message
  <2> QED BY <2>2 DEF ToastHolds
<1>2. TypeOK /\ ToastHolds => ToastIsTrue
  BY ToastHoldsIsTrue
<1> QED BY <1>1, <1>2, InitTypeOK, InitDirectory, NextTypeOK, DirectoryStep,
           TruthStep, PTL DEF Spec

=============================================================================
