------------------------------- MODULE Console -------------------------------
(***************************************************************************)
(* The operator console (src/App.tsx): one React component whose state is  *)
(* a tab, a mobile menu, a modal, a toast, the auction ledger, the object  *)
(* directory and the upload form.  It calls no server.                     *)
(*                                                                         *)
(* React applies the updates of a click before it handles the next one, so *)
(* an event handler is one step.  What runs besides the handlers are the   *)
(* timers of showToast: each clears whatever toast is on the screen when   *)
(* it fires.  All have the same delay, so they fire in the order in which  *)
(* they were set.                                                          *)
(*                                                                         *)
(* A toast is what it says of the lists; the wording is left out, and with *)
(* it which of the buttons that only report something was pressed.  A      *)
(* ledger entry is the number of its auction.  An object keeps a number,   *)
(* for its random checksum, its key, its bucket, its size and its chunks;  *)
(* replicas and date are left out.                                         *)
(*                                                                         *)
(* A button is there when its tab is.  The open modal covers the page for  *)
(* the pointer but not for the keyboard, so it disables nothing.           *)
(***************************************************************************)
EXTENDS Integers, Sequences

CONSTANTS
    KeyInput,      \* what is typed into the key field
    SizeInput,     \* the sizes chosen in the form
    BucketInput,   \* the buckets chosen in the form
    MaxToasts      \* bound on the toasts, hence on uploads and auctions

\* "/" and any other character: all that the form tells apart in a key.
Char == {"/", "x"}

Bucket == {"vault-production-bucket", "vault-ml-bucket", "vault-ai-models",
           "vault-telemetry"}

\* A size, and what parseInt makes of it: the number before the unit, so that
\* "1 GB" is the smallest.
Size(text, parsed) == [text |-> text, parsed |-> parsed]

SizeOption == {Size("64 MB", 64), Size("128 MB", 128),
               Size("256 MB", 256), Size("1 GB", 1)}

ASSUME FormAssumption ==
    KeyInput \subseteq Seq(Char) /\ SizeInput \subseteq SizeOption
                               /\ BucketInput \subseteq Bucket
ASSUME BoundAssumption == MaxToasts \in Nat

Tab == {"overview", "cluster-health", "storage-auctions", "benchmarks",
        "documentation", "s3-storage"}

VARIABLES
    activeTab, isMobileMenuOpen,
    modalType,        \* "deploy" or "none"
    toastMessage,     \* what the toast on the screen says, if there is one
    timers,           \* the toasts whose timer has not fired, oldest first
    auctionsList,     \* the ledger, newest first
    objects,          \* the object directory
    newObjectKey, newObjectSize, newObjectBucket,   \* the upload form
    toasts,           \* history: number of toasts so far
    auctions,         \* history: number of auctions so far
    uploads,          \* history: number of objects so far
    deleted           \* history: the objects reported as deleted

navVars == <<activeTab, isMobileMenuOpen, modalType>>
toastVars == <<toastMessage, timers, toasts>>
auctionVars == <<auctionsList, auctions>>
formVars == <<newObjectKey, newObjectSize, newObjectBucket>>
objectVars == <<objects, uploads, deleted>>
vars == <<navVars, toastVars, auctionVars, formVars, objectVars>>

\* The sizes of the objects the directory starts with.
Telemetry == Size("2.1 GB", 2)
Checkpoint == Size("48.6 GB", 48)
Dataset == Size("14.2 GB", 14)

Object(id, key, bucket, size, chunks) ==
    [id |-> id, key |-> key, bucket |-> bucket, size |-> size,
     chunks |-> chunks]

ObjectRecord == [id : Nat, key : Seq(Char), bucket : Bucket,
                 size : SizeOption \cup {Telemetry, Checkpoint, Dataset},
                 chunks : Nat]

\* What a toast can say: that object "of" was stored, streamed or deleted, that
\* auction "of" was finalized, or something that no list shows.
Topic == {"none", "report", "stored", "streamed", "deleted", "auction"}
Message(about, of) == [about |-> about, of |-> of]
NoToast == Message("none", 0)

TypeOK ==
    /\ activeTab \in Tab
    /\ isMobileMenuOpen \in BOOLEAN
    /\ modalType \in {"none", "deploy"}
    /\ toastMessage \in [about : Topic, of : Nat]
    /\ timers \in Seq(Nat)
    /\ auctionsList \in Seq(Nat)
    /\ objects \in Seq(ObjectRecord)
    /\ newObjectKey \in Seq(Char)
    /\ newObjectSize \in SizeOption
    /\ newObjectBucket \in Bucket
    /\ toasts \in Nat /\ auctions \in Nat /\ uploads \in Nat
    /\ deleted \in SUBSET Nat

Init ==
    /\ activeTab = "overview"
    /\ isMobileMenuOpen = FALSE
    /\ modalType = "none"
    /\ toastMessage = NoToast /\ timers = << >> /\ toasts = 0
    /\ auctionsList = <<4, 3, 2, 1>> /\ auctions = 4
    /\ objects = << Object(3, <<"x">>, "vault-ml-bucket", Dataset, 1775),
                    Object(2, <<"x">>, "vault-ai-models", Checkpoint, 6075),
                    Object(1, <<"x">>, "vault-telemetry", Telemetry, 262) >>
    /\ uploads = 3 /\ deleted = {}
    /\ newObjectKey = << >> /\ newObjectSize = Size("256 MB", 256)
    /\ newObjectBucket = "vault-production-bucket"

-----------------------------------------------------------------------------
ToastOnScreen == toastMessage # NoToast

\* Mutant: a timer is set only when no toast is on the screen.
ShowToastArmedIfNone(msg) ==
    /\ toasts < MaxToasts
    /\ toasts' = toasts + 1
    /\ toastMessage' = msg
    /\ timers' = IF ToastOnScreen THEN timers ELSE Append(timers, toasts')

\* Mutant: the timer is set in an effect that runs once.
ShowToastArmedOnce(msg) ==
    /\ toasts < MaxToasts
    /\ toasts' = toasts + 1
    /\ toastMessage' = msg
    /\ timers' = IF toasts = 0 THEN Append(timers, toasts') ELSE timers

\* Mutant: a toast on the screen is kept until its time is over.
ShowToastKept(msg) ==
    /\ toasts < MaxToasts
    /\ toasts' = toasts + 1
    /\ toastMessage' = IF ToastOnScreen THEN toastMessage ELSE msg
    /\ timers' = Append(timers, toasts')

\* showToast: show a toast and set a timer.  The timers of earlier toasts stay.
ShowToast(msg) ==
    /\ toasts < MaxToasts
    /\ toasts' = toasts + 1
    /\ toastMessage' = msg
    /\ timers' = Append(timers, toasts')

\* A timer fires and clears the toast, its own or a later one.
Timeout ==
    /\ timers # << >>
    /\ timers' = Tail(timers)
    /\ toastMessage' = NoToast
    /\ UNCHANGED <<navVars, toasts, auctionVars, formVars, objectVars>>

-----------------------------------------------------------------------------
(* The header, the mobile menu, the modal and the footer, on every tab *)

\* setActiveTab, as the header's logo and its six buttons call it.
SetActiveTab(tab) ==
    /\ activeTab' = tab
    /\ UNCHANGED <<isMobileMenuOpen, modalType>>
    /\ UNCHANGED <<toastVars, auctionVars, formVars, objectVars>>

ToggleMobileMenu ==
    /\ isMobileMenuOpen' = ~isMobileMenuOpen
    /\ UNCHANGED <<activeTab, modalType>>
    /\ UNCHANGED <<toastVars, auctionVars, formVars, objectVars>>

\* A choice in the mobile menu closes it.
ChooseInMobileMenu(tab) ==
    /\ isMobileMenuOpen
    /\ activeTab' = tab
    /\ isMobileMenuOpen' = FALSE
    /\ UNCHANGED modalType
    /\ UNCHANGED <<toastVars, auctionVars, formVars, objectVars>>

OpenModal ==
    /\ modalType' = "deploy"
    /\ UNCHANGED <<activeTab, isMobileMenuOpen>>
    /\ UNCHANGED <<toastVars, auctionVars, formVars, objectVars>>

\* A button that only reports something.
Report ==
    /\ ShowToast(Message("report", 0))
    /\ UNCHANGED <<navVars, auctionVars, formVars, objectVars>>

\* The cross and Cancel; "Copy Command & Close" reports something as well.
CloseModal ==
    /\ modalType = "deploy"
    /\ modalType' = "none"
    /\ UNCHANGED toastVars \/ ShowToast(Message("report", 0))
    /\ UNCHANGED <<activeTab, isMobileMenuOpen>>
    /\ UNCHANGED <<auctionVars, formVars, objectVars>>

\* Launch Test, Deploy Node and the operator's avatar.
HeaderButton == Report \/ OpenModal

FooterLink == \E tab \in {"cluster-health", "storage-auctions",
                          "documentation", "overview"} : SetActiveTab(tab)

-----------------------------------------------------------------------------
(* The tabs overview, cluster-health and documentation *)

\* Health check, SLA report and live stream.
QuickAction == activeTab = "overview" /\ Report

\* The feed beside the charts draws the whole ledger; its button leads to the
\* tab that draws it again.
AuctionFeed == IF activeTab = "overview" THEN auctionsList ELSE << >>
InspectAuctions == activeTab = "overview" /\ SetActiveTab("storage-auctions")

\* The banner below: the API docs and the docker daemon.
DeployBanner ==
    activeTab = "overview" /\ (SetActiveTab("documentation") \/ OpenModal)

\* Palette, topology, diagnosis, and Add New Node.
FleetToolbar == activeTab = "cluster-health" /\ (Report \/ OpenModal)

\* View Racks of a zone, SMART and Drain of a node, which change neither, and
\* the install command.
ViewRacks == activeTab = "cluster-health" /\ Report
NodeAction == activeTab = "cluster-health" /\ Report
CopyInstallCommand == activeTab = "cluster-health" /\ Report

DownloadPdf == activeTab = "documentation" /\ Report

-----------------------------------------------------------------------------
(* The tab storage-auctions *)

LedgerTable == IF activeTab = "storage-auctions" THEN auctionsList ELSE << >>

\* Mutant: the ledger keeps six of its entries.
TriggerAuctionSimulationKeepsSix ==
    /\ activeTab = "storage-auctions"
    /\ auctions' = auctions + 1
    /\ auctionsList' = <<auctions'>> \o
                       SubSeq(auctionsList, 1, IF Len(auctionsList) < 6
                                               THEN Len(auctionsList) ELSE 6)
    /\ ShowToast(Message("auction", auctions'))
    /\ UNCHANGED <<navVars, formVars, objectVars>>

\* triggerAuctionSimulation: a new entry before the first five of the ledger.
TriggerAuctionSimulation ==
    /\ activeTab = "storage-auctions"
    /\ auctions' = auctions + 1
    /\ auctionsList' = <<auctions'>> \o
                       SubSeq(auctionsList, 1, IF Len(auctionsList) < 5
                                               THEN Len(auctionsList) ELSE 5)
    /\ ShowToast(Message("auction", auctions'))
    /\ UNCHANGED <<navVars, formVars, objectVars>>

-----------------------------------------------------------------------------
(* The tab s3-storage *)

\* The fields of the upload form.
EditKey(key) ==
    /\ activeTab = "s3-storage"
    /\ newObjectKey' = key
    /\ UNCHANGED <<newObjectSize, newObjectBucket>>
    /\ UNCHANGED <<navVars, toastVars, auctionVars, objectVars>>

EditSize(size) ==
    /\ activeTab = "s3-storage"
    /\ newObjectSize' = size
    /\ UNCHANGED <<newObjectKey, newObjectBucket>>
    /\ UNCHANGED <<navVars, toastVars, auctionVars, objectVars>>

EditBucket(bucket) ==
    /\ activeTab = "s3-storage"
    /\ newObjectBucket' = bucket
    /\ UNCHANGED <<newObjectKey, newObjectSize>>
    /\ UNCHANGED <<navVars, toastVars, auctionVars, objectVars>>

\* One leading slash is taken off a key.
StoredKey(key) == IF Head(key) = "/" THEN Tail(key) ELSE key

\* Mutant: the last chunk is not counted, nor is there always one.
ChunksOneLess(size) == (size.parsed \div 8) - 1

\* A chunk for every 8 of the number that parseInt reads, and at least one.
Chunks(size) == IF size.parsed \div 8 < 1 THEN 1 ELSE size.parsed \div 8

\* handleUploadObject: without a key it returns at once.
HandleUploadObject ==
    /\ activeTab = "s3-storage"
    /\ newObjectKey # << >>
    /\ uploads' = uploads + 1
    /\ objects' = << Object(uploads', StoredKey(newObjectKey), newObjectBucket,
                            newObjectSize, Chunks(newObjectSize)) >> \o objects
    /\ newObjectKey' = << >>
    /\ ShowToast(Message("stored", uploads'))
    /\ UNCHANGED <<navVars, auctionVars, newObjectSize, newObjectBucket, deleted>>

\* The GET button of the i-th row.
GetObject(i) ==
    /\ activeTab = "s3-storage"
    /\ ShowToast(Message("streamed", objects[i].id))
    /\ UNCHANGED <<navVars, auctionVars, formVars, objectVars>>

Without(seq, i) == SubSeq(seq, 1, i - 1) \o SubSeq(seq, i + 1, Len(seq))

\* Mutant: the rows to delete are found by their key.
DeleteObjectByKey(i) ==
    /\ activeTab = "s3-storage"
    /\ objects' = SelectSeq(objects, LAMBDA row : row.key # objects[i].key)
    /\ deleted' = deleted \cup {objects[i].id}
    /\ ShowToast(Message("deleted", objects[i].id))
    /\ UNCHANGED <<navVars, auctionVars, formVars, uploads>>

\* The delete button of the i-th row; the toast names the row's object.
DeleteObject(i) ==
    /\ activeTab = "s3-storage"
    /\ objects' = Without(objects, i)
    /\ deleted' = deleted \cup {objects[i].id}
    /\ ShowToast(Message("deleted", objects[i].id))
    /\ UNCHANGED <<navVars, auctionVars, formVars, uploads>>

-----------------------------------------------------------------------------
\* The buttons that change none of the lists.
Button ==
    \/ \E tab \in Tab : SetActiveTab(tab) \/ ChooseInMobileMenu(tab)
    \/ ToggleMobileMenu \/ CloseModal \/ HeaderButton \/ FooterLink
    \/ QuickAction \/ InspectAuctions \/ DeployBanner
    \/ FleetToolbar \/ ViewRacks \/ NodeAction \/ CopyInstallCommand
    \/ DownloadPdf

EditForm ==
    \/ \E key \in KeyInput : EditKey(key)
    \/ \E size \in SizeInput : EditSize(size)
    \/ \E bucket \in BucketInput : EditBucket(bucket)

Next ==
    \/ Timeout \/ Button \/ EditForm
    \/ TriggerAuctionSimulation
    \/ HandleUploadObject
    \/ \E i \in 1..Len(objects) : GetObject(i) \/ DeleteObject(i)

Spec == Init /\ [][Next]_vars

\* The browser fires every timer.  Nothing makes anyone click.
FairSpec == Spec /\ WF_vars(Timeout)

-----------------------------------------------------------------------------
\* The toast on the screen has its own timer still to come: an earlier toast's
\* timer may take it away too soon, but no order of clicks and timers leaves a
\* toast that nothing will clear.
ToastHasItsTimer ==
    ToastOnScreen => timers # << >> /\ timers[Len(timers)] = toasts

\* What the toast says is true of the lists on the screen, whatever was done
\* since it appeared: the object it says was stored heads the directory, the
\* one it says was streamed is in it, the one it says was deleted is not, and
\* the auction it says was finalized heads the feed or the ledger.
ToastIsTrue ==
    LET of == toastMessage.of
        listed == {objects[i].id : i \in 1..Len(objects)}
    IN  /\ toastMessage.about = "stored" => of \in listed /\ objects[1].id = of
        /\ toastMessage.about = "streamed" => of \in listed
        /\ toastMessage.about = "deleted" => of \notin listed
        /\ toastMessage.about = "auction" =>
              \A list \in {AuctionFeed, LedgerTable} : list # << >> => list[1] = of

\* The ledger shows the latest auctions, six of them at most, newest first,
\* although every auction rewrites it from the list on the screen.
AuctionsAreLatest ==
    /\ Len(auctionsList) = IF auctions < 6 THEN auctions ELSE 6
    /\ \A i \in 1..Len(auctionsList) : auctionsList[i] = auctions + 1 - i

\* The directory holds, newest first, exactly the objects uploaded and not
\* reported as deleted: rows are deleted by their position, which every upload
\* and every other deletion shifts.
DirectoryIsUploadsLessDeleted ==
    /\ \A i, j \in 1..Len(objects) : i < j => objects[i].id > objects[j].id
    /\ {objects[i].id : i \in 1..Len(objects)} = (1..uploads) \ deleted

\* A toast goes away.
ToastGoes == ToastOnScreen ~> ~ToastOnScreen
=============================================================================
