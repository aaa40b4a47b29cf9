--------------------------- MODULE ClipboardCache ---------------------------
(* Pasting without losing what the user copied (Wayland).  A transaction     *)
(* backs up the selection, offers the dictation instead, lets the target     *)
(* application read it and offers the backup again.  Its owner is the         *)
(* resident clipboard daemon, which keeps the current selection buffered and  *)
(* stays the owner of what it has restored, or, where that is not running, a  *)
(* child process of its own ("cold").                                        *)
(*                                                                          *)
(* Everything an owner knows of the selection it learnt when it last          *)
(* dispatched its events: users copy and clear at any moment in between.      *)
(* The primary selection, which is only ever served by a cold child the same  *)
(* way, and the transport of the commands are left out.                       *)
(*                                                                          *)
(* One delivery pastes at a time (the clipboard lock).  It waits a limited    *)
(* time for each answer of its owner and leaves without the last word; what   *)
(* it asked for is done all the same, by then perhaps beside the next         *)
(* delivery.  Only a cold child that was left behind is taken to have ended   *)
(* before the next delivery begins: it waits for nobody but the compositor.   *)
EXTENDS Integers, FiniteSets, Sequences

CONSTANTS
  MaxCopies,    \* bound: times users or applications copy or clear
  MaxPastes,    \* bound: deliveries
  MaxToggles,   \* bound: changes of output.preserve_clipboard
  MaxDeaths,    \* bound: times the clipboard daemon is killed
  MaxReads,     \* bound: readers of one selection at a time
  MaxOrders     \* bound: orders of the supervisor that wait for the daemon

ASSUME BoundAssumption ==
  /\ MaxCopies \in Nat /\ MaxPastes \in Nat /\ MaxToggles \in Nat
  /\ MaxDeaths \in Nat /\ MaxReads \in Nat \ {0} /\ MaxOrders \in Nat

VARIABLES
  real,         \* the compositor's selection: [id, by, content]
  seen,         \* by owner: the selection when it last dispatched its events
  nextId,       \* offers are told apart by their object id
  \* the daemon
  pc, enabled, cachedOffer, cache, ready, kept, requests,
  \* the transaction in progress, the delivery it is for, its owner and its backup
  tx, paste, owner, original, saved, temp, armed, active, finished, broken,
  client,       \* the delivery that wants to paste, the last one that began (pastes)
  preserve,     \* output.preserve_clipboard
  copies, pastes, toggles, deaths

selection == <<real, seen, nextId>>
daemon == <<pc, enabled, cachedOffer, cache, ready, kept, requests>>
transaction == <<tx, paste, owner, original, saved, temp, armed, active, finished, broken>>
budget == <<copies, pastes, toggles, deaths>>
vars == <<selection, daemon, transaction, client, preserve, budget>>

Owners == {"cache", "cold"}

(* Contents: what an application offers is named after its offer. *)
Empty == 0
Transcript == -1
Truncated == -2   \* what a reader gets of a selection that was replaced meanwhile

Offer(id, by, content) == [id |-> id, by |-> by, content |-> content]
NoOffer == Offer(0, "nobody", Empty)

(* Dispatching the pending events of the connection: the last Selection, and  *)
(* Cancelled for the restored source when it is no longer the selection.      *)
Dispatch(o) ==
  /\ seen' = [seen EXCEPT ![o] = real]
  /\ kept' = IF o = "cache" /\ kept.id # real.id THEN NoOffer ELSE kept
NoDispatch == UNCHANGED <<seen, kept>>

(* What backup() reads from an offer. *)
Bytes(id) == IF real.id = id THEN real.content ELSE Truncated

-----------------------------------------------------------------------------
(* The daemon's loop. *)

(* A new offer drops the old generation before the new one is read. *)
Buffered == enabled /\ kept'.id = 0 /\ real.id # cachedOffer
Pumps ==
  /\ pc = "loop"
  /\ Dispatch("cache")
  /\ IF Buffered
     THEN /\ cachedOffer' = real.id /\ cache' = Empty /\ ready' = (real.id = 0)
          /\ pc' = IF real.id = 0 THEN "serving" ELSE "buffering"
     ELSE UNCHANGED <<cachedOffer, cache, ready>> /\ pc' = "serving"
  /\ UNCHANGED <<real, nextId, enabled, requests, transaction, client, preserve, budget>>

Buffering(content, isReady, label) ==
  /\ pc = "buffering" /\ pc' = label
  /\ cache' = content /\ ready' = isReady
  /\ UNCHANGED <<real, nextId, enabled, cachedOffer, requests, transaction, client, preserve, budget>>

(* All formats were read: the last bytes may be those of a selection that is  *)
(* gone, without the owner having been told.                                  *)
Buffers == Buffering(Bytes(cachedOffer), TRUE, "serving") /\ NoDispatch
(* A newer copy, a stalled reader, more than the limits allow. *)
BufferingAborts == real.id # cachedOffer /\ Buffering(Empty, FALSE, "ending") /\ Dispatch("cache")
BufferingFails == Buffering(Empty, FALSE, "serving") /\ NoDispatch

Request(kind, of) == [kind |-> kind, of |-> of]
Serves(kind) ==
  pc = "serving" /\ requests # <<>> /\ Head(requests).kind = kind /\ requests' = Tail(requests)

(* Enabling makes the bytes of a source that is still offered eligible again; *)
(* the offer they are compared with stays what it was.                        *)
Enables ==
  /\ Serves("enable")
  /\ enabled' = TRUE
  /\ IF kept.id # 0 THEN cache' = kept.content /\ ready' = TRUE ELSE UNCHANGED <<cache, ready>>
  /\ UNCHANGED <<selection, pc, cachedOffer, kept, transaction, client, preserve, budget>>

Disables ==
  /\ Serves("disable")
  /\ enabled' = FALSE /\ cache' = Empty /\ ready' = FALSE /\ cachedOffer' = 0
  /\ UNCHANGED <<selection, pc, kept, transaction, client, preserve, budget>>

Queued(n) == \E i \in DOMAIN requests : requests[i] = Request("paste", n)

(* The end of a connection, or a last word: the delivery may have left. *)
Attended(n) == client # "idle" /\ pastes = n
Told(n) == client' = IF Attended(n) THEN "idle" ELSE client

(* The end of the round: no more requests, or a transaction was among them.  *)
RoundEnds ==
  /\ pc = "ending" \/ (pc = "serving" /\ requests = <<>>)
  /\ IF ~enabled /\ kept.id = 0
     THEN /\ pc' = "down" /\ requests' = <<>>
          /\ IF Queued(pastes) THEN Told(pastes) ELSE UNCHANGED client
     ELSE pc' = "loop" /\ UNCHANGED <<requests, client>>
  /\ UNCHANGED <<selection, enabled, cachedOffer, cache, ready, kept, transaction, preserve, budget>>

-----------------------------------------------------------------------------
(* A transaction: daemon_transaction of the daemon, serve of a cold child.    *)

Resets == armed' = FALSE /\ active' = 0 /\ finished' = FALSE /\ broken' = FALSE
Same == UNCHANGED <<armed, active, finished, broken>>
Outside == UNCHANGED <<preserve, budget, enabled, cachedOffer, cache, ready>>

(* cache_offer_eligible *)
Eligible(id) == ready /\ id = cachedOffer

TransactionBegins ==
  /\ Serves("paste")
  /\ IF ~enabled
     THEN /\ pc' = "ending" /\ Told(Head(requests).of)
          /\ UNCHANGED <<tx, paste, owner, original, saved>>
     ELSE /\ pc' = "paste" /\ owner' = "cache" /\ paste' = Head(requests).of
          /\ original' = seen["cache"].id
          /\ IF kept.id # 0 THEN saved' = kept.content /\ tx' = "checking"
             ELSE IF Eligible(seen["cache"].id) THEN saved' = cache /\ tx' = "checking"
             ELSE saved' = Empty /\ tx' = "backup"
          /\ UNCHANGED client
  /\ UNCHANGED <<selection, kept, temp>> /\ Same /\ Outside

(* Where no daemon listens, the delivery's own child connects. *)
ColdBegins ==
  /\ tx = "connecting"
  /\ tx' = "backup" /\ original' = real.id /\ saved' = Empty
  /\ Dispatch("cold")
  /\ UNCHANGED <<real, nextId, pc, requests, paste, owner, temp, client>> /\ Same /\ Outside

(* The owner goes back to its loop; a child ends, or only lives on as the     *)
(* selection's owner.                                                         *)
Lost == tx' = "none" /\ paste' = 0 /\ Resets /\ original' = 0 /\ saved' = Empty /\ temp' = 0
Ends ==
  /\ Lost
  /\ pc' = IF owner = "cache" THEN "ending" ELSE pc
Proceeds(label) == tx' = label /\ UNCHANGED <<pc, paste, client, original>> /\ Same

BacksUp ==
  /\ tx = "backup"
  /\ \/ saved' = (IF original = 0 THEN Empty ELSE Bytes(original)) /\ Proceeds("checking") /\ NoDispatch
          /\ UNCHANGED temp
     \/ original # 0 /\ Ends /\ Told(paste) /\ NoDispatch
     \/ real.id # original /\ Ends /\ Told(paste) /\ Dispatch(owner)
  /\ UNCHANGED <<real, nextId, requests, owner>> /\ Outside

(* The round trip before publication; a mutant does without. *)
Trusting(id) == TRUE
Unchanged(id) == real.id = id
Checks ==
  /\ tx = "checking"
  /\ Dispatch(owner)
  /\ IF Unchanged(original) THEN Proceeds("publishing") /\ UNCHANGED <<saved, temp>>
     ELSE Ends /\ Told(paste)
  /\ UNCHANGED <<real, nextId, requests, owner>> /\ Outside

(* set_selection: whatever the selection is by now. *)
Offers(content) ==
  /\ nextId' = nextId + 1
  /\ real' = IF content = Empty THEN NoOffer ELSE Offer(nextId, owner, content)

Publishes ==
  /\ tx = "publishing"
  /\ Offers(Transcript) /\ temp' = nextId
  /\ Proceeds("published")
  /\ UNCHANGED <<seen, kept, requests, owner, saved>> /\ Outside

(* Cancelled while it was being published: the paste is not started. *)
Published ==
  /\ tx = "published"
  /\ Dispatch(owner)
  /\ IF real.id = temp
     THEN tx' = "waiting"
          /\ client' = (IF Attended(paste) /\ client = "starting" THEN "ready" ELSE client)
          /\ UNCHANGED <<pc, paste, original, saved, temp>> /\ Resets
     ELSE Ends /\ Told(paste)
  /\ UNCHANGED <<real, nextId, requests, owner>> /\ Outside

Arms ==
  /\ tx = "waiting" /\ Attended(paste) /\ client = "arming"
  /\ client' = "armed" /\ armed' = TRUE /\ finished' = FALSE
  /\ UNCHANGED <<selection, pc, kept, requests, tx, paste, owner, original, saved, temp, active, broken>>
  /\ Outside

(* A reader of the text: the target application, or a clipboard manager. *)
ReadBegins ==
  /\ tx = "waiting" /\ armed /\ real.id = temp /\ active < MaxReads
  /\ active' = active + 1 /\ finished' = FALSE
  /\ UNCHANGED <<selection, pc, kept, requests, tx, paste, owner, original, saved, temp, armed, broken, client>>
  /\ Outside

(* A mutant of ReadEnds: it counts results of readers it does not know. *)
ReadEndsAnyhow ==
  /\ tx = "waiting" /\ active' = active - 1
  /\ finished' = (armed /\ active' = 0)
  /\ UNCHANGED <<selection, pc, kept, requests, tx, paste, owner, original, saved, temp, armed, broken,
                 client>>
  /\ Outside

(* apply_transfer_result *)
ReadEnds ==
  /\ tx = "waiting" /\ active > 0 /\ active' = active - 1
  /\ \/ finished' = (armed /\ active' = 0) /\ UNCHANGED broken
     \/ broken' = TRUE /\ UNCHANGED finished
  /\ UNCHANGED <<selection, pc, kept, requests, tx, paste, owner, original, saved, temp, armed, client>>
  /\ Outside

Replaced ==
  /\ tx = "waiting" /\ real.id # temp
  /\ Dispatch(owner) /\ Ends /\ Told(paste)
  /\ UNCHANGED <<real, nextId, requests, owner>> /\ Outside

(* The settled read that confirms a paste. *)
Complete == Attended(paste) /\ client = "sent" /\ finished /\ active = 0 /\ ~broken

(* A mutant of Stops: it waits for the target, or an abort, for ever. *)
StopsInTimeOnly ==
  /\ tx = "waiting" /\ real.id = temp
  /\ Complete \/ ~Attended(paste) \/ client = "dropping"
  /\ broken' = ~Complete
  /\ tx' = "restoring"
  /\ Dispatch(owner)
  /\ UNCHANGED <<real, nextId, pc, requests, paste, owner, original, saved, temp, armed, active, finished,
                 client>>
  /\ Outside

(* Complete, given up by the delivery, or late (60 s to the key, then 8 s):   *)
(* the events are dispatched once more before the selection is touched.       *)
Stops ==
  /\ tx = "waiting" /\ real.id = temp
  /\ broken' = ~Complete
  /\ tx' = "restoring"
  /\ Dispatch(owner)
  /\ UNCHANGED <<real, nextId, pc, requests, paste, owner, original, saved, temp, armed, active, finished,
                 client>>
  /\ Outside

(* A mutant of Restores: the transcript stays. *)
LeavesText ==
  /\ tx = "restoring" /\ tx' = "restored" /\ temp' = real.id
  /\ UNCHANGED <<selection, pc, kept, requests, paste, owner, original, saved, armed, active, finished,
                 broken, client>>
  /\ Outside

Restores ==
  /\ tx = "restoring"
  /\ Offers(saved) /\ temp' = (IF saved = Empty THEN 0 ELSE nextId)
  /\ Proceeds("restored")
  /\ UNCHANGED <<seen, kept, requests, owner, saved>> /\ Outside

(* The daemon keeps the source for as long as it is offered. *)
Replies ==
  /\ tx = "restored"
  /\ seen' = [seen EXCEPT ![owner] = real]
  /\ kept' = IF owner = "cold" THEN kept ELSE IF real.id = temp /\ temp # 0 THEN real ELSE NoOffer
  /\ Ends /\ Told(paste)
  /\ UNCHANGED <<real, nextId, requests, owner>> /\ Outside

-----------------------------------------------------------------------------
(* The delivery (preserving_wayland_paste). *)

Client(from, to) ==
  /\ client = from /\ client' = to
  /\ UNCHANGED <<selection, daemon, transaction, preserve, budget>>

PasteBegins ==
  /\ client = "idle" /\ preserve /\ pastes < MaxPastes
  /\ owner = "cold" => tx = "none"
  /\ pastes' = pastes + 1 /\ client' = "starting"
  /\ IF pc = "down"
     THEN tx' = "connecting" /\ owner' = "cold" /\ paste' = pastes' /\ UNCHANGED requests
     ELSE requests' = Append(requests, Request("paste", pastes')) /\ UNCHANGED <<tx, owner, paste>>
  /\ UNCHANGED <<selection, pc, enabled, cachedOffer, cache, ready, kept, original, saved, temp,
                 armed, active, finished, broken, preserve, copies, toggles, deaths>>

ClientArms == Client("ready", "arming")
SendsKey == Client("armed", "sent")

(* No answer in time (50 s to begin, 1 s to arm, 10 s after the key), a newer  *)
(* session, a key that could not be sent: the delivery writes an abort, which  *)
(* the owner reads when it gets to it (Stops), and gives it 2 s for an answer. *)
GivesUp == \E s \in {"starting", "ready", "arming", "armed", "sent"} : Client(s, "dropping")
Leaves == Client("dropping", "idle")

-----------------------------------------------------------------------------
(* Users, applications, the supervisor of the daemon. *)

UserCopies ==
  /\ copies < MaxCopies /\ copies' = copies + 1
  /\ nextId' = nextId + 1
  /\ real' \in {Offer(nextId, "app", nextId), NoOffer} \ {real}
  /\ UNCHANGED <<seen, daemon, transaction, client, preserve, pastes, toggles, deaths>>

Toggles ==
  /\ toggles < MaxToggles /\ toggles' = toggles + 1 /\ preserve' = ~preserve
  /\ UNCHANGED <<selection, daemon, transaction, client, copies, pastes, deaths>>

(* Every half second the supervisor tells the daemon what the configuration   *)
(* says, whether or not it listens, and starts it where it should run and does *)
(* not.                                                                        *)
Order == Request(IF preserve THEN "enable" ELSE "disable", 0)
OrdersWaiting == Cardinality({i \in DOMAIN requests : requests[i].kind # "paste"})
Supervises ==
  /\ pc # "down" /\ OrdersWaiting < MaxOrders
  /\ requests' = Append(requests, Order)
  /\ UNCHANGED <<selection, pc, enabled, cachedOffer, cache, ready, kept, transaction, client,
                 preserve, budget>>

DaemonStarts ==
  /\ pc = "down" /\ preserve
  /\ pc' = "loop" /\ enabled' = TRUE /\ cachedOffer' = 0 /\ cache' = Empty /\ ready' = FALSE
  /\ seen' = [seen EXCEPT !["cache"] = real] /\ kept' = NoOffer /\ requests' = <<>>
  /\ UNCHANGED <<real, nextId, transaction, client, preserve, budget>>

(* Its selections die with it. *)
DaemonDies ==
  /\ pc # "down" /\ deaths < MaxDeaths /\ deaths' = deaths + 1
  /\ pc' = "down" /\ kept' = NoOffer /\ requests' = <<>>
  /\ real' = IF real.by = "cache" THEN NoOffer ELSE real
  /\ IF pc = "paste" THEN Lost ELSE UNCHANGED <<tx, paste, armed, active, finished, broken, original, saved, temp>>
  /\ IF (pc = "paste" /\ paste = pastes) \/ Queued(pastes) THEN Told(pastes) ELSE UNCHANGED client
  /\ UNCHANGED <<seen, nextId, enabled, cachedOffer, cache, ready, owner, preserve, copies, pastes, toggles>>

Init ==
  /\ real \in {NoOffer, Offer(1, "app", 1)} /\ seen = [o \in Owners |-> NoOffer] /\ nextId = 2
  /\ pc = "down" /\ enabled = TRUE /\ cachedOffer = 0 /\ cache = Empty /\ ready = FALSE
  /\ kept = NoOffer /\ requests = <<>>
  /\ tx = "none" /\ paste = 0 /\ owner = "cache" /\ original = 0 /\ saved = Empty /\ temp = 0
  /\ armed = FALSE /\ active = 0 /\ finished = FALSE /\ broken = FALSE
  /\ client = "idle" /\ preserve = TRUE
  /\ copies = 0 /\ pastes = 0 /\ toggles = 0 /\ deaths = 0

Loop == Pumps \/ Buffers \/ BufferingAborts \/ BufferingFails \/ Enables \/ Disables \/ RoundEnds
Transaction ==
  \/ TransactionBegins \/ ColdBegins \/ BacksUp \/ Checks \/ Publishes \/ Published \/ Arms
  \/ Replaced \/ Stops \/ Restores \/ Replies
Environment ==
  \/ ReadBegins \/ ReadEnds \/ PasteBegins \/ ClientArms \/ SendsKey \/ GivesUp \/ Leaves
  \/ UserCopies \/ Toggles \/ Supervises \/ DaemonStarts \/ DaemonDies
Next == Loop \/ Transaction \/ Environment

(* The daemon and its transactions are threads that always run; their waits   *)
(* are bounded (BACKUP_STALL_LIMIT, BACKUP_LIMIT, READ_LIMIT, 60 s).  Nothing *)
(* is asked of the delivery.                                                  *)
Fairness == WF_vars(Loop) /\ WF_vars(Transaction)
Spec == Init /\ [][Next]_vars
FairSpec == Spec /\ Fairness

-----------------------------------------------------------------------------
(* Properties. *)

Contents == {Truncated, Transcript} \cup Nat
Selections == [id : Nat, by : {"app", "cache", "cold", "nobody"}, content : Contents]

SelectionOK ==
  /\ real \in Selections /\ seen \in [Owners -> Selections] /\ nextId \in Nat

Requests == [kind : {"enable", "disable", "paste"}, of : Nat]
DaemonOK ==
  /\ pc \in {"down", "loop", "buffering", "serving", "paste", "ending"}
  /\ enabled \in BOOLEAN /\ cachedOffer \in Nat /\ cache \in Contents /\ ready \in BOOLEAN
  /\ kept \in Selections
  /\ requests \in Seq(Requests)

TransactionOK ==
  /\ tx \in {"none", "connecting", "backup", "checking", "publishing", "published", "waiting", "restoring", "restored"}
  /\ paste \in Nat /\ owner \in Owners /\ original \in Nat /\ saved \in Contents /\ temp \in Nat
  /\ armed \in BOOLEAN /\ active \in Nat /\ finished \in BOOLEAN /\ broken \in BOOLEAN

ClientOK ==
  /\ client \in {"idle", "starting", "ready", "arming", "armed", "sent", "dropping"}
  /\ preserve \in BOOLEAN
  /\ copies \in Nat /\ pastes \in Nat /\ toggles \in Nat /\ deaths \in Nat

(* Type correctness of the selection, the daemon, the transaction and the delivery. *)
TypeOK == SelectionOK /\ DaemonOK /\ TransactionOK /\ ClientOK

(* An owner that has seen the selection it takes over has saved its bytes,    *)
(* all of them and no others: it will offer them again.  And it takes over    *)
(* nothing but its own text when it offers them: a copy made since, if the    *)
(* owner has heard of it, stays.                                              *)
Takes(from, to) == tx = from /\ tx' = to /\ seen[owner] = real
CopiesSurvive ==
  [][/\ Takes("publishing", "published") /\ real # NoOffer => saved = real.content
     /\ Takes("restoring", "restored") => real.id = temp]_vars

(* An owner takes over an empty clipboard with nothing to restore: bytes of   *)
(* an older offer are not eligible for use.  The code does not hold this:     *)
(* what it restored stays eligible after the daemon was disabled and enabled. *)
NothingResurrected == [][Takes("publishing", "published") /\ real = NoOffer => saved = Empty]_vars

(* Nobody finds the dictation on the clipboard of a finished transaction, nor *)
(* does the daemon mistake it for something worth keeping.                    *)
TranscriptIsTemporary ==
  /\ real.content = Transcript => tx \in {"published", "waiting", "restoring"} /\ real.id = temp
  /\ kept.content # Transcript

(* A delivery stops waiting after its own limits, but its request is carried  *)
(* out: whether or not it is still there, whatever the user, the applications *)
(* and the supervisor do and whether or not anybody reads the text, the last  *)
(* paste that was asked for, which those before it precede, comes to an end   *)
(* with its owner (and the text is off the clipboard then,                    *)
(* TranscriptIsTemporary).                                                    *)
Pending(n) == Queued(n) \/ (tx # "none" /\ paste = n)
PasteEnds == Pending(pastes) ~> ~Pending(pastes)

(* Whoever failed to get a backup has not put the dictation on the clipboard. *)
(* The code does not hold this: buffering may take its 45 s and the backup    *)
(* another 45 s, the delivery reports "clipboard backup unavailable" after 50 *)
(* s, and the daemon publishes the text for a delivery that has left.         *)
PublishedForSomebody == [][tx = "publishing" /\ tx' = "published" => Attended(paste)]_vars

=============================================================================
