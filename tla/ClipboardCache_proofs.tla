----------------------- MODULE ClipboardCache_proofs -----------------------
(* Safety of the clipboard transaction for any number of copies, pastes,     *)
(* toggles, deaths and readers.  Ids only grow, so a selection that was      *)
(* replaced never comes back (Newest); what an owner has saved is what it    *)
(* has seen (Saved), and the dictation is only ever its own (TextIsOwned).   *)
EXTENDS ClipboardCache, TLAPS

(* Nobody writes to a daemon that does not run, and while pastes wait for the *)
(* daemon no cold child is at work.                                           *)
PasteWaits == \E i \in DOMAIN requests : requests[i].kind = "paste"
QueueInv ==
  /\ pc = "down" => requests = <<>>
  /\ PasteWaits => tx = "none" \/ owner = "cache"

(* The daemon is at a transaction exactly while it owns one. *)
AtPaste == pc = "paste" <=> tx # "none" /\ owner = "cache"

(* Every id was given out, and only an empty clipboard has an older one than  *)
(* anybody remembers.                                                         *)
GivenOut ==
  /\ real.id < nextId /\ kept.id < nextId /\ cachedOffer < nextId
  /\ original < nextId /\ temp < nextId /\ nextId > 0
  /\ \A o \in Owners : seen[o].id < nextId
Newest ==
  real.id # 0 =>
    /\ kept.id <= real.id /\ cachedOffer <= real.id
    /\ original <= real.id /\ temp <= real.id
    /\ \A o \in Owners : seen[o].id <= real.id
NothingIsEmpty == (real.id = 0 => real = NoOffer) /\ (kept.id = 0 => kept = NoOffer)

(* What the daemon keeps is its own, newer than what it buffered, and what it *)
(* last saw offered.                                                          *)
KeptInv ==
  /\ kept.id # 0 => kept.id = seen["cache"].id /\ cachedOffer < kept.id
  /\ kept.id = real.id => kept.content = real.content
  /\ tx \in {"published", "waiting", "restoring", "restored"} /\ owner = "cache" /\ temp # 0
       => cachedOffer < temp

(* What was buffered of the selection are its bytes. *)
CacheInv ==
  /\ ready /\ real.id = cachedOffer /\ cachedOffer # 0 => cache = real.content
  /\ cache = Transcript => cachedOffer # 0
  /\ kept.content # Transcript

(* What was backed up of the selection are its bytes. *)
SavedInv ==
  /\ tx = "checking" =>
       /\ real.id = original /\ original # 0 => saved = real.content
       /\ saved = Transcript => original # 0
  /\ tx = "publishing" =>
       /\ seen[owner].id = original
       /\ seen[owner] # NoOffer => saved = seen[owner].content
  /\ tx \in {"publishing", "published", "waiting", "restoring"} => saved # Transcript
  /\ tx = "restoring" => seen[owner].id = temp

TextIsOwned ==
  real.content = Transcript =>
    tx \in {"published", "waiting", "restoring"} /\ real.id = temp /\ real.by = owner

Types == SelectionOK /\ DaemonOK /\ TransactionOK /\ ClientOK
QueueOK == QueueInv /\ AtPaste
ValuesOK == GivenOut /\ Newest /\ NothingIsEmpty /\ KeptInv /\ CacheInv /\ SavedInv /\ TextIsOwned
IInv == Types /\ QueueOK /\ ValuesOK

-----------------------------------------------------------------------------

LEMMA ContentsKnown ==
  /\ {Empty, Transcript, Truncated} \subseteq Contents
  /\ Empty # Transcript /\ Truncated # Transcript
  /\ NoOffer \in Selections /\ NoOffer.id = 0 /\ NoOffer.content = Empty
BY DEF Contents, Empty, Transcript, Truncated, NoOffer, Offer, Selections

LEMMA InitEstablishes == Init => IInv
<1> SUFFICES ASSUME Init PROVE IInv
  OBVIOUS
<1>0. Offer(1, "app", 1) \in Selections /\ Offer(1, "app", 1).id = 1
  BY DEF Offer, Selections, Contents
<1>1. Types
  <2>1. SelectionOK
    BY <1>0, ContentsKnown DEF Init, SelectionOK
  <2>2. <<>> \in Seq(Requests)
    OBVIOUS
  <2>3. DaemonOK
    BY ContentsKnown, <2>2 DEF Init, DaemonOK
  <2>4. TransactionOK
    BY ContentsKnown DEF Init, TransactionOK, Owners
  <2>5. ClientOK
    BY BoundAssumption DEF Init, ClientOK
  <2> QED BY <2>1, <2>3, <2>4, <2>5 DEF Types
<1>2. QueueOK
  BY DEF Init, QueueOK, QueueInv, AtPaste, PasteWaits
<1>3. GivenOut /\ Newest /\ NothingIsEmpty
  BY ContentsKnown DEF Init, GivenOut, Newest, NothingIsEmpty, Owners, Offer
<1>4. KeptInv /\ CacheInv /\ SavedInv /\ TextIsOwned
  BY <1>0, ContentsKnown DEF Init, Offer, Transcript, KeptInv, CacheInv, SavedInv, TextIsOwned
<1> QED BY <1>1, <1>2, <1>3, <1>4 DEF IInv, ValuesOK

-----------------------------------------------------------------------------
(* Types. *)

LEMMA DispatchIsTyped ==
  ASSUME Types, NEW o \in Owners, Dispatch(o)
  PROVE  seen' \in [Owners -> Selections] /\ kept' \in Selections
BY ContentsKnown DEF Types, SelectionOK, DaemonOK, Dispatch

LEMMA LoopIsTyped ==
  ASSUME Types, Loop PROVE Types'
<1> USE DEF Types
<1>1. CASE Pumps
  <2>1. seen' \in [Owners -> Selections] /\ kept' \in Selections
    BY <1>1, DispatchIsTyped DEF Pumps, Owners
  <2>2. /\ pc' \in {"serving", "buffering"} /\ cachedOffer' \in Nat /\ cache' \in Contents /\ ready' \in BOOLEAN
    BY <1>1, ContentsKnown DEF Pumps, SelectionOK, DaemonOK, Selections
  <2> QED BY <1>1, <2>1, <2>2 DEF Pumps, SelectionOK, DaemonOK, TransactionOK, ClientOK, transaction, budget
<1>2. CASE Buffers \/ BufferingAborts \/ BufferingFails
  <2>1. /\ pc' \in {"serving", "ending"} /\ cache' \in Contents /\ ready' \in BOOLEAN
        /\ UNCHANGED <<real, nextId, enabled, cachedOffer, requests, transaction, client, preserve, budget>>
    BY <1>2, ContentsKnown DEF Buffers, BufferingAborts, BufferingFails, Buffering, Bytes, SelectionOK, Selections
  <2>2. seen' \in [Owners -> Selections] /\ kept' \in Selections
    BY <1>2, DispatchIsTyped DEF Buffers, BufferingAborts, BufferingFails, NoDispatch, Owners, SelectionOK, DaemonOK
  <2> QED BY <2>1, <2>2 DEF SelectionOK, DaemonOK, TransactionOK, ClientOK, transaction, budget
<1>3. CASE Enables \/ Disables
  <2>1. requests' \in Seq(Requests)
    BY <1>3 DEF Enables, Disables, Serves, DaemonOK
  <2>2. /\ enabled' \in BOOLEAN /\ cachedOffer' \in Nat /\ cache' \in Contents /\ ready' \in BOOLEAN
        /\ UNCHANGED <<selection, pc, kept, transaction, client, preserve, budget>>
    BY <1>3, ContentsKnown DEF Enables, Disables, DaemonOK, Selections
  <2> QED BY <2>1, <2>2 DEF SelectionOK, DaemonOK, TransactionOK, ClientOK, selection, transaction, budget
<1>4. CASE RoundEnds
  <2>1. <<>> \in Seq(Requests)
    OBVIOUS
  <2>2. /\ pc' \in {"down", "loop"} /\ requests' \in {requests, <<>>}
        /\ client' \in {"idle", client}
    BY <1>4 DEF RoundEnds, Told
  <2>3. requests' \in Seq(Requests)
    BY <2>1, <2>2 DEF DaemonOK
  <2> QED BY <1>4, <2>2, <2>3 DEF RoundEnds, SelectionOK, DaemonOK, TransactionOK, ClientOK, selection, transaction, budget
<1> QED BY <1>1, <1>2, <1>3, <1>4 DEF Loop

LEMMA OfferIsTyped ==
  ASSUME Types, NEW c \in Contents, Offers(c)
  PROVE  real' \in Selections /\ nextId' \in Nat
BY ContentsKnown DEF Types, SelectionOK, TransactionOK, Offers, Offer, Selections, Owners

LEMMA EndIsTyped ==
  ASSUME TransactionOK, Lost, UNCHANGED owner PROVE TransactionOK'
<1>1. /\ tx' = "none" /\ paste' = 0 /\ original' = 0 /\ saved' = Empty /\ temp' = 0
      /\ armed' = FALSE /\ active' = 0 /\ finished' = FALSE /\ broken' = FALSE
  BY DEF Lost, Resets
<1> QED BY <1>1, ContentsKnown DEF TransactionOK

(* The next step of a transaction, or its end. *)
LEMMA MovesAreTyped ==
  ASSUME Types, seen' \in [Owners -> Selections], kept' \in Selections, saved' \in Contents,
         UNCHANGED <<real, nextId, requests, owner>>, Outside,
         \/ \E l \in {"checking", "publishing"} : Proceeds(l) /\ UNCHANGED temp
         \/ Ends /\ Told(paste)
  PROVE  Types'
<1> USE DEF Types
<1>1. SelectionOK'
  BY DEF SelectionOK
<1>2. CASE \E l \in {"checking", "publishing"} : Proceeds(l) /\ UNCHANGED temp
  <2>1. DaemonOK'
    BY <1>2 DEF Proceeds, Outside, DaemonOK
  <2>2. TransactionOK'
    BY <1>2 DEF Proceeds, Same, TransactionOK
  <2>3. ClientOK'
    BY <1>2 DEF Proceeds, Outside, ClientOK, budget
  <2> QED BY <1>1, <2>1, <2>2, <2>3
<1>3. CASE Ends /\ Told(paste)
  <2>1. DaemonOK'
    BY <1>3 DEF Ends, Outside, DaemonOK
  <2>2. TransactionOK'
    BY <1>3, EndIsTyped DEF Ends
  <2>3. ClientOK'
    BY <1>3 DEF Told, Outside, ClientOK, budget
  <2> QED BY <1>1, <2>1, <2>2, <2>3
<1> QED BY <1>2, <1>3

LEMMA TransactionIsTyped ==
  ASSUME Types, Transaction PROVE Types'
<1> USE DEF Types
<1>0. owner \in Owners /\ saved \in Contents /\ seen[owner].id \in Nat
  BY DEF TransactionOK, SelectionOK, Selections
<1>1. CASE TransactionBegins
  <2>0. requests' \in Seq(Requests) /\ Head(requests) \in Requests
    BY <1>1 DEF TransactionBegins, Serves, DaemonOK
  <2>1. requests' \in Seq(Requests) /\ paste' \in Nat
    BY <1>1, <2>0 DEF TransactionBegins, TransactionOK, Requests
  <2>2. /\ pc' \in {"ending", "paste"} /\ owner' \in Owners /\ original' \in Nat /\ saved' \in Contents
        /\ tx' \in {tx, "checking", "backup"} /\ client' \in {client, "idle"}
    BY <1>1, ContentsKnown
       DEF TransactionBegins, SelectionOK, DaemonOK, TransactionOK, Selections, Owners, Told
  <2> QED BY <1>1, <2>1, <2>2 DEF TransactionBegins, Same, Outside, SelectionOK, DaemonOK, TransactionOK,
                                  ClientOK, selection, budget
<1>2. CASE ColdBegins
  <2>1. seen' \in [Owners -> Selections] /\ kept' \in Selections
    BY <1>2, DispatchIsTyped DEF ColdBegins, Owners
  <2>2. owner' \in Owners /\ original' \in Nat /\ saved' \in Contents
    BY <1>2, ContentsKnown DEF ColdBegins, SelectionOK, TransactionOK, Selections
  <2> QED BY <1>2, <2>1, <2>2 DEF ColdBegins, Same, Outside, SelectionOK, DaemonOK, TransactionOK, ClientOK, budget
<1>3. CASE BacksUp
  <2>1. seen' \in [Owners -> Selections] /\ kept' \in Selections
    BY <1>0, <1>3, DispatchIsTyped DEF BacksUp, NoDispatch, SelectionOK, DaemonOK
  <2>2. saved' \in Contents
    BY <1>3, ContentsKnown DEF BacksUp, Bytes, Ends, Lost, SelectionOK, Selections
  <2>3. (Proceeds("checking") /\ UNCHANGED temp) \/ (Ends /\ Told(paste))
    BY <1>3 DEF BacksUp
  <2>4. UNCHANGED <<real, nextId, requests, owner>> /\ Outside
    BY <1>3 DEF BacksUp
  <2> QED BY <2>1, <2>2, <2>3, <2>4, MovesAreTyped
<1>4. CASE Checks \/ Published \/ Replaced \/ Stops
  <2>1. seen' \in [Owners -> Selections] /\ kept' \in Selections
    BY <1>0, <1>4, DispatchIsTyped DEF Checks, Published, Replaced, Stops
  <2>2. UNCHANGED <<real, nextId, requests, owner>> /\ Outside
    BY <1>4 DEF Checks, Published, Replaced, Stops
  <2>3. CASE Ends /\ Told(paste)
    <3>1. saved' \in Contents
      BY <2>3, ContentsKnown DEF Ends, Lost
    <3> QED BY <2>1, <2>2, <2>3, <3>1, MovesAreTyped
  <2>4. CASE Checks /\ Proceeds("publishing") /\ UNCHANGED <<saved, temp>>
    BY <1>0, <2>1, <2>2, <2>4, MovesAreTyped
  <2>5. CASE Published /\ tx' = "waiting"
    <3>1. client' \in {"ready", client} /\ UNCHANGED <<pc, paste, original, saved, temp>> /\ Resets
      BY <2>5 DEF Published, Ends, Lost
    <3>2. SelectionOK' /\ DaemonOK'
      BY <2>1, <2>2, <3>1 DEF Outside, SelectionOK, DaemonOK
    <3>3. TransactionOK'
      BY <2>2, <2>5, <3>1 DEF Resets, TransactionOK
    <3>4. ClientOK'
      BY <2>2, <3>1 DEF Outside, ClientOK, budget
    <3> QED BY <3>2, <3>3, <3>4
  <2>6. CASE Stops
    <3>1. broken' \in BOOLEAN
      BY <2>6 DEF Stops, Complete
    <3> QED BY <2>1, <2>2, <2>6, <3>1
            DEF Stops, Outside, SelectionOK, DaemonOK, TransactionOK, ClientOK, budget
  <2> QED BY <1>4, <2>3, <2>4, <2>5, <2>6 DEF Checks, Published, Replaced
<1>5. CASE Publishes \/ Restores
  <2>1. real' \in Selections /\ nextId' \in Nat
    BY <1>0, <1>5, ContentsKnown, OfferIsTyped DEF Publishes, Restores
  <2>2. temp' \in Nat /\ tx' \in {"published", "restored"}
    BY <1>5 DEF Publishes, Restores, Proceeds, SelectionOK
  <2> QED BY <1>5, <2>1, <2>2 DEF Publishes, Restores, Proceeds, Same, Outside, SelectionOK, DaemonOK,
                                  TransactionOK, ClientOK, budget
<1>6. CASE Arms
  BY <1>6 DEF Arms, Outside, SelectionOK, DaemonOK, TransactionOK, ClientOK, selection, budget
<1>7. CASE Replies
  <2>1. seen' \in [Owners -> Selections] /\ kept' \in Selections
    BY <1>7, ContentsKnown DEF Replies, SelectionOK, DaemonOK
  <2>2. saved' \in Contents
    BY <1>7, ContentsKnown DEF Replies, Ends, Lost
  <2>3. Ends /\ Told(paste)
    BY <1>7 DEF Replies
  <2> QED BY <1>7, <2>1, <2>2, <2>3, MovesAreTyped DEF Replies
<1> QED BY <1>1, <1>2, <1>3, <1>4, <1>5, <1>6, <1>7 DEF Transaction

LEMMA EnvironmentIsTyped ==
  ASSUME Types, Environment PROVE Types'
<1> USE DEF Types
<1>1. CASE ReadBegins \/ ReadEnds
  <2>1. active' \in Nat
    BY <1>1 DEF ReadBegins, ReadEnds, TransactionOK
  <2>2. finished' \in BOOLEAN
    BY <1>1 DEF ReadBegins, ReadEnds, TransactionOK
  <2>3. broken' \in BOOLEAN
    BY <1>1 DEF ReadBegins, ReadEnds, TransactionOK
  <2>4. /\ UNCHANGED <<selection, pc, kept, requests, tx, paste, owner, original, saved, temp, armed, client>>
        /\ Outside
    BY <1>1 DEF ReadBegins, ReadEnds
  <2>5. SelectionOK' /\ DaemonOK'
    BY <2>4 DEF Outside, SelectionOK, DaemonOK, selection
  <2>6. TransactionOK'
    BY <2>1, <2>2, <2>3, <2>4 DEF TransactionOK
  <2>7. ClientOK'
    BY <2>4 DEF Outside, ClientOK, budget
  <2> QED BY <2>5, <2>6, <2>7
<1>2. CASE PasteBegins
  <2>1. requests' \in Seq(Requests)
    <3>1. pastes + 1 \in Nat
      BY DEF ClientOK
    <3>2. requests' = requests \/ requests' = Append(requests, Request("paste", pastes + 1))
      BY <1>2 DEF PasteBegins
    <3>3. Request("paste", pastes + 1) \in Requests
      BY <3>1 DEF Request, Requests
    <3> QED BY <3>2, <3>3 DEF DaemonOK
  <2>2. pastes' \in Nat /\ paste' \in Nat /\ owner' \in Owners /\ tx' \in {tx, "connecting"}
    BY <1>2 DEF PasteBegins, ClientOK, TransactionOK, Owners
  <2> QED BY <1>2, <2>1, <2>2 DEF PasteBegins, SelectionOK, DaemonOK, TransactionOK, ClientOK, selection
<1>8. CASE Supervises
  <2>1. requests' \in Seq(Requests)
    <3>1. Order \in Requests
      BY DEF Order, Request, Requests
    <3> QED BY <1>8, <3>1 DEF Supervises, DaemonOK
  <2> QED BY <1>8, <2>1 DEF Supervises, SelectionOK, DaemonOK, TransactionOK, ClientOK,
                            selection, transaction, budget
<1>3. CASE ClientArms \/ SendsKey \/ GivesUp \/ Leaves
  <2>1. /\ client' \in {"arming", "sent", "dropping", "idle"}
        /\ UNCHANGED <<selection, daemon, transaction, preserve, budget>>
    BY <1>3 DEF ClientArms, SendsKey, GivesUp, Leaves, Client
  <2> QED BY <2>1 DEF SelectionOK, DaemonOK, TransactionOK, ClientOK, selection, daemon, transaction, budget
<1>4. CASE UserCopies
  <2>1. copies + 1 \in Nat /\ nextId \in Nat
    BY DEF ClientOK, SelectionOK
  <2>2. real' \in Selections
    BY <1>4, <2>1, ContentsKnown DEF UserCopies, SelectionOK, Offer, Selections, Contents
  <2>3. copies' \in Nat /\ nextId' \in Nat
    BY <1>4, <2>1 DEF UserCopies, SelectionOK
  <2> QED BY <1>4, <2>2, <2>3 DEF UserCopies, SelectionOK, DaemonOK, TransactionOK, ClientOK, daemon, transaction
<1>5. CASE Toggles
  BY <1>5 DEF Toggles, SelectionOK, DaemonOK, TransactionOK, ClientOK, selection, daemon, transaction
<1>6. CASE DaemonStarts
  <2>1. seen' \in [Owners -> Selections] /\ kept' \in Selections /\ cache' \in Contents
    BY <1>6, ContentsKnown DEF DaemonStarts, SelectionOK
  <2>2. <<>> \in Seq(Requests)
    OBVIOUS
  <2>3. SelectionOK'
    BY <1>6, <2>1 DEF DaemonStarts, SelectionOK
  <2>4. DaemonOK'
    BY <1>6, <2>1, <2>2 DEF DaemonStarts, DaemonOK
  <2>5. TransactionOK' /\ ClientOK'
    BY <1>6 DEF DaemonStarts, TransactionOK, ClientOK, transaction, budget
  <2> QED BY <2>3, <2>4, <2>5
<1>7. CASE DaemonDies
  <2>1. real' \in Selections /\ kept' \in Selections /\ saved' \in Contents
    BY <1>7, ContentsKnown DEF DaemonDies, Lost, SelectionOK, TransactionOK
  <2>2. <<>> \in Seq(Requests)
    OBVIOUS
  <2>3. SelectionOK'
    BY <1>7, <2>1 DEF DaemonDies, SelectionOK
  <2>4. DaemonOK'
    BY <1>7, <2>1, <2>2 DEF DaemonDies, DaemonOK
  <2>5. TransactionOK'
    <3>1. CASE pc = "paste"
      BY <1>7, <3>1, EndIsTyped DEF DaemonDies
    <3>2. CASE pc # "paste"
      BY <1>7, <3>2 DEF DaemonDies, TransactionOK
    <3> QED BY <3>1, <3>2
  <2>6. ClientOK'
    BY <1>7 DEF DaemonDies, Told, ClientOK
  <2> QED BY <2>3, <2>4, <2>5, <2>6
<1> QED BY <1>1, <1>2, <1>3, <1>4, <1>5, <1>6, <1>7, <1>8 DEF Environment

-----------------------------------------------------------------------------
(* The daemon's queue.                                                       *)

LEMMA QueueShrinks ==
  ASSUME Types, NEW kind, Serves(kind)
  PROVE  /\ pc = "serving"
         /\ PasteWaits' => PasteWaits
         /\ kind = "paste" => PasteWaits
<1>1. /\ requests \in Seq(Requests) /\ Len(requests) > 0
      /\ requests[1].kind = kind /\ requests' = Tail(requests)
  BY DEF Types, DaemonOK, Serves
<1>2. /\ DOMAIN requests' = 1..(Len(requests) - 1) /\ DOMAIN requests = 1..Len(requests)
      /\ \A i \in DOMAIN requests' : requests'[i] = requests[i + 1] /\ i + 1 \in DOMAIN requests
  BY <1>1
<1>3. 1 \in DOMAIN requests
  BY <1>1, <1>2
<1> QED BY <1>1, <1>2, <1>3 DEF PasteWaits, Serves

LEMMA QueueGrows ==
  ASSUME Types, NEW r, requests' = Append(requests, r)
  PROVE  PasteWaits' => PasteWaits \/ r.kind = "paste"
<1>1. requests \in Seq(Requests)
  BY DEF Types, DaemonOK
<1>2. /\ DOMAIN requests' = 1..(Len(requests) + 1) /\ DOMAIN requests = 1..Len(requests)
      /\ requests'[Len(requests) + 1] = r /\ \A i \in DOMAIN requests : requests'[i] = requests[i]
  BY <1>1
<1>3. \A i \in DOMAIN requests' : i \in DOMAIN requests \/ i = Len(requests) + 1
  BY <1>1, <1>2
<1> QED BY <1>2, <1>3 DEF PasteWaits

LEMMA QueueStays ==
  ASSUME QueueOK, UNCHANGED <<requests, tx, owner>>, pc' = "paste" <=> pc = "paste",
         pc' = "down" => pc = "down"
  PROVE  QueueOK'
BY DEF QueueOK, QueueInv, AtPaste, PasteWaits

LEMMA LoopKeepsQueue ==
  ASSUME Types, QueueOK, Loop PROVE QueueOK'
<1>1. CASE Pumps \/ Buffers \/ BufferingAborts \/ BufferingFails
  BY <1>1, QueueStays DEF Pumps, Buffers, BufferingAborts, BufferingFails, Buffering, transaction
<1>2. CASE Enables \/ Disables
  <2>1. PICK kind : Serves(kind)
    BY <1>2 DEF Enables, Disables
  <2>2. UNCHANGED <<pc, tx, owner>>
    BY <1>2 DEF Enables, Disables, transaction
  <2> QED BY <2>1, <2>2, QueueShrinks DEF QueueOK, QueueInv, AtPaste
<1>3. CASE RoundEnds
  <2>1. UNCHANGED <<tx, owner>> /\ pc # "paste" /\ pc' # "paste"
    BY <1>3 DEF RoundEnds, transaction
  <2>2. CASE requests' = requests /\ pc' # "down"
    BY <2>1, <2>2, QueueStays
  <2>3. CASE requests' = <<>>
    BY <2>1, <2>3 DEF QueueOK, QueueInv, AtPaste, PasteWaits
  <2> QED BY <1>3, <2>2, <2>3 DEF RoundEnds
<1> QED BY <1>1, <1>2, <1>3 DEF Loop

LEMMA TransactionKeepsQueue ==
  ASSUME Types, QueueOK, Transaction PROVE QueueOK'
<1> USE DEF QueueOK
<1>1. CASE TransactionBegins
  <2>1. Serves("paste") /\ pc = "serving" /\ pc' # "down"
    BY <1>1 DEF TransactionBegins, Serves
  <2>2. PasteWaits /\ tx = "none"
    BY <2>1, QueueShrinks DEF QueueInv, AtPaste
  <2>3. QueueInv'
    BY <1>1, <2>1, <2>2, QueueShrinks DEF QueueInv, TransactionBegins
  <2>4. AtPaste'
    BY <1>1, <2>2 DEF TransactionBegins, AtPaste
  <2> QED BY <2>3, <2>4
<1>2. CASE ColdBegins
  <2>1. UNCHANGED <<requests, pc, owner>> /\ tx # "none" /\ tx' # "none"
    BY <1>2 DEF ColdBegins
  <2> QED BY <2>1 DEF QueueInv, AtPaste, PasteWaits
<1>3. CASE BacksUp \/ Checks \/ Publishes \/ Published \/ Arms \/ Replaced \/ Stops \/ Restores \/ Replies
  <2>1. tx # "none" /\ UNCHANGED <<requests, owner>>
    BY <1>3 DEF BacksUp, Checks, Publishes, Published, Arms, Replaced, Stops, Restores, Replies
  <2>4. pc' = pc \/ Ends
    BY <1>3 DEF BacksUp, Checks, Publishes, Published, Arms, Replaced, Stops, Restores, Replies, Proceeds
  <2>5. Ends \/ (tx' # "none" /\ pc' = pc)
    BY <1>3, <2>1, <2>4
       DEF BacksUp, Checks, Publishes, Published, Arms, Replaced, Stops, Restores, Replies, Proceeds
  <2>6. AtPaste'
    BY <2>1, <2>5 DEF AtPaste, Ends, Lost
  <2>7. QueueInv'
    BY <2>1, <2>5 DEF QueueInv, PasteWaits, Ends, Lost
  <2> QED BY <2>6, <2>7
<1> QED BY <1>1, <1>2, <1>3 DEF Transaction

LEMMA EnvironmentKeepsQueue ==
  ASSUME Types, QueueOK, Environment PROVE QueueOK'
<1> USE DEF QueueOK
<1>1. CASE \/ ReadBegins \/ ReadEnds \/ ClientArms \/ SendsKey \/ GivesUp \/ Leaves
           \/ UserCopies \/ Toggles
  BY <1>1, QueueStays DEF ReadBegins, ReadEnds, ClientArms, SendsKey, GivesUp, Leaves, UserCopies, Toggles,
                          Client, daemon, transaction
<1>2. CASE PasteBegins
  <2>1. UNCHANGED pc /\ (owner = "cold" => tx = "none") /\ owner \in Owners
    BY <1>2 DEF PasteBegins, Types, TransactionOK
  <2>2. CASE pc = "down"
    <3>1. requests' = <<>> /\ tx' = "connecting" /\ owner' = "cold"
      BY <1>2, <2>2 DEF PasteBegins, QueueInv
    <3> QED BY <2>1, <2>2, <3>1 DEF QueueInv, AtPaste, PasteWaits
  <2>3. CASE pc # "down"
    <3>1. UNCHANGED <<tx, owner>>
      BY <1>2, <2>3 DEF PasteBegins
    <3> QED BY <2>1, <2>3, <3>1 DEF QueueInv, AtPaste, Owners
  <2> QED BY <2>2, <2>3
<1>3. CASE Supervises
  <2>1. /\ requests' = Append(requests, Order) /\ Order.kind # "paste" /\ pc # "down"
        /\ UNCHANGED <<pc, tx, owner>>
    BY <1>3 DEF Supervises, Order, Request, transaction
  <2> QED BY <2>1, QueueGrows DEF QueueInv, AtPaste
<1>4. CASE DaemonStarts
  BY <1>4 DEF DaemonStarts, QueueInv, AtPaste, PasteWaits, transaction
<1>5. CASE DaemonDies
  BY <1>5 DEF DaemonDies, Lost, QueueInv, AtPaste, PasteWaits
<1> QED BY <1>1, <1>2, <1>3, <1>4, <1>5 DEF Environment

-----------------------------------------------------------------------------
(* What the owners know and have saved.                                      *)

knowledge == <<real, seen, nextId, kept, cachedOffer, cache, ready, tx, owner, original, saved, temp>>

LEMMA QuietSteps ==
  ASSUME ValuesOK, UNCHANGED knowledge PROVE ValuesOK'
BY DEF knowledge, ValuesOK, GivenOut, Newest, NothingIsEmpty, KeptInv, CacheInv, SavedInv, TextIsOwned

(* An owner hears of the selection; nothing else has changed. *)
LEMMA DispatchKnows ==
  ASSUME Types, ValuesOK, NEW o \in Owners, Dispatch(o), UNCHANGED <<real, nextId>>
  PROVE  /\ seen'[o] = real /\ \A q \in Owners \ {o} : seen'[q] = seen[q]
         /\ kept'.id <= kept.id \/ kept' = kept
         /\ kept' \in {kept, NoOffer}
         /\ kept'.id # 0 => kept' = kept /\ kept.id = seen'["cache"].id
<1>1. seen'[o] = real /\ \A q \in Owners \ {o} : seen'[q] = seen[q]
  BY DEF Dispatch, Types, SelectionOK
<1>2. kept' \in {kept, NoOffer} /\ (kept'.id # 0 => kept' = kept)
  BY ContentsKnown DEF Dispatch
<1>3. NoOffer.id <= kept.id
  BY ContentsKnown DEF Types, DaemonOK, Selections
<1>4. kept'.id # 0 => kept.id = seen'["cache"].id
  <2>1. CASE o = "cache"
    BY <1>1, <1>2, <2>1, ContentsKnown DEF Dispatch
  <2>2. CASE o # "cache"
    BY <1>1, <1>2, <2>2 DEF ValuesOK, KeptInv, Owners
  <2> QED BY <2>1, <2>2
<1> QED BY <1>1, <1>2, <1>3, <1>4

LEMMA KnowledgeIsTyped ==
  ASSUME Types
  PROVE  /\ real.id \in Nat /\ kept.id \in Nat /\ nextId \in Nat /\ cachedOffer \in Nat
         /\ original \in Nat /\ temp \in Nat /\ \A o \in Owners : seen[o].id \in Nat
         /\ owner \in Owners /\ "cache" \in Owners /\ "cold" \in Owners
BY DEF Types, SelectionOK, DaemonOK, TransactionOK, Selections, Owners

LEMMA LoopKeepsValues ==
  ASSUME Types, AtPaste, ValuesOK, Loop PROVE ValuesOK'
<1> USE ContentsKnown, KnowledgeIsTyped DEF ValuesOK
<1>1. CASE Pumps
  <2>1. Dispatch("cache") /\ UNCHANGED <<real, nextId, transaction>> /\ pc = "loop"
    BY <1>1 DEF Pumps
  <2>2. tx = "none" \/ owner = "cold"
    BY <2>1 DEF AtPaste, Types, TransactionOK, Owners
  <2>3. \/ UNCHANGED <<cachedOffer, cache, ready>>
        \/ /\ cachedOffer' = real.id /\ cache' = Empty /\ kept'.id = 0
           /\ ready' => real.id = 0
    BY <1>1 DEF Pumps, Buffered
  <2>4. GivenOut' /\ Newest' /\ NothingIsEmpty'
    BY <2>1, <2>3, DispatchKnows DEF GivenOut, Newest, NothingIsEmpty, transaction
  <2>5. KeptInv'
    BY <2>1, <2>2, <2>3, DispatchKnows DEF KeptInv, NothingIsEmpty, transaction
  <2>6. CacheInv'
    BY <2>1, <2>3, DispatchKnows DEF CacheInv, transaction
  <2>7. SavedInv' /\ TextIsOwned'
    BY <2>1, <2>2, DispatchKnows DEF SavedInv, TextIsOwned, transaction
  <2> QED BY <2>4, <2>5, <2>6, <2>7
<1>2. CASE Buffers \/ BufferingAborts \/ BufferingFails
  <2>1. /\ UNCHANGED <<real, nextId, cachedOffer, transaction>> /\ pc = "buffering"
        /\ UNCHANGED <<seen, kept>> \/ Dispatch("cache")
    BY <1>2 DEF Buffers, BufferingAborts, BufferingFails, Buffering, NoDispatch
  <2>2. tx = "none" \/ owner = "cold"
    BY <2>1 DEF AtPaste, Types, TransactionOK, Owners
  <2>3. (cache' = Empty /\ ready' = FALSE) \/ cache' = Bytes(cachedOffer)
    BY <1>2 DEF Buffers, BufferingAborts, BufferingFails, Buffering
  <2>4. GivenOut' /\ Newest' /\ NothingIsEmpty'
    BY <2>1, DispatchKnows DEF GivenOut, Newest, NothingIsEmpty, transaction
  <2>5. KeptInv'
    BY <2>1, <2>2, DispatchKnows DEF KeptInv, NothingIsEmpty, transaction
  <2>6. CacheInv'
    BY <2>1, <2>3, DispatchKnows DEF CacheInv, NothingIsEmpty, Bytes, transaction
  <2>7. SavedInv' /\ TextIsOwned'
    BY <2>1, <2>2, DispatchKnows DEF SavedInv, TextIsOwned, transaction
  <2> QED BY <2>4, <2>5, <2>6, <2>7
<1>3. CASE Enables
  <2>1. /\ UNCHANGED <<selection, cachedOffer, kept, transaction>>
        /\ (kept.id # 0 /\ cache' = kept.content) \/ (kept.id = 0 /\ UNCHANGED <<cache, ready>>)
    BY <1>3 DEF Enables
  <2>2. GivenOut' /\ Newest' /\ NothingIsEmpty' /\ KeptInv' /\ SavedInv' /\ TextIsOwned'
    BY <2>1 DEF GivenOut, Newest, NothingIsEmpty, KeptInv, SavedInv, TextIsOwned, selection, transaction
  <2>3. CacheInv'
    BY <2>1 DEF CacheInv, KeptInv, Newest, selection
  <2> QED BY <2>2, <2>3
<1>4. CASE Disables
  <2>1. UNCHANGED <<selection, kept, transaction>> /\ cachedOffer' = 0 /\ cache' = Empty /\ ready' = FALSE
    BY <1>4 DEF Disables
  <2>2. GivenOut' /\ Newest' /\ NothingIsEmpty' /\ CacheInv' /\ SavedInv' /\ TextIsOwned'
    BY <2>1 DEF GivenOut, Newest, NothingIsEmpty, CacheInv, SavedInv, TextIsOwned, selection, transaction
  <2>3. KeptInv'
    BY <2>1 DEF KeptInv, selection, transaction
  <2> QED BY <2>2, <2>3
<1>5. CASE RoundEnds
  BY <1>5, QuietSteps DEF RoundEnds, knowledge, selection, transaction
<1> QED BY <1>1, <1>2, <1>3, <1>4, <1>5 DEF Loop

(* A transaction is over: what it knew is forgotten. *)
LEMMA EndKeepsValues ==
  ASSUME Types, ValuesOK, Lost, UNCHANGED <<real, nextId, cachedOffer, cache, ready, owner>>,
         real.content # Transcript,
         \/ UNCHANGED <<seen, kept>>
         \/ Dispatch(owner)
         \/ /\ seen' = [seen EXCEPT ![owner] = real]
            /\ kept' = IF owner = "cold" THEN kept
                       ELSE IF real.id = temp /\ temp # 0 THEN real ELSE NoOffer
            /\ tx = "restored"
  PROVE  ValuesOK'
<1> USE ContentsKnown, KnowledgeIsTyped DEF ValuesOK
<1>1. tx' = "none" /\ original' = 0 /\ temp' = 0
  BY DEF Lost
<1>2. /\ \A o \in Owners : seen'[o].id \in {seen[o].id, real.id}
      /\ kept' \in {kept, NoOffer, real}
      /\ kept'.id # 0 => kept'.id = seen'["cache"].id /\ cachedOffer < kept'.id
  <2>1. CASE UNCHANGED <<seen, kept>>
    BY <2>1 DEF KeptInv
  <2>2. CASE Dispatch(owner)
    BY <2>2, DispatchKnows DEF KeptInv
  <2>3. CASE ~UNCHANGED <<seen, kept>> /\ ~Dispatch(owner)
    <3>1. /\ seen'[owner] = real /\ \A o \in Owners \ {owner} : seen'[o] = seen[o]
      BY <2>3 DEF Types, SelectionOK
    <3>2. CASE owner = "cold"
      BY <2>3, <3>1, <3>2 DEF KeptInv
    <3>3. CASE owner = "cache"
      BY <2>3, <3>1, <3>3 DEF KeptInv
    <3> QED BY <3>2, <3>3 DEF Owners
  <2> QED BY <2>1, <2>2, <2>3
<1>3. GivenOut' /\ Newest' /\ NothingIsEmpty'
  BY <1>1, <1>2 DEF GivenOut, Newest, NothingIsEmpty
<1>4. KeptInv' /\ CacheInv'
  BY <1>1, <1>2 DEF KeptInv, CacheInv, NothingIsEmpty
<1>5. SavedInv' /\ TextIsOwned'
  BY <1>1 DEF SavedInv, TextIsOwned
<1> QED BY <1>3, <1>4, <1>5

LEMMA TransactionKeepsValues ==
  ASSUME Types, QueueOK, ValuesOK, Transaction PROVE ValuesOK'
<1> USE ContentsKnown, KnowledgeIsTyped DEF ValuesOK
<1>1. CASE TransactionBegins
  <2>1. Serves("paste") /\ UNCHANGED <<selection, kept, temp, cachedOffer, cache, ready>>
    BY <1>1 DEF TransactionBegins, Outside
  <2>2. tx = "none"
    BY <2>1, QueueShrinks DEF QueueOK, QueueInv, AtPaste
  <2>3. CASE UNCHANGED <<tx, owner, original, saved>>
    BY <2>1, <2>3, QuietSteps DEF knowledge, selection
  <2>4. CASE ~UNCHANGED <<tx, owner, original, saved>>
    <3>1. /\ owner' = "cache" /\ original' = seen["cache"].id
          /\ \/ kept.id # 0 /\ saved' = kept.content /\ tx' = "checking"
             \/ Eligible(seen["cache"].id) /\ saved' = cache /\ tx' = "checking"
             \/ saved' = Empty /\ tx' = "backup"
      BY <1>1, <2>4 DEF TransactionBegins
    <3>2. GivenOut' /\ Newest' /\ NothingIsEmpty' /\ KeptInv' /\ CacheInv'
      BY <2>1, <3>1 DEF GivenOut, Newest, NothingIsEmpty, KeptInv, CacheInv, selection
    <3>3. SavedInv'
      BY <2>1, <3>1 DEF SavedInv, KeptInv, CacheInv, Eligible, selection
    <3>4. TextIsOwned'
      BY <2>1, <2>2 DEF TextIsOwned, selection
    <3> QED BY <3>2, <3>3, <3>4
  <2> QED BY <2>3, <2>4
<1>2. CASE ColdBegins
  <2>1. /\ tx = "connecting" /\ tx' = "backup" /\ owner' = owner /\ original' = real.id
        /\ Dispatch("cold") /\ UNCHANGED <<real, nextId, temp, cachedOffer, cache, ready>>
    BY <1>2 DEF ColdBegins, Outside
  <2>2. GivenOut' /\ Newest' /\ NothingIsEmpty'
    BY <2>1, DispatchKnows DEF GivenOut, Newest, NothingIsEmpty
  <2>3. KeptInv' /\ CacheInv'
    BY <2>1, DispatchKnows DEF KeptInv, CacheInv, NothingIsEmpty
  <2>4. SavedInv' /\ TextIsOwned'
    BY <2>1 DEF SavedInv, TextIsOwned
  <2> QED BY <2>2, <2>3, <2>4
<1>3. CASE BacksUp
  <2>1. tx = "backup" /\ UNCHANGED <<real, nextId, owner, cachedOffer, cache, ready>>
    BY <1>3 DEF BacksUp, Outside
  <2>2. real.content # Transcript
    BY <2>1 DEF TextIsOwned
  <2>3. CASE Lost /\ (UNCHANGED <<seen, kept>> \/ Dispatch(owner))
    BY <2>1, <2>2, <2>3, EndKeepsValues
  <2>4. CASE ~Lost
    <3>1. /\ tx' = "checking" /\ UNCHANGED <<seen, kept, temp, original>>
          /\ saved' = IF original = 0 THEN Empty ELSE Bytes(original)
      BY <1>3, <2>4 DEF BacksUp, Ends, Proceeds, NoDispatch
    <3>2. GivenOut' /\ Newest' /\ NothingIsEmpty' /\ KeptInv' /\ CacheInv'
      BY <2>1, <3>1 DEF GivenOut, Newest, NothingIsEmpty, KeptInv, CacheInv
    <3>3. SavedInv' /\ TextIsOwned'
      BY <2>1, <2>2, <3>1 DEF SavedInv, TextIsOwned, Bytes
    <3> QED BY <3>2, <3>3
  <2> QED BY <1>3, <2>3, <2>4 DEF BacksUp, Ends, Proceeds, NoDispatch
<1>4. CASE Checks
  <2>1. tx = "checking" /\ Dispatch(owner) /\ UNCHANGED <<real, nextId, owner, cachedOffer, cache, ready>>
    BY <1>4 DEF Checks, Outside
  <2>2. real.content # Transcript
    BY <2>1 DEF TextIsOwned
  <2>3. CASE Lost
    BY <2>1, <2>2, <2>3, EndKeepsValues
  <2>4. CASE ~Lost
    <3>1. tx' = "publishing" /\ real.id = original /\ UNCHANGED <<original, saved, temp>>
      BY <1>4, <2>4 DEF Checks, Ends, Proceeds, Unchanged
    <3>2. GivenOut' /\ Newest' /\ NothingIsEmpty'
      BY <2>1, <3>1, DispatchKnows DEF GivenOut, Newest, NothingIsEmpty
    <3>3. KeptInv' /\ CacheInv'
      BY <2>1, <3>1, DispatchKnows DEF KeptInv, CacheInv, NothingIsEmpty
    <3>4. SavedInv' /\ TextIsOwned'
      BY <2>1, <2>2, <3>1, DispatchKnows DEF SavedInv, TextIsOwned, NothingIsEmpty
    <3> QED BY <3>2, <3>3, <3>4
  <2> QED BY <2>3, <2>4
<1>5. CASE Publishes \/ Restores
  <2>1. /\ UNCHANGED <<seen, kept, owner, saved, original, cachedOffer, cache, ready>>
        /\ nextId' = nextId + 1
        /\ \/ tx = "publishing" /\ tx' = "published" /\ Offers(Transcript) /\ temp' = nextId
           \/ /\ tx = "restoring" /\ tx' = "restored" /\ Offers(saved)
              /\ temp' = IF saved = Empty THEN 0 ELSE nextId
    BY <1>5 DEF Publishes, Restores, Proceeds, Outside, Offers
  <2>2. saved # Transcript
    BY <2>1 DEF SavedInv
  <2>3. \/ real' = NoOffer
        \/ real'.id = nextId /\ real'.by = owner /\ (tx' = "restored" => real'.content = saved)
    BY <2>1 DEF Offers, Offer
  <2>4. tx' = "published" => real'.id = nextId
    BY <2>1 DEF Offers, Offer
  <2>5. GivenOut' /\ Newest' /\ NothingIsEmpty'
    BY <2>1, <2>3 DEF GivenOut, Newest, NothingIsEmpty
  <2>6. KeptInv' /\ CacheInv'
    BY <2>1, <2>3 DEF KeptInv, CacheInv, NothingIsEmpty, GivenOut
  <2>7. SavedInv' /\ TextIsOwned'
    BY <2>1, <2>2, <2>3, <2>4 DEF SavedInv, TextIsOwned
  <2> QED BY <2>5, <2>6, <2>7
<1>6. CASE Published \/ Replaced
  <2>1. /\ tx \in {"published", "waiting"} /\ Dispatch(owner)
        /\ UNCHANGED <<real, nextId, owner, cachedOffer, cache, ready>>
        /\ \/ real.id # temp /\ Lost
           \/ tx' = "waiting" /\ UNCHANGED <<original, saved, temp>>
    BY <1>6 DEF Published, Replaced, Ends, Outside
  <2>2. CASE real.id # temp /\ Lost
    BY <2>1, <2>2, EndKeepsValues DEF TextIsOwned
  <2>3. CASE tx' = "waiting" /\ UNCHANGED <<original, saved, temp>>
    <3>1. GivenOut' /\ Newest' /\ NothingIsEmpty'
      BY <2>1, <2>3, DispatchKnows DEF GivenOut, Newest, NothingIsEmpty
    <3>2. KeptInv' /\ CacheInv'
      BY <2>1, <2>3, DispatchKnows DEF KeptInv, CacheInv, NothingIsEmpty
    <3>3. SavedInv' /\ TextIsOwned'
      BY <2>1, <2>3 DEF SavedInv, TextIsOwned
    <3> QED BY <3>1, <3>2, <3>3
  <2> QED BY <2>1, <2>2, <2>3
<1>7. CASE Arms
  BY <1>7, QuietSteps DEF Arms, Outside, knowledge, selection
<1>8. CASE Stops
  <2>1. /\ tx = "waiting" /\ tx' = "restoring" /\ real.id = temp /\ Dispatch(owner)
        /\ UNCHANGED <<real, nextId, owner, original, saved, temp, cachedOffer, cache, ready>>
    BY <1>8 DEF Stops, Outside
  <2>2. GivenOut' /\ Newest' /\ NothingIsEmpty'
    BY <2>1, DispatchKnows DEF GivenOut, Newest, NothingIsEmpty
  <2>3. KeptInv' /\ CacheInv'
    BY <2>1, DispatchKnows DEF KeptInv, CacheInv, NothingIsEmpty
  <2>4. SavedInv' /\ TextIsOwned'
    BY <2>1, DispatchKnows DEF SavedInv, TextIsOwned
  <2> QED BY <2>2, <2>3, <2>4
<1>9. CASE Replies
  <2>1. real.content # Transcript
    BY <1>9 DEF Replies, TextIsOwned
  <2> QED BY <1>9, <2>1, EndKeepsValues DEF Replies, Ends, Outside
<1> QED BY <1>1, <1>2, <1>3, <1>4, <1>5, <1>6, <1>7, <1>8, <1>9 DEF Transaction

LEMMA EnvironmentKeepsValues ==
  ASSUME Types, QueueOK, ValuesOK, Environment PROVE ValuesOK'
<1> USE ContentsKnown, KnowledgeIsTyped DEF ValuesOK
<1>0. AtPaste
  BY DEF QueueOK
<1>1. CASE \/ ReadBegins \/ ReadEnds \/ ClientArms \/ SendsKey \/ GivesUp \/ Leaves
           \/ Toggles \/ Supervises
  BY <1>1, QuietSteps DEF ReadBegins, ReadEnds, ClientArms, SendsKey, GivesUp, Leaves, Client, Toggles,
                          Supervises, Outside, knowledge, selection, daemon, transaction
<1>2. CASE UserCopies
  <2>1. /\ UNCHANGED <<seen, kept, cachedOffer, cache, ready, tx, owner, original, saved, temp>>
        /\ nextId' = nextId + 1
        /\ real' = NoOffer \/ (real'.id = nextId /\ real'.content = nextId)
    BY <1>2 DEF UserCopies, daemon, transaction, Offer
  <2>2. real'.content # Transcript
    BY <2>1 DEF Transcript
  <2>3. GivenOut' /\ Newest' /\ NothingIsEmpty'
    BY <2>1 DEF GivenOut, Newest, NothingIsEmpty
  <2>4. KeptInv' /\ CacheInv'
    BY <2>1 DEF KeptInv, CacheInv, NothingIsEmpty, GivenOut
  <2>5. SavedInv' /\ TextIsOwned'
    BY <2>1, <2>2 DEF SavedInv, TextIsOwned, GivenOut
  <2> QED BY <2>3, <2>4, <2>5
<1>3. CASE DaemonStarts
  <2>1. /\ UNCHANGED <<real, nextId, tx, owner, original, saved, temp>> /\ pc = "down"
        /\ cachedOffer' = 0 /\ cache' = Empty /\ ready' = FALSE /\ kept' = NoOffer
        /\ seen'["cache"] = real /\ \A o \in Owners \ {"cache"} : seen'[o] = seen[o]
    BY <1>3 DEF DaemonStarts, transaction, Types, SelectionOK
  <2>2. tx = "none" \/ owner = "cold"
    BY <1>0, <2>1 DEF AtPaste, Owners
  <2>3. GivenOut' /\ Newest' /\ NothingIsEmpty'
    BY <2>1 DEF GivenOut, Newest, NothingIsEmpty
  <2>4. KeptInv' /\ CacheInv'
    BY <2>1, <2>2 DEF KeptInv, CacheInv, NothingIsEmpty
  <2>5. SavedInv' /\ TextIsOwned'
    BY <2>1, <2>2 DEF SavedInv, TextIsOwned
  <2> QED BY <2>3, <2>4, <2>5
<1>4. CASE DaemonDies
  <2>1. /\ UNCHANGED <<seen, nextId, cachedOffer, cache, ready, owner>> /\ kept' = NoOffer
        /\ real' = IF real.by = "cache" THEN NoOffer ELSE real
        /\ (pc = "paste" /\ Lost) \/ (pc # "paste" /\ UNCHANGED <<tx, original, saved, temp>>)
    BY <1>4 DEF DaemonDies
  <2>2. original' \in {0, original} /\ temp' \in {0, temp}
    BY <2>1 DEF Lost
  <2>3. GivenOut' /\ Newest' /\ NothingIsEmpty'
    BY <2>1, <2>2 DEF GivenOut, Newest, NothingIsEmpty
  <2>4. KeptInv' /\ CacheInv'
    BY <2>1, <2>2 DEF KeptInv, CacheInv, NothingIsEmpty, Lost
  <2>5. SavedInv' /\ TextIsOwned'
    BY <1>0, <2>1 DEF SavedInv, TextIsOwned, AtPaste, Lost
  <2> QED BY <2>3, <2>4, <2>5
<1>5. CASE PasteBegins
  <2>1. CASE UNCHANGED <<tx, owner>>
    BY <1>5, <2>1, QuietSteps DEF PasteBegins, knowledge, selection
  <2>2. CASE pc = "down"
    <3>1. /\ tx = "none" /\ tx' = "connecting"
          /\ UNCHANGED <<real, seen, nextId, kept, cachedOffer, cache, ready, original, saved, temp>>
      BY <1>0, <1>5, <2>2 DEF PasteBegins, AtPaste, Owners, selection
    <3>2. GivenOut' /\ Newest' /\ NothingIsEmpty' /\ CacheInv'
      BY <3>1 DEF GivenOut, Newest, NothingIsEmpty, CacheInv
    <3>3. KeptInv' /\ SavedInv' /\ TextIsOwned'
      BY <3>1 DEF KeptInv, SavedInv, TextIsOwned
    <3> QED BY <3>2, <3>3
  <2> QED BY <1>5, <2>1, <2>2 DEF PasteBegins
<1> QED BY <1>1, <1>2, <1>3, <1>4, <1>5 DEF Environment

-----------------------------------------------------------------------------

LEMMA NextPreserves == IInv /\ [Next]_vars => IInv'
<1> SUFFICES ASSUME IInv, [Next]_vars PROVE IInv'
  OBVIOUS
<1>0. Types /\ QueueOK /\ AtPaste /\ ValuesOK
  BY DEF IInv, QueueOK
<1>1. CASE Loop
  BY <1>0, <1>1, LoopIsTyped, LoopKeepsQueue, LoopKeepsValues DEF IInv
<1>2. CASE Transaction
  BY <1>0, <1>2, TransactionIsTyped, TransactionKeepsQueue, TransactionKeepsValues DEF IInv
<1>3. CASE Environment
  BY <1>0, <1>3, EnvironmentIsTyped, EnvironmentKeepsQueue, EnvironmentKeepsValues DEF IInv
<1>4. CASE UNCHANGED vars
  <2>1. UNCHANGED <<selection, daemon, transaction, client, preserve, budget>>
    BY <1>4 DEF vars
  <2>2. Types'
    BY <1>0, <2>1 DEF Types, SelectionOK, DaemonOK, TransactionOK, ClientOK, selection, daemon, transaction, budget
  <2>3. QueueOK'
    BY <1>0, <2>1, QueueStays DEF daemon, transaction
  <2>4. ValuesOK'
    BY <1>0, <2>1, QuietSteps DEF knowledge, selection, daemon, transaction
  <2> QED BY <2>2, <2>3, <2>4 DEF IInv
<1> QED BY <1>1, <1>2, <1>3, <1>4 DEF Next

(* The inductive invariant holds in every reachable state. *)
THEOREM Invariance == Spec => []IInv
BY InitEstablishes, NextPreserves, PTL DEF Spec

(* Every variable keeps its type. *)
THEOREM TypeCorrect == Spec => []TypeOK
<1>1. IInv => TypeOK
  BY DEF IInv, Types, TypeOK
<1> QED BY <1>1, Invariance, PTL

(* The dictation is on the clipboard only as the selection of the transaction *)
(* that published it, and the daemon never keeps it as something to restore.  *)
THEOREM TextIsTemporary == Spec => []TranscriptIsTemporary
<1>1. IInv => TranscriptIsTemporary
  BY DEF IInv, ValuesOK, TextIsOwned, CacheInv, TranscriptIsTemporary
<1> QED BY <1>1, Invariance, PTL

(* An owner that takes over a selection it has seen holds all of its bytes,   *)
(* and it restores over nothing but its own text.                             *)
THEOREM CopiesAreKept == Spec => CopiesSurvive
<1>1. ASSUME IInv, Takes("publishing", "published"), real # NoOffer PROVE saved = real.content
  BY <1>1 DEF IInv, ValuesOK, SavedInv, Takes
<1>2. ASSUME IInv, Takes("restoring", "restored") PROVE real.id = temp
  BY <1>2 DEF IInv, ValuesOK, SavedInv, Takes
<1>3. IInv /\ [Next]_vars =>
        [/\ Takes("publishing", "published") /\ real # NoOffer => saved = real.content
         /\ Takes("restoring", "restored") => real.id = temp]_vars
  BY <1>1, <1>2
<1> QED BY <1>3, Invariance, PTL DEF Spec, CopiesSurvive

=============================================================================
