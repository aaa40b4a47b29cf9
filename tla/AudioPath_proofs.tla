--------------------------- MODULE AudioPath_proofs ---------------------------
(***************************************************************************)
(* Safety of the audio path for every number of devices, streams,          *)
(* recordings and changes, and every capacity of the frame channel.        *)
(*                                                                         *)
(* OneEar is not inductive: that a start finds no stream but its own open  *)
(* depends on where the main loop is while a stream is being replaced      *)
(* (Replacing), and that it replaces one only in silence on Quiet.  That   *)
(* a healthy stream is kept rests on what is queued: an error names a      *)
(* stream that is broken for good (ErrorsAreTrue).                         *)
(***************************************************************************)
EXTENDS AudioPath, TLAPS

Replaces == {"replace", "retry replace"}

\* The only streams open are the service's and the one that replaces it.
Replacing ==
  /\ main \notin Replaces => open \subseteq {capture}
  /\ main \in Replaces => opening # 0 /\ open \subseteq {capture, opening}

\* The main loop finishes nothing while it records, and records for somebody.
Quiet ==
  /\ main # "rest" => ~recordingActive
  /\ main \in {"refresh", "replace", "record"} => sessions # 0

ErrorsAreTrue ==
  \A i \in DOMAIN audioEvents :
    audioEvents[i].kind = "error" => audioEvents[i].stream \in broken

IInv == TypeOK /\ ListensOnlyToRecord /\ Replacing /\ Quiet /\ ErrorsAreTrue

-----------------------------------------------------------------------------
(* What the queues do to the facts about their members. *)

LEMMA AppendKeeps ==
  ASSUME NEW T, NEW q \in Seq(T), NEW e \in T
  PROVE  /\ Append(q, e) \in Seq(T)
         /\ \A i \in DOMAIN Append(q, e) : Append(q, e)[i] = e \/ (i \in DOMAIN q /\ Append(q, e)[i] = q[i])
OBVIOUS

LEMMA TailKeeps ==
  ASSUME NEW T, NEW q \in Seq(T), q # <<>>
  PROVE  /\ Tail(q) \in Seq(T) /\ Head(q) \in T /\ Head(q) = q[1] /\ 1 \in DOMAIN q
         /\ Len(Tail(q)) = Len(q) - 1
         /\ \A i \in DOMAIN Tail(q) : i + 1 \in DOMAIN q /\ Tail(q)[i] = q[i + 1]
OBVIOUS

-----------------------------------------------------------------------------
(* The environment: devices, streams and their callbacks. *)

LEMMA InitEstablishes == Init => IInv
<1> SUFFICES ASSUME Init PROVE IInv
  OBVIOUS
<1> USE DevicesAssumption, BoundAssumption DEF Init
<1>1. default \in Devices
  OBVIOUS
<1>2. HardwareOK
  BY <1>1 DEF HardwareOK
<1>3. Desired \in Selections
  BY <1>1 DEF Desired, Selections, Selection, NoDevice
<1>4. StreamsOK
  BY <1>3 DEF StreamsOK, Streams
<1>5. CallbacksOK /\ FramesOK /\ EventsOK
  BY DEF CallbacksOK, FramesOK, EventsOK
<1>6. MainOK /\ RecordingOK
  <2>1. capture \in {0} \cup Streams
    BY DEF Streams
  <2>2. MainOK
    BY <2>1 DEF MainOK, Labels
  <2>3. ~recordingActive /\ recordingActive \in BOOLEAN /\ active = 0 /\ heard = {} /\ sessions = 0
    OBVIOUS
  <2>4. RecordingOK
    BY <2>3 DEF RecordingOK
  <2> QED BY <2>2, <2>4
<1>7. ListensOnlyToRecord /\ Replacing /\ Quiet /\ ErrorsAreTrue
  BY DEF ListensOnlyToRecord, Replacing, Replaces, Quiet, ErrorsAreTrue
<1> QED BY <1>2, <1>4, <1>5, <1>6, <1>7 DEF IInv, TypeOK

\* Devices come and go, streams break, the configuration is reloaded: what
\* changes besides the events is a type of its own.
LEMMA EnvironmentPreserves == ASSUME IInv, Environment PROVE IInv'
<1> USE DevicesAssumption, BoundAssumption
    DEF IInv, TypeOK, hardware, stream, streams, recording
<1>1. CASE DevicesChange
  <2>1. HardwareOK'
    BY <1>1 DEF DevicesChange, HardwareOK, Defaults, NoDevice
  <2> QED
    BY <1>1, <2>1 DEF DevicesChange, StreamsOK, CallbacksOK, FramesOK, EventsOK, MainOK,
       RecordingOK, ListensOnlyToRecord, Replacing, Quiet, ErrorsAreTrue
<1>2. ASSUME NEW e \in AudioEvent, audioEvents' = Append(audioEvents, e),
             e.kind = "error" => e.stream \in broken', broken \subseteq broken'
      PROVE  EventsOK' /\ ErrorsAreTrue'
  <2>1. audioEvents \in Seq(AudioEvent)
    BY DEF EventsOK
  <2> QED BY <1>2, <2>1, AppendKeeps DEF EventsOK, ErrorsAreTrue
<1>3. Topology \in AudioEvent /\ Topology.kind = "topology"
  BY DEF Topology, AudioEvent
<1>4. CASE Watches
  <2>1. HardwareOK'
    BY <1>4 DEF Watches, HardwareOK, Signature
  <2>2. EventsOK' /\ ErrorsAreTrue'
    BY <1>2, <1>3, <1>4 DEF Watches
  <2> QED
    BY <1>4, <2>1, <2>2 DEF Watches, StreamsOK, CallbacksOK, FramesOK, MainOK, RecordingOK,
       ListensOnlyToRecord, Replacing, Quiet
<1>5. CASE ReloadsConfig
  <2>1. HardwareOK'
    BY <1>5 DEF ReloadsConfig, HardwareOK
  <2>2. EventsOK' /\ ErrorsAreTrue'
    BY <1>2, <1>3, <1>5 DEF ReloadsConfig
  <2> QED
    BY <1>5, <2>1, <2>2 DEF ReloadsConfig, StreamsOK, CallbacksOK, FramesOK, MainOK, RecordingOK,
       ListensOnlyToRecord, Replacing, Quiet
<1>6. ASSUME NEW g \in Streams, StreamBreaks(g) PROVE IInv'
  <2>1. StreamError(g) \in AudioEvent /\ StreamError(g).stream = g
    BY DEF StreamError, AudioEvent
  <2>2. EventsOK' /\ ErrorsAreTrue'
    BY <1>2, <1>6, <2>1 DEF StreamBreaks
  <2> QED
    BY <1>6, <2>2 DEF StreamBreaks, HardwareOK, StreamsOK, CallbacksOK, FramesOK, MainOK,
       RecordingOK, ListensOnlyToRecord, Replacing, Quiet
<1>7. ASSUME NEW g \in Streams, CallbackReads(g) PROVE IInv'
  <2>1. recordingActive => active \in Sessions
    BY DEF ListensOnlyToRecord, RecordingOK
  <2>2. CallbacksOK'
    BY <1>7, <2>1 DEF CallbackReads, CallbacksOK
  <2> QED
    BY <1>7, <2>2 DEF CallbackReads, HardwareOK, StreamsOK, FramesOK, EventsOK, MainOK,
       RecordingOK, ListensOnlyToRecord, Replacing, Quiet, ErrorsAreTrue
<1>8. ASSUME NEW g \in Streams, CallbackSends(g) PROVE IInv'
  <2>1. callback[g] \in Sessions /\ Assembled(g) \in SUBSET Sessions
    BY <1>8 DEF CallbackSends, Assembled, CallbacksOK
  <2>2. CallbacksOK'
    BY <1>8, <2>1 DEF CallbackSends, CallbacksOK
  <2>3. frames \in Seq(SUBSET Sessions)
    BY DEF FramesOK
  <2>4. Append(frames, Assembled(g)) \in Seq(SUBSET Sessions)
        /\ Len(Append(frames, Assembled(g))) = Len(frames) + 1
    BY <2>1, <2>3
  <2>5. \/ frames' = frames
        \/ Len(frames) < FrameLimit /\ frames' = Append(frames, Assembled(g))
    BY <1>8 DEF CallbackSends
  <2>6. FramesOK'
    BY <2>3, <2>4, <2>5 DEF FramesOK
  <2> QED
    BY <1>8, <2>2, <2>6 DEF CallbackSends, HardwareOK, StreamsOK, EventsOK, MainOK,
       RecordingOK, ListensOnlyToRecord, Replacing, Quiet, ErrorsAreTrue
<1> QED BY <1>1, <1>4, <1>5, <1>6, <1>7, <1>8 DEF Environment


-----------------------------------------------------------------------------
(* The main loop. *)

\* What an attempt to open a stream can select.
LEMMA CandidatesAreSelections ==
  ASSUME HardwareOK PROVE Candidates \subseteq Selections
<1>1. default \in Devices \cup {NoDevice} /\ preferred \in Devices \cup {NoDevice}
  BY DEF HardwareOK, NoDevice
<1>2. \A d \in Devices \cup {NoDevice}, b \in BOOLEAN : Selection(d, b) \in Selections
  BY DEF Selection, Selections
<1>3. Desired \in Selections
  BY <1>1, <1>2 DEF Desired
<1> QED BY <1>1, <1>2, <1>3 DEF Candidates

\* refresh_audio_capture, whoever calls it: while it waits to replace a stream,
\* the new one is the only other one that is open.
LEMMA Refreshing ==
  ASSUME IInv, NEW ok \in Labels \ Replaces, NEW failed \in Labels \ Replaces,
         NEW replace \in Replaces, main \notin Replaces,
         Refresh(ok, failed, replace), UNCHANGED <<broken, capture, recovery>>
  PROVE  /\ StreamsOK' /\ MainOK' /\ Replacing'
         /\ main' \in {ok, failed, replace}
<1> USE BoundAssumption DEF Streams
<1>1. StreamsOK /\ MainOK /\ open \subseteq {capture}
  BY DEF IInv, TypeOK, Replacing
<1>2. main' \in {ok, failed, replace} /\ {ok, failed, replace} \subseteq Labels
  BY DEF Refresh, Opens, Replaces, Labels
<1>3. CASE Opens(replace)
  <2>1. PICK s \in Candidates :
          /\ nextStream <= MaxStreams /\ nextStream' = nextStream + 1
          /\ selection' = [selection EXCEPT ![nextStream] = s]
          /\ open' = open \cup {nextStream} /\ opening' = nextStream /\ main' = replace
    BY <1>3 DEF Opens
  <2>2. s \in Selections
    BY <2>1, CandidatesAreSelections DEF IInv, TypeOK
  <2>3. nextStream \in Streams
    BY <1>1, <2>1 DEF StreamsOK
  <2>4. StreamsOK'
    BY <1>1, <2>1, <2>2, <2>3 DEF StreamsOK
  <2>5. MainOK'
    BY <1>1, <1>2, <2>1, <2>3 DEF MainOK
  <2>6. Replacing'
    BY <1>1, <2>1, <2>3 DEF Replacing
  <2> QED BY <1>2, <2>4, <2>5, <2>6
<1>4. CASE ~Opens(replace)
  <2>1. /\ main' \in {ok, failed} /\ UNCHANGED <<selection, open, opening>>
        /\ nextStream' \in {nextStream, nextStream + 1}
        /\ nextStream' # nextStream => nextStream <= MaxStreams
    BY <1>1, <1>4 DEF Refresh
  <2>2. StreamsOK'
    BY <1>1, <2>1 DEF StreamsOK
  <2>3. MainOK'
    BY <1>1, <1>2, <2>1 DEF MainOK
  <2>4. Replacing'
    BY <1>1, <2>1 DEF Replacing
  <2> QED BY <1>2, <2>2, <2>3, <2>4
<1> QED BY <1>3, <1>4

\* Dropping a stream keeps the types of what its callback had.
LEMMA Closing ==
  ASSUME IInv, NEW g \in {0} \cup Streams, Closes(g, open)
  PROVE  CallbacksOK' /\ open' = open \ {g}
BY DEF IInv, TypeOK, Closes, CallbacksOK

\* The handle of the new stream takes the place of the old one.
LEMMA Replacement ==
  ASSUME IInv, NEW ok \in Labels \ Replaces, main \in Replaces, Replace(ok),
         UNCHANGED <<selection, nextStream, broken, recovery>>
  PROVE  StreamsOK' /\ CallbacksOK' /\ MainOK' /\ Replacing' /\ capture' # 0
<1>1. StreamsOK /\ MainOK /\ opening # 0 /\ open \subseteq {capture, opening}
  BY DEF IInv, TypeOK, Replacing
<1>2. CallbacksOK' /\ open' = open \ {capture}
  BY <1>1, Closing DEF Replace, MainOK
<1>3. capture' = opening /\ opening' = 0 /\ main' = ok
  BY DEF Replace
<1>4. StreamsOK'
  BY <1>1, <1>2 DEF StreamsOK
<1>5. MainOK'
  BY <1>1, <1>3 DEF MainOK
<1>6. Replacing'
  BY <1>1, <1>2, <1>3 DEF Replacing
<1> QED BY <1>1, <1>2, <1>3, <1>4, <1>5, <1>6

LEMMA MainLoopPreserves == ASSUME IInv, MainLoop PROVE IInv'
<1> USE BoundAssumption DEF IInv, TypeOK, hardware, stream, streams, recording
<1>1. CASE TakesFrame
  <2>1. Head(frames) \in SUBSET Sessions /\ FramesOK'
    BY <1>1, TailKeeps DEF TakesFrame, FramesOK
  <2>2. RecordingOK'
    BY <1>1, <2>1 DEF TakesFrame, RecordingOK
  <2> QED
    BY <1>1, <2>1, <2>2 DEF TakesFrame, HardwareOK, StreamsOK, CallbacksOK, EventsOK, MainOK,
       ListensOnlyToRecord, Replacing, Quiet, ErrorsAreTrue
<1>2. CASE HandlesEvent
  <2> DEFINE e == Head(audioEvents)
  <2>1. EventsOK' /\ ErrorsAreTrue'
    BY <1>2, TailKeeps DEF HandlesEvent, EventsOK, ErrorsAreTrue
  <2>2. main = "rest" /\ main' = main /\ open \subseteq {capture} /\ opening' = opening
    BY <1>2 DEF HandlesEvent, Replacing, Replaces
  <2>3. /\ \/ capture' = 0 /\ open' = open \ {capture} /\ CallbacksOK' /\ recovery' = 1
           \/ UNCHANGED <<capture, open, stream>> /\ recovery' \in {recovery, 1}
        /\ UNCHANGED <<hardware, watched, preferred, selection, nextStream, broken, frames, recording>>
    <3>1. CASE e.kind = "error" /\ IsCurrentError(e.stream)
      <4>1. Closes(capture, open) /\ capture' = 0 /\ recovery' = 1
        BY <1>2, <3>1 DEF HandlesEvent
      <4>2. CallbacksOK' /\ open' = open \ {capture}
        BY <4>1, Closing DEF MainOK
      <4> QED BY <1>2, <4>1, <4>2 DEF HandlesEvent
    <3>2. CASE ~(e.kind = "error" /\ IsCurrentError(e.stream))
      BY <1>2, <3>2 DEF HandlesEvent
    <3> QED BY <3>1, <3>2
  <2>4. StreamsOK'
    BY <2>3 DEF StreamsOK
  <2>5. CallbacksOK'
    BY <2>3 DEF CallbacksOK
  <2>6. MainOK'
    <3>1. capture' \in {0, capture} /\ recovery' \in {1, recovery}
      BY <2>3
    <3> QED BY <2>2, <3>1 DEF MainOK
  <2>7. Replacing' /\ Quiet' /\ ListensOnlyToRecord'
    BY <2>2, <2>3 DEF Replacing, Replaces, Quiet, ListensOnlyToRecord
  <2> QED BY <2>1, <2>3, <2>4, <2>5, <2>6, <2>7 DEF HardwareOK, FramesOK, RecordingOK
<1>3. CASE Starts
  <2>1. /\ sessions < MaxSessions /\ sessions' = sessions + 1 /\ sessions \in 0..MaxSessions
        /\ recordingActive' = FALSE /\ active' = 0 /\ heard' = {}
    BY <1>3 DEF Starts, RecordingOK
  <2>2. RecordingOK' /\ Quiet' /\ ListensOnlyToRecord'
    <3>1. sessions' \in 0..MaxSessions /\ sessions' # 0
      BY <2>1
    <3>2. RecordingOK'
      BY <2>1, <3>1 DEF RecordingOK
    <3>3. Quiet' /\ ListensOnlyToRecord'
      BY <2>1, <3>1 DEF Quiet, ListensOnlyToRecord
    <3> QED BY <3>2, <3>3
  <2>3. MainOK' /\ Replacing'
    BY <1>3 DEF Starts, MainOK, Labels, Replacing, Replaces
  <2> QED
    BY <1>3, <2>2, <2>3 DEF Starts, HardwareOK, StreamsOK, CallbacksOK, FramesOK, EventsOK,
       ErrorsAreTrue
<1>4. CASE StartRefreshes
  <2>1. StreamsOK' /\ MainOK' /\ Replacing' /\ main' \in {"record", "rest", "replace"}
    BY <1>4, Refreshing DEF StartRefreshes, Labels, Replaces
  <2> QED
    BY <1>4, <2>1 DEF StartRefreshes, HardwareOK, CallbacksOK, FramesOK, EventsOK, RecordingOK,
       ListensOnlyToRecord, Quiet, ErrorsAreTrue
<1>5. CASE StartReplaces
  <2>1. "record" \in Labels \ Replaces /\ main \in Replaces /\ Replace("record")
        /\ UNCHANGED <<selection, nextStream, broken, recovery>>
    BY <1>5 DEF StartReplaces, Labels, Replaces
  <2>2. StreamsOK' /\ CallbacksOK' /\ MainOK' /\ Replacing'
    BY <2>1, Replacement
  <2>3. main' = "record"
    BY <2>1 DEF Replace
  <2> QED
    BY <1>5, <2>2, <2>3 DEF StartReplaces, HardwareOK, FramesOK, EventsOK, RecordingOK,
       ListensOnlyToRecord, Quiet, ErrorsAreTrue
<1>6. CASE Records
  <2>1. sessions \in Sessions
    BY <1>6 DEF Records, Quiet, RecordingOK, Sessions
  <2>2. RecordingOK' /\ Quiet' /\ ListensOnlyToRecord'
    BY <1>6, <2>1 DEF Records, RecordingOK, Quiet, ListensOnlyToRecord, Sessions
  <2>3. MainOK' /\ Replacing'
    BY <1>6 DEF Records, MainOK, Labels, Replacing, Replaces
  <2> QED
    BY <1>6, <2>2, <2>3 DEF Records, HardwareOK, StreamsOK, CallbacksOK, FramesOK, EventsOK,
       ErrorsAreTrue
<1>7. CASE Stops
  BY <1>7 DEF Stops, HardwareOK, StreamsOK, CallbacksOK, FramesOK, EventsOK, MainOK,
     RecordingOK, ListensOnlyToRecord, Replacing, Quiet, ErrorsAreTrue
<1>8. NextAttempt \in 0..Retries
  BY DEF NextAttempt, MainOK
<1>9. CASE RetriesLater
  <2>1. MainOK'
    BY <1>8, <1>9 DEF RetriesLater, MainOK
  <2> QED
    BY <1>9, <2>1 DEF RetriesLater, HardwareOK, StreamsOK, CallbacksOK, FramesOK, EventsOK,
       RecordingOK, ListensOnlyToRecord, Replacing, Quiet, ErrorsAreTrue
<1>10. CASE RetryBegins
  <2>1. /\ StreamsOK' /\ MainOK' /\ Replacing'
        /\ main' \in {"retried", "retry failed", "retry replace"}
    BY <1>10, Refreshing DEF RetryBegins, Labels, Replaces
  <2> QED
    BY <1>10, <2>1 DEF RetryBegins, HardwareOK, CallbacksOK, FramesOK, EventsOK, RecordingOK,
       ListensOnlyToRecord, Quiet, ErrorsAreTrue
<1>11. CASE RetryReplaces
  <2>1. "retried" \in Labels \ Replaces /\ main \in Replaces /\ Replace("retried")
        /\ UNCHANGED <<selection, nextStream, broken, recovery>>
    BY <1>11 DEF RetryReplaces, Labels, Replaces
  <2>2. StreamsOK' /\ CallbacksOK' /\ MainOK' /\ Replacing'
    BY <2>1, Replacement
  <2>3. main' = "retried"
    BY <2>1 DEF Replace
  <2> QED
    BY <1>11, <2>2, <2>3 DEF RetryReplaces, HardwareOK, FramesOK, EventsOK, RecordingOK,
       ListensOnlyToRecord, Quiet, ErrorsAreTrue
<1>12. CASE RetryEnds
  <2>1. main' = "rest" /\ recovery' \in {0, NextAttempt} /\ UNCHANGED <<capture, opening>>
    BY <1>12 DEF RetryEnds
  <2>2. recovery' \in 0..Retries
    BY <1>8, <2>1
  <2>3. MainOK'
    BY <2>1, <2>2 DEF MainOK, Labels
  <2> QED
    BY <1>12, <2>1, <2>3 DEF RetryEnds, HardwareOK, StreamsOK, CallbacksOK, FramesOK, EventsOK,
       RecordingOK, ListensOnlyToRecord, Replacing, Replaces, Quiet, ErrorsAreTrue
<1> QED
  BY <1>1, <1>2, <1>3, <1>4, <1>5, <1>6, <1>7, <1>9, <1>10, <1>11, <1>12 DEF MainLoop

-----------------------------------------------------------------------------
(* The theorems. *)

LEMMA StepPreserves == IInv /\ [Next]_vars => IInv'
<1> SUFFICES ASSUME IInv, [Next]_vars PROVE IInv'
  OBVIOUS
<1>1. CASE UNCHANGED vars
  BY <1>1 DEF vars, hardware, stream, streams, recording, IInv, TypeOK, HardwareOK, StreamsOK,
     CallbacksOK, FramesOK, EventsOK, MainOK, RecordingOK, ListensOnlyToRecord, Replacing,
     Quiet, ErrorsAreTrue
<1>2. CASE Next
  BY <1>2, EnvironmentPreserves, MainLoopPreserves DEF Next
<1> QED BY <1>1, <1>2

\* The inductive invariant holds in every state the audio path can reach.
THEOREM Invariance == Spec => []IInv
BY InitEstablishes, StepPreserves, PTL DEF Spec

\* Type correctness: the frame channel never holds more than it can, recovery
\* never makes more attempts than it may.
THEOREM TypeCorrect == Spec => []TypeOK
BY Invariance, PTL DEF IInv

\* Whatever starts are refused, recordings superseded or devices lost, the
\* callbacks listen exactly while a recording is under way.
THEOREM Discretion == Spec => []ListensOnlyToRecord
BY Invariance, PTL DEF IInv

\* A recording is fed by one stream: the service's.
THEOREM SingleEar == Spec => []OneEar
<1>1. IInv => OneEar
  BY DEF IInv, OneEar, Replacing, Replaces, Quiet
<1> QED BY <1>1, Invariance, PTL

\* The service drops a stream without a replacement only if that stream broke,
\* never for an error of another one that arrives late.
THEOREM LateErrorsAreHarmless == Spec => HealthyStreamKept
<1>1. IInv /\ [Next]_vars => [capture # 0 /\ capture' = 0 => capture \in broken]_vars
  <2> SUFFICES ASSUME IInv, Next, capture # 0, capture' = 0 PROVE capture \in broken
    BY DEF vars
  <2> USE DEF hardware, stream, streams, recording
  <2>1. CASE HandlesEvent
    <3>1. Head(audioEvents).kind = "error" /\ Head(audioEvents).stream = capture
      BY <2>1 DEF HandlesEvent, IsCurrentError
    <3>2. 1 \in DOMAIN audioEvents /\ Head(audioEvents) = audioEvents[1]
      BY <2>1, TailKeeps DEF HandlesEvent, IInv, TypeOK, EventsOK
    <3> QED BY <3>1, <3>2 DEF IInv, ErrorsAreTrue
  <2>2. CASE StartReplaces
    BY <2>2, Replacement DEF StartReplaces, Labels, Replaces
  <2>3. CASE RetryReplaces
    BY <2>3, Replacement DEF RetryReplaces, Labels, Replaces
  <2>4. CASE MainLoop /\ ~HandlesEvent /\ ~StartReplaces /\ ~RetryReplaces
    BY <2>4 DEF MainLoop, TakesFrame, Starts, StartRefreshes, Records, Stops, RetriesLater,
       RetryBegins, RetryEnds
  <2>5. CASE Environment
    BY <2>5 DEF Environment, DevicesChange, Watches, ReloadsConfig, StreamBreaks,
       CallbackReads, CallbackSends
  <2> QED BY <2>1, <2>2, <2>3, <2>4, <2>5 DEF Next
<1> QED BY <1>1, Invariance, PTL DEF Spec, HealthyStreamKept

=============================================================================
