------------------------------ MODULE AudioPath ------------------------------
(* From the microphone to the samples of a recording.  Each open stream calls *)
(* back on a thread of its own, which reads recording_active, gathers its      *)
(* samples into frames of 20 ms and puts the frames into a bounded channel.    *)
(* The service's main loop takes them out, opens and replaces streams when     *)
(* devices come and go or the configuration changes, and retries for a while.  *)
(*                                                                            *)
(* A sample is the recording it was spoken into, a frame the set of those.     *)
EXTENDS Integers, Sequences, FiniteSets

CONSTANTS
  Devices,      \* microphones
  Default,      \* "": no preferred microphone, use the system's
  FrameLimit,   \* capacity of the frame channel
  Retries,      \* Len(DEVICE_RETRY_DELAYS)
  MaxSessions,  \* bound: recordings
  MaxStreams,   \* bound: streams opened, attempts included
  MaxChanges    \* bound: changes of devices and of the configuration

ASSUME DevicesAssumption == Default \notin Devices /\ Devices # {}
ASSUME BoundAssumption ==
  /\ FrameLimit \in Nat \ {0} /\ Retries \in Nat \ {0}
  /\ MaxSessions \in Nat /\ MaxStreams \in Nat \ {0} /\ MaxChanges \in Nat

VARIABLES
  present, default,   \* the devices, and the one the system prefers
  watched,            \* what the topology watcher saw last
  preferred,          \* audio.preferred_device_id
  \* streams: the device and whether it stands in for the preferred one
  selection, nextStream, open, broken,
  was, pending, callback,   \* per stream: was_recording, the assembler, samples in hand
  frames, audioEvents,
  \* the main loop
  main, capture, opening, recovery, recordingActive, active, heard, sessions,
  changes

hardware == <<present, default, changes>>
stream == <<was, pending, callback>>
streams == <<selection, nextStream, open, broken>>
recording == <<recordingActive, active, heard, sessions>>
vars == <<hardware, watched, preferred, streams, stream, frames, audioEvents,
          main, capture, opening, recovery, recording>>

Streams == 1..MaxStreams
NoDevice == Default
Selection(device, fallback) == [device |-> device, fallback |-> fallback]
Topology == [kind |-> "topology", stream |-> 0]
StreamError(g) == [kind |-> "error", stream |-> g]

(* choose_input_device_id, over the devices that are there now *)
Desired ==
  IF preferred # Default /\ preferred \in present THEN Selection(preferred, FALSE)
  ELSE Selection(default, preferred # Default)
Resolves == Desired.device # NoDevice

-----------------------------------------------------------------------------
(* Hardware and its watchers. *)

Signature == <<present, default>>
Defaults(S) == IF S = {} THEN {NoDevice} ELSE S

DevicesChange ==
  /\ changes < MaxChanges /\ changes' = changes + 1
  /\ present' \in SUBSET Devices /\ default' \in Defaults(present')
  /\ <<present', default'>> # Signature
  /\ UNCHANGED <<watched, preferred, streams, stream, frames, audioEvents, main, capture, opening,
                 recovery, recording>>

(* watch_device_changes: one event per difference that a poll finds *)
Watches ==
  /\ watched # Signature /\ watched' = Signature
  /\ audioEvents' = Append(audioEvents, Topology)
  /\ UNCHANGED <<hardware, preferred, streams, stream, frames, main, capture, opening, recovery, recording>>

(* A stream ends with its device, or for no reason one can see. *)
StreamBreaks(g) ==
  /\ g \in open \ broken
  /\ broken' = broken \cup {g}
  /\ audioEvents' = Append(audioEvents, StreamError(g))
  /\ UNCHANGED <<hardware, watched, preferred, selection, nextStream, open, stream, frames, main,
                 capture, opening, recovery, recording>>

(* The data callback reads recording_active once... *)
CallbackReads(g) ==
  /\ g \in open \ broken /\ callback[g] = 0
  /\ IF recordingActive
     THEN callback' = [callback EXCEPT ![g] = active] /\ UNCHANGED was
     ELSE callback' = callback /\ was[g] /\ was' = [was EXCEPT ![g] = FALSE]
  /\ UNCHANGED <<hardware, watched, preferred, streams, pending, frames, audioEvents, main, capture,
                 opening, recovery, recording>>

(* ... and then fills the assembler, which it has emptied if it was idle. A    *)
(* full channel drops the frame.                                              *)
Assembled(g) == (IF was[g] THEN pending[g] ELSE {}) \cup {callback[g]}
CallbackSends(g) ==
  /\ callback[g] # 0
  /\ was' = [was EXCEPT ![g] = TRUE]
  /\ callback' = [callback EXCEPT ![g] = 0]
  /\ \/ pending' = [pending EXCEPT ![g] = Assembled(g)] /\ UNCHANGED frames
     \/ /\ frames' = IF Len(frames) < FrameLimit THEN Append(frames, Assembled(g)) ELSE frames
        /\ pending' \in {[pending EXCEPT ![g] = {}], [pending EXCEPT ![g] = {callback[g]}]}
  /\ UNCHANGED <<hardware, watched, preferred, streams, audioEvents, main, capture, opening, recovery,
                 recording>>

-----------------------------------------------------------------------------
(* The main loop: frames and events. *)

TakesFrame ==
  /\ main = "rest" /\ frames # <<>>
  /\ frames' = Tail(frames)
  /\ heard' = IF active # 0 THEN heard \cup Head(frames) ELSE heard
  /\ UNCHANGED <<hardware, watched, preferred, streams, stream, audioEvents, main, capture, opening,
                 recovery, recordingActive, active, sessions>>

(* audio_error_is_current, and two mutants of it *)
AnyError(g) == capture # 0
OfNewestStream(g) == g = nextStream - 1
IsCurrentError(g) == g = capture

(* Dropping a stream waits for the callback that runs, and loses its state.   *)
Closes(g, S) ==
  /\ open' = S \ {g}
  /\ g # 0 => /\ callback[g] = 0
              /\ was' = [was EXCEPT ![g] = FALSE] /\ pending' = [pending EXCEPT ![g] = {}]
  /\ g = 0 => UNCHANGED <<was, pending>>
  /\ UNCHANGED callback
HandlesEvent ==
  /\ main = "rest" /\ audioEvents # <<>>
  /\ audioEvents' = Tail(audioEvents)
  /\ LET e == Head(audioEvents) IN
       IF e.kind = "error"
       THEN IF IsCurrentError(e.stream)
            THEN capture' = 0 /\ Closes(capture, open) /\ recovery' = 1
            ELSE UNCHANGED <<capture, open, stream, recovery>>
       ELSE recovery' = (IF recovery = 0 THEN 1 ELSE recovery) /\ UNCHANGED <<capture, open, stream>>
  /\ UNCHANGED <<hardware, watched, preferred, selection, nextStream, broken, frames, main,
                 opening, recording>>

ReloadsConfig ==
  /\ main = "rest" /\ changes < MaxChanges /\ changes' = changes + 1
  /\ preferred' \in (Devices \cup {Default}) \ {preferred}
  /\ audioEvents' = Append(audioEvents, Topology)
  /\ UNCHANGED <<present, default, watched, streams, stream, frames, main, capture, opening, recovery,
                 recording>>

(* refresh_audio_capture: nothing to do, no microphone, or a stream to open.  *)
(* An attempt takes a number even where it fails; beyond the bound all fail.  *)
Unchanged == capture # 0 /\ selection[capture] = Desired
Candidates == {Desired} \cup (IF preferred = Default THEN {} ELSE {Selection(default, TRUE)})
Opens(label) ==
  \E s \in Candidates :
    /\ nextStream <= MaxStreams /\ nextStream' = nextStream + 1
    /\ selection' = [selection EXCEPT ![nextStream] = s]
    /\ open' = open \cup {nextStream} /\ opening' = nextStream /\ main' = label
Refresh(ok, failed, replace) ==
  \/ Resolves /\ Unchanged /\ main' = ok /\ UNCHANGED <<selection, nextStream, open, opening>>
  \/ ~Resolves /\ main' = failed /\ UNCHANGED <<selection, nextStream, open, opening>>
  \/ Resolves /\ ~Unchanged /\ Opens(replace)
  \/ /\ Resolves /\ ~Unchanged /\ main' = failed
     /\ nextStream' = (IF nextStream <= MaxStreams THEN nextStream + 1 ELSE nextStream)
     /\ UNCHANGED <<selection, open, opening>>

(* The new handle takes the place of the old one, which closes its stream. *)
Replace(ok) ==
  /\ capture' = opening /\ opening' = 0 /\ Closes(capture, open)
  /\ main' = ok

-----------------------------------------------------------------------------
(* Commands. *)

(* A start drops the recording there is before it looks for a microphone. *)
ForgetsToPause ==
  /\ main = "rest" /\ sessions < MaxSessions
  /\ sessions' = sessions + 1 /\ main' = "refresh"
  /\ active' = 0 /\ heard' = {}
  /\ UNCHANGED <<hardware, watched, preferred, streams, stream, frames, audioEvents, capture, opening,
                 recovery, recordingActive>>
Starts ==
  /\ main = "rest" /\ sessions < MaxSessions
  /\ sessions' = sessions + 1 /\ main' = "refresh"
  /\ recordingActive' = FALSE /\ active' = 0 /\ heard' = {}
  /\ UNCHANGED <<hardware, watched, preferred, streams, stream, frames, audioEvents, capture, opening,
                 recovery>>

StartRefreshes ==
  /\ main = "refresh" /\ Refresh("record", "rest", "replace")
  /\ UNCHANGED <<hardware, watched, preferred, broken, stream, frames, audioEvents, capture, recovery,
                 recording>>

StartReplaces ==
  /\ main = "replace" /\ Replace("record")
  /\ UNCHANGED <<hardware, watched, preferred, selection, nextStream, broken, frames,
                 audioEvents, recovery, recording>>

Records ==
  /\ main = "record" /\ main' = "rest"
  /\ recordingActive' = TRUE /\ active' = sessions /\ heard' = {}
  /\ UNCHANGED <<hardware, watched, preferred, streams, stream, frames, audioEvents, capture, opening,
                 recovery, sessions>>

(* A mutant of Stops: the microphone goes on. *)
KeepsListening ==
  /\ main = "rest" /\ active # 0
  /\ active' = 0 /\ heard' = {}
  /\ UNCHANGED <<hardware, watched, preferred, streams, stream, frames, audioEvents, main, capture,
                 opening, recovery, recordingActive, sessions>>

(* StopRecording, Cancel, Shutdown *)
Stops ==
  /\ main = "rest" /\ active # 0
  /\ recordingActive' = FALSE /\ active' = 0 /\ heard' = {}
  /\ UNCHANGED <<hardware, watched, preferred, streams, stream, frames, audioEvents, main, capture,
                 opening, recovery, sessions>>

-----------------------------------------------------------------------------
(* Device recovery, on the timer. *)

NextAttempt == IF recovery < Retries THEN recovery + 1 ELSE 0

(* While something records the stream is left alone. *)
RetriesLater ==
  /\ main = "rest" /\ recovery # 0 /\ active # 0
  /\ recovery' = IF preferred = Default \/ (Resolves /\ ~Desired.fallback) THEN 0 ELSE NextAttempt
  /\ UNCHANGED <<hardware, watched, preferred, streams, stream, frames, audioEvents, main, capture,
                 opening, recording>>

RetryBegins ==
  /\ main = "rest" /\ recovery # 0 /\ active = 0
  /\ Refresh("retried", "retry failed", "retry replace")
  /\ UNCHANGED <<hardware, watched, preferred, broken, stream, frames, audioEvents, capture, recovery,
                 recording>>

RetryReplaces ==
  /\ main = "retry replace" /\ Replace("retried")
  /\ UNCHANGED <<hardware, watched, preferred, selection, nextStream, broken, frames,
                 audioEvents, recovery, recording>>

RetryEnds ==
  /\ main \in {"retried", "retry failed"} /\ main' = "rest"
  /\ recovery' = IF main = "retried" /\ (preferred = Default \/ ~selection[capture].fallback)
                 THEN 0 ELSE NextAttempt
  /\ UNCHANGED <<hardware, watched, preferred, streams, stream, frames, audioEvents, capture, opening,
                 recording>>

Init ==
  /\ present = Devices /\ default = (CHOOSE d \in Devices : TRUE) /\ watched = <<present, default>>
  /\ preferred \in Devices \cup {Default} /\ changes = 0
  /\ selection = [g \in Streams |-> Desired] /\ nextStream = 2
  /\ open \in {{}, {1}} /\ capture = (IF open = {} THEN 0 ELSE 1) /\ broken = {}
  /\ was = [g \in Streams |-> FALSE] /\ pending = [g \in Streams |-> {}]
  /\ callback = [g \in Streams |-> 0]
  /\ frames = <<>> /\ audioEvents = <<>>
  /\ main = "rest" /\ opening = 0 /\ recovery = 0
  /\ recordingActive = FALSE /\ active = 0 /\ heard = {} /\ sessions = 0

MainLoop ==
  \/ TakesFrame \/ HandlesEvent \/ Starts \/ StartRefreshes \/ StartReplaces \/ Records
  \/ Stops \/ RetriesLater \/ RetryBegins \/ RetryReplaces \/ RetryEnds
Environment ==
  \/ DevicesChange \/ Watches \/ ReloadsConfig
  \/ \E g \in Streams : StreamBreaks(g) \/ CallbackReads(g) \/ CallbackSends(g)
Next == MainLoop \/ Environment

(* The main loop serves each of its channels and finishes what it began, and  *)
(* no callback blocks.                                                        *)
Fairness ==
  /\ SF_vars(HandlesEvent)
  /\ WF_vars(StartRefreshes \/ StartReplaces \/ Records \/ RetryReplaces \/ RetryEnds)
  /\ WF_vars(\E g \in Streams : CallbackSends(g))
Spec == Init /\ [][Next]_vars
FairSpec == Spec /\ Fairness

-----------------------------------------------------------------------------
(* Properties. *)

Sessions == 1..MaxSessions
Selections == [device : Devices \cup {NoDevice}, fallback : BOOLEAN]

(* Type correctness; the channel keeps to its capacity, recovery to its       *)
(* bounded number of attempts.                                                *)
Labels == {"rest", "refresh", "replace", "record", "retry replace", "retried", "retry failed"}
AudioEvent == [kind : {"topology", "error"}, stream : {0} \cup Streams]

HardwareOK ==
  /\ present \subseteq Devices /\ default \in Devices \cup {NoDevice}
  /\ watched \in (SUBSET Devices) \X (Devices \cup {NoDevice})
  /\ preferred \in Devices \cup {Default} /\ changes \in Nat
StreamsOK ==
  /\ selection \in [Streams -> Selections] /\ nextStream \in 1..(MaxStreams + 1)
  /\ open \subseteq Streams /\ broken \subseteq Streams
CallbacksOK ==
  /\ was \in [Streams -> BOOLEAN] /\ pending \in [Streams -> SUBSET Sessions]
  /\ callback \in [Streams -> {0} \cup Sessions]
FramesOK == frames \in Seq(SUBSET Sessions) /\ Len(frames) <= FrameLimit
EventsOK == audioEvents \in Seq(AudioEvent)
MainOK ==
  /\ main \in Labels /\ recovery \in 0..Retries
  /\ capture \in {0} \cup Streams /\ opening \in {0} \cup Streams
RecordingOK ==
  /\ recordingActive \in BOOLEAN /\ active \in {0} \cup Sessions
  /\ heard \subseteq Sessions /\ sessions \in 0..MaxSessions
TypeOK ==
  HardwareOK /\ StreamsOK /\ CallbacksOK /\ FramesOK /\ EventsOK /\ MainOK /\ RecordingOK

(* The microphone is listened to exactly while a recording is under way,      *)
(* whatever starts were refused, recordings superseded or devices lost.       *)
ListensOnlyToRecord == recordingActive <=> active # 0

(* Nothing is recorded through two streams at once: a stream is only replaced *)
(* while the callbacks discard what they hear.                                *)
OneEar == recordingActive => open \subseteq {capture}

(* A working stream is not closed because of another one's error that         *)
(* arrives late: only its own, or its replacement, ends it.                   *)
HealthyStreamKept == [][capture # 0 /\ capture' = 0 => capture \in broken]_vars

(* A broken stream does not stay the service's stream. *)
BrokenStreamLeaves == capture \in broken ~> capture \notin broken

(* A recording holds what was spoken into it, and nothing of an earlier one.  *)
(* The code does not hold this: frames queued for an earlier one are appended. *)
OnlyOwnVoice == active # 0 => heard \subseteq {active}

=============================================================================
