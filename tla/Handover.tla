------------------------------ MODULE Handover ------------------------------
(***************************************************************************)
(* How a captcha gets from the core to a person and the answer back: the    *)
(* event captcha_required, the status the daemon shows (daemon.go), the     *)
(* token file (internal/captcha/watcher.go), Core.SolveCaptcha and the      *)
(* channel of capacity 1 that requestWebViewCaptcha waits on (creds.go).    *)
(*                                                                         *)
(* Of a captcha or an answer only its age matters: "now" belongs to the     *)
(* request under way, "past" to an earlier one.  Login.tla has the          *)
(* conversation that asks; here it asks, waits and works on by itself.      *)
(***************************************************************************)
EXTENDS Naturals, Sequences

CONSTANT MaxEvents  \* captcha events the daemon may be behind by (256 events of all kinds)

ASSUME MaxEventsAssumption == MaxEvents \in Nat \ {0}

VARIABLES
  stopped,   \* runCtx and the core's context are cancelled
  core,      \* Daemon.core is set
  asking,    \* requestWebViewCaptcha waits for the answer
  chan,      \* CaptchaResultChan, capacity 1
  events,    \* the captcha_required events among the buffered ones
  loop,      \* the daemon's event loop runs
  shown,     \* Snapshot.Captcha
  person,    \* Submit, run by LuCI or the command line: what it is doing
  token,     \* the token it is about to write
  file,      \* the token file: missing, empty, or its token
  ours,      \* the file Submit has open is still the one in the directory
  watcher,   \* captcha.Watch and the SolveCaptcha it calls
  held       \* the token the watcher has read

vars == <<stopped, core, asking, chan, events, loop, shown, person, token,
          file, ours, watcher, held>>

personVars == <<person, token>>
fileVars   == <<file, ours>>
watchVars  == <<watcher, held>>
daemonVars == <<stopped, core, loop>>

Age == {"none", "now", "past"}

Older(a) == IF a = "now" THEN "past" ELSE a

\* The request under way ends or is replaced: whatever belongs to it is past.
AllOlder ==
  /\ events' = [i \in DOMAIN events |-> "past"]
  /\ shown' = Older(shown)
  /\ token' = Older(token)
  /\ file' = Older(file)
  /\ held' = Older(held)

Init ==
  /\ stopped = FALSE
  /\ core = TRUE
  /\ asking = FALSE
  /\ chan = "none"
  /\ events = <<>>
  /\ loop = TRUE
  /\ shown = "none"
  /\ person = "away" /\ token = "none"
  /\ file = "missing" /\ ours = FALSE
  /\ watcher = "tick" /\ held = "none"

-----------------------------------------------------------------------------
(* The core asks.                                                           *)

\* requestWebViewCaptcha drains the channel and emits.  The event may make room
\* by displacing an older captcha event, or be lost in a full buffer.
Ask ==
  /\ ~asking
  /\ asking' = TRUE
  /\ chan' = "none"
  /\ \/ Len(events) < MaxEvents /\ events' = Append(events, "now")
     \/ events # <<>> /\ events' = Append(Tail(events), "now")
     \/ UNCHANGED events
  /\ UNCHANGED <<daemonVars, shown, personVars, fileVars, watchVars>>

\* The answer, whichever request it was meant for: a token, "error:..." alike.
TakeAnswer ==
  /\ asking
  /\ chan # "none"
  /\ asking' = FALSE
  /\ chan' = "none"
  /\ AllOlder
  /\ UNCHANGED <<daemonVars, person, ours, watcher>>

\* The request's own timeout; Stop does not end the wait.
TimeOut ==
  /\ asking
  /\ asking' = FALSE
  /\ chan' = Older(chan)
  /\ AllOlder
  /\ UNCHANGED <<daemonVars, person, ours, watcher>>

-----------------------------------------------------------------------------
(* The daemon's loop and its end.                                           *)

\* handleEvent, captcha_required: SetCaptcha and SetState.
ShowCaptcha ==
  /\ loop
  /\ events # <<>>
  /\ shown' = Head(events)
  /\ events' = Tail(events)
  /\ UNCHANGED <<daemonVars, asking, chan, personVars, fileVars, watchVars>>

\* A signal or the end of the core cancels runCtx.
Stop ==
  /\ ~stopped
  /\ stopped' = TRUE
  /\ UNCHANGED <<core, asking, chan, events, loop, shown, personVars, fileVars, watchVars>>

\* The loop leaves, the deferred stopCore forgets the core.
LoopEnds ==
  /\ loop /\ stopped
  /\ loop' = FALSE
  /\ UNCHANGED <<stopped, core, asking, chan, events, shown, personVars, fileVars, watchVars>>

StopCore ==
  /\ ~loop /\ core
  /\ core' = FALSE
  /\ UNCHANGED <<stopped, loop, asking, chan, events, shown, personVars, fileVars, watchVars>>

-----------------------------------------------------------------------------
(* The person: reads the status, solves, runs Submit.                       *)

ReadStatus ==
  /\ person = "away"
  /\ shown # "none"
  /\ person' = "solving"
  /\ token' = shown
  /\ UNCHANGED <<daemonVars, asking, chan, events, shown, fileVars, watchVars>>

\* os.WriteFile opens, creates and truncates the file...
OpenFile ==
  /\ person = "solving"
  /\ person' = "writing"
  /\ file' = "empty"
  /\ ours' = TRUE
  /\ UNCHANGED <<daemonVars, asking, chan, events, shown, token, watchVars>>

\* ...and writes: into nothing when the file was removed in between.
WriteFile ==
  /\ person = "writing"
  /\ person' = "away"
  /\ file' = IF ours THEN token ELSE file
  /\ token' = "none"
  /\ ours' = FALSE
  /\ UNCHANGED <<daemonVars, asking, chan, events, shown, watchVars>>

-----------------------------------------------------------------------------
(* The watcher: one goroutine, so its calls of SolveCaptcha do not overlap. *)

\* A tick: a token in the file is read...
ReadFile ==
  /\ watcher = "tick"
  /\ file \in Age
  /\ held' = file
  /\ watcher' = "remove"
  /\ UNCHANGED <<daemonVars, asking, chan, events, shown, personVars, fileVars>>

\* ...and the file removed, whatever it contains by now.
RemoveFile ==
  /\ watcher = "remove"
  /\ file' = "missing"
  /\ ours' = FALSE
  /\ watcher' = "solve"
  /\ UNCHANGED <<daemonVars, asking, chan, events, shown, personVars, held>>

\* Broken variant of DrainOld: SolveCaptcha sends without draining.
DrainOldNot ==
  /\ watcher = "solve"
  /\ IF core THEN watcher' = "send" /\ UNCHANGED <<chan, held>>
             ELSE watcher' = "tick" /\ held' = "none" /\ UNCHANGED chan
  /\ UNCHANGED <<daemonVars, asking, events, shown, personVars, fileVars>>

\* SolveCaptcha: an error without a core, else it drains the channel...
DrainOld ==
  /\ watcher = "solve"
  /\ IF core THEN watcher' = "send" /\ chan' = "none" /\ UNCHANGED held
             ELSE watcher' = "tick" /\ held' = "none" /\ UNCHANGED chan
  /\ UNCHANGED <<daemonVars, asking, events, shown, personVars, fileVars>>

\* Broken variant of SendToken: a send that gives up as emit does, and as soon.
SendTokenOrDrop ==
  /\ watcher = "send"
  /\ chan' \in {chan, held}
  /\ held' = "none"
  /\ watcher' = "clear"
  /\ UNCHANGED <<daemonVars, asking, events, shown, personVars, fileVars>>

\* ...and sends, which blocks while the channel is full...
SendToken ==
  /\ watcher = "send"
  /\ chan = "none"
  /\ chan' = held
  /\ held' = "none"
  /\ watcher' = "clear"
  /\ UNCHANGED <<daemonVars, asking, events, shown, personVars, fileVars>>

\* ...then clears the captcha in the status, whichever is shown by now.
ClearCaptcha ==
  /\ watcher = "clear"
  /\ shown' = "none"
  /\ watcher' = "tick"
  /\ UNCHANGED <<daemonVars, asking, chan, events, personVars, fileVars, held>>

WatcherLeaves ==
  /\ watcher = "tick"
  /\ stopped
  /\ watcher' = "done"
  /\ UNCHANGED <<daemonVars, asking, chan, events, shown, personVars, fileVars, held>>

Watcher == ReadFile \/ RemoveFile \/ DrainOld \/ SendToken \/ ClearCaptcha \/ WatcherLeaves

-----------------------------------------------------------------------------
Next ==
  \/ Ask \/ TakeAnswer \/ TimeOut
  \/ ShowCaptcha \/ Stop \/ LoopEnds \/ StopCore
  \/ ReadStatus \/ OpenFile \/ WriteFile
  \/ Watcher

Spec == Init /\ [][Next]_vars

\* Goroutines run and the ticker fires.  Nobody promises that the core asks,
\* that a person answers, or, here, that a request times out.
Fairness ==
  /\ WF_vars(TakeAnswer)
  /\ WF_vars(Watcher)
  /\ WF_vars(ShowCaptcha)
  /\ WF_vars(LoopEnds)
  /\ WF_vars(StopCore)

LiveSpec == Spec /\ Fairness

-----------------------------------------------------------------------------
(* Properties.                                                              *)

\* Type invariant.
TypeOK ==
  /\ {stopped, core, asking, loop, ours} \subseteq BOOLEAN
  /\ {chan, shown, token, held} \subseteq Age
  /\ events \in Seq(Age) /\ Len(events) <= MaxEvents
  /\ person \in {"away", "solving", "writing"}
  /\ file \in {"missing", "empty", "now", "past"}
  /\ watcher \in {"tick", "remove", "solve", "send", "clear", "done"}

\* The watcher's send into the channel of capacity 1 finds room: nobody fills it
\* between SolveCaptcha's drain and its send.  Blocked there, the only watcher
\* would read no further token until the core asks again.
SendNeverBlocks == watcher = "send" => chan = "none"

\* A token for the request under way that the watcher has read ends that
\* request: it is not drained, displaced or forgotten on its way to the core.
AnswerEndsRequest == held = "now" ~> ~asking \/ ~core
=============================================================================
