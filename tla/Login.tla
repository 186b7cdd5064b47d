------------------------------- MODULE Login -------------------------------
(***************************************************************************)
(* One conversation with VK at a time (Creds.tla shows that it is one): the *)
(* VK Calls path (creds_vkcalls.go), the token chain of the legacy path     *)
(* (creds.go, fetchVkCreds and getTokenChain) and the captcha stages inside *)
(* it (creds.go, captcha_v2.go, captcha_v2_slider.go).                      *)
(*                                                                         *)
(* A request is answered in one of the classes the code tells apart; once   *)
(* the call's context is done every request is lost.  Abstracted: URLs,     *)
(* forms, headers, the images of a puzzle, and durations.  The person asked *)
(* through the web view answers or not, as Handover.tla has it in detail.   *)
(***************************************************************************)
EXTENDS Naturals, Sequences

CONSTANTS vkCredentialAttemptLimit, \* chains tried in one conversation (4)
          MaxSolves,                \* captchas solved in one chain (3)
          MaxGuesses                \* bound: guesses a slider puzzle allows

ASSUME LimitsAssumption ==
  /\ vkCredentialAttemptLimit \in Nat \ {0}
  /\ MaxSolves \in Nat
  /\ MaxGuesses \in Nat \ {0}

VARIABLES
  captchaMode, \* Core.captchaMode
  authMode,    \* Core.vkAuthMode
  stopped,     \* Core.Stop was called
  caller,      \* who began the conversation: a group's first fetch or a refresh
  ctx,         \* the context of that call
  lockout,     \* globalCaptchaLockout lies ahead
  pc,          \* what the conversation is doing
  outcome,     \* how the last conversation ended
  step,        \* the request of the VK Calls path, 1 .. 5
  attempt,     \* attempt of fetchVkCreds
  solves,      \* attempt of getTokenChain: captchas solved in this chain
  stage,       \* position in the plan of solveCaptchaBySelectedMode
  tries,       \* attempts left in solveVkCaptchaV2Attempts
  show,        \* showType: the puzzle to solve, and whether sliderSettings are there
  guesses,     \* guesses left for the slider
  late         \* history: captchas shown to the user after this call's ctx was done

modes   == <<captchaMode, authMode>>
callers == <<stopped, caller, ctx>>
chainVars == <<step, attempt, solves>>
v2Vars  == <<tries, show, guesses>>
vars == <<modes, callers, lockout, outcome, pc, chainVars, stage, v2Vars, late>>

CtxDone == ctx = "done"

Reply  == {"ok", "dead", "captcha", "error", "lost"}
Puzzle == {"checkbox", "slider", "odd"}
Shown  == [type : Puzzle, settings : BOOLEAN]

\* The way a captcha is worked on, by mode: each stage after the one before failed.
Plan(mode) ==
  CASE mode = "wv"  -> <<"selected">>
    [] mode = "rjs" -> <<"v2 twice", "auto">>
    [] OTHER        -> <<"v2 twice", "auto", "auto", "v2 once", "manual">>

LastStage == stage = Len(Plan(captchaMode))

\* A request is answered with r; with the context done there is no answer.
Replied(r) == CtxDone => r = "lost"

Init ==
  /\ captchaMode \in {"wv", "rjs", "auto"}
  /\ authMode \in {"vkcalls", "legacy"}
  /\ stopped = FALSE
  /\ caller = "group"
  /\ ctx = "live"
  /\ lockout = FALSE
  /\ pc = "idle"
  /\ outcome = "none"
  /\ step = 1 /\ attempt = 0 /\ solves = 0 /\ stage = 1
  /\ tries = 0 /\ show = [type |-> "checkbox", settings |-> FALSE] /\ guesses = 0
  /\ late = 0

-----------------------------------------------------------------------------
(* Ends of a conversation, and what a failure inside it leads to.           *)

\* The conversation is over; the scratch variables are out of scope.
Return(o) ==
  /\ pc' = "idle"
  /\ outcome' = o
  /\ step' = 1 /\ attempt' = 0 /\ solves' = 0 /\ stage' = 1

Goto(label) == pc' = label /\ UNCHANGED <<outcome, chainVars, stage>>

\* getTokenChain returned an error: the other credentials, a pause after each
\* pair, four attempts in all.
ChainFails ==
  IF attempt + 1 < vkCredentialAttemptLimit
  THEN /\ pc' = IF attempt % 2 = 1 THEN "pause" ELSE "anon"
       /\ attempt' = attempt + 1
       /\ solves' = 0 /\ stage' = 1
       /\ UNCHANGED <<outcome, step>>
  ELSE Return("failed")

\* Broken variant of GiveUp: the captcha's error is one like any other.
GiveUpTriesOn == lockout' = TRUE /\ ChainFails

\* No success token: 60 seconds of lockout, CAPTCHA_WAIT_REQUIRED.
GiveUp == lockout' = TRUE /\ Return("wait")

\* Broken variant of NextStage: the context is not looked at between stages.
NextStageBlind ==
  IF LastStage
  THEN GiveUp
  ELSE /\ pc' = IF Plan(captchaMode)[stage] = "auto" THEN "wvpause" ELSE "stage"
       /\ stage' = stage + 1
       /\ UNCHANGED <<lockout, outcome, chainVars>>

\* A stage failed: give up after the last one or with the context done, pause
\* after an automatic web view.
NextStage ==
  IF LastStage \/ CtxDone
  THEN GiveUp
  ELSE /\ pc' = IF Plan(captchaMode)[stage] = "auto" THEN "wvpause" ELSE "stage"
       /\ stage' = stage + 1
       /\ UNCHANGED <<lockout, outcome, chainVars>>

\* The success token goes into the next getAnonymousToken.
Solved ==
  /\ pc' = "token"
  /\ solves' = solves + 1
  /\ stage' = 1
  /\ UNCHANGED <<lockout, outcome, step, attempt>>

-----------------------------------------------------------------------------
(* The callers and their context.                                           *)

\* fetchVkCreds: no conversation within a lockout.  A group's first fetch and a
\* refresh each bring a context of their own, made from Background; the wait for
\* the mutexes may have used it up.
Begin ==
  /\ pc = "idle"
  /\ ~lockout
  /\ caller' \in {"group", "refresh"}
  /\ ctx' \in {"live", "done"}
  /\ outcome' = "none"
  /\ pc' = IF authMode = "vkcalls" THEN "vkcalls" ELSE "anon"
  /\ late' = 0
  /\ UNCHANGED <<modes, stopped, lockout, chainVars, stage, v2Vars>>

\* The context of the call under way ends.
EndContext ==
  /\ ctx = "live" /\ pc # "idle"
  /\ ctx' = "done"
  /\ UNCHANGED <<modes, stopped, caller, lockout, pc, outcome, chainVars, stage, v2Vars, late>>

\* The deadline of the call passes (120 s for a group, 35 s for a refresh).
Expire == EndContext

\* Core.Stop cancels the core's context, which no call's context derives from...
Stop ==
  /\ ~stopped
  /\ stopped' = TRUE
  /\ UNCHANGED <<modes, caller, ctx, lockout, pc, outcome, chainVars, stage, v2Vars, late>>

\* ...and beside a group's first fetch a goroutine hands it on.  A refresh has
\* none and goes on until its own deadline.
StopReachesFetch == stopped /\ caller = "group" /\ EndContext

LockoutEnds ==
  /\ lockout
  /\ lockout' = FALSE
  /\ UNCHANGED <<modes, callers, pc, outcome, chainVars, stage, v2Vars, late>>

-----------------------------------------------------------------------------
(* The VK Calls path: five requests.  An unavailable call is recognised in  *)
(* the answers to the second and the third; any other failure, a captcha    *)
(* included, leads to the legacy path.                                      *)

\* vkCallsAPIError finds the call dead.
FatalCall(r) == r = "dead" /\ step \in {2, 3}

NextStep == step' = step + 1 /\ UNCHANGED <<pc, outcome, attempt, solves, stage>>

VKCallsAnswer(r) ==
  /\ pc = "vkcalls" /\ step \in 1 .. 3
  /\ Replied(r)
  /\ CASE r = "ok"     -> NextStep
       [] FatalCall(r) -> Return("dead")
       [] OTHER        -> Goto("anon")
  /\ UNCHANGED <<modes, callers, lockout, v2Vars, late>>

\* The session with OK.ru and the TURN servers.
VKCallsJoin(r) ==
  /\ pc = "vkcalls" /\ step \in 4 .. 5
  /\ Replied(r)
  /\ CASE r = "ok" /\ step = 4 -> NextStep
       [] r = "ok" /\ step = 5 -> Return("ok")
       [] OTHER                -> Goto("anon")
  /\ UNCHANGED <<modes, callers, lockout, v2Vars, late>>

-----------------------------------------------------------------------------
(* The token chain of one pair of credentials.                              *)

\* A request that has to succeed for the chain to go on.
Required(at, r) ==
  /\ pc = at
  /\ Replied(r)
  /\ r # "ok" => ChainFails
  /\ UNCHANGED <<modes, callers, lockout, v2Vars, late>>

\* get_anonym_token.
AnonAnswer(r) == Required("anon", r) /\ (r = "ok" => Goto("preview"))

\* auth.anonymLogin.
LoginAnswer(r) == Required("login", r) /\ (r = "ok" => Goto("join"))

\* vchat.joinConversationByLink, with at least one TURN address.
JoinAnswer(r) == Required("join", r) /\ (r = "ok" => Return("ok"))

\* getCallPreview is for show: only a dead call matters.
PreviewAnswer(r) ==
  /\ pc = "preview"
  /\ Replied(r)
  /\ IF r = "dead" THEN Return("dead") ELSE Goto("token")
  /\ UNCHANGED <<modes, callers, lockout, v2Vars, late>>

\* A chain solves a captcha at most three times.
SolvesLeft == solves < MaxSolves

\* getAnonymousToken, the one request a captcha is solved for.
TokenAnswer(r) ==
  /\ pc = "token"
  /\ Replied(r)
  /\ CASE r = "ok" -> Goto("login") /\ UNCHANGED lockout
       [] r = "dead" -> Return("dead") /\ UNCHANGED lockout
       [] r = "captcha" -> IF SolvesLeft THEN Goto("stage") /\ UNCHANGED lockout
                           ELSE GiveUp
       [] OTHER -> ChainFails /\ UNCHANGED lockout
  /\ UNCHANGED <<modes, callers, v2Vars, late>>

\* The pause after a failed pair of credentials.
PauseEnds ==
  /\ pc = "pause"
  /\ \/ Goto("anon")
     \/ CtxDone /\ Return("failed")
  /\ UNCHANGED <<modes, callers, lockout, v2Vars, late>>

-----------------------------------------------------------------------------
(* solveCaptchaBySelectedMode and the web view.                             *)

BeginStage ==
  /\ pc = "stage"
  /\ Plan(captchaMode)[stage] \in {"v2 twice", "v2 once"}
  /\ Goto("page")
  /\ tries' = IF Plan(captchaMode)[stage] = "v2 twice" THEN 2 ELSE 1
  /\ UNCHANGED <<modes, callers, lockout, show, guesses, late>>

\* requestWebViewCaptcha drains the channel and emits captcha_required.
AskUser ==
  /\ pc = "stage"
  /\ Plan(captchaMode)[stage] \in {"selected", "auto", "manual"}
  /\ Goto("prompt")
  /\ late' = IF CtxDone THEN late + 1 ELSE late
  /\ UNCHANGED <<modes, callers, lockout, v2Vars>>

\* A token; or "error:...", nothing, or no answer within 10, 60 or 120 s.  The
\* wait has a context of its own: neither Stop nor the call's deadline ends it.
UserSolves ==
  /\ pc = "prompt"
  /\ Solved
  /\ UNCHANGED <<modes, callers, v2Vars, late>>

UserFails ==
  /\ pc = "prompt"
  /\ NextStage
  /\ UNCHANGED <<modes, callers, v2Vars, late>>

\* The pause of 250-500 ms after an automatic web view.
WebViewPauseEnds ==
  /\ pc = "wvpause"
  /\ \/ Goto("stage") /\ UNCHANGED lockout
     \/ CtxDone /\ GiveUp
  /\ UNCHANGED <<modes, callers, v2Vars, late>>

-----------------------------------------------------------------------------
(* solveVkCaptchaV2Attempts: solveOnce up to twice.                         *)

V2Goto(label) == Goto(label) /\ UNCHANGED lockout

\* solveOnce returned an error other than the rate limit.
TryFails == V2Goto("backoff")

\* doRaw: a request of the solver is answered; with the context done it is not.
Answered == ~CtxDone

\* No page, or not the one expected.
PageLost ==
  /\ pc = "page"
  /\ TryFails
  /\ UNCHANGED <<modes, callers, v2Vars, late>>

\* The page asks for a slider but has no settings for it.
Unsolvable(sh) == sh.type = "slider" /\ ~sh.settings

\* The page with its puzzle.
PageAnswer ==
  /\ pc = "page"
  /\ Answered
  /\ show' \in Shown
  /\ IF Unsolvable(show') THEN TryFails ELSE V2Goto("pow")
  /\ UNCHANGED <<modes, callers, tries, guesses, late>>

\* The proof of work: ten million nonces, the context looked at on the way.
PowEnds ==
  /\ pc = "pow"
  /\ V2Goto("settings") \/ TryFails
  /\ UNCHANGED <<modes, callers, v2Vars, late>>

SettingsAnswer ==
  /\ pc = "settings"
  /\ TryFails \/ (Answered /\ V2Goto("debug"))
  /\ UNCHANGED <<modes, callers, v2Vars, late>>

\* fetchDebugInfo: from the cache, which needs no request, or fetched.
DebugInfo ==
  /\ pc = "debug"
  /\ TryFails \/ V2Goto("solve")
  /\ UNCHANGED <<modes, callers, v2Vars, late>>

\* The loop over showType.
Solve ==
  /\ pc = "solve"
  /\ \/ show.type = "slider" /\ V2Goto("content")
     \/ show.type = "checkbox" /\ V2Goto("component")
     \/ show.type = "odd" /\ TryFails
  /\ UNCHANGED <<modes, callers, v2Vars, late>>

\* solveCheckboxCaptcha: componentDone, a short sleep that the context ends...
ComponentAnswer ==
  /\ pc = "component"
  /\ TryFails \/ (Answered /\ V2Goto("check"))
  /\ UNCHANGED <<modes, callers, v2Vars, late>>

\* ...and the check: another puzzle is wanted, accepted, the rate limit, or
\* rejected; called a bot the slider is tried if its settings are known.
CheckAnswer ==
  /\ pc = "check"
  /\ \/ TryFails /\ UNCHANGED show
     \/ /\ Answered
        /\ \/ \E t \in {"slider", "odd"} : show' = [show EXCEPT !.type = t] /\ V2Goto("solve")
           \/ V2Goto("endSession") /\ UNCHANGED show
           \/ NextStage /\ UNCHANGED show
           \/ /\ show.settings
              /\ show' = [show EXCEPT !.type = "slider"]
              /\ V2Goto("solve")
  /\ UNCHANGED <<modes, callers, tries, guesses, late>>

\* parseSliderPuzzleV2: the puzzle allows so many guesses, four if it names none.
GuessesAllowed == 1 .. MaxGuesses

\* solveSliderCaptcha: getContent with the number of guesses, componentDone...
ContentAnswer ==
  /\ pc = "content"
  /\ \/ TryFails /\ UNCHANGED guesses
     \/ /\ Answered
        /\ guesses' \in GuessesAllowed
        /\ V2Goto("guess")
  /\ UNCHANGED <<modes, callers, tries, show, late>>

\* Broken variant of GuessAnswer: a show type in the answer is followed.
GuessAnswerFollows ==
  /\ pc = "guess"
  /\ guesses' = guesses - 1
  /\ \/ TryFails
     \/ Answered /\ guesses > 1 /\ V2Goto("guess")
     \/ Answered /\ V2Goto("endSession")
     \/ Answered /\ NextStage
     \/ Answered /\ pc' = "solve" /\ UNCHANGED <<lockout, outcome, chainVars, stage>>
  /\ UNCHANGED <<modes, callers, tries, show, late>>

\* ...and one check per guess: the next guess, accepted, or the rate limit.
\* Unlike the checkbox it does not look at the show type of the answer.
GuessAnswer ==
  /\ pc = "guess"
  /\ guesses' = guesses - 1
  /\ \/ TryFails
     \/ Answered /\ guesses > 1 /\ V2Goto("guess")
     \/ Answered /\ V2Goto("endSession")
     \/ Answered /\ NextStage
  /\ UNCHANGED <<modes, callers, tries, show, late>>

\* endSession: its answer is ignored.
EndSession ==
  /\ pc = "endSession"
  /\ Solved
  /\ UNCHANGED <<modes, callers, v2Vars, late>>

\* The pause after a failed attempt, also after the last one.
BackoffEnds ==
  /\ pc = "backoff"
  /\ \/ CtxDone /\ NextStage /\ UNCHANGED tries
     \/ tries = 1 /\ NextStage /\ UNCHANGED tries
     \/ tries > 1 /\ V2Goto("page") /\ tries' = tries - 1
  /\ UNCHANGED <<modes, callers, show, guesses, late>>

-----------------------------------------------------------------------------
V2Step == PageLost \/ PageAnswer \/ PowEnds \/ SettingsAnswer \/ DebugInfo \/ Solve
          \/ ComponentAnswer \/ CheckAnswer \/ ContentAnswer \/ GuessAnswer
          \/ EndSession \/ BackoffEnds

StageStep == BeginStage \/ AskUser \/ UserSolves \/ UserFails \/ WebViewPauseEnds

ChainStep == \/ \E r \in Reply : VKCallsAnswer(r) \/ VKCallsJoin(r)
                                 \/ AnonAnswer(r) \/ PreviewAnswer(r) \/ TokenAnswer(r)
                                 \/ LoginAnswer(r) \/ JoinAnswer(r)
             \/ PauseEnds

Talk == ChainStep \/ StageStep \/ V2Step

Next == Begin \/ Expire \/ Stop \/ StopReachesFetch \/ LockoutEnds \/ Talk

Spec == Init /\ [][Next]_vars

\* Requests have timeouts of 20 s, web views theirs, the proof of work its
\* limit of nonces: the conversation moves on, which way is not promised.
LiveSpec == Spec /\ WF_vars(Talk)

-----------------------------------------------------------------------------
(* Properties.                                                              *)

\* Type invariant.
TypeOK ==
  /\ captchaMode \in {"wv", "rjs", "auto"}
  /\ authMode \in {"vkcalls", "legacy"}
  /\ stopped \in BOOLEAN
  /\ caller \in {"group", "refresh"}
  /\ ctx \in {"live", "done"}
  /\ lockout \in BOOLEAN
  /\ pc \in {"idle", "vkcalls", "anon", "preview", "token", "login", "join", "pause",
             "stage", "prompt", "wvpause", "page", "pow", "settings", "debug", "solve",
             "component", "check", "content", "guess", "endSession", "backoff"}
  /\ outcome \in {"none", "ok", "dead", "wait", "failed"}
  /\ step \in 1 .. 5
  /\ attempt \in 0 .. vkCredentialAttemptLimit - 1
  /\ solves \in 0 .. MaxSolves
  /\ stage \in 1 .. Len(Plan(captchaMode))
  /\ tries \in 0 .. 2
  /\ show \in Shown
  /\ guesses \in 0 .. MaxGuesses
  /\ late \in Nat

\* Once the call's own context is done (its deadline passed, or Stop has reached
\* a group's first fetch) at most one more captcha is put before the user: the
\* stages look at the context in between.  Stop alone promises nothing of the
\* kind: a refresh under way goes through all its stages until its 35 s are over.
OnePromptAfterCancel == late <= 1

\* Through all requests, credentials, captchas, stages and attempts a
\* conversation comes to an end, whatever VK answers.
ConversationEnds == pc # "idle" ~> pc = "idle"

\* However it is worked on, the conversation keeps what Creds relies on: none
\* begins in a lockout, and a lockout is declared only together with its end.
Contract == INSTANCE LoginContract WITH talking <- pc # "idle"
ImplementsLogin == Contract!Spec
=============================================================================
