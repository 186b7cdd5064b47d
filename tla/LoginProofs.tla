---------------------------- MODULE LoginProofs ----------------------------
(***************************************************************************)
(* Proofs about a conversation with VK, for any number of chains, captchas  *)
(* and guesses: it implements its contract, it does not go on asking people *)
(* after its context is done, and every step of it brings its end closer.   *)
(***************************************************************************)
EXTENDS Login, TLAPS

-----------------------------------------------------------------------------
(* The contract.  An action either leaves the conversation going, with no   *)
(* word to the caller, or ends it in one of the four ways.                  *)

\* The conversation goes on.
Silent == pc # "idle" /\ pc' # "idle" /\ UNCHANGED <<outcome, lockout>>

\* What an action of Talk amounts to for the caller.
Seen == Silent \/ Contract!End \/ Contract!GiveUp

\* The ways to leave a state.
LEMMA Leaving ==
  ASSUME pc # "idle"
  PROVE  /\ \A l : l # "idle" /\ Goto(l) /\ UNCHANGED lockout => Seen
         /\ \A o \in {"ok", "dead", "failed"} : Return(o) /\ UNCHANGED lockout => Seen
         /\ ChainFails /\ UNCHANGED lockout => Seen
         /\ GiveUp => Seen
         /\ NextStage => Seen
         /\ Solved => Seen
<1> USE DEF Seen, Silent
<1>1. \A l : l # "idle" /\ Goto(l) /\ UNCHANGED lockout => Seen
  BY DEF Goto
<1>2. \A o \in {"ok", "dead", "failed"} : Return(o) /\ UNCHANGED lockout => Seen
  BY DEF Return, Contract!End
<1>3. ChainFails /\ UNCHANGED lockout => Seen
  BY <1>2 DEF ChainFails
<1>4. GiveUp => Seen
  BY DEF GiveUp, Return, Contract!GiveUp
<1>5. NextStage => Seen
  BY <1>4 DEF NextStage
<1>6. Solved => Seen
  BY DEF Solved
<1>7. QED
  BY <1>1, <1>2, <1>3, <1>4, <1>5, <1>6

\* Requests of the VK Calls path and of the token chain.
LEMMA ChainSeen == ChainStep => Seen
<1>1. ASSUME NEW r \in Reply, VKCallsAnswer(r) \/ VKCallsJoin(r) PROVE Seen
  BY <1>1, Leaving DEF VKCallsAnswer, VKCallsJoin, NextStep, Seen, Silent
<1>2. ASSUME NEW r \in Reply, AnonAnswer(r) \/ LoginAnswer(r) \/ JoinAnswer(r) PROVE Seen
  BY <1>2, Leaving DEF AnonAnswer, LoginAnswer, JoinAnswer, Required
<1>3. ASSUME NEW r \in Reply, PreviewAnswer(r) PROVE Seen
  BY <1>3, Leaving DEF PreviewAnswer
<1>4. ASSUME NEW r \in Reply, TokenAnswer(r) PROVE Seen
  BY <1>4, Leaving DEF TokenAnswer
<1>5. ASSUME PauseEnds PROVE Seen
  BY <1>5, Leaving DEF PauseEnds
<1>6. QED
  BY <1>1, <1>2, <1>3, <1>4, <1>5 DEF ChainStep

\* The stages of a captcha.
LEMMA StageSeen == StageStep => Seen
<1>1. ASSUME BeginStage PROVE Seen
  BY <1>1, Leaving DEF BeginStage
<1>2. ASSUME AskUser PROVE Seen
  BY <1>2, Leaving DEF AskUser
<1>3. ASSUME UserSolves \/ UserFails PROVE Seen
  BY <1>3, Leaving DEF UserSolves, UserFails
<1>4. ASSUME WebViewPauseEnds PROVE Seen
  BY <1>4, Leaving DEF WebViewPauseEnds
<1>5. QED
  BY <1>1, <1>2, <1>3, <1>4 DEF StageStep

\* The steps of one attempt of the solver.
LEMMA V2Seen == V2Step => Seen
<1> USE Leaving DEF V2Goto, TryFails
<1>1. ASSUME PageLost \/ PageAnswer \/ PowEnds PROVE Seen
  BY <1>1 DEF PageLost, PageAnswer, PowEnds
<1>2. ASSUME SettingsAnswer \/ DebugInfo PROVE Seen
  BY <1>2 DEF SettingsAnswer, DebugInfo
<1>3. ASSUME Solve PROVE Seen
  BY <1>3 DEF Solve
<1>4. ASSUME ComponentAnswer \/ CheckAnswer PROVE Seen
  BY <1>4 DEF ComponentAnswer, CheckAnswer
<1>5. ASSUME ContentAnswer \/ GuessAnswer PROVE Seen
  BY <1>5 DEF ContentAnswer, GuessAnswer
<1>6. ASSUME EndSession PROVE Seen
  BY <1>6 DEF EndSession
<1>7. ASSUME BackoffEnds PROVE Seen
  BY <1>7 DEF BackoffEnds
<1>8. QED
  BY <1>1, <1>2, <1>3, <1>4, <1>5, <1>6, <1>7 DEF V2Step

\* Every step is one of the contract's, or nothing the caller sees.
LEMMA StepRefines == [Next]_vars => [Contract!Next]_Contract!vars
<1> SUFFICES ASSUME [Next]_vars PROVE [Contract!Next]_Contract!vars
  OBVIOUS
<1>1. CASE Talk
  <2>1. Seen
    BY <1>1, ChainSeen, StageSeen, V2Seen DEF Talk
  <2>2. QED
    BY <2>1 DEF Seen, Silent, Contract!Next, Contract!vars
<1>2. CASE Begin
  BY <1>2 DEF Begin, Contract!Next, Contract!Begin
<1>3. CASE LockoutEnds
  BY <1>3 DEF LockoutEnds, Contract!Next, Contract!LockoutEnds
<1>4. CASE Expire \/ Stop \/ StopReachesFetch \/ UNCHANGED vars
  BY <1>4 DEF Expire, Stop, StopReachesFetch, EndContext, vars, Contract!vars
<1>5. QED
  BY <1>1, <1>2, <1>3, <1>4 DEF Next

\* Whatever VK, the solver and the people do, a caller of fetchVkCreds sees what
\* Creds.tla assumes of it.
THEOREM Implements == Spec => ImplementsLogin
<1>1. Init => Contract!Init
  BY DEF Init, Contract!Init
<1>2. QED
  BY <1>1, StepRefines, PTL DEF Spec, ImplementsLogin, Contract!Spec

-----------------------------------------------------------------------------
(* One prompt after the context is done: its request is lost in whatever    *)
(* follows, so that no captcha is found again.                              *)

LateInv ==
  /\ late \in 0 .. 1
  /\ late = 1 => CtxDone /\ pc \in {"idle", "prompt", "token", "anon", "pause"}

\* Where a failure leads with the context done.
LEMMA LateMoves ==
  /\ ChainFails => pc' \in {"idle", "anon", "pause"}
  /\ GiveUp => pc' = "idle"
  /\ CtxDone /\ NextStage => pc' = "idle"
  /\ Solved => pc' = "token"
BY DEF ChainFails, GiveUp, NextStage, Solved, Return

\* The invariant is inductive: a late prompt is never followed by another stage.
LEMMA LateStep == LateInv /\ [Next]_vars => LateInv'
<1> SUFFICES ASSUME LateInv, [Next]_vars PROVE LateInv'
  OBVIOUS
<1> USE DEF LateInv, CtxDone, callers
<1>1. CASE Begin
  BY <1>1 DEF Begin
<1>2. CASE Expire \/ Stop \/ StopReachesFetch \/ LockoutEnds \/ UNCHANGED vars
  BY <1>2 DEF Expire, Stop, StopReachesFetch, EndContext, LockoutEnds, vars, callers
<1>3. CASE ChainStep
  <2>1. ASSUME NEW r \in Reply, VKCallsAnswer(r) \/ VKCallsJoin(r)
        PROVE  LateInv'
    BY <2>1 DEF VKCallsAnswer, VKCallsJoin
  <2>2. ASSUME NEW r \in Reply, AnonAnswer(r) \/ LoginAnswer(r) \/ JoinAnswer(r)
        PROVE  LateInv'
    BY <2>2, LateMoves DEF AnonAnswer, LoginAnswer, JoinAnswer, Required, Replied
  <2>3. ASSUME NEW r \in Reply, PreviewAnswer(r) \/ TokenAnswer(r)
        PROVE  LateInv'
    BY <2>3, LateMoves DEF PreviewAnswer, TokenAnswer, Replied, Goto
  <2>4. ASSUME PauseEnds PROVE LateInv'
    BY <2>4 DEF PauseEnds, Goto, Return
  <2>5. QED
    BY <1>3, <2>1, <2>2, <2>3, <2>4 DEF ChainStep
<1>4. CASE StageStep
  <2>1. ASSUME BeginStage PROVE LateInv'
    <3>1. late' = late /\ pc = "stage"
      BY <2>1 DEF BeginStage
    <3>2. QED
      BY <3>1
  <2>2. ASSUME AskUser PROVE LateInv'
    <3>1. pc = "stage" /\ pc' = "prompt" /\ ctx' = ctx
      BY <2>2 DEF AskUser, Goto
    <3>2. late' = IF CtxDone THEN late + 1 ELSE late
      BY <2>2 DEF AskUser
    <3>3. QED
      BY <3>1, <3>2
  <2>3. ASSUME UserSolves \/ UserFails PROVE LateInv'
    BY <2>3, LateMoves DEF UserSolves, UserFails
  <2>4. ASSUME WebViewPauseEnds PROVE LateInv'
    BY <2>4 DEF WebViewPauseEnds
  <2>5. QED
    BY <1>4, <2>1, <2>2, <2>3, <2>4 DEF StageStep
<1>5. CASE V2Step
  <2>1. late' = late
    BY <1>5
    DEF V2Step, PageLost, PageAnswer, PowEnds, SettingsAnswer, DebugInfo, Solve, ComponentAnswer,
        CheckAnswer, ContentAnswer, GuessAnswer, EndSession, BackoffEnds
  <2>2. pc \notin {"idle", "prompt", "token", "anon", "pause"}
    BY <1>5
    DEF V2Step, PageLost, PageAnswer, PowEnds, SettingsAnswer, DebugInfo, Solve, ComponentAnswer,
        CheckAnswer, ContentAnswer, GuessAnswer, EndSession, BackoffEnds
  <2>3. QED
    BY <2>1, <2>2
<1>6. QED
  BY <1>1, <1>2, <1>3, <1>4, <1>5 DEF Next, Talk

\* Once the call's own context is done (past its deadline, or when Stop has
\* reached a first fetch) at most one more captcha is put before the user.  How
\* many a refresh shows between Stop and its deadline is not bounded by this.
THEOREM OnePrompt == Spec => []OnePromptAfterCancel
<1>1. Init => LateInv
  BY DEF Init, LateInv
<1>2. LateInv => OnePromptAfterCancel
  BY DEF LateInv, OnePromptAfterCancel
<1>3. QED
  BY <1>1, <1>2, LateStep, PTL DEF Spec

-----------------------------------------------------------------------------
(* The way to the end: the safety behind ConversationEnds, which itself is  *)
(* liveness.  Six loops are nested in a conversation; each counts something *)
(* down, or goes on only to what comes later in its body.                   *)

\* Places where a captcha is worked on, and those of one attempt of the solver.
InTry   == {"page", "pow", "settings", "debug", "solve", "component", "check",
            "content", "guess", "endSession", "backoff"}
Captcha == {"stage", "prompt", "wvpause"} \cup InTry

\* A chain works on a captcha only while it may solve one more, an attempt has
\* itself still to be counted, and a guess is one that is left.
LimitInv ==
  /\ TypeOK
  /\ pc \in Captcha => solves < MaxSolves
  /\ pc \in InTry => tries >= 1
  /\ pc = "guess" => guesses >= 1

\* Chains of credentials that may still be tried, the VK Calls path before all.
ChainsLeft ==
  CASE pc = "idle"    -> 0
    [] pc = "vkcalls" -> vkCredentialAttemptLimit + 1
    [] OTHER          -> vkCredentialAttemptLimit - attempt

\* Requests ahead in the chain, were it to find no captcha any more.
RequestsLeft ==
  CASE pc = "vkcalls"   -> 5 - step
    [] pc = "pause"     -> 6
    [] pc = "anon"      -> 5
    [] pc = "preview"   -> 4
    [] pc = "token"     -> 3
    [] pc \in Captcha   -> 2
    [] pc = "login"     -> 1
    [] OTHER            -> 0

\* Attempts of this stage, and what comes before them.
TriesLeft ==
  CASE pc = "wvpause" -> 4
    [] pc = "stage"   -> 3
    [] OTHER          -> tries

\* Requests ahead in an attempt; the puzzle that follows a checkbox is never a
\* checkbox again.
WorkLeft ==
  CASE pc = "page"       -> 10
    [] pc = "pow"        -> 9
    [] pc = "settings"   -> 8
    [] pc = "debug"      -> 7
    [] pc = "solve"      -> IF show.type = "checkbox" THEN 6 ELSE 3
    [] pc = "component"  -> 5
    [] pc = "check"      -> 4
    [] pc = "content"    -> 2
    [] pc = "guess"      -> 1
    [] OTHER             -> 0

\* What is left, from the outermost loop to the innermost.
Left == <<ChainsLeft, MaxSolves - solves, RequestsLeft, Len(Plan(captchaMode)) - stage,
          TriesLeft, WorkLeft, guesses>>

\* Less is left, in the order of the dictionary.
Closer == \E i \in 1 .. 7 : Left'[i] < Left[i] /\ \A j \in 1 .. i - 1 : Left'[j] = Left[j]

\* What goes on around a conversation does not give it more to do.
Countdown ==
  /\ Talk => Closer
  /\ pc # "idle" => Closer \/ Left' = Left

\* Every plan has a stage.
LEMMA PlanLength ==
  Len(Plan(captchaMode)) \in {1, 2, 5} /\ (UNCHANGED modes => Plan(captchaMode)' = Plan(captchaMode))
BY DEF Plan, modes

\* What the steps that branch amount to.
LEMMA Branches ==
  /\ NextStage =>
       \/ GiveUp
       \/ /\ ~LastStage
          /\ pc' \in {"stage", "wvpause"} /\ stage' = stage + 1
          /\ UNCHANGED <<lockout, outcome, chainVars>>
  /\ ChainFails =>
       \/ Return("failed")
       \/ /\ attempt + 1 < vkCredentialAttemptLimit
          /\ pc' \in {"anon", "pause"} /\ attempt' = attempt + 1
          /\ solves' = 0 /\ stage' = 1
          /\ UNCHANGED <<outcome, step>>
  /\ BeginStage => pc = "stage" /\ Goto("page") /\ tries' \in {1, 2}
                     /\ UNCHANGED <<modes, callers, lockout, show, guesses, late>>
  /\ AskUser => pc = "stage" /\ Goto("prompt") /\ UNCHANGED <<modes, callers, lockout, v2Vars>>
                  /\ (late' = late \/ late' = late + 1)
BY DEF NextStage, ChainFails, BeginStage, AskUser

LEMMA LimitInit == Init => LimitInv
<1> SUFFICES ASSUME Init PROVE LimitInv
  OBVIOUS
<1>1. show \in Shown
  BY DEF Init, Shown, Puzzle
<1>2. stage \in 1 .. Len(Plan(captchaMode))
  <2>1. stage = 1
    BY DEF Init
  <2>2. \A n \in {1, 2, 5} : 1 \in 1 .. n
    OBVIOUS
  <2>3. QED
    BY <2>1, <2>2, PlanLength
<1>3. /\ attempt \in 0 .. vkCredentialAttemptLimit - 1
      /\ solves \in 0 .. MaxSolves /\ guesses \in 0 .. MaxGuesses
  BY LimitsAssumption DEF Init
<1>4. /\ pc = "idle"
      /\ tries \in 0 .. 2 /\ step \in 1 .. 5 /\ late \in Nat
  BY DEF Init
<1>5. /\ captchaMode \in {"wv", "rjs", "auto"} /\ authMode \in {"vkcalls", "legacy"}
      /\ stopped \in BOOLEAN /\ caller \in {"group", "refresh"} /\ ctx \in {"live", "done"} /\ lockout \in BOOLEAN
      /\ outcome \in {"none", "ok", "dead", "wait", "failed"}
  BY DEF Init
<1>6. TypeOK
  BY <1>1, <1>2, <1>3, <1>4, <1>5 DEF TypeOK
<1>7. QED
  BY <1>4, <1>6 DEF LimitInv, Captcha, InTry

\* The ways to leave a state keep the limits.
LEMMA LimitMoves ==
  ASSUME LimitInv, UNCHANGED <<modes, callers, v2Vars, late>>, lockout' \in BOOLEAN
  PROVE  /\ \A l \in {"anon", "preview", "token", "login", "join"} : Goto(l) => LimitInv'
         /\ \A l \in Captcha \ InTry : Goto(l) /\ solves < MaxSolves => LimitInv'
         /\ \A l \in InTry \ {"guess"} : Goto(l) /\ pc \in InTry => LimitInv'
         /\ \A o \in {"ok", "dead", "wait", "failed"} : Return(o) => LimitInv'
         /\ ChainFails => LimitInv'
         /\ NextStage /\ pc \in Captcha => LimitInv'
         /\ Solved /\ pc \in Captcha => LimitInv'
<1> USE PlanLength, LimitsAssumption DEF LimitInv, TypeOK, callers, v2Vars, modes, chainVars, Captcha, InTry
<1>1. \A l \in {"anon", "preview", "token", "login", "join"} : Goto(l) => LimitInv'
  BY DEF Goto
<1>2. \A l \in Captcha \ InTry : Goto(l) /\ solves < MaxSolves => LimitInv'
  BY DEF Goto
<1>3. \A l \in InTry \ {"guess"} : Goto(l) /\ pc \in InTry => LimitInv'
  BY DEF Goto
<1>4. \A o \in {"ok", "dead", "wait", "failed"} : Return(o) => LimitInv'
  BY DEF Return
<1>5. ChainFails => LimitInv'
  BY <1>4, Branches
<1>6. NextStage /\ pc \in Captcha => LimitInv'
  BY <1>4, Branches DEF GiveUp, LastStage
<1>7. Solved /\ pc \in Captcha => LimitInv'
  BY DEF Solved
<1>8. QED
  BY <1>1, <1>2, <1>3, <1>4, <1>5, <1>6, <1>7

\* Requests of the VK Calls path and of the token chain.
LEMMA LimitChain == LimitInv /\ ChainStep => LimitInv'
<1> SUFFICES ASSUME LimitInv, ChainStep PROVE LimitInv'
  OBVIOUS
<1> USE PlanLength, LimitMoves DEF LimitInv, TypeOK, callers, v2Vars, modes, chainVars, Captcha, InTry
<1>1. ASSUME NEW r \in Reply, VKCallsAnswer(r) \/ VKCallsJoin(r) PROVE LimitInv'
  BY <1>1 DEF VKCallsAnswer, VKCallsJoin, NextStep
<1>2. ASSUME NEW r \in Reply, AnonAnswer(r) \/ LoginAnswer(r) \/ JoinAnswer(r) PROVE LimitInv'
  BY <1>2 DEF AnonAnswer, LoginAnswer, JoinAnswer, Required
<1>3. ASSUME NEW r \in Reply, PreviewAnswer(r) PROVE LimitInv'
  BY <1>3 DEF PreviewAnswer
<1>4. ASSUME NEW r \in Reply, TokenAnswer(r) PROVE LimitInv'
  BY <1>4 DEF TokenAnswer, SolvesLeft, GiveUp
<1>5. ASSUME PauseEnds PROVE LimitInv'
  BY <1>5 DEF PauseEnds
<1>6. QED
  BY <1>1, <1>2, <1>3, <1>4, <1>5 DEF ChainStep

\* The stages of a captcha.
LEMMA LimitStage == LimitInv /\ StageStep => LimitInv'
<1> SUFFICES ASSUME LimitInv, StageStep PROVE LimitInv'
  OBVIOUS
<1> USE PlanLength DEF LimitInv, TypeOK, callers, v2Vars, modes, Captcha, InTry
<1>1. ASSUME BeginStage PROVE LimitInv'
  BY <1>1, Branches DEF Goto, chainVars
<1>2. ASSUME AskUser PROVE LimitInv'
  BY <1>2, Branches DEF Goto, chainVars
<1>3. ASSUME UserSolves \/ UserFails PROVE LimitInv'
  BY <1>3, LimitMoves DEF UserSolves, UserFails, Solved, NextStage, GiveUp
<1>4. ASSUME WebViewPauseEnds PROVE LimitInv'
  BY <1>4, LimitMoves DEF WebViewPauseEnds, GiveUp
<1>5. QED
  BY <1>1, <1>2, <1>3, <1>4 DEF StageStep

\* The steps of one attempt of the solver.
LEMMA LimitTry == LimitInv /\ V2Step => LimitInv'
<1> SUFFICES ASSUME LimitInv, V2Step PROVE LimitInv'
  OBVIOUS
<1> USE PlanLength DEF LimitInv, TypeOK, callers, v2Vars, modes, Captcha, InTry, V2Goto, TryFails
<1>1. ASSUME PageLost \/ PowEnds \/ SettingsAnswer \/ DebugInfo PROVE LimitInv'
  BY <1>1, LimitMoves DEF PageLost, PowEnds, SettingsAnswer, DebugInfo
<1>2. ASSUME PageAnswer PROVE LimitInv'
  BY <1>2 DEF PageAnswer, Goto, chainVars
<1>3. ASSUME Solve \/ ComponentAnswer PROVE LimitInv'
  BY <1>3, LimitMoves DEF Solve, ComponentAnswer
<1>4. ASSUME CheckAnswer PROVE LimitInv'
  <2>1. show' \in Shown
    BY <1>4 DEF CheckAnswer, Shown, Puzzle
  <2>2. CASE UNCHANGED show
    BY <1>4, <2>2, LimitMoves DEF CheckAnswer, NextStage, GiveUp
  <2>3. CASE Goto("solve") /\ UNCHANGED lockout
    BY <1>4, <2>1, <2>3 DEF CheckAnswer, Goto, chainVars
  <2>4. QED
    BY <1>4, <2>2, <2>3 DEF CheckAnswer
<1>5. ASSUME ContentAnswer PROVE LimitInv'
  <2>1. guesses' \in 0 .. MaxGuesses /\ (pc' = "guess" => guesses' >= 1)
    BY <1>5, LimitsAssumption DEF ContentAnswer, Goto, GuessesAllowed
  <2>2. QED
    BY <1>5, <2>1 DEF ContentAnswer, Goto, chainVars
<1>6. ASSUME GuessAnswer PROVE LimitInv'
  <2>1. guesses' \in 0 .. MaxGuesses /\ (guesses > 1 => guesses' >= 1)
    BY <1>6, LimitsAssumption DEF GuessAnswer
  <2>2. CASE NextStage
    <3>1. UNCHANGED <<modes, callers, tries, show, late>> /\ pc = "guess"
      BY <1>6 DEF GuessAnswer
    <3>2. CASE GiveUp
      BY <2>1, <3>1, <3>2, LimitsAssumption DEF GiveUp, Return
    <3>3. CASE ~GiveUp
      BY <2>1, <2>2, <3>1, <3>3, Branches DEF LastStage, chainVars
    <3>4. QED
      BY <3>2, <3>3
  <2>3. CASE ~NextStage
    BY <1>6, <2>1, <2>3 DEF GuessAnswer, Goto, chainVars
  <2>4. QED
    BY <2>2, <2>3
<1>7. ASSUME EndSession PROVE LimitInv'
  BY <1>7, LimitMoves DEF EndSession, Solved
<1>8. ASSUME BackoffEnds PROVE LimitInv'
  <2>1. CASE UNCHANGED tries
    BY <1>8, <2>1, LimitMoves DEF BackoffEnds, NextStage, GiveUp
  <2>2. CASE tries > 1 /\ V2Goto("page") /\ tries' = tries - 1
    BY <1>8, <2>2 DEF BackoffEnds, Goto, chainVars
  <2>3. QED
    BY <1>8, <2>1, <2>2 DEF BackoffEnds
<1>9. QED
  BY <1>1, <1>2, <1>3, <1>4, <1>5, <1>6, <1>7, <1>8 DEF V2Step

LEMMA LimitStep == LimitInv /\ [Next]_vars => LimitInv'
<1> SUFFICES ASSUME LimitInv, [Next]_vars PROVE LimitInv'
  OBVIOUS
<1> USE PlanLength DEF LimitInv, TypeOK, callers, v2Vars, modes, chainVars, Captcha, InTry
<1>1. CASE Begin
  BY <1>1 DEF Begin
<1>2. CASE Expire \/ Stop \/ StopReachesFetch \/ LockoutEnds \/ UNCHANGED vars
  <2>1. /\ UNCHANGED <<modes, pc, chainVars, stage, v2Vars, late, outcome>>
        /\ stopped' \in BOOLEAN /\ caller' \in {"group", "refresh"} /\ ctx' \in {"live", "done"} /\ lockout' \in BOOLEAN
    BY <1>2 DEF Expire, Stop, StopReachesFetch, EndContext, LockoutEnds, vars, callers
  <2>2. QED
    BY <2>1
<1>3. CASE Talk
  BY <1>3, LimitChain, LimitStage, LimitTry DEF Talk
<1>4. QED
  BY <1>1, <1>2, <1>3 DEF Next

\* The types of a conversation and its limits, for any numbers of chains, captchas
\* and guesses.
THEOREM TypeCorrect == Spec => []TypeOK
<1>1. LimitInv => TypeOK
  BY DEF LimitInv
<1>2. QED
  BY <1>1, LimitInit, LimitStep, PTL DEF Spec

\* Nothing counts below zero.
LEMMA LeftCounts == LimitInv => Left \in [1 .. 7 -> Nat]
<1> SUFFICES ASSUME LimitInv PROVE Left \in [1 .. 7 -> Nat]
  OBVIOUS
<1> USE LimitsAssumption, PlanLength DEF LimitInv, TypeOK, callers
<1>1. ChainsLeft \in Nat
  BY DEF ChainsLeft
<1>2. RequestsLeft \in Nat
  BY DEF RequestsLeft
<1>3. TriesLeft \in Nat /\ WorkLeft \in Nat
  BY DEF TriesLeft, WorkLeft
<1>4. MaxSolves - solves \in Nat /\ Len(Plan(captchaMode)) - stage \in Nat /\ guesses \in Nat
  OBVIOUS
<1>5. QED
  <2>1. \A a, b, c, d, e, f, g \in Nat : <<a, b, c, d, e, f, g>> \in [1 .. 7 -> Nat]
    OBVIOUS
  <2> HIDE DEF LimitInv, TypeOK, callers
  <2>2. QED
    BY <2>1, <1>1, <1>2, <1>3, <1>4 DEF Left

\* What is left are seven natural numbers: what gets smaller in every step of a
\* conversation cannot do so for ever.
THEOREM NothingBelowZero == Spec => [](Left \in [1 .. 7 -> Nat])
BY LeftCounts, LimitInit, LimitStep, PTL DEF Spec

\* Which of the seven gets smaller.
LEMMA CloserBy ==
  /\ ChainsLeft' < ChainsLeft => Closer
  /\ ChainsLeft' = ChainsLeft
       /\ MaxSolves - solves' < MaxSolves - solves => Closer
  /\ ChainsLeft' = ChainsLeft /\ solves' = solves
       /\ RequestsLeft' < RequestsLeft => Closer
  /\ ChainsLeft' = ChainsLeft /\ solves' = solves /\ RequestsLeft' = RequestsLeft
       /\ (Len(Plan(captchaMode)) - stage)' < Len(Plan(captchaMode)) - stage => Closer
  /\ ChainsLeft' = ChainsLeft /\ solves' = solves /\ RequestsLeft' = RequestsLeft
       /\ UNCHANGED <<captchaMode, stage>>
       /\ TriesLeft' < TriesLeft => Closer
  /\ ChainsLeft' = ChainsLeft /\ solves' = solves /\ RequestsLeft' = RequestsLeft
       /\ UNCHANGED <<captchaMode, stage>> /\ TriesLeft' = TriesLeft
       /\ WorkLeft' < WorkLeft => Closer
  /\ ChainsLeft' = ChainsLeft /\ solves' = solves /\ RequestsLeft' = RequestsLeft
       /\ UNCHANGED <<captchaMode, stage>> /\ TriesLeft' = TriesLeft /\ WorkLeft' = WorkLeft
       /\ guesses' < guesses => Closer
<1> USE DEF Left, Closer
<1>1. ChainsLeft' < ChainsLeft => Closer
  <2>1. SUFFICES ASSUME Left'[1] < Left[1] PROVE Closer
    OBVIOUS
  <2>2. QED
    BY <2>1
<1>2. ASSUME ChainsLeft' = ChainsLeft, MaxSolves - solves' < MaxSolves - solves PROVE Closer
  <2>1. Left'[2] < Left[2] /\ \A j \in 1 .. 1 : Left'[j] = Left[j]
    BY <1>2
  <2>2. QED
    BY <2>1
<1>3. ASSUME ChainsLeft' = ChainsLeft, solves' = solves, RequestsLeft' < RequestsLeft PROVE Closer
  <2>1. Left'[3] < Left[3] /\ \A j \in 1 .. 2 : Left'[j] = Left[j]
    BY <1>3
  <2>2. QED
    BY <2>1
<1>4. ASSUME ChainsLeft' = ChainsLeft, solves' = solves, RequestsLeft' = RequestsLeft,
             (Len(Plan(captchaMode)) - stage)' < Len(Plan(captchaMode)) - stage
      PROVE  Closer
  <2>1. Left'[4] < Left[4] /\ \A j \in 1 .. 3 : Left'[j] = Left[j]
    BY <1>4
  <2>2. QED
    BY <2>1
<1>5. ASSUME ChainsLeft' = ChainsLeft, solves' = solves, RequestsLeft' = RequestsLeft,
             UNCHANGED <<captchaMode, stage>>, TriesLeft' < TriesLeft
      PROVE  Closer
  <2>1. Left'[5] < Left[5] /\ \A j \in 1 .. 4 : Left'[j] = Left[j]
    BY <1>5
  <2>2. QED
    BY <2>1
<1>6. ASSUME ChainsLeft' = ChainsLeft, solves' = solves, RequestsLeft' = RequestsLeft,
             UNCHANGED <<captchaMode, stage>>, TriesLeft' = TriesLeft, WorkLeft' < WorkLeft
      PROVE  Closer
  <2>1. Left'[6] < Left[6] /\ \A j \in 1 .. 5 : Left'[j] = Left[j]
    BY <1>6
  <2>2. QED
    BY <2>1
<1>7. ASSUME ChainsLeft' = ChainsLeft, solves' = solves, RequestsLeft' = RequestsLeft,
             UNCHANGED <<captchaMode, stage>>, TriesLeft' = TriesLeft, WorkLeft' = WorkLeft,
             guesses' < guesses
      PROVE  Closer
  <2>1. Left'[7] < Left[7] /\ \A j \in 1 .. 6 : Left'[j] = Left[j]
    BY <1>7
  <2>2. QED
    BY <2>1
<1>8. QED
  BY <1>1, <1>2, <1>3, <1>4, <1>5, <1>6, <1>7

\* The counts of chains and of requests, place by place.
LEMMA CountsByPlace ==
  /\ pc = "vkcalls" => RequestsLeft = 5 - step /\ ChainsLeft = vkCredentialAttemptLimit + 1
  /\ pc = "pause" => RequestsLeft = 6
  /\ pc = "anon" => RequestsLeft = 5
  /\ pc = "preview" => RequestsLeft = 4
  /\ pc = "token" => RequestsLeft = 3
  /\ pc \in Captcha => RequestsLeft = 2
  /\ pc = "login" => RequestsLeft = 1
  /\ pc = "join" => RequestsLeft = 0
  /\ pc \notin {"idle", "vkcalls"} => ChainsLeft = vkCredentialAttemptLimit - attempt
BY DEF RequestsLeft, ChainsLeft, Captcha, InTry

LEMMA CountsByPlaceNext ==
  /\ pc' = "vkcalls" => RequestsLeft' = 5 - step' /\ ChainsLeft' = vkCredentialAttemptLimit + 1
  /\ pc' = "anon" => RequestsLeft' = 5
  /\ pc' = "preview" => RequestsLeft' = 4
  /\ pc' = "token" => RequestsLeft' = 3
  /\ pc' \in Captcha => RequestsLeft' = 2
  /\ pc' = "login" => RequestsLeft' = 1
  /\ pc' = "join" => RequestsLeft' = 0
  /\ pc' \notin {"idle", "vkcalls"} => ChainsLeft' = vkCredentialAttemptLimit - attempt'
BY DEF RequestsLeft, ChainsLeft, Captcha, InTry

\* The ways out of a chain, of a stage and of an attempt.
LEMMA WaysOut ==
  ASSUME LimitInv, UNCHANGED modes, pc # "idle"
  PROVE  /\ \A o : Return(o) => Closer
         /\ ChainFails /\ pc # "vkcalls" => Closer
         /\ GiveUp => Closer
         /\ NextStage /\ pc \in Captcha => Closer
         /\ Solved /\ pc \in Captcha => Closer
         /\ V2Goto("backoff") /\ pc \in InTry \ {"backoff", "endSession"}
              /\ tries' = tries => Closer
<1> USE LimitsAssumption, PlanLength DEF LimitInv, TypeOK, callers, modes, chainVars, Captcha, InTry
<1>1. \A o : Return(o) => Closer
  BY CloserBy DEF Return, ChainsLeft
<1>2. ChainFails /\ pc # "vkcalls" => Closer
  <2>1. SUFFICES ASSUME ChainFails, ~Return("failed"), pc # "vkcalls" PROVE Closer
    BY <1>1
  <2>2. pc' \in {"anon", "pause"} /\ attempt' = attempt + 1 /\ attempt \in Nat
    BY <2>1, Branches
  <2>3. ChainsLeft' < ChainsLeft
    BY <2>1, <2>2, CountsByPlace, CountsByPlaceNext
  <2>4. QED
    BY <2>3, CloserBy
<1>3. GiveUp => Closer
  BY <1>1 DEF GiveUp
<1>4. NextStage /\ pc \in Captcha => Closer
  <2>1. SUFFICES ASSUME NextStage, ~GiveUp, pc \in Captcha PROVE Closer
    BY <1>3
  <2>2. ChainsLeft' = ChainsLeft /\ RequestsLeft' = RequestsLeft /\ solves' = solves
    BY <2>1, Branches DEF ChainsLeft, RequestsLeft
  <2>3. (Len(Plan(captchaMode)) - stage)' < Len(Plan(captchaMode)) - stage
    BY <2>1, Branches
  <2>4. QED
    BY <2>2, <2>3, CloserBy
<1>5. Solved /\ pc \in Captcha => Closer
  <2>1. SUFFICES ASSUME Solved, pc \in Captcha PROVE Closer
    OBVIOUS
  <2>2. pc' = "token" /\ attempt' = attempt /\ solves' = solves + 1
    BY <2>1 DEF Solved
  <2>3. ChainsLeft' = ChainsLeft
    BY <2>1, <2>2, CountsByPlace, CountsByPlaceNext
  <2>4. MaxSolves - solves' < MaxSolves - solves
    BY <2>2
  <2>5. QED
    BY <2>3, <2>4, CloserBy
<1>6. V2Goto("backoff") /\ pc \in InTry \ {"backoff", "endSession"} /\ tries' = tries => Closer
  <2>1. SUFFICES ASSUME V2Goto("backoff"), pc \in InTry \ {"backoff", "endSession"}, tries' = tries
                 PROVE  Closer
    OBVIOUS
  <2>2. pc' = "backoff" /\ UNCHANGED <<attempt, solves, captchaMode, stage>>
    BY <2>1 DEF V2Goto, Goto
  <2>3. ChainsLeft' = ChainsLeft /\ RequestsLeft' = RequestsLeft
    BY <2>1, <2>2, CountsByPlace, CountsByPlaceNext
  <2>4. TriesLeft' = TriesLeft
    BY <2>1, <2>2 DEF TriesLeft
  <2>5. WorkLeft' < WorkLeft
    BY <2>1, <2>2 DEF WorkLeft
  <2>6. QED
    BY <2>2, <2>3, <2>4, <2>5, CloserBy
<1>7. QED
  BY <1>1, <1>2, <1>3, <1>4, <1>5, <1>6

\* Requests of the VK Calls path and of the token chain.
LEMMA ChainCloser == LimitInv /\ ChainStep => Closer
<1> SUFFICES ASSUME LimitInv, ChainStep PROVE Closer
  OBVIOUS
<1>1. ASSUME NEW r \in Reply, VKCallsAnswer(r) \/ VKCallsJoin(r) PROVE Closer
  <2>1. /\ pc = "vkcalls" /\ UNCHANGED modes
        /\ \/ NextStep /\ step \in 1 .. 4
           \/ Goto("anon") \/ Return("ok") \/ Return("dead")
    BY <1>1 DEF VKCallsAnswer, VKCallsJoin
  <2>2. CASE NextStep /\ step \in 1 .. 4
    <3>1. pc' = "vkcalls" /\ step' = step + 1 /\ solves' = solves
      BY <2>1, <2>2 DEF NextStep
    <3>2. ChainsLeft' = ChainsLeft /\ RequestsLeft' < RequestsLeft
      BY <2>1, <2>2, <3>1, CountsByPlace, CountsByPlaceNext
    <3>3. QED
      BY <3>1, <3>2, CloserBy, <2>1
  <2>3. CASE Goto("anon")
    <3>1. pc' = "anon" /\ attempt' = attempt /\ attempt \in Nat
      BY <2>3 DEF Goto, chainVars, LimitInv, TypeOK
    <3>2. ChainsLeft' < ChainsLeft
      BY <2>1, <3>1, CountsByPlace, CountsByPlaceNext, LimitsAssumption
    <3>3. QED
      BY <2>1, <3>2, CloserBy
  <2>4. CASE Return("ok") \/ Return("dead")
    BY <2>1, <2>4, WaysOut
  <2>5. QED
    BY <2>1, <2>2, <2>3, <2>4
<1>2. ASSUME UNCHANGED modes, NEW l, Goto(l),
             \/ pc = "pause" /\ l = "anon"
             \/ pc = "anon" /\ l = "preview"
             \/ pc = "preview" /\ l = "token"
             \/ pc = "token" /\ l \in {"login", "stage"}
             \/ pc = "login" /\ l = "join"
      PROVE  Closer
  <2>1. pc' = l /\ attempt' = attempt /\ solves' = solves
    BY <1>2 DEF Goto, chainVars
  <2>2. ChainsLeft' = ChainsLeft
    BY <1>2, <2>1, CountsByPlace, CountsByPlaceNext
  <2>3. l = "stage" => pc' \in Captcha
    BY <2>1 DEF Captcha
  <2>4. RequestsLeft' < RequestsLeft
    BY <1>2, <2>1, <2>3, CountsByPlace, CountsByPlaceNext
  <2>5. QED
    BY <1>2, <2>1, <2>2, <2>4, CloserBy
<1>3. ASSUME NEW r \in Reply, AnonAnswer(r) \/ LoginAnswer(r) \/ JoinAnswer(r) PROVE Closer
  <2>1. /\ pc \in {"anon", "login", "join"} /\ UNCHANGED modes
        /\ \/ ChainFails
           \/ pc = "anon" /\ Goto("preview")
           \/ pc = "login" /\ Goto("join")
           \/ pc = "join" /\ Return("ok")
    BY <1>3 DEF AnonAnswer, LoginAnswer, JoinAnswer, Required
  <2>2. QED
    BY <2>1, <1>2, WaysOut
<1>4. ASSUME NEW r \in Reply, PreviewAnswer(r) PROVE Closer
  BY <1>4, <1>2, WaysOut DEF PreviewAnswer
<1>5. ASSUME NEW r \in Reply, TokenAnswer(r) PROVE Closer
  BY <1>5, <1>2, WaysOut DEF TokenAnswer
<1>6. ASSUME PauseEnds PROVE Closer
  BY <1>6, <1>2, WaysOut DEF PauseEnds
<1>7. QED
  BY <1>1, <1>3, <1>4, <1>5, <1>6 DEF ChainStep

\* The stages of a captcha.
LEMMA StageCloser == LimitInv /\ StageStep => Closer
<1> SUFFICES ASSUME LimitInv, StageStep PROVE Closer
  OBVIOUS
<1> USE WaysOut, CloserBy
    DEF LimitInv, TypeOK, callers, modes, chainVars, v2Vars, Captcha, InTry, Goto, ChainsLeft, RequestsLeft,
        TriesLeft
<1>1. ASSUME BeginStage PROVE Closer
  BY <1>1, Branches
<1>2. ASSUME AskUser PROVE Closer
  BY <1>2, Branches
<1>3. ASSUME UserSolves \/ UserFails PROVE Closer
  BY <1>3 DEF UserSolves, UserFails
<1>4. ASSUME WebViewPauseEnds PROVE Closer
  BY <1>4 DEF WebViewPauseEnds
<1>5. QED
  BY <1>1, <1>2, <1>3, <1>4 DEF StageStep

\* Within an attempt: on to a place with less work ahead.
LEMMA OnInTry ==
  ASSUME LimitInv, UNCHANGED <<modes, tries>>, NEW l \in InTry, V2Goto(l), pc \in InTry
  PROVE  /\ WorkLeft' < WorkLeft => Closer
         /\ WorkLeft' = WorkLeft /\ guesses' < guesses => Closer
BY CloserBy
DEF V2Goto, LimitInv, TypeOK, modes, chainVars, Captcha, InTry, Goto, ChainsLeft, RequestsLeft, TriesLeft

\* The steps of one attempt of the solver.
LEMMA TryCloser == LimitInv /\ V2Step => Closer
<1> SUFFICES ASSUME LimitInv, V2Step PROVE Closer
  OBVIOUS
<1> USE WaysOut, OnInTry
    DEF Captcha, InTry, TryFails, v2Vars, WorkLeft
<1>1. ASSUME PageLost \/ PowEnds \/ SettingsAnswer \/ DebugInfo PROVE Closer
  BY <1>1 DEF PageLost, PowEnds, SettingsAnswer, DebugInfo, V2Goto, Goto
<1>2. ASSUME PageAnswer PROVE Closer
  BY <1>2 DEF PageAnswer, V2Goto, Goto
<1>3. ASSUME Solve \/ ComponentAnswer PROVE Closer
  BY <1>3 DEF Solve, ComponentAnswer, V2Goto, Goto
<1>4. ASSUME CheckAnswer PROVE Closer
  BY <1>4 DEF CheckAnswer, V2Goto, Goto, LimitInv, TypeOK, Shown
<1>5. ASSUME ContentAnswer PROVE Closer
  BY <1>5 DEF ContentAnswer, V2Goto, Goto
<1>6. ASSUME GuessAnswer PROVE Closer
  BY <1>6 DEF GuessAnswer, V2Goto, Goto, LimitInv, TypeOK
<1>7. ASSUME EndSession PROVE Closer
  BY <1>7 DEF EndSession
<1>8. ASSUME BackoffEnds PROVE Closer
  <2>1. CASE NextStage
    BY <1>8, <2>1 DEF BackoffEnds
  <2>2. CASE V2Goto("page") /\ tries' = tries - 1
    BY <1>8, <2>2, CloserBy
    DEF BackoffEnds, V2Goto, Goto, chainVars, modes, LimitInv, TypeOK, ChainsLeft, RequestsLeft, TriesLeft
  <2>3. QED
    BY <1>8, <2>1, <2>2 DEF BackoffEnds
<1>9. QED
  BY <1>1, <1>2, <1>3, <1>4, <1>5, <1>6, <1>7, <1>8 DEF V2Step

\* Every step of a conversation brings its end closer, whatever VK answers and
\* whoever cancels: requests, chains, captchas, stages, attempts, guesses and the
\* loop over the show type (captcha_v2.go) are left after as many steps as the
\* limits allow.
THEOREM TalkCounts == Spec => [][Countdown]_vars
<1>1. LimitInv /\ [Next]_vars => [Countdown]_vars
  <2> SUFFICES ASSUME LimitInv, [Next]_vars PROVE Countdown \/ UNCHANGED vars
    OBVIOUS
  <2>1. CASE Talk
    BY <2>1, ChainCloser, StageCloser, TryCloser DEF Talk, Countdown
  <2>2. CASE ~Talk /\ pc = "idle"
    BY <2>2 DEF Countdown
  <2>3. CASE ~Talk /\ pc # "idle" /\ Next
    <3>1. Expire \/ Stop \/ StopReachesFetch \/ LockoutEnds
      BY <2>3 DEF Next, Begin
    <3>2. Left' = Left
      BY <3>1
      DEF Expire, Stop, StopReachesFetch, EndContext, LockoutEnds, modes, chainVars, v2Vars, Left, ChainsLeft, RequestsLeft,
          TriesLeft, WorkLeft, Plan
    <3>3. QED
      BY <2>3, <3>2 DEF Countdown
  <2>4. QED
    BY <2>1, <2>2, <2>3
<1>2. QED
  BY <1>1, LimitInit, LimitStep, PTL DEF Spec
=============================================================================
