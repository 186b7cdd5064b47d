--------------------------- MODULE HandoverProofs ---------------------------
(***************************************************************************)
(* Proofs about the way of a captcha's answer to the core, for any number   *)
(* of buffered events: the types, that the watcher's send into the channel  *)
(* of capacity 1 never has to wait, and that no answer to the request under *)
(* way is dropped between the file and the core.                            *)
(***************************************************************************)
EXTENDS Handover, TLAPS

LEMMA OlderAge == \A a \in Age : Older(a) \in Age
BY DEF Older, Age

\* The queue of events stays within its bound.
LEMMA EventsType ==
  ASSUME events \in Seq(Age), Len(events) <= MaxEvents, [Next]_vars
  PROVE  events' \in Seq(Age) /\ Len(events') <= MaxEvents
<1> USE MaxEventsAssumption
<1>1. CASE Ask
  <2>1. "now" \in Age
    BY DEF Age
  <2>2. CASE Len(events) < MaxEvents /\ events' = Append(events, "now")
    BY <2>1, <2>2
  <2>3. CASE events # <<>> /\ events' = Append(Tail(events), "now")
    BY <2>1, <2>3
  <2>4. CASE UNCHANGED events
    BY <2>4
  <2>5. QED
    BY <1>1, <2>2, <2>3, <2>4 DEF Ask
<1>2. CASE TakeAnswer \/ TimeOut
  <2>1. events' = [i \in 1 .. Len(events) |-> "past"]
    BY <1>2 DEF TakeAnswer, TimeOut, AllOlder
  <2>2. "past" \in Age
    BY DEF Age
  <2>3. QED
    BY <2>1, <2>2
<1>3. CASE ShowCaptcha
  BY <1>3 DEF ShowCaptcha
<1>4. CASE Stop \/ LoopEnds \/ StopCore \/ ReadStatus \/ OpenFile \/ WriteFile
  BY <1>4 DEF Stop, LoopEnds, StopCore, ReadStatus, OpenFile, WriteFile
<1>5. CASE Watcher
  BY <1>5 DEF Watcher, ReadFile, RemoveFile, DrainOld, SendToken, ClearCaptcha, WatcherLeaves
<1>6. CASE UNCHANGED vars
  BY <1>6 DEF vars
<1>7. QED
  BY <1>1, <1>2, <1>3, <1>4, <1>5, <1>6 DEF Next

\* Whoever is at the file has a token to write.
TypeInv == TypeOK /\ (person # "away" => token # "none")

LEMMA TypeStep == TypeInv /\ [Next]_vars => TypeInv'
<1> SUFFICES ASSUME TypeInv, [Next]_vars PROVE TypeInv'
  OBVIOUS
<1> USE DEF TypeInv, TypeOK, Age
<1>0. events' \in Seq(Age) /\ Len(events') <= MaxEvents
  BY EventsType
<1>1. CASE Ask
  BY <1>0, <1>1 DEF Ask, daemonVars, personVars, fileVars, watchVars
<1>2. CASE TakeAnswer \/ TimeOut
  BY <1>0, <1>2 DEF TakeAnswer, TimeOut, AllOlder, Older, daemonVars
<1>3. CASE ShowCaptcha
  BY <1>0, <1>3 DEF ShowCaptcha, daemonVars, personVars, fileVars, watchVars
<1>4. CASE Stop \/ LoopEnds \/ StopCore
  BY <1>0, <1>4 DEF Stop, LoopEnds, StopCore, personVars, fileVars, watchVars
<1>5. CASE ReadStatus \/ OpenFile \/ WriteFile
  <2>1. {chan, shown, token, held}' \subseteq Age
    BY <1>5 DEF ReadStatus, OpenFile, WriteFile, watchVars
  <2>2. file' \in {"missing", "empty", "now", "past"}
    BY <1>5 DEF ReadStatus, OpenFile, WriteFile, fileVars
  <2>3. QED
    BY <1>0, <1>5, <2>1, <2>2 DEF ReadStatus, OpenFile, WriteFile, daemonVars, fileVars, watchVars
<1>6. CASE Watcher
  BY <1>0, <1>6
  DEF Watcher, ReadFile, RemoveFile, DrainOld, SendToken, ClearCaptcha, WatcherLeaves,
      daemonVars, personVars, fileVars
<1>7. CASE UNCHANGED vars
  BY <1>0, <1>7 DEF vars
<1>8. QED
  BY <1>1, <1>2, <1>3, <1>4, <1>5, <1>6, <1>7 DEF Next

\* Every variable of the hand-over keeps its type.
THEOREM TypeCorrect == Spec => []TypeOK
<1>1. ASSUME Init PROVE TypeInv
  <2>1. events \in Seq(Age) /\ Len(events) <= MaxEvents
    BY <1>1, MaxEventsAssumption DEF Init
  <2>2. QED
    BY <1>1, <2>1 DEF Init, TypeInv, TypeOK, Age
<1>2. TypeInv => TypeOK
  BY DEF TypeInv
<1>3. QED
  BY <1>1, <1>2, TypeStep, PTL DEF Spec

-----------------------------------------------------------------------------
\* Nobody but the watcher fills the channel; requests only empty it, or age what
\* is in it.
LEMMA RoomStep == SendNeverBlocks /\ [Next]_vars => SendNeverBlocks'
<1> SUFFICES ASSUME SendNeverBlocks, [Next]_vars PROVE SendNeverBlocks'
  OBVIOUS
<1> USE DEF SendNeverBlocks
<1>1. CASE Ask \/ TakeAnswer \/ TimeOut
  BY <1>1 DEF Ask, TakeAnswer, TimeOut, Older, watchVars
<1>2. CASE ShowCaptcha \/ Stop \/ LoopEnds \/ StopCore
  BY <1>2 DEF ShowCaptcha, Stop, LoopEnds, StopCore, watchVars
<1>3. CASE ReadStatus \/ OpenFile \/ WriteFile
  BY <1>3 DEF ReadStatus, OpenFile, WriteFile, watchVars
<1>4. CASE DrainOld \/ SendToken
  BY <1>4 DEF DrainOld, SendToken
<1>5. CASE ReadFile \/ RemoveFile \/ ClearCaptcha \/ WatcherLeaves
  BY <1>5 DEF ReadFile, RemoveFile, ClearCaptcha, WatcherLeaves
<1>6. CASE UNCHANGED vars
  BY <1>6 DEF vars
<1>7. QED
  BY <1>1, <1>2, <1>3, <1>4, <1>5, <1>6 DEF Next, Watcher

\* Between SolveCaptcha's drain and its send the channel stays empty, so the one
\* watcher is never stuck in the send.
THEOREM SendHasRoom == Spec => []SendNeverBlocks
<1>1. Init => SendNeverBlocks
  BY DEF Init, SendNeverBlocks
<1>2. QED
  BY <1>1, RoomStep, PTL DEF Spec

-----------------------------------------------------------------------------
(* The way of an answer: the safety behind AnswerEndsRequest, which itself  *)
(* is liveness.                                                             *)

\* What is about the request under way exists only while there is one.
FreshInv ==
  /\ "now" \in {chan, shown, token, file, held} => asking
  /\ \A i \in DOMAIN events : events[i] = "now" => asking

\* The watcher holds a token from its read to its send.
HeldInv == held = "none" <=> watcher \in {"tick", "clear", "done"}

AnswerInv == TypeInv /\ FreshInv /\ HeldInv

\* A token for the request under way leaves the watcher's hands only into the
\* channel, with the end of the request, or for want of a core; and what is in the
\* channel of a waiting request is replaced by another answer, never just removed.
AnswerKept ==
  /\ held = "now" /\ held' # "now" => chan' = "now" \/ ~asking' \/ ~core
  /\ asking /\ asking' /\ chan # "none" /\ chan' # chan =>
       watcher' = "send" /\ held' # "none"

\* The end of a request makes everything past.
LEMMA AllPast ==
  ASSUME AllOlder, chan' # "now"
  PROVE  FreshInv'
<1>1. "now" \notin {chan', shown', token', file', held'}
  BY DEF AllOlder, Older
<1>2. \A i \in DOMAIN events' : events'[i] = "past"
  BY DEF AllOlder
<1>3. QED
  BY <1>1, <1>2 DEF FreshInv

\* Events come and go, and a new one comes with a request.
LEMMA FreshEvents ==
  ASSUME TypeInv, FreshInv, [Next]_vars, asking' = asking \/ asking'
  PROVE  \A i \in DOMAIN events' : events'[i] = "now" => asking'
<1> USE DEF TypeInv, TypeOK, FreshInv
<1>1. CASE asking'
  BY <1>1
<1>2. CASE ~asking /\ ~asking'
  <2>1. CASE events' = events
    BY <1>2, <2>1
  <2>2. CASE ShowCaptcha
    <3>1. events' = Tail(events) /\ events \in Seq(Age) /\ events # <<>>
      BY <2>2 DEF ShowCaptcha
    <3>2. \A i \in DOMAIN events' : i + 1 \in DOMAIN events /\ events'[i] = events[i + 1]
      BY <3>1
    <3>3. QED
      BY <1>2, <3>2
  <2>3. CASE events' # events /\ ~ShowCaptcha
    <3>1. Ask \/ TakeAnswer \/ TimeOut
      BY <2>3
      DEF Next, Stop, LoopEnds, StopCore, ReadStatus, OpenFile, WriteFile, Watcher, ReadFile,
          RemoveFile, DrainOld, SendToken, ClearCaptcha, WatcherLeaves, vars
    <3>2. QED
      BY <1>2, <3>1 DEF Ask, TakeAnswer, TimeOut
  <2>4. QED
    BY <2>1, <2>2, <2>3
<1>3. QED
  BY <1>1, <1>2 DEF TypeInv, TypeOK

LEMMA FreshStep == TypeInv /\ FreshInv /\ [Next]_vars => FreshInv'
<1> SUFFICES ASSUME TypeInv, FreshInv, [Next]_vars PROVE FreshInv'
  OBVIOUS
<1>1. CASE TakeAnswer
  BY <1>1, AllPast DEF TakeAnswer
<1>2. CASE TimeOut
  <2>1. chan' # "now"
    BY <1>2 DEF TimeOut, Older
  <2>2. QED
    BY <1>2, <2>1, AllPast DEF TimeOut
<1>3. CASE ~(TakeAnswer \/ TimeOut)
  <2>1. asking' = asking \/ asking'
    BY <1>3
    DEF Next, Ask, ShowCaptcha, Stop, LoopEnds, StopCore, ReadStatus, OpenFile, WriteFile, Watcher,
        ReadFile, RemoveFile, DrainOld, SendToken, ClearCaptcha, WatcherLeaves, vars
  <2>2. \A i \in DOMAIN events' : events'[i] = "now" => asking'
    BY <2>1, FreshEvents
  <2>3. "now" \in {chan', shown', token', file', held'} => asking'
    <3>1. CASE asking'
      BY <3>1
    <3>2. CASE asking' = asking /\ ~asking
      <4>1. "now" \notin {chan, shown, token, file, held}
        BY <3>2 DEF FreshInv
      <4>2. CASE ShowCaptcha
        <5>1. 1 \in DOMAIN events /\ shown' = events[1]
          BY <4>2 DEF ShowCaptcha, TypeInv, TypeOK
        <5>2. shown' # "now"
          BY <3>2, <5>1 DEF FreshInv
        <5>3. QED
          BY <4>1, <4>2, <5>2 DEF ShowCaptcha, personVars, fileVars, watchVars
      <4>3. CASE ReadStatus \/ OpenFile \/ WriteFile
        BY <4>1, <4>3 DEF ReadStatus, OpenFile, WriteFile, fileVars, watchVars
      <4>4. CASE Watcher
        BY <4>1, <4>4
        DEF Watcher, ReadFile, RemoveFile, DrainOld, SendToken, ClearCaptcha, WatcherLeaves,
            personVars, fileVars
      <4>5. CASE Ask \/ Stop \/ LoopEnds \/ StopCore \/ UNCHANGED vars
        BY <3>2, <4>1, <4>5
        DEF Ask, Stop, LoopEnds, StopCore, personVars, fileVars, watchVars, vars
      <4>6. QED
        BY <1>3, <4>2, <4>3, <4>4, <4>5 DEF Next
    <3>3. QED
      BY <2>1, <3>1, <3>2 DEF TypeInv, TypeOK
  <2>4. QED
    BY <2>2, <2>3 DEF FreshInv
<1>4. QED
  BY <1>1, <1>2, <1>3

LEMMA HeldStep == TypeInv /\ HeldInv /\ [Next]_vars => HeldInv'
<1> SUFFICES ASSUME TypeInv, HeldInv, [Next]_vars PROVE HeldInv'
  OBVIOUS
<1> USE DEF TypeInv, TypeOK, HeldInv
<1>1. CASE TakeAnswer \/ TimeOut
  BY <1>1 DEF TakeAnswer, TimeOut, AllOlder, Older
<1>2. CASE Ask \/ ShowCaptcha \/ Stop \/ LoopEnds \/ StopCore \/ ReadStatus \/ OpenFile \/ WriteFile
  BY <1>2
  DEF Ask, ShowCaptcha, Stop, LoopEnds, StopCore, ReadStatus, OpenFile, WriteFile, watchVars
<1>3. CASE Watcher
  <2>1. ASSUME ReadFile PROVE HeldInv'
    <3>1. held' # "none" /\ watcher' = "remove"
      BY <2>1 DEF ReadFile
    <3>2. QED
      BY <3>1
  <2>2. ASSUME ~ReadFile PROVE HeldInv'
    BY <1>3, <2>2
    DEF Watcher, RemoveFile, DrainOld, SendToken, ClearCaptcha, WatcherLeaves
  <2>3. QED
    BY <2>1, <2>2
<1>4. CASE UNCHANGED vars
  BY <1>4 DEF vars
<1>5. QED
  BY <1>1, <1>2, <1>3, <1>4 DEF Next

LEMMA AnswerInit == Init => AnswerInv
<1> SUFFICES ASSUME Init PROVE AnswerInv
  OBVIOUS
<1>1. events \in Seq(Age) /\ Len(events) <= MaxEvents /\ DOMAIN events = {}
  BY MaxEventsAssumption DEF Init
<1>2. TypeInv
  BY <1>1 DEF Init, TypeInv, TypeOK, Age
<1>3. FreshInv /\ HeldInv
  BY <1>1 DEF Init, FreshInv, HeldInv
<1>4. QED
  BY <1>2, <1>3 DEF AnswerInv

LEMMA AnswerStep == AnswerInv /\ [Next]_vars => AnswerInv' /\ [AnswerKept]_vars
<1> SUFFICES ASSUME AnswerInv, [Next]_vars PROVE AnswerInv' /\ [AnswerKept]_vars
  OBVIOUS
<1>1. AnswerInv'
  BY TypeStep, FreshStep, HeldStep DEF AnswerInv
<1> SUFFICES AnswerKept \/ UNCHANGED vars
  BY <1>1
<1> USE DEF AnswerKept
<1>2. CASE Ask \/ TakeAnswer \/ TimeOut
  BY <1>2 DEF Ask, TakeAnswer, TimeOut, watchVars
<1>3. CASE ShowCaptcha \/ Stop \/ LoopEnds \/ StopCore \/ ReadStatus \/ OpenFile \/ WriteFile
  BY <1>3
  DEF ShowCaptcha, Stop, LoopEnds, StopCore, ReadStatus, OpenFile, WriteFile, watchVars
<1>4. CASE Watcher
  <2>1. CASE ReadFile \/ RemoveFile \/ ClearCaptcha \/ WatcherLeaves
    BY <2>1 DEF ReadFile, RemoveFile, ClearCaptcha, WatcherLeaves, AnswerInv, HeldInv
  <2>2. CASE DrainOld
    BY <2>2 DEF DrainOld, AnswerInv, HeldInv
  <2>3. CASE SendToken
    BY <2>3 DEF SendToken
  <2>4. QED
    BY <1>4, <2>1, <2>2, <2>3 DEF Watcher
<1>5. QED
  BY <1>2, <1>3, <1>4 DEF Next

\* What is about the request under way, in whatever place between the core, the
\* status, the person and the file, is there only while the request waits.
THEOREM AnswersAreFresh == Spec => []FreshInv
<1>1. AnswerInv => FreshInv
  BY DEF AnswerInv
<1>2. QED
  BY <1>1, AnswerInit, AnswerStep, PTL DEF Spec

\* From the file to the core no answer to the request under way is dropped:
\* SolveCaptcha's drain takes one away only to put another in its place.
THEOREM AnswerOnItsWay == Spec => [][AnswerKept]_vars
BY AnswerInit, AnswerStep, PTL DEF Spec
=============================================================================
