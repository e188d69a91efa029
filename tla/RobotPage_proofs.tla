---------------------------- MODULE RobotPage_proofs ----------------------------
(***************************************************************************)
(* For any robots, visits, retries, failures and interleavings of them:    *)
(* the page shows only what was answered for the robot in its address, and *)
(* never an older answer after a newer one.                                *)
(***************************************************************************)
EXTENDS RobotPage, TLAPS

-----------------------------------------------------------------------------
(* What the variables hold. *)
Request == [robot : Robot, detail : Answer \cup {Waiting},
            health : BOOLEAN \cup {Null}]

Reading == [robot : Robot, answer : Answer \cup {Waiting}]

(* Numbers are given out once: what is under way was numbered before.      *)
PageTypeOK ==
    /\ detail \in Hook \cup {Null} /\ history \in Hook \cup {Null}
    /\ issued \in Nat
    /\ DOMAIN requests \subseteq 1..issued
    /\ \A n \in DOMAIN requests : requests[n] \in Request
    /\ DOMAIN readings \subseteq 1..issued
    /\ \A n \in DOMAIN readings : readings[n] \in Reading
    /\ newest \in [Robot -> Nat]

(* An answer for robot r names r. *)
Names(value, r) == value.status = "ready" => value.robot = r

(* Whatever is under way answers for the robot it was asked for. *)
TrueAnswers ==
    /\ \A n \in DOMAIN requests : Names(requests[n].detail, requests[n].robot)
    /\ \A n \in DOMAIN readings : Names(readings[n].answer, readings[n].robot)

TrueLoaded(h) ==
    h # Null /\ h.loaded # Null => Names(h.loaded.value, h.loaded.forId)

(* The section hangs under a ready detail, for its robot. *)
SectionBelow == history # Null => Ready(detail) /\ history.id = detail.id

PageInv ==
    /\ PageTypeOK
    /\ TrueAnswers
    /\ TrueLoaded(detail) /\ TrueLoaded(history)
    /\ SectionBelow

(* No answer is newer than what the server has, and the one that is still  *)
(* listened for is no older than the one shown.                            *)
AnswersNotAhead ==
    \A n \in DOMAIN requests :
        requests[n].detail.status = "ready"
            => requests[n].detail.version <= newest[requests[n].detail.robot]

LoadedNotAhead ==
    detail # Null /\ detail.loaded # Null /\ detail.loaded.value.status = "ready"
        => detail.loaded.value.version <= newest[detail.loaded.value.robot]

HeardNotOlder ==
    \A n \in DOMAIN requests :
        detail # Null /\ n = detail.heard
        /\ requests[n].detail.status = "ready"
        /\ detail.loaded # Null /\ detail.loaded.value.status = "ready"
        /\ detail.loaded.forId = requests[n].robot
            => detail.loaded.value.version <= requests[n].detail.version

HeardWasIssued == detail # Null => detail.heard <= issued

AgeInv ==
    /\ PageInv
    /\ AnswersNotAhead /\ LoadedNotAhead /\ HeardNotOlder /\ HeardWasIssued
-----------------------------------------------------------------------------
(* The operators of the hook and of the page. *)

LEMMA AnswersFound ==
    ASSUME NEW r \in Robot, newest \in [Robot -> Nat]
    PROVE  /\ Found(r) \in Answer /\ Names(Found(r), r)
           /\ FoundHistory(r) \in Answer /\ Names(FoundHistory(r), r)
           /\ Found(r).status = "ready" =>
                 Found(r).robot = r /\ Found(r).version = newest[r]
BY DEF Found, FoundHistory, Answer, Ended, Names

LEMMA FailedIsAnswer ==
    ASSUME NEW value \in Failed
    PROVE  value \in Answer /\ value.status # "ready"
BY DEF Failed, Answer, Ended

(* What a ready hook shows is the answer it holds, for its own id. *)
LEMMA ReadyShowsLoaded ==
    ASSUME NEW h \in Hook \cup {Null}, Ready(h)
    PROVE  /\ h # Null /\ h \in Hook
           /\ h.loaded # Null /\ h.loaded \in Loaded
           /\ h.loaded.forId = h.id
           /\ Shown(h) = h.loaded.value
           /\ h.loaded.value.status = "ready"
           /\ h.loaded.value.robot \in Robot /\ h.loaded.value.version \in Nat
<1>1. h # Null /\ h \in Hook /\ Shown(h).status = "ready"
  BY DEF Ready
<1>2. h.loaded # Null /\ h.loaded.forId = h.id /\ Shown(h) = h.loaded.value
  BY <1>1 DEF Shown, Loading
<1>3. h.loaded \in Loaded
  BY <1>1, <1>2 DEF Hook
<1>4. h.loaded.value \in Answer
  BY <1>3 DEF Loaded
<1>5. h.loaded.value.robot \in Robot /\ h.loaded.value.version \in Nat
  BY <1>1, <1>2, <1>4 DEF Answer, Ended
<1> QED BY <1>1, <1>2, <1>3, <1>5

LEMMA MountedIsHook ==
    ASSUME NEW id \in Robot
    PROVE  /\ Mounted(id) \in Hook
           /\ Mounted(id).id = id /\ Mounted(id).heard = 0
           /\ Mounted(id).loaded = Null
BY DEF Mounted, Hook

LEMMA LandsIsHook ==
    ASSUME NEW h \in Hook, NEW n, NEW id \in Robot, NEW value \in Answer
    PROVE  /\ Lands(h, n, id, value) \in Hook
           /\ Lands(h, n, id, value).id = h.id
           /\ Lands(h, n, id, value).heard = h.heard
           /\ Lands(h, n, id, value).loaded =
                 IF n = h.heard THEN [forId |-> id, value |-> value] ELSE h.loaded
BY DEF Lands, Hook, Loaded

LEMMA EffectRunsIsHook ==
    ASSUME NEW h \in Hook, NEW n \in Nat
    PROVE  /\ EffectRuns(h, n) \in Hook
           /\ EffectRuns(h, n).id = h.id /\ EffectRuns(h, n).heard = n
           /\ EffectRuns(h, n).loaded = h.loaded
BY DEF EffectRuns, Hook

LEMMA RetryClickedIsHook ==
    ASSUME NEW h \in Hook
    PROVE  /\ RetryClicked(h) \in Hook
           /\ RetryClicked(h).id = h.id /\ RetryClicked(h).heard = h.heard
           /\ RetryClicked(h).loaded = h.loaded
BY DEF RetryClicked, Hook

LEMMA SameShown ==
    ASSUME NEW g, NEW h, g # Null, h # Null,
           g.id = h.id, g.loaded = h.loaded
    PROVE  Ready(g) <=> Ready(h)
BY DEF Ready, Shown

(* The section that follows a detail is under a ready one, for its robot.  *)
LEMMA SectionFollowsBelow ==
    ASSUME detail' \in Hook \cup {Null}, history \in Hook \cup {Null},
           TrueLoaded(detail)', TrueLoaded(history),
           history # Null /\ Ready(detail') => history.id = detail'.id,
           SectionFollows
    PROVE  /\ history' \in Hook \cup {Null}
           /\ TrueLoaded(history)'
           /\ SectionBelow'
<1>1. CASE ~Ready(detail')
  BY <1>1 DEF SectionFollows, TrueLoaded, SectionBelow
<1>2. CASE Ready(detail') /\ history # Null
  BY <1>2 DEF SectionFollows, TrueLoaded, SectionBelow
<1>3. CASE Ready(detail') /\ history = Null
  <2>1. /\ detail' # Null /\ detail'.loaded # Null
        /\ detail'.loaded.forId = detail'.id
        /\ Shown(detail') = detail'.loaded.value
        /\ detail'.loaded.value.status = "ready"
        /\ detail'.loaded.value.robot \in Robot
    BY <1>3, ReadyShowsLoaded
  <2>2. Shown(detail').robot = detail'.id
    BY <2>1 DEF TrueLoaded, Names
  <2>3. history' = Mounted(detail'.id) /\ detail'.id \in Robot
    BY <1>3, <2>1, <2>2 DEF SectionFollows
  <2>4. history' \in Hook /\ history'.id = detail'.id /\ history'.loaded = Null
    BY <2>3, MountedIsHook
  <2> QED BY <1>3, <2>4 DEF TrueLoaded, SectionBelow
<1> QED BY <1>1, <1>2, <1>3
-----------------------------------------------------------------------------
(* The invariant of what is shown, action by action. *)

LEMMA PageInit == Init => PageInv
<1> SUFFICES ASSUME Init PROVE PageInv
  OBVIOUS
<1>1. DOMAIN requests = {} /\ DOMAIN readings = {}
  BY DEF Init
<1> QED BY <1>1, PageAssumption DEF Init, PageInv, PageTypeOK, TrueAnswers, TrueLoaded, SectionBelow

LEMMA VisitKeeps ==
    ASSUME PageInv, NEW id \in Robot, Visit(id)
    PROVE  PageInv'
<1>1. detail' \in Hook
  <2>1. CASE detail = Null
    BY <2>1, MountedIsHook DEF Visit
  <2>2. CASE detail # Null
    BY <2>2 DEF Visit, PageInv, PageTypeOK, Hook
  <2> QED BY <2>1, <2>2
<1>2. TrueLoaded(detail)'
  <2>1. CASE detail = Null
    <3>1. detail'.loaded = Null
      BY <2>1, MountedIsHook DEF Visit
    <3> QED BY <3>1 DEF TrueLoaded
  <2>2. CASE detail # Null
    <3>1. detail'.loaded = detail.loaded
      BY <2>2 DEF Visit, PageInv, PageTypeOK, Hook
    <3> QED BY <2>2, <3>1 DEF PageInv, TrueLoaded
  <2> QED BY <2>1, <2>2
<1>3. ASSUME history # Null, Ready(detail') PROVE FALSE
  <2>1. detail # Null /\ detail.loaded.forId = detail.id
    <3>1. Ready(detail) /\ detail \in Hook \cup {Null}
      BY <1>3 DEF PageInv, SectionBelow, PageTypeOK
    <3> QED BY <3>1, ReadyShowsLoaded
  <2>2. detail'.id = id /\ detail'.loaded = detail.loaded /\ detail.id # id
    BY <2>1 DEF Visit, PageInv, PageTypeOK, Hook
  <2>3. detail'.loaded.forId = detail'.id
    BY <1>1, <1>3, ReadyShowsLoaded
  <2> QED BY <2>1, <2>2, <2>3
<1>4. /\ history' \in Hook \cup {Null}
      /\ TrueLoaded(history)' /\ SectionBelow'
  BY <1>1, <1>2, <1>3, SectionFollowsBelow DEF PageInv, PageTypeOK, Visit
<1>5. PageTypeOK'
  BY <1>1, <1>4 DEF PageInv, PageTypeOK, Visit, server
<1>6. TrueAnswers'
  BY DEF PageInv, TrueAnswers, Visit
<1> QED BY <1>2, <1>4, <1>5, <1>6 DEF PageInv

LEMMA LeaveKeeps == PageInv /\ Leave => PageInv'
<1> SUFFICES ASSUME PageInv, Leave PROVE PageInv'
  OBVIOUS
<1>1. detail' = Null /\ ~Ready(detail')
  BY DEF Leave, Ready
<1>2. history' = Null
  BY <1>1 DEF Leave, SectionFollows
<1> QED BY <1>1, <1>2 DEF PageInv, PageTypeOK, TrueAnswers, TrueLoaded,
            SectionBelow, Leave, server

(* A change of one hook that leaves its id and what it has loaded.         *)
LEMMA DetailAlike ==
    ASSUME PageInv, detail' \in Hook, detail # Null,
           detail'.id = detail.id, detail'.loaded = detail.loaded,
           UNCHANGED history
    PROVE  TrueLoaded(detail)' /\ TrueLoaded(history)' /\ SectionBelow'
<1>1. TrueLoaded(detail)' /\ TrueLoaded(history)'
  BY DEF PageInv, TrueLoaded
<1>2. ASSUME history # Null PROVE detail' # Null /\ Ready(detail')
  <2>1. Ready(detail) /\ detail \in Hook
    BY <1>2 DEF PageInv, PageTypeOK, SectionBelow
  <2>2. /\ Shown(detail).status = "ready" /\ Shown(detail') = Shown(detail)
    BY <2>1 DEF Ready, Shown
  <2>3. detail' # Null
    BY PageAssumption
  <2> QED BY <2>2, <2>3 DEF Ready
<1> QED BY <1>1, <1>2 DEF PageInv, SectionBelow
LEMMA RetryKeeps == PageInv /\ Retry => PageInv'
<1> SUFFICES ASSUME PageInv, Retry PROVE PageInv'
  OBVIOUS
<1>1. detail # Null /\ detail \in Hook
  BY DEF Retry, PageInv, PageTypeOK
<1>2. /\ detail' \in Hook
      /\ detail'.id = detail.id /\ detail'.loaded = detail.loaded
  BY <1>1, RetryClickedIsHook DEF Retry
<1>3. TrueLoaded(detail)' /\ TrueLoaded(history)' /\ SectionBelow'
  BY <1>1, <1>2, DetailAlike DEF Retry
<1> QED BY <1>2, <1>3 DEF PageInv, PageTypeOK, TrueAnswers, Retry, server

LEMMA FetchDetailKeeps == PageInv /\ FetchDetail => PageInv'
<1> SUFFICES ASSUME PageInv, FetchDetail PROVE PageInv'
  OBVIOUS
<1>1. detail # Null /\ detail \in Hook /\ issued \in Nat
  BY DEF FetchDetail, PageInv, PageTypeOK
<1>2. /\ detail' \in Hook
      /\ detail'.id = detail.id /\ detail'.loaded = detail.loaded
  BY <1>1, EffectRunsIsHook DEF FetchDetail
<1>3. TrueLoaded(detail)' /\ TrueLoaded(history)' /\ SectionBelow'
  BY <1>1, <1>2, DetailAlike DEF FetchDetail
<1> DEFINE new == [robot |-> detail.id, detail |-> Waiting, health |-> Null]
<1>4. new \in Request /\ Names(new.detail, new.robot)
  BY <1>1 DEF Request, Hook, Names, Waiting
<1>5. /\ DOMAIN requests' = DOMAIN requests \cup {issued + 1}
      /\ \A n \in DOMAIN requests' :
            requests'[n] = IF n = issued + 1 THEN new ELSE requests[n]
  BY DEF FetchDetail, With
<1> HIDE DEF new
<1>6. \A n \in DOMAIN requests' :
         requests'[n] \in Request /\ Names(requests'[n].detail, requests'[n].robot)
  BY <1>4, <1>5 DEF PageInv, PageTypeOK, TrueAnswers
<1>7. issued' = issued + 1 /\ DOMAIN requests' \subseteq 1..issued'
      /\ DOMAIN readings' \subseteq 1..issued'
  BY <1>1, <1>5 DEF PageInv, PageTypeOK, FetchDetail
<1>8. PageTypeOK'
  BY <1>1, <1>2, <1>6, <1>7 DEF PageInv, PageTypeOK, FetchDetail, server
<1>9. TrueAnswers'
  BY <1>6 DEF PageInv, TrueAnswers, FetchDetail
<1> QED BY <1>3, <1>8, <1>9 DEF PageInv

(* A change of the section that leaves its id. *)
LEMMA RetryHistoryKeeps == PageInv /\ RetryHistory => PageInv'
<1> SUFFICES ASSUME PageInv, RetryHistory PROVE PageInv'
  OBVIOUS
<1>1. history # Null /\ history \in Hook
  BY DEF RetryHistory, PageInv, PageTypeOK
<1>2. /\ history' \in Hook
      /\ history'.id = history.id /\ history'.loaded = history.loaded
  BY <1>1, RetryClickedIsHook DEF RetryHistory
<1>3. TrueLoaded(detail)' /\ TrueLoaded(history)' /\ SectionBelow'
  BY <1>1, <1>2 DEF RetryHistory, PageInv, TrueLoaded, SectionBelow, Ready
<1> QED BY <1>2, <1>3 DEF PageInv, PageTypeOK, TrueAnswers, RetryHistory, server

LEMMA FetchHistoryKeeps == PageInv /\ FetchHistory => PageInv'
<1> SUFFICES ASSUME PageInv, FetchHistory PROVE PageInv'
  OBVIOUS
<1>1. history # Null /\ history \in Hook /\ issued \in Nat
  BY DEF FetchHistory, PageInv, PageTypeOK
<1>2. /\ history' \in Hook
      /\ history'.id = history.id /\ history'.loaded = history.loaded
  BY <1>1, EffectRunsIsHook DEF FetchHistory
<1>3. TrueLoaded(detail)' /\ TrueLoaded(history)' /\ SectionBelow'
  BY <1>1, <1>2 DEF FetchHistory, PageInv, TrueLoaded, SectionBelow, Ready
<1> DEFINE new == [robot |-> history.id, answer |-> Waiting]
<1>4. new \in Reading /\ Names(new.answer, new.robot)
  BY <1>1 DEF Reading, Hook, Names, Waiting
<1>5. /\ DOMAIN readings' = DOMAIN readings \cup {issued + 1}
      /\ \A n \in DOMAIN readings' :
            readings'[n] = IF n = issued + 1 THEN new ELSE readings[n]
  BY DEF FetchHistory, With
<1> HIDE DEF new
<1>6. \A n \in DOMAIN readings' :
         readings'[n] \in Reading /\ Names(readings'[n].answer, readings'[n].robot)
  BY <1>4, <1>5 DEF PageInv, PageTypeOK, TrueAnswers
<1>7. issued' = issued + 1 /\ DOMAIN requests' \subseteq 1..issued'
      /\ DOMAIN readings' \subseteq 1..issued'
  BY <1>1, <1>5 DEF PageInv, PageTypeOK, FetchHistory
<1>8. PageTypeOK'
  BY <1>1, <1>2, <1>6, <1>7 DEF PageInv, PageTypeOK, FetchHistory, server
<1>9. TrueAnswers'
  BY <1>6 DEF PageInv, TrueAnswers, FetchHistory
<1> QED BY <1>3, <1>8, <1>9 DEF PageInv

LEMMA DetailAnsweredKeeps ==
    ASSUME PageInv, NEW n \in DOMAIN requests, DetailAnswered(n)
    PROVE  PageInv'
<1>1. PICK value \in {Found(requests[n].robot)} \cup Failed :
         requests' = [requests EXCEPT ![n].detail = value]
  BY DEF DetailAnswered
<1>2. requests[n] \in Request /\ requests[n].robot \in Robot
  BY DEF PageInv, PageTypeOK, Request
<1>3. value \in Answer /\ Names(value, requests[n].robot)
  BY <1>2, AnswersFound, FailedIsAnswer DEF PageInv, PageTypeOK, Names
<1>4. /\ DOMAIN requests' = DOMAIN requests
      /\ \A m \in DOMAIN requests : m # n => requests'[m] = requests[m]
      /\ requests'[n] = [requests[n] EXCEPT !.detail = value]
  BY <1>1
<1>5. /\ requests'[n] \in Request
      /\ requests'[n].robot = requests[n].robot /\ requests'[n].detail = value
  BY <1>2, <1>3, <1>4 DEF Request
<1>6. PageTypeOK'
  BY <1>4, <1>5 DEF PageInv, PageTypeOK, DetailAnswered, page, server
<1>7. TrueAnswers'
  BY <1>3, <1>4, <1>5 DEF PageInv, TrueAnswers, DetailAnswered
<1> QED BY <1>6, <1>7 DEF PageInv, TrueLoaded, SectionBelow, Ready, DetailAnswered, page

LEMMA HealthAnsweredKeeps ==
    ASSUME PageInv, NEW n \in DOMAIN requests, HealthAnswered(n)
    PROVE  PageInv'
<1>1. PICK ok \in BOOLEAN : requests' = [requests EXCEPT ![n].health = ok]
  BY DEF HealthAnswered
<1>2. requests[n] \in Request
  BY DEF PageInv, PageTypeOK
<1>3. /\ DOMAIN requests' = DOMAIN requests
      /\ \A m \in DOMAIN requests : m # n => requests'[m] = requests[m]
      /\ requests'[n] = [requests[n] EXCEPT !.health = ok]
  BY <1>1
<1>4. /\ requests'[n] \in Request
      /\ requests'[n].robot = requests[n].robot
      /\ requests'[n].detail = requests[n].detail
  BY <1>2, <1>3 DEF Request
<1>5. PageTypeOK'
  BY <1>3, <1>4 DEF PageInv, PageTypeOK, HealthAnswered, page, server
<1>6. TrueAnswers'
  BY <1>3, <1>4 DEF PageInv, TrueAnswers, HealthAnswered
<1> QED BY <1>5, <1>6 DEF PageInv, TrueLoaded, SectionBelow, Ready, HealthAnswered, page

LEMMA HistoryAnsweredKeeps ==
    ASSUME PageInv, NEW n \in DOMAIN readings, HistoryAnswered(n)
    PROVE  PageInv'
<1>1. PICK value \in {FoundHistory(readings[n].robot)} \cup Failed :
         readings' = [readings EXCEPT ![n].answer = value]
  BY DEF HistoryAnswered
<1>2. readings[n] \in Reading /\ readings[n].robot \in Robot
  BY DEF PageInv, PageTypeOK, Reading
<1>3. value \in Answer /\ Names(value, readings[n].robot)
  BY <1>2, AnswersFound, FailedIsAnswer DEF PageInv, PageTypeOK, Names
<1>4. /\ DOMAIN readings' = DOMAIN readings
      /\ \A m \in DOMAIN readings : m # n => readings'[m] = readings[m]
      /\ readings'[n] = [readings[n] EXCEPT !.answer = value]
  BY <1>1
<1>5. /\ readings'[n] \in Reading
      /\ readings'[n].robot = readings[n].robot /\ readings'[n].answer = value
  BY <1>2, <1>3, <1>4 DEF Reading
<1>6. PageTypeOK'
  BY <1>4, <1>5 DEF PageInv, PageTypeOK, HistoryAnswered, page, server
<1>7. TrueAnswers'
  BY <1>3, <1>4, <1>5 DEF PageInv, TrueAnswers, HistoryAnswered
<1> QED BY <1>6, <1>7 DEF PageInv, TrueLoaded, SectionBelow, Ready, HistoryAnswered, page

LEMMA DetailLandsKeeps ==
    ASSUME PageInv, NEW n \in DOMAIN requests, DetailLands(n)
    PROVE  PageInv'
<1> DEFINE q == requests[n]
<1>1. q \in Request /\ q.robot \in Robot /\ q.detail \in Answer /\ Names(q.detail, q.robot)
  BY DEF PageInv, PageTypeOK, TrueAnswers, DetailLands, Request
<1>2. CASE detail = Null
  <2>1. detail' = Null /\ history = Null
    BY <1>2, ReadyShowsLoaded DEF DetailLands, PageInv, PageTypeOK, SectionBelow, Ready
  <2>2. history' = Null
    BY <2>1 DEF DetailLands, SectionFollows, Ready
  <2> QED
    BY <2>1, <2>2 DEF PageInv, PageTypeOK, TrueAnswers, TrueLoaded, SectionBelow,
       DetailLands, Without, server
<1>3. CASE detail # Null
  <2>1. detail \in Hook /\ detail' = Lands(detail, n, q.robot, q.detail)
    BY <1>3 DEF DetailLands, PageInv, PageTypeOK
  <2>2. /\ detail' \in Hook
        /\ detail'.id = detail.id
        /\ detail'.loaded = IF n = detail.heard
                            THEN [forId |-> q.robot, value |-> q.detail]
                            ELSE detail.loaded
    BY <1>1, <2>1, LandsIsHook
  <2>3. TrueLoaded(detail)'
    BY <1>1, <1>3, <2>2 DEF TrueLoaded, PageInv
  <2>4. history # Null => history.id = detail'.id
    BY <2>2 DEF PageInv, SectionBelow
  <2>5. history' \in Hook \cup {Null} /\ TrueLoaded(history)' /\ SectionBelow'
    BY <2>2, <2>3, <2>4, SectionFollowsBelow DEF DetailLands, PageInv, PageTypeOK
  <2>6. PageTypeOK' /\ TrueAnswers'
    BY <2>2, <2>5 DEF PageInv, PageTypeOK, TrueAnswers, DetailLands, Without, server
  <2> QED BY <2>3, <2>5, <2>6 DEF PageInv
<1> QED BY <1>2, <1>3

LEMMA HistoryLandsKeeps ==
    ASSUME PageInv, NEW n \in DOMAIN readings, HistoryLands(n)
    PROVE  PageInv'
<1> DEFINE q == readings[n]
<1>1. q \in Reading /\ q.robot \in Robot /\ q.answer \in Answer /\ Names(q.answer, q.robot)
  BY DEF PageInv, PageTypeOK, TrueAnswers, HistoryLands, Reading
<1>2. CASE history = Null
  BY <1>2 DEF PageInv, PageTypeOK, TrueAnswers, TrueLoaded, SectionBelow,
     HistoryLands, Without, server
<1>3. CASE history # Null
  <2>1. history \in Hook /\ history' = Lands(history, n, q.robot, q.answer)
    BY <1>3 DEF HistoryLands, PageInv, PageTypeOK
  <2>2. /\ history' \in Hook
        /\ history'.id = history.id
        /\ history'.loaded = IF n = history.heard
                             THEN [forId |-> q.robot, value |-> q.answer]
                             ELSE history.loaded
    BY <1>1, <2>1, LandsIsHook
  <2>3. TrueLoaded(history)' /\ TrueLoaded(detail)'
    BY <1>1, <1>3, <2>2 DEF TrueLoaded, PageInv, HistoryLands
  <2>4. SectionBelow'
    BY <1>3, <2>2 DEF PageInv, SectionBelow, Ready, HistoryLands
  <2>5. PageTypeOK' /\ TrueAnswers'
    BY <2>2 DEF PageInv, PageTypeOK, TrueAnswers, HistoryLands, Without, server
  <2> QED BY <2>3, <2>4, <2>5 DEF PageInv
<1> QED BY <1>2, <1>3

LEMMA FleetKeeps ==
    ASSUME PageInv, NEW r \in Registered, Report(r) \/ Streams(r)
    PROVE  PageInv'
<1>1. newest' \in [Robot -> Nat]
  BY DEF PageInv, PageTypeOK, Report, Streams
<1> QED BY <1>1 DEF PageInv, PageTypeOK, TrueAnswers, TrueLoaded, SectionBelow,
            Ready, Report, Streams, page

LEMMA PageStep == PageInv /\ [Next]_vars => PageInv'
<1> SUFFICES ASSUME PageInv, [Next]_vars PROVE PageInv'
  OBVIOUS
<1>1. CASE UNCHANGED vars
  BY <1>1 DEF PageInv, PageTypeOK, TrueAnswers, TrueLoaded, SectionBelow, Ready,
     vars, page, server
<1>2. CASE Next
  BY <1>2, VisitKeeps, LeaveKeeps, RetryKeeps, RetryHistoryKeeps,
     FetchDetailKeeps, FetchHistoryKeeps, DetailAnsweredKeeps,
     HealthAnsweredKeeps, DetailLandsKeeps, HistoryAnsweredKeeps,
     HistoryLandsKeeps, FleetKeeps DEF Next
<1> QED BY <1>1, <1>2

LEMMA PageAlways == Spec => []PageInv
BY PageInit, PageStep, PTL DEF Spec

(* Every variable of the page keeps its type: hooks that name robots and   *)
(* hold whole answers, and requests numbered once.                         *)
THEOREM PageTypes == Spec => []PageTypeOK
<1>1. PageInv => PageTypeOK
  BY DEF PageInv
<1> QED BY <1>1, PageAlways, PTL

(* The page and its history section show answers for the robot in the      *)
(* address only, whichever requests are still under way and in whichever   *)
(* order they land (useRobotDetail, useRobotHistory: an aborted request's  *)
(* result is dropped, a result is shown for its own id).                   *)
THEOREM PageShowsAskedRobot == Spec => []ShowsAskedRobot
<1>1. PageInv => ShowsAskedRobot
  <2> SUFFICES ASSUME PageInv, detail # Null PROVE ShowsAskedRobot
    BY DEF ShowsAskedRobot
  <2>1. ASSUME Ready(detail) PROVE Shown(detail).robot = detail.id
    BY <2>1, ReadyShowsLoaded DEF PageInv, PageTypeOK, TrueLoaded, Names
  <2>2. history # Null => history.id = detail.id
    BY DEF PageInv, SectionBelow
  <2>3. ASSUME Ready(history) PROVE Shown(history).robot = detail.id
    <3>1. Shown(history).robot = history.id /\ history # Null
      BY <2>3, ReadyShowsLoaded DEF PageInv, PageTypeOK, TrueLoaded, Names
    <3> QED BY <2>2, <3>1
  <2> QED BY <2>1, <2>2, <2>3 DEF ShowsAskedRobot
<1> QED BY <1>1, PageAlways, PTL
-----------------------------------------------------------------------------
(* The invariant of how old it is, action by action. *)

LEMMA AgeInit == Init => AgeInv
<1> SUFFICES ASSUME Init PROVE AgeInv
  OBVIOUS
<1>1. DOMAIN requests = {}
  BY DEF Init
<1> QED BY <1>1, PageInit DEF Init, AgeInv, AnswersNotAhead, LoadedNotAhead,
            HeardNotOlder, HeardWasIssued

(* An answer that is ready has a robot and a version to compare. *)
LEMMA ReadyAnswers ==
    ASSUME PageInv
    PROVE  /\ \A n \in DOMAIN requests : requests[n].detail.status = "ready" =>
                 /\ requests[n].detail.robot \in Robot
                 /\ requests[n].detail.version \in Nat
           /\ detail # Null /\ detail.loaded # Null
              /\ detail.loaded.value.status = "ready" =>
                 /\ detail.loaded.value.robot \in Robot
                 /\ detail.loaded.value.version \in Nat
<1>1. ASSUME NEW value \in Answer \cup {Waiting}, value.status = "ready"
      PROVE  value.robot \in Robot /\ value.version \in Nat
  BY <1>1 DEF Answer, Ended, Waiting
<1>2. \A n \in DOMAIN requests : requests[n].detail \in Answer \cup {Waiting}
  BY DEF PageInv, PageTypeOK, Request
<1>3. detail # Null /\ detail.loaded # Null => detail.loaded.value \in Answer
  BY DEF PageInv, PageTypeOK, Hook, Loaded
<1> QED BY <1>1, <1>2, <1>3

(* Steps that touch neither the requests nor what the page has loaded.     *)
LEMMA AgeUntouched ==
    ASSUME AgeInv, PageInv', UNCHANGED <<detail, requests>>,
           issued' >= issued,
           \A r \in Robot : newest'[r] >= newest[r]
    PROVE  AgeInv'
<1>1. newest \in [Robot -> Nat] /\ newest' \in [Robot -> Nat]
  BY DEF AgeInv, PageInv, PageTypeOK
<1>2. issued \in Nat /\ issued' \in Nat /\ (detail # Null => detail.heard \in Nat)
  BY DEF AgeInv, PageInv, PageTypeOK, Hook
<1>3. AnswersNotAhead'
  <2> SUFFICES ASSUME NEW n \in DOMAIN requests, requests[n].detail.status = "ready"
               PROVE  requests[n].detail.version <= newest'[requests[n].detail.robot]
    BY DEF AnswersNotAhead
  <2>1. /\ requests[n].detail.robot \in Robot /\ requests[n].detail.version \in Nat
        /\ requests[n].detail.version <= newest[requests[n].detail.robot]
    BY ReadyAnswers DEF AgeInv, AnswersNotAhead
  <2> QED BY <1>1, <2>1
<1>4. LoadedNotAhead'
  <2> SUFFICES ASSUME detail # Null, detail.loaded # Null,
                      detail.loaded.value.status = "ready"
               PROVE  detail.loaded.value.version <= newest'[detail.loaded.value.robot]
    BY DEF LoadedNotAhead
  <2>1. /\ detail.loaded.value.robot \in Robot /\ detail.loaded.value.version \in Nat
        /\ detail.loaded.value.version <= newest[detail.loaded.value.robot]
    BY ReadyAnswers DEF AgeInv, LoadedNotAhead
  <2> QED BY <1>1, <2>1
<1>5. HeardNotOlder' /\ HeardWasIssued'
  BY <1>2 DEF AgeInv, HeardNotOlder, HeardWasIssued
<1> QED BY <1>3, <1>4, <1>5 DEF AgeInv

(* Steps that keep the request listened for and the result it will replace. *)
LEMMA AgeOfPage ==
    ASSUME AgeInv, PageInv', UNCHANGED <<requests, newest, issued>>,
           detail' # Null =>
              \/ detail'.loaded = Null /\ detail'.heard = 0
              \/ /\ detail # Null
                 /\ detail'.loaded = detail.loaded /\ detail'.heard = detail.heard
    PROVE  AgeInv'
<1>1. issued \in Nat /\ 0 \notin DOMAIN requests
  BY DEF AgeInv, PageInv, PageTypeOK
<1>2. AnswersNotAhead' /\ LoadedNotAhead'
  BY DEF AgeInv, AnswersNotAhead, LoadedNotAhead
<1>3. HeardNotOlder'
  BY DEF AgeInv, HeardNotOlder
<1>4. HeardWasIssued'
  BY <1>1 DEF AgeInv, HeardWasIssued
<1> QED BY <1>2, <1>3, <1>4 DEF AgeInv

LEMMA AgeThroughVisit ==
    ASSUME AgeInv, PageInv', NEW id \in Robot, Visit(id)
    PROVE  AgeInv'
<1>1. CASE detail = Null
  <2>1. detail'.loaded = Null /\ detail'.heard = 0
    BY <1>1, MountedIsHook DEF Visit
  <2> QED BY <2>1, AgeOfPage DEF Visit, server
<1>2. CASE detail # Null
  <2>1. detail'.loaded = detail.loaded /\ detail'.heard = detail.heard
    BY <1>2 DEF Visit, AgeInv, PageInv, PageTypeOK, Hook
  <2> QED BY <1>2, <2>1, AgeOfPage DEF Visit, server
<1> QED BY <1>1, <1>2

LEMMA AgeThroughRetry ==
    ASSUME AgeInv, PageInv', Retry
    PROVE  AgeInv'
<1>1. detail # Null /\ detail \in Hook
  BY DEF Retry, AgeInv, PageInv, PageTypeOK
<1>2. detail'.loaded = detail.loaded /\ detail'.heard = detail.heard
  BY <1>1, RetryClickedIsHook DEF Retry
<1> QED BY <1>1, <1>2, AgeOfPage DEF Retry, server

(* A new request is listened for instead; nothing has answered it.         *)
LEMMA AgeThroughFetch ==
    ASSUME AgeInv, PageInv', FetchDetail
    PROVE  AgeInv'
<1>1. detail # Null /\ detail \in Hook /\ issued \in Nat
  BY DEF FetchDetail, AgeInv, PageInv, PageTypeOK
<1>2. detail'.loaded = detail.loaded /\ detail'.heard = issued + 1
  BY <1>1, EffectRunsIsHook DEF FetchDetail
<1>3. /\ DOMAIN requests' = DOMAIN requests \cup {issued + 1}
      /\ requests'[issued + 1].detail.status = "loading"
      /\ \A n \in DOMAIN requests : n # issued + 1 /\ requests'[n] = requests[n]
  <2>1. issued + 1 \notin DOMAIN requests
    BY <1>1 DEF AgeInv, PageInv, PageTypeOK
  <2> QED BY <2>1 DEF FetchDetail, With, Waiting
<1>4. newest' = newest /\ issued' = issued + 1
  BY DEF FetchDetail, server
<1>5. AnswersNotAhead'
  BY <1>3, <1>4 DEF AgeInv, AnswersNotAhead
<1>6. LoadedNotAhead'
  BY <1>1, <1>2, <1>4 DEF AgeInv, LoadedNotAhead
<1>7. HeardNotOlder' /\ HeardWasIssued'
  BY <1>1, <1>2, <1>3, <1>4 DEF HeardNotOlder, HeardWasIssued
<1> QED BY <1>5, <1>6, <1>7 DEF AgeInv

(* The server answers with the newest it has, so with nothing older than   *)
(* it answered before.                                                     *)
LEMMA AgeThroughAnswer ==
    ASSUME AgeInv, PageInv', NEW n \in DOMAIN requests, DetailAnswered(n)
    PROVE  AgeInv'
<1>1. PICK value \in {Found(requests[n].robot)} \cup Failed :
         requests' = [requests EXCEPT ![n].detail = value]
  BY DEF DetailAnswered
<1>2. requests[n] \in Request /\ requests[n].robot \in Robot
  BY DEF AgeInv, PageInv, PageTypeOK, Request
<1>3. value.status = "ready"
         => value.robot = requests[n].robot /\ value.version = newest[requests[n].robot]
  BY <1>2, AnswersFound, FailedIsAnswer DEF AgeInv, PageInv, PageTypeOK
<1>4. /\ DOMAIN requests' = DOMAIN requests
      /\ \A m \in DOMAIN requests : m # n => requests'[m] = requests[m]
      /\ requests'[n] = [requests[n] EXCEPT !.detail = value]
  BY <1>1
<1>5. requests'[n].robot = requests[n].robot /\ requests'[n].detail = value
  BY <1>2, <1>4 DEF Request
<1>6. UNCHANGED <<detail, newest, issued>> /\ newest \in [Robot -> Nat]
  BY DEF DetailAnswered, page, server, AgeInv, PageInv, PageTypeOK
<1>7. AnswersNotAhead'
  <2> SUFFICES ASSUME NEW m \in DOMAIN requests, requests'[m].detail.status = "ready"
               PROVE  requests'[m].detail.version <= newest[requests'[m].detail.robot]
    BY <1>4, <1>6 DEF AnswersNotAhead
  <2>1. CASE m # n
    BY <1>4, <2>1 DEF AgeInv, AnswersNotAhead
  <2>2. CASE m = n
    BY <1>2, <1>3, <1>5, <1>6, <2>2
  <2> QED BY <2>1, <2>2
<1>8. LoadedNotAhead' /\ HeardWasIssued'
  BY <1>6 DEF AgeInv, LoadedNotAhead, HeardWasIssued
<1>9. HeardNotOlder'
  <2> SUFFICES ASSUME NEW m \in DOMAIN requests, detail # Null, m = detail.heard,
                      requests'[m].detail.status = "ready", detail.loaded # Null,
                      detail.loaded.value.status = "ready",
                      detail.loaded.forId = requests'[m].robot
               PROVE  detail.loaded.value.version <= requests'[m].detail.version
    BY <1>4, <1>6 DEF HeardNotOlder
  <2>1. CASE m # n
    BY <1>4, <2>1 DEF AgeInv, HeardNotOlder
  <2>2. CASE m = n
    <3>1. detail.loaded.value.robot = requests[n].robot
      BY <1>5, <2>2 DEF AgeInv, PageInv, TrueLoaded, Names
    <3>2. detail.loaded.value.version <= newest[requests[n].robot]
      BY <3>1 DEF AgeInv, LoadedNotAhead
    <3> QED BY <1>3, <1>5, <2>2, <3>2
  <2> QED BY <2>1, <2>2
<1> QED BY <1>7, <1>8, <1>9 DEF AgeInv

LEMMA AgeThroughHealth ==
    ASSUME AgeInv, PageInv', NEW n \in DOMAIN requests, HealthAnswered(n)
    PROVE  AgeInv'
<1>1. PICK ok \in BOOLEAN : requests' = [requests EXCEPT ![n].health = ok]
  BY DEF HealthAnswered
<1>2. requests[n] \in Request
  BY DEF AgeInv, PageInv, PageTypeOK
<1>3. /\ DOMAIN requests' = DOMAIN requests
      /\ \A m \in DOMAIN requests : requests'[m].robot = requests[m].robot
                                    /\ requests'[m].detail = requests[m].detail
  BY <1>1, <1>2 DEF Request
<1>4. UNCHANGED <<detail, newest, issued>>
  BY DEF HealthAnswered, page, server
<1>5. AnswersNotAhead' /\ LoadedNotAhead'
  BY <1>3, <1>4 DEF AgeInv, AnswersNotAhead, LoadedNotAhead
<1>6. HeardNotOlder' /\ HeardWasIssued'
  BY <1>3, <1>4 DEF AgeInv, HeardNotOlder, HeardWasIssued
<1> QED BY <1>5, <1>6 DEF AgeInv

(* What lands is not listened for a second time: its number is gone.       *)
LEMMA AgeThroughLanding ==
    ASSUME AgeInv, PageInv', NEW n \in DOMAIN requests, DetailLands(n)
    PROVE  AgeInv'
<1> DEFINE q == requests[n]
<1>1. q \in Request /\ q.robot \in Robot /\ q.detail \in Answer /\ Names(q.detail, q.robot)
  BY DEF AgeInv, PageInv, PageTypeOK, TrueAnswers, DetailLands, Request
<1>2. /\ DOMAIN requests' = DOMAIN requests \ {n}
      /\ \A m \in DOMAIN requests' : requests'[m] = requests[m]
      /\ UNCHANGED <<newest, issued>>
  BY DEF DetailLands, Without, server
<1>3. AnswersNotAhead'
  BY <1>2 DEF AgeInv, AnswersNotAhead
<1>4. CASE detail = Null
  <2>1. detail' = Null
    BY <1>4 DEF DetailLands
  <2> QED BY <1>3, <2>1 DEF AgeInv, LoadedNotAhead, HeardNotOlder, HeardWasIssued
<1>5. CASE detail # Null
  <2>1. detail \in Hook /\ detail' = Lands(detail, n, q.robot, q.detail)
    BY <1>5 DEF DetailLands, AgeInv, PageInv, PageTypeOK
  <2>2. /\ detail'.heard = detail.heard
        /\ detail'.loaded = IF n = detail.heard
                            THEN [forId |-> q.robot, value |-> q.detail]
                            ELSE detail.loaded
    BY <1>1, <2>1, LandsIsHook
  <2>3. HeardWasIssued'
    BY <1>2, <1>5, <2>2 DEF AgeInv, HeardWasIssued
  <2>4. CASE n = detail.heard
    <3>1. LoadedNotAhead'
      BY <1>2, <2>2, <2>4 DEF AgeInv, AnswersNotAhead, LoadedNotAhead
    <3>2. HeardNotOlder'
      BY <1>2, <2>2, <2>4 DEF HeardNotOlder
    <3> QED BY <1>3, <2>3, <3>1, <3>2 DEF AgeInv
  <2>5. CASE n # detail.heard
    <3>1. LoadedNotAhead'
      BY <1>2, <1>5, <2>2, <2>5 DEF AgeInv, LoadedNotAhead
    <3>2. HeardNotOlder'
      BY <1>2, <1>5, <2>2, <2>5 DEF AgeInv, HeardNotOlder
    <3> QED BY <1>3, <2>3, <3>1, <3>2 DEF AgeInv
  <2> QED BY <2>4, <2>5
<1> QED BY <1>4, <1>5
LEMMA AgeStep == AgeInv /\ [Next]_vars => AgeInv'
<1> SUFFICES ASSUME AgeInv, [Next]_vars PROVE AgeInv'
  OBVIOUS
<1>1. PageInv /\ PageInv'
  BY PageStep DEF AgeInv
<1>2. issued \in Nat /\ newest \in [Robot -> Nat]
  BY <1>1 DEF PageInv, PageTypeOK
<1> DEFINE Aside == /\ UNCHANGED <<detail, requests>> /\ issued' >= issued
                    /\ \A r \in Robot : newest'[r] >= newest[r]
<1>3. UNCHANGED vars => Aside
  BY <1>2 DEF vars, page, server
<1>4. RetryHistory \/ FetchHistory => Aside
  BY <1>2 DEF RetryHistory, FetchHistory, server
<1>5. \A n \in DOMAIN readings : HistoryAnswered(n) \/ HistoryLands(n) => Aside
  BY <1>2 DEF HistoryAnswered, HistoryLands, page, server
<1>6. \A r \in Registered : Report(r) \/ Streams(r) => Aside
  BY <1>2 DEF Report, Streams, page
<1>7. CASE Aside
  BY <1>1, <1>7, AgeUntouched
<1>8. CASE Leave
  <2>1. detail' = Null /\ UNCHANGED <<requests, newest, issued>>
    BY <1>8 DEF Leave, server
  <2> QED BY <1>1, <2>1, AgeOfPage
<1> HIDE DEF Aside
<1> QED BY <1>1, <1>3, <1>4, <1>5, <1>6, <1>7, <1>8, AgeThroughVisit,
           AgeThroughRetry, AgeThroughFetch, AgeThroughAnswer, AgeThroughHealth,
           AgeThroughLanding DEF Next

LEMMA AgeAlways == Spec => []AgeInv
BY AgeInit, AgeStep, PTL DEF Spec

(* No superseded request puts an older answer back over a newer one: while *)
(* the page stays on a robot, whatever the operator opened in between and  *)
(* however often a retry was asked for, its fetched state only advances.   *)
THEOREM PageNeverGoesBack == Spec => DetailNeverGoesBack
<1> DEFINE Forward ==
      Ready(detail) /\ Ready(detail') /\ detail'.loaded.forId = detail.loaded.forId
        => detail'.loaded.value.version >= detail.loaded.value.version
<1>1. AgeInv /\ PageInv' /\ [Next]_vars => [Forward]_vars
  <2> SUFFICES ASSUME AgeInv, PageInv', Next, Ready(detail), Ready(detail'),
                      detail'.loaded.forId = detail.loaded.forId
               PROVE  detail'.loaded.value.version >= detail.loaded.value.version
    OBVIOUS
  <2>1. /\ detail # Null /\ detail \in Hook /\ detail.loaded # Null
        /\ detail.loaded.value.status = "ready"
        /\ detail.loaded.value.version \in Nat
    BY ReadyShowsLoaded DEF AgeInv, PageInv, PageTypeOK
  <2>2. detail'.loaded.value.status = "ready" /\ detail' # Null
    BY ReadyShowsLoaded DEF PageInv, PageTypeOK
  <2>3. ASSUME detail'.loaded = detail.loaded
        PROVE  detail'.loaded.value.version >= detail.loaded.value.version
    BY <2>1, <2>3
  <2>4. ASSUME NEW n \in DOMAIN requests, DetailLands(n), n = detail.heard
        PROVE  detail'.loaded.value.version >= detail.loaded.value.version
    <3>1. detail'.loaded = [forId |-> requests[n].robot, value |-> requests[n].detail]
      <4>1. requests[n].robot \in Robot /\ requests[n].detail \in Answer
        BY <2>4 DEF AgeInv, PageInv, PageTypeOK, DetailLands, Request
      <4> QED BY <2>1, <2>4, <4>1, LandsIsHook DEF DetailLands
    <3>2. detail.loaded.forId = requests[n].robot /\ requests[n].detail.status = "ready"
      BY <2>2, <3>1
    <3>3. detail.loaded.value.version <= requests[n].detail.version
      BY <2>1, <2>4, <3>2 DEF AgeInv, HeardNotOlder
    <3>4. requests[n].detail.version \in Nat
      BY <3>2, ReadyAnswers DEF AgeInv
    <3> QED BY <2>1, <3>1, <3>3, <3>4
  <2>5. ASSUME NEW n \in DOMAIN requests, DetailLands(n), n # detail.heard
        PROVE  detail'.loaded = detail.loaded
    BY <2>1, <2>5 DEF DetailLands, Lands
  <2>6. ASSUME NEW id \in Robot, Visit(id) PROVE detail'.loaded = detail.loaded
    BY <2>1, <2>6 DEF Visit, Hook
  <2>7. Retry => detail'.loaded = detail.loaded
    BY <2>1, RetryClickedIsHook DEF Retry
  <2>8. FetchDetail => detail'.loaded = detail.loaded
    <3>1. issued + 1 \in Nat
      BY DEF AgeInv, PageInv, PageTypeOK
    <3> QED BY <2>1, <3>1, EffectRunsIsHook DEF FetchDetail
  <2>9. ~Leave
    BY <2>2 DEF Leave
  <2>10. ASSUME \/ RetryHistory \/ FetchHistory
                \/ \E n \in DOMAIN requests : DetailAnswered(n) \/ HealthAnswered(n)
                \/ \E n \in DOMAIN readings : HistoryAnswered(n) \/ HistoryLands(n)
                \/ \E r \in Registered : Report(r) \/ Streams(r)
         PROVE  detail'.loaded = detail.loaded
    BY <2>10 DEF RetryHistory, FetchHistory, DetailAnswered, HealthAnswered,
       HistoryAnswered, HistoryLands, Report, Streams, page
  <2>11. CASE \E n \in DOMAIN requests : DetailLands(n)
    BY <2>3, <2>4, <2>5, <2>11
  <2> QED BY <2>3, <2>6, <2>7, <2>8, <2>9, <2>10, <2>11 DEF Next
<1>2. AgeInv => PageInv
  BY DEF AgeInv
<1>3. Spec => [][Forward]_vars
  BY <1>1, <1>2, AgeAlways, PTL DEF Spec
<1> QED BY <1>3 DEF DetailNeverGoesBack
-----------------------------------------------------------------------------
(* What a hook that is loading waits for.  Its effect last ran for ran[1]: *)
(* either the request it listens for is under way, for that robot, or the  *)
(* last result it took is one for that robot.                              *)
Awaits(h, under) ==
    h # Null /\ h.ran # Null =>
        IF h.heard \in DOMAIN under THEN under[h.heard].robot = h.ran[1]
        ELSE h.loaded # Null /\ h.loaded.forId = h.ran[1]

AwaitsInv == PageInv /\ Awaits(detail, requests) /\ Awaits(history, readings)

(* A hook that shows loading is due to run its effect, or listens for a    *)
(* request under way for its own robot.                                    *)
Waits(h, under) ==
    h # Null /\ Shown(h).status = "loading" =>
        \/ EffectDue(h)
        \/ h.heard \in DOMAIN under /\ under[h.heard].robot = h.id

LoadingIsWaiting == Waits(detail, requests) /\ Waits(history, readings)

LEMMA MountedAwaits ==
    ASSUME NEW id, NEW under
    PROVE  Awaits(Mounted(id), under)
BY DEF Awaits, Mounted

(* The section that follows is the one it was, or mounted afresh. *)
LEMMA SectionAwaits ==
    ASSUME SectionFollows, Awaits(history, readings), UNCHANGED readings
    PROVE  Awaits(history, readings)'
<1>1. history' = Null \/ history' = history \/ \E id : history' = Mounted(id)
  BY DEF SectionFollows
<1>2. CASE history' = Null
  BY <1>2 DEF Awaits
<1>3. CASE history' = history
  BY <1>3 DEF Awaits
<1>4. CASE \E id : history' = Mounted(id)
  BY <1>4, MountedAwaits
<1> QED BY <1>1, <1>2, <1>3, <1>4

(* Another address, or a retry, changes neither what the effect ran for    *)
(* nor what it listens for.                                                *)
LEMMA AlikeAwaits ==
    ASSUME NEW g, NEW h, NEW under, h # Null, Awaits(h, under),
           g.ran = h.ran, g.heard = h.heard, g.loaded = h.loaded
    PROVE  Awaits(g, under)
BY DEF Awaits

LEMMA EffectAwaits ==
    ASSUME NEW h \in Hook, NEW under, NEW n, NEW q, q.robot = h.id
    PROVE  Awaits(EffectRuns(h, n), With(under, n, q))
<1>1. EffectRuns(h, n).ran = <<h.id, h.attempt>> /\ EffectRuns(h, n).heard = n
  BY DEF EffectRuns, Hook
<1>2. n \in DOMAIN With(under, n, q) /\ With(under, n, q)[n] = q
  BY DEF With
<1> QED BY <1>1, <1>2 DEF Awaits

(* An answer goes to the request it is for. *)
LEMMA AnsweredAwaits ==
    ASSUME NEW h, NEW under, NEW after, Awaits(h, under),
           DOMAIN after = DOMAIN under,
           \A n \in DOMAIN under : after[n].robot = under[n].robot
    PROVE  Awaits(h, after)
BY DEF Awaits

(* The request listened for leaves its result, any other leaves nothing.   *)
LEMMA LandsAwaits ==
    ASSUME NEW h \in Hook, h # Null, NEW under, NEW n \in DOMAIN under, NEW value,
           Awaits(h, under), [forId |-> under[n].robot, value |-> value] \in Loaded
    PROVE  Awaits(Lands(h, n, under[n].robot, value), Without(under, n))
<1>1. /\ DOMAIN Without(under, n) = DOMAIN under \ {n}
      /\ \A m \in DOMAIN under \ {n} : Without(under, n)[m] = under[m]
  BY DEF Without
<1> DEFINE l == [forId |-> under[n].robot, value |-> value]
           g == Lands(h, n, under[n].robot, value)
<1>2. l # Null /\ l.forId = under[n].robot
  BY PageAssumption
<1>3. CASE n = h.heard
  <2>1. g.ran = h.ran /\ g.heard = h.heard /\ g.loaded = l
    BY <1>3 DEF Lands, Hook
  <2> QED BY <1>1, <1>2, <1>3, <2>1 DEF Awaits
<1>4. CASE n # h.heard
  <2>1. g = h
    BY <1>4 DEF Lands
  <2> QED BY <1>1, <1>4, <2>1 DEF Awaits
<1> QED BY <1>3, <1>4

LEMMA AwaitsInit == Init => AwaitsInv
BY PageInit DEF Init, AwaitsInv, Awaits

LEMMA VisitAwaits ==
    ASSUME AwaitsInv, NEW id \in Robot, Visit(id)
    PROVE  Awaits(detail, requests)' /\ Awaits(history, readings)'
<1>1. Awaits(history, readings)'
  BY SectionAwaits DEF AwaitsInv, Visit
<1>2. CASE detail = Null
  <2>1. detail' = Mounted(id) /\ requests' = requests
    BY <1>2 DEF Visit
  <2> QED BY <1>1, <2>1, MountedAwaits
<1>3. CASE detail # Null
  <2>1. /\ detail'.ran = detail.ran /\ detail'.heard = detail.heard
        /\ detail'.loaded = detail.loaded /\ requests' = requests
    BY <1>3 DEF Visit, AwaitsInv, PageInv, PageTypeOK, Hook
  <2>2. Awaits(detail', requests)
    BY <1>3, <2>1, AlikeAwaits DEF AwaitsInv
  <2> QED BY <1>1, <2>1, <2>2 DEF Awaits
<1> QED BY <1>2, <1>3

LEMMA LeaveAwaits ==
    ASSUME AwaitsInv, Leave
    PROVE  Awaits(detail, requests)' /\ Awaits(history, readings)'
<1>1. Awaits(history, readings)'
  BY SectionAwaits DEF AwaitsInv, Leave
<1> QED BY <1>1 DEF Leave, Awaits

LEMMA RetriesAwait ==
    ASSUME AwaitsInv, Retry \/ RetryHistory
    PROVE  Awaits(detail, requests)' /\ Awaits(history, readings)'
<1>1. CASE Retry
  <2>1. /\ detail # Null /\ detail'.ran = detail.ran /\ detail'.heard = detail.heard
        /\ detail'.loaded = detail.loaded
        /\ UNCHANGED <<history, requests, readings>>
    BY <1>1 DEF Retry, RetryClicked, AwaitsInv, PageInv, PageTypeOK, Hook
  <2>2. Awaits(detail', requests)
    BY <2>1, AlikeAwaits DEF AwaitsInv
  <2> QED BY <2>1, <2>2 DEF AwaitsInv, Awaits
<1>2. CASE RetryHistory
  <2>1. /\ history # Null /\ history'.ran = history.ran /\ history'.heard = history.heard
        /\ history'.loaded = history.loaded
        /\ UNCHANGED <<detail, requests, readings>>
    BY <1>2 DEF RetryHistory, RetryClicked, AwaitsInv, PageInv, PageTypeOK, Hook
  <2>2. Awaits(history', readings)
    BY <2>1, AlikeAwaits DEF AwaitsInv
  <2> QED BY <2>1, <2>2 DEF AwaitsInv, Awaits
<1> QED BY <1>1, <1>2

LEMMA EffectsAwait ==
    ASSUME AwaitsInv, FetchDetail \/ FetchHistory
    PROVE  Awaits(detail, requests)' /\ Awaits(history, readings)'
<1>1. CASE FetchDetail
  <2>1. Awaits(detail', requests')
    BY <1>1, EffectAwaits DEF FetchDetail, AwaitsInv, PageInv, PageTypeOK
  <2> QED BY <1>1, <2>1 DEF FetchDetail, AwaitsInv, Awaits
<1>2. CASE FetchHistory
  <2>1. Awaits(history', readings')
    BY <1>2, EffectAwaits DEF FetchHistory, AwaitsInv, PageInv, PageTypeOK
  <2> QED BY <1>2, <2>1 DEF FetchHistory, AwaitsInv, Awaits
<1> QED BY <1>1, <1>2

LEMMA AnswersAwait ==
    ASSUME AwaitsInv,
           \/ \E n \in DOMAIN requests : DetailAnswered(n) \/ HealthAnswered(n)
           \/ \E n \in DOMAIN readings : HistoryAnswered(n)
    PROVE  Awaits(detail, requests)' /\ Awaits(history, readings)'
<1>1. CASE \E n \in DOMAIN requests : DetailAnswered(n) \/ HealthAnswered(n)
  <2>1. /\ DOMAIN requests' = DOMAIN requests
        /\ \A m \in DOMAIN requests : requests'[m].robot = requests[m].robot
        /\ UNCHANGED <<detail, history, readings>>
    BY <1>1 DEF DetailAnswered, HealthAnswered, page, AwaitsInv, PageInv,
       PageTypeOK, Request
  <2>2. Awaits(detail, requests')
    BY <2>1, AnsweredAwaits DEF AwaitsInv
  <2> QED BY <2>1, <2>2 DEF AwaitsInv, Awaits
<1>2. CASE \E n \in DOMAIN readings : HistoryAnswered(n)
  <2>1. /\ DOMAIN readings' = DOMAIN readings
        /\ \A m \in DOMAIN readings : readings'[m].robot = readings[m].robot
        /\ UNCHANGED <<detail, history, requests>>
    BY <1>2 DEF HistoryAnswered, page, AwaitsInv, PageInv, PageTypeOK, Reading
  <2>2. Awaits(history, readings')
    BY <2>1, AnsweredAwaits DEF AwaitsInv
  <2> QED BY <2>1, <2>2 DEF AwaitsInv, Awaits
<1> QED BY <1>1, <1>2

LEMMA DetailLandsAwaits ==
    ASSUME AwaitsInv, NEW n \in DOMAIN requests, DetailLands(n)
    PROVE  Awaits(detail, requests)' /\ Awaits(history, readings)'
<1>1. Awaits(history, readings)'
  BY SectionAwaits DEF AwaitsInv, DetailLands
<1>2. CASE detail = Null
  BY <1>1, <1>2 DEF DetailLands, Awaits
<1>3. CASE detail # Null
  <2>1. requests[n].robot \in Robot /\ requests[n].detail \in Answer
    BY DEF AwaitsInv, PageInv, PageTypeOK, DetailLands, Request
  <2>2. [forId |-> requests[n].robot, value |-> requests[n].detail] \in Loaded
    BY <2>1 DEF Loaded
  <2>3. /\ detail' = Lands(detail, n, requests[n].robot, requests[n].detail)
        /\ requests' = Without(requests, n) /\ detail \in Hook
    BY <1>3 DEF DetailLands, AwaitsInv, PageInv, PageTypeOK
  <2>4. Awaits(detail', requests')
    BY <1>3, <2>2, <2>3, LandsAwaits DEF AwaitsInv
  <2> QED BY <1>1, <2>4
<1> QED BY <1>2, <1>3

LEMMA HistoryLandsAwaits ==
    ASSUME AwaitsInv, NEW n \in DOMAIN readings, HistoryLands(n)
    PROVE  Awaits(detail, requests)' /\ Awaits(history, readings)'
<1>1. Awaits(detail, requests)'
  BY DEF AwaitsInv, HistoryLands, Awaits
<1>2. CASE history = Null
  BY <1>1, <1>2 DEF HistoryLands, Awaits
<1>3. CASE history # Null
  <2>1. readings[n].robot \in Robot /\ readings[n].answer \in Answer
    BY DEF AwaitsInv, PageInv, PageTypeOK, HistoryLands, Reading
  <2>2. [forId |-> readings[n].robot, value |-> readings[n].answer] \in Loaded
    BY <2>1 DEF Loaded
  <2>3. /\ history' = Lands(history, n, readings[n].robot, readings[n].answer)
        /\ readings' = Without(readings, n) /\ history \in Hook
    BY <1>3 DEF HistoryLands, AwaitsInv, PageInv, PageTypeOK
  <2>4. Awaits(history', readings')
    BY <1>3, <2>2, <2>3, LandsAwaits DEF AwaitsInv
  <2> QED BY <1>1, <2>4
<1> QED BY <1>2, <1>3

LEMMA AwaitsStep == AwaitsInv /\ [Next]_vars => AwaitsInv'
<1> SUFFICES ASSUME AwaitsInv, [Next]_vars PROVE AwaitsInv'
  OBVIOUS
<1>1. PageInv'
  BY PageStep DEF AwaitsInv
<1>2. Awaits(detail, requests)' /\ Awaits(history, readings)'
  <2>1. CASE UNCHANGED vars
    BY <2>1 DEF AwaitsInv, Awaits, vars, page
  <2>2. CASE \E r \in Registered : Report(r) \/ Streams(r)
    BY <2>2 DEF AwaitsInv, Awaits, Report, Streams, page
  <2>3. CASE Next /\ ~(\E r \in Registered : Report(r) \/ Streams(r))
    BY <2>3, VisitAwaits, LeaveAwaits, RetriesAwait, EffectsAwait, AnswersAwait,
       DetailLandsAwaits, HistoryLandsAwaits DEF Next
  <2> QED BY <2>1, <2>2, <2>3
<1> QED BY <1>1, <1>2 DEF AwaitsInv

LEMMA AwaitsWaits ==
    ASSUME NEW h \in Hook \cup {Null}, NEW under, Awaits(h, under)
    PROVE  Waits(h, under)
<1> SUFFICES ASSUME h # Null, Shown(h).status = "loading", ~EffectDue(h)
             PROVE  h.heard \in DOMAIN under /\ under[h.heard].robot = h.id
  BY DEF Waits
<1>1. h.ran = <<h.id, h.attempt>> /\ h.id \in Robot /\ h.attempt \in Nat
  BY DEF EffectDue, Hook
<1>2. h.ran # Null /\ h.ran[1] = h.id
  BY <1>1, PageAssumption
<1>3. ~(h.loaded # Null /\ h.loaded.forId = h.id)
  <2>1. ASSUME h.loaded # Null, h.loaded.forId = h.id PROVE FALSE
    <3>1. h.loaded.value \in Answer
      BY <2>1 DEF Hook, Loaded
    <3>2. h.loaded.value.status # "loading"
      BY <3>1 DEF Answer, Ended
    <3> QED BY <2>1, <3>2 DEF Shown
  <2> QED BY <2>1
<1> QED BY <1>2, <1>3 DEF Awaits

(* Neither the page nor its history section is ever loading for nothing:   *)
(* its effect is due, or the request it listens for is under way for its   *)
(* own robot, through navigation there and back, retries and requests that *)
(* land late.  LoadingEnds rests on it.                                    *)
THEOREM PageWaitsForSomething == Spec => []LoadingIsWaiting
<1>1. AwaitsInv => LoadingIsWaiting
  BY AwaitsWaits DEF AwaitsInv, LoadingIsWaiting, PageInv, PageTypeOK
<1> QED BY <1>1, AwaitsInit, AwaitsStep, PTL DEF Spec
==============================================================================
