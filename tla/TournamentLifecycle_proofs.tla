------------------- MODULE TournamentLifecycle_proofs -------------------
(***************************************************************************)
(* Proofs about TournamentLifecycle, for any number of runs, admin         *)
(* requests and matches: the types, that a notice goes out at most once as *)
(* long as no room is set a second time, and that a tournament is          *)
(* completed when its matches are played.                                  *)
(***************************************************************************)
EXTENDS TournamentLifecycle, TLAPS

USE DEF Notices, NoticesOf, NoRun, NoRequest, dates, format

LEMMA NoticeShape ==
    ASSUME NEW n \in Notices
    PROVE  /\ n[1] \in {"room", "matchRoom", "reminder"}
           /\ n[1] = "room" => n = <<"room", Tournament>>
           /\ n[1] # "room" => n[2] \in Matches /\ n = <<n[1], n[2]>>
  OBVIOUS

-----------------------------------------------------------------------------
(* Types *)

\* A run as TypeOK wants it.
RunOK(x) ==
    /\ x \in RunRecord
    /\ x.pc = "emit" <=> x.mine # {}
    /\ x.pc \in {"claim", "emit"} => x.kind # "none"

LEMMA RunType == TypeOK => \A r \in Runs : RunOK(run[r])
  BY DEF TypeOK, RunOK

\* A step that replaces one run by a well-formed one.
LEMMA RunStepType ==
    ASSUME TypeOK, NEW r \in Runs, NEW x, RunOK(x), run' = [run EXCEPT ![r] = x]
    PROVE  /\ run' \in [Runs -> RunRecord]
           /\ \A q \in Runs : /\ run'[q].pc = "emit" <=> run'[q].mine # {}
                              /\ run'[q].pc \in {"claim", "emit"} => run'[q].kind # "none"
  BY DEF TypeOK, RunOK

\* A run without a claimed notice moves on.
LEMMA GotoType ==
    ASSUME TypeOK, NEW r \in Runs, NEW pc \in RunPcs \ {"claim", "emit"}, run[r].pc # "emit"
    PROVE  RunOK([run[r] EXCEPT !.pc = pc])
  BY RunType DEF RunOK, RunRecord

LEMMA NoRunType == RunOK(NoRun)
  BY TimeAssumption DEF RunOK, RunRecord, RunPcs, Times

\* What NextStage makes of a run: a notice that is claimed stays claimed.
LEMMA NextStageType ==
    ASSUME TypeOK, NEW r \in Runs, NEW kind \in {"room", "matchRoom", "reminder"},
           NEW todo \in SUBSET Notices
    PROVE  LET x == NextStage(r, kind, todo)
           IN  /\ run[r].mine = {} => RunOK(x)
               /\ RunOK([x EXCEPT !.mine = {}])
  <1>1. AfterKind(kind) \in RunPcs \ {"claim", "emit"}
    BY DEF AfterKind, RunPcs, FindPcs
  <1>2. run[r] \in RunRecord
    BY DEF TypeOK
  <1>3. CASE todo = {}
    <2> DEFINE x == [run[r] EXCEPT !.pc = AfterKind(kind), !.kind = "none"]
    <2>1. /\ x \in RunRecord /\ x.pc \notin {"claim", "emit"}
          /\ x.mine = run[r].mine /\ x.todo = run[r].todo
      BY <1>1, <1>2 DEF RunRecord
    <2> HIDE DEF x
    <2>2. /\ [x EXCEPT !.mine = {}] \in RunRecord /\ [x EXCEPT !.mine = {}].pc = x.pc
          /\ [x EXCEPT !.mine = {}].mine = {} /\ [x EXCEPT !.mine = {}].todo = x.todo
      BY <2>1 DEF RunRecord
    <2>3. NextStage(r, kind, todo) = x
      BY <1>3 DEF NextStage, x
    <2> QED
      BY <2>1, <2>2, <2>3 DEF RunOK
  <1>4. CASE todo # {}
    <2> DEFINE x == [run[r] EXCEPT !.pc = "claim", !.kind = kind, !.todo = todo]
    <2>1. /\ x \in RunRecord /\ x.pc = "claim" /\ x.kind = kind
          /\ x.mine = run[r].mine /\ x.todo = todo
      BY <1>2 DEF RunRecord, RunPcs
    <2> HIDE DEF x
    <2>2. /\ [x EXCEPT !.mine = {}] \in RunRecord /\ [x EXCEPT !.mine = {}].pc = x.pc
          /\ [x EXCEPT !.mine = {}].kind = kind
          /\ [x EXCEPT !.mine = {}].mine = {} /\ [x EXCEPT !.mine = {}].todo = x.todo
      BY <2>1 DEF RunRecord
    <2>3. NextStage(r, kind, todo) = x
      BY <1>4 DEF NextStage, x
    <2> QED
      BY <2>1, <2>2, <2>3 DEF RunOK
  <1> QED
    BY <1>3, <1>4

\* What it does to the notices found, when the claimed one is left alone and
\* when it is dropped.
LEMMA NextStageNotices ==
    ASSUME TypeOK, NEW r \in Runs, NEW kind, NEW todo
    PROVE  /\ NextStage(r, kind, todo).mine = run[r].mine
           /\ NextStage(r, kind, todo).todo \subseteq run[r].todo \cup todo
           /\ [NextStage(r, kind, todo) EXCEPT !.mine = {}].mine = {}
           /\ [NextStage(r, kind, todo) EXCEPT !.mine = {}].todo \subseteq run[r].todo \cup todo
  <1>1. run[r] \in RunRecord
    BY DEF TypeOK
  <1>2. CASE todo = {}
    BY <1>1, <1>2 DEF NextStage, RunRecord
  <1>3. CASE todo # {}
    BY <1>1, <1>3 DEF NextStage, RunRecord
  <1> QED
    BY <1>2, <1>3

\* One step of the specification keeps every variable in its type.
LEMMA TypeStep == TypeOK /\ [Next]_vars => TypeOK'
  <1> SUFFICES ASSUME TypeOK, [Next]_vars PROVE TypeOK'
    OBVIOUS
  <1>t. MaxTime \in Nat /\ RoomLead \in Nat /\ MaxFailures \in Nat
    BY TimeAssumption
  <1>1. ASSUME NEW r \in Runs, StartRun(r) PROVE TypeOK'
    <2>1. RunOK([NoRun EXCEPT !.pc = "closeFind", !.now = now])
      BY DEF TypeOK, RunOK, RunRecord, RunPcs, FindPcs
    <2> QED
      BY <1>1, <2>1, RunStepType DEF TypeOK, StartRun
  <1>2. ASSUME NEW r \in Runs, CloseFind(r) \/ LiveFind(r) PROVE TypeOK'
    <2>1. PICK pc \in {"closeWrite", "room", "liveWrite", "completeFind"} :
              run' = [run EXCEPT ![r] = [run[r] EXCEPT !.pc = pc]]
      BY <1>2 DEF CloseFind, LiveFind, Goto
    <2>2. RunOK([run[r] EXCEPT !.pc = pc])
      BY <1>2, GotoType DEF CloseFind, LiveFind, RunPcs, FindPcs
    <2> QED
      BY <1>2, <2>1, <2>2, RunStepType DEF TypeOK, CloseFind, LiveFind
  <1>3. ASSUME NEW r \in Runs, CloseWrite(r) \/ LiveWrite(r) PROVE TypeOK'
    <2>1. PICK pc \in {"room", "completeFind"} :
              run' = [run EXCEPT ![r] = [run[r] EXCEPT !.pc = pc]]
      BY <1>3 DEF CloseWrite, LiveWrite, Goto
    <2>2. RunOK([run[r] EXCEPT !.pc = pc])
      BY <1>3, GotoType DEF CloseWrite, LiveWrite, RunPcs, FindPcs
    <2> QED
      BY <1>3, <2>1, <2>2, RunStepType DEF TypeOK, CloseWrite, LiveWrite, TournamentStatus
  <1>4. ASSUME NEW r \in Runs, NoticeFind(r) PROVE TypeOK'
    <2>1. PICK todo \in SUBSET Notices :
              run' = [run EXCEPT ![r] = NextStage(r, run[r].pc, todo)]
      BY <1>4 DEF NoticeFind
    <2>2. run[r].pc \in {"room", "matchRoom", "reminder"} /\ run[r].mine = {}
      BY <1>4 DEF NoticeFind, TypeOK
    <2>3. RunOK(NextStage(r, run[r].pc, todo))
      BY <2>2, NextStageType
    <2> QED
      BY <1>4, <2>1, <2>3, RunStepType DEF TypeOK, NoticeFind
  <1>5. ASSUME NEW r \in Runs, NEW n \in Notices, NoticeClaim(r, n) PROVE TypeOK'
    <2>1. run[r] \in RunRecord /\ run[r].pc = "claim" /\ run[r].mine = {} /\ run[r].kind # "none"
      BY <1>5 DEF TypeOK, NoticeClaim
    <2>2. CASE Claimable(n)
      <3> DEFINE x == [run[r] EXCEPT !.pc = "emit", !.todo = @ \ {n}, !.mine = {n}]
      <3>1. RunOK(x)
        BY <2>1 DEF RunOK, RunRecord, RunPcs
      <3>2. run' = [run EXCEPT ![r] = x] /\ marked' \subseteq Notices
        BY <1>5, <2>2 DEF NoticeClaim, TypeOK
      <3> HIDE DEF x
      <3> QED
        BY <1>5, <3>1, <3>2, RunStepType DEF TypeOK, NoticeClaim
    <2>3. CASE ~Claimable(n)
      <3>1. run[r].todo \ {n} \in SUBSET Notices /\ run[r].kind \in {"room", "matchRoom", "reminder"}
        BY <2>1 DEF RunRecord
      <3>2. RunOK(NextStage(r, run[r].kind, run[r].todo \ {n}))
        BY <2>1, <3>1, NextStageType
      <3> QED
        BY <1>5, <2>3, <3>2, RunStepType DEF TypeOK, NoticeClaim
    <2> QED
      BY <2>2, <2>3
  <1>6. ASSUME NEW r \in Runs, NoticeEmit(r) PROVE TypeOK'
    <2>1. /\ run[r].kind \in {"room", "matchRoom", "reminder"}
          /\ run[r].todo \in SUBSET Notices
      BY <1>6 DEF TypeOK, NoticeEmit, RunRecord
    <2>2. RunOK([NextStage(r, run[r].kind, run[r].todo) EXCEPT !.mine = {}])
      BY <2>1, NextStageType
    <2>3. sent' \in [Notices -> 0..2]
      BY <1>6 DEF TypeOK, NoticeEmit, OnceMore
    <2> QED
      BY <1>6, <2>2, <2>3, RunStepType DEF TypeOK, NoticeEmit
  <1>7. ASSUME NEW r \in Runs, CompleteFind(r) PROVE TypeOK'
    <2>1. CASE IsPlayed
      BY <1>7, <2>1, GotoType, RunStepType DEF TypeOK, CompleteFind, Goto, RunPcs
    <2>2. CASE ~IsPlayed
      BY <1>7, <2>2, NoRunType, RunStepType DEF TypeOK, CompleteFind
    <2> QED
      BY <2>1, <2>2
  <1>8. ASSUME NEW r \in Runs, CompleteWrite(r) PROVE TypeOK'
    BY <1>8, NoRunType, RunStepType DEF TypeOK, CompleteWrite, TournamentStatus
  <1>9. ASSUME NEW r \in Runs, Fail(r) PROVE TypeOK'
    <2>1. run' = [run EXCEPT ![r] = NoRun]
      BY <1>9 DEF Fail
    <2>2. failures' \in 0..MaxFailures
      BY <1>9, <1>t DEF Fail, TypeOK
    <2>3. UNCHANGED <<status, dates, format, match, hasRoom, marked, sent, now, adm>>
      BY <1>9 DEF Fail
    <2> HIDE DEF NoRun
    <2>4. /\ run' \in [Runs -> RunRecord]
          /\ \A q \in Runs : /\ run'[q].pc = "emit" <=> run'[q].mine # {}
                             /\ run'[q].pc \in {"claim", "emit"} => run'[q].kind # "none"
      BY <2>1, NoRunType, RunStepType
    <2> QED
      BY <2>2, <2>3, <2>4 DEF TypeOK
  <1>10. ASSUME NEW a \in Admins, Request(a) PROVE TypeOK'
    <2>1. Allowed(status) \cup {status} \subseteq TournamentStatus
      BY DEF TypeOK, Allowed, BeforeStart, TournamentStatus
    <2>2. status \in TournamentStatus /\ {"COMPLETED", "DRAFT", "UPCOMING"} \subseteq TournamentStatus
      BY DEF TypeOK, TournamentStatus
    <2>3. PICK pc \in {"statusWrite", "roomWrite", "roundWrite", "publishWrite"},
               target \in TournamentStatus, released \in BOOLEAN : Ask(a, pc, target, released)
      BY <1>10, <2>1, <2>2
      DEF Request, UpdateStatusRead, FinalizeRead, SetRoomRead, GenerateRound1Read, PublishRead
    <2>4. adm' \in [Admins -> AdminRecord]
      BY <2>3 DEF TypeOK, Ask, AdminRecord
    <2>5. UNCHANGED <<status, dates, format, match, hasRoom, marked, sent, now, run, failures>>
      BY <1>10
      DEF Request, UpdateStatusRead, FinalizeRead, SetRoomRead, GenerateRound1Read, PublishRead
    <2> QED
      BY <2>4, <2>5 DEF TypeOK
  <1>11. ASSUME NEW a \in Admins, Write(a) PROVE TypeOK'
    <2>1. CASE StatusWrite(a)
      BY <2>1 DEF TypeOK, StatusWrite, Answer, AdminRecord, TournamentStatus
    <2>2. CASE SetRoomWrite(a)
      BY <2>2 DEF TypeOK, SetRoomWrite, Answer, AdminRecord, TournamentStatus
    <2>3. CASE GenerateRound1Write(a)
      BY <2>3 DEF TypeOK, GenerateRound1Write, Answer, AdminRecord, TournamentStatus
    <2>4. CASE PublishWrite(a)
      BY <2>4 DEF TypeOK, PublishWrite, Answer, AdminRecord, TournamentStatus
    <2> QED
      BY <1>11, <2>1, <2>2, <2>3, <2>4 DEF Write
  <1>12. ASSUME NEW m \in Matches, SetMatchRoom(m) PROVE TypeOK'
    BY <1>12 DEF TypeOK, SetMatchRoom
  <1>13. ASSUME NEW m \in Matches, CreateMatch(m) \/ RecordResults(m) PROVE TypeOK'
    BY <1>13 DEF TypeOK, CreateMatch, RecordResults, MatchStatus
  <1>14. ASSUME Reschedule \/ FillField \/ Tick PROVE TypeOK'
    <2>1. CASE Reschedule
      BY <2>1 DEF TypeOK, Reschedule
    <2>2. CASE FillField
      BY <2>2 DEF TypeOK, FillField
    <2>3. CASE Tick
      BY <2>3, <1>t DEF TypeOK, Tick, Times
    <2> QED
      BY <1>14, <2>1, <2>2, <2>3
  <1>15. CASE UNCHANGED vars
    BY <1>15 DEF TypeOK, vars
  <1> QED
    BY <1>1, <1>2, <1>3, <1>4, <1>5, <1>6, <1>7, <1>8, <1>9, <1>10, <1>11, <1>12, <1>13, <1>14, <1>15
    DEF Next, Continue

LEMMA InitType == Init => TypeOK
  <1> SUFFICES ASSUME Init PROVE TypeOK
    OBVIOUS
  <1>1. \A r \in Runs : RunOK(run[r])
    BY NoRunType DEF Init
  <1>2. run \in [Runs -> RunRecord]
    BY NoRunType DEF Init, RunOK
  <1>3. match \in [Matches -> [status : MatchStatus, at : Times]] /\ now \in Times
    BY TimeAssumption DEF Init, MatchStatus, Times
  <1>4. adm \in [Admins -> AdminRecord]
    BY DEF Init, AdminRecord, TournamentStatus
  <1> QED
    <2>1. formatLocked \in BOOLEAN /\ round1 \in BOOLEAN /\ fullField \in BOOLEAN
      BY DEF Init
    <2>2. /\ sent \in [Notices -> 0..2] /\ marked \subseteq Notices
          /\ hasRoom \subseteq Matches \cup {Tournament}
      BY DEF Init
    <2>3. /\ status \in TournamentStatus /\ closesAt \in Times /\ startsAt \in Times
          /\ failures \in 0..MaxFailures
      BY TimeAssumption DEF Init, TournamentStatus
    <2> QED
      BY <1>1, <1>2, <1>3, <1>4, <2>1, <2>2, <2>3 DEF TypeOK, RunOK

\* Every variable keeps its type, and a run has claimed a notice exactly while
\* it is about to emit it.
THEOREM TypeCorrect == Spec => []TypeOK
  BY InitType, TypeStep, PTL DEF Spec

-----------------------------------------------------------------------------
(* A notice goes out once *)

Holds(r, n) == n \in run[r].mine

\* A notice nobody has marked was neither claimed nor sent.
UnmarkedIsFresh ==
    \A n \in Notices \ marked : sent[n] = 0 /\ \A r \in Runs : ~Holds(r, n)
\* One run has it, and only before it is sent.
OneHolder ==
    \A n \in Notices, r \in Runs :
        Holds(r, n) => sent[n] = 0 /\ \A q \in Runs : Holds(q, n) => q = r
\* The first time a room is set, no run has looked at it.
NoRoomIsFresh ==
    \A n \in Notices : (n[1] # "reminder" /\ n[2] \notin hasRoom) =>
        sent[n] = 0 /\ \A r \in Runs : ~Holds(r, n) /\ n \notin run[r].todo
Writing(a) == adm[a].pc = "roomWrite"
OneRoomWriter ==
    \A a \in Admins : Writing(a) =>
        Tournament \notin hasRoom /\ \A b \in Admins : Writing(b) => b = a

ClaimInv == TypeOK /\ UnmarkedIsFresh /\ OneHolder /\ NoRoomIsFresh /\ OneRoomWriter /\ SentOnce

\* A room is set once: the precondition of the theorem.
RoomsSetOnce == "editRoom" \notin Env /\ "unpublish" \notin Env

\* Most steps mark, claim and send nothing; what a run finds has its room.
LEMMA SilentStep ==
    ASSUME ClaimInv, TypeOK', OneRoomWriter', UNCHANGED <<hasRoom, marked, sent>>,
           \A r \in Runs : run'[r].mine \subseteq run[r].mine,
           \A r \in Runs : \A n \in run'[r].todo :
               n \in run[r].todo \/ n[1] = "reminder" \/ n[2] \in hasRoom
    PROVE  ClaimInv'
  <1>1. UnmarkedIsFresh' /\ OneHolder' /\ SentOnce'
    BY DEF ClaimInv, UnmarkedIsFresh, OneHolder, SentOnce, Holds
  <1>2. NoRoomIsFresh'
    BY DEF ClaimInv, NoRoomIsFresh, Holds
  <1> QED
    BY <1>1, <1>2 DEF ClaimInv

\* A run alone in changing: it keeps what it holds or drops it.
LEMMA SilentRun ==
    ASSUME ClaimInv, TypeOK', UNCHANGED <<hasRoom, marked, sent, adm>>,
           NEW r \in Runs, NEW x, run' = [run EXCEPT ![r] = x], x.mine \subseteq run[r].mine,
           \A n \in x.todo : n \in run[r].todo \/ n[1] = "reminder" \/ n[2] \in hasRoom
    PROVE  ClaimInv'
  <1>1. OneRoomWriter'
    BY DEF ClaimInv, OneRoomWriter, Writing
  <1>2. \A q \in Runs : run'[q] = IF q = r THEN x ELSE run[q]
    BY DEF ClaimInv, TypeOK
  <1> QED
    BY <1>1, <1>2, SilentStep

LEMMA ClaimStep ==
    ASSUME RoomsSetOnce, ClaimInv, [Next]_vars
    PROVE  ClaimInv'
  <1> USE DEF ClaimInv
  <1>t. TypeOK'
    BY TypeStep
  <1>r. \A r \in Runs : run[r] \in RunRecord
    BY DEF TypeOK
  <1>1. ASSUME NEW r \in Runs, StartRun(r) PROVE ClaimInv'
    <2>1. /\ [NoRun EXCEPT !.pc = "closeFind", !.now = now].mine = {}
          /\ [NoRun EXCEPT !.pc = "closeFind", !.now = now].todo = {}
      OBVIOUS
    <2>2. /\ run' = [run EXCEPT ![r] = [NoRun EXCEPT !.pc = "closeFind", !.now = now]]
          /\ UNCHANGED <<hasRoom, marked, sent, adm>>
      BY <1>1 DEF StartRun
    <2> HIDE DEF NoRun
    <2> QED
      BY <2>1, <2>2, <1>t, SilentRun
  <1>2. ASSUME NEW r \in Runs, CloseFind(r) \/ CloseWrite(r) \/ LiveFind(r) \/ LiveWrite(r)
        PROVE  ClaimInv'
    <2>1. PICK pc : run' = [run EXCEPT ![r] = [run[r] EXCEPT !.pc = pc]]
      BY <1>2 DEF CloseFind, CloseWrite, LiveFind, LiveWrite, Goto
    <2>2. /\ [run[r] EXCEPT !.pc = pc].mine = run[r].mine
          /\ [run[r] EXCEPT !.pc = pc].todo = run[r].todo
      BY <1>r DEF RunRecord
    <2>3. UNCHANGED <<hasRoom, marked, sent, adm>>
      BY <1>2 DEF CloseFind, CloseWrite, LiveFind, LiveWrite
    <2> QED
      BY <2>1, <2>2, <2>3, <1>t, SilentRun
  <1>3. ASSUME NEW r \in Runs, CompleteFind(r) \/ CompleteWrite(r) \/ Fail(r) PROVE ClaimInv'
    <2>1. PICK x \in {NoRun, [run[r] EXCEPT !.pc = "completeWrite"]} : run' = [run EXCEPT ![r] = x]
      BY <1>3 DEF CompleteFind, CompleteWrite, Fail, Goto
    <2>2. x.mine \subseteq run[r].mine /\ x.todo \subseteq run[r].todo
      BY <2>1, <1>r DEF RunRecord
    <2>3. UNCHANGED <<hasRoom, marked, sent, adm>>
      BY <1>3 DEF CompleteFind, CompleteWrite, Fail
    <2> QED
      BY <2>1, <2>2, <2>3, <1>t, SilentRun
  <1>4. ASSUME NEW r \in Runs, NoticeFind(r) PROVE ClaimInv'
    <2> DEFINE todo == {n \in NoticesOf(run[r].pc) \ marked : Due(n, run[r].now)}
    <2>1. /\ run' = [run EXCEPT ![r] = NextStage(r, run[r].pc, todo)]
          /\ todo \in SUBSET Notices /\ \A n \in todo : Due(n, run[r].now)
      BY <1>4 DEF NoticeFind
    <2> HIDE DEF todo
    <2>2. \A n \in todo : n[1] = "reminder" \/ n[2] \in hasRoom
      BY <2>1, NoticeShape DEF Due
    <2>3. run[r].pc \in {"room", "matchRoom", "reminder"}
      BY <1>4 DEF NoticeFind
    <2>4. /\ NextStage(r, run[r].pc, todo).mine = run[r].mine
          /\ NextStage(r, run[r].pc, todo).todo \subseteq run[r].todo \cup todo
      BY <2>3, NextStageNotices
    <2>5. UNCHANGED <<hasRoom, marked, sent, adm>>
      BY <1>4 DEF NoticeFind
    <2> QED
      BY <2>1, <2>2, <2>4, <2>5, <1>t, SilentRun
  <1>5. ASSUME NEW r \in Runs, NEW n \in Notices, NoticeClaim(r, n) PROVE ClaimInv'
    <2>1. /\ run[r].mine = {} /\ n \in run[r].todo /\ run[r].kind \in {"room", "matchRoom", "reminder"}
          /\ run[r].todo \ {n} \in SUBSET Notices
      BY <1>5, <1>r DEF NoticeClaim, TypeOK, RunRecord
    <2>2. UNCHANGED <<hasRoom, sent, adm>>
      BY <1>5 DEF NoticeClaim
    <2>3. CASE ~Claimable(n)
      <3>1. run' = [run EXCEPT ![r] = NextStage(r, run[r].kind, run[r].todo \ {n})] /\ marked' = marked
        BY <1>5, <2>3 DEF NoticeClaim
      <3>2. /\ NextStage(r, run[r].kind, run[r].todo \ {n}).mine = run[r].mine
            /\ NextStage(r, run[r].kind, run[r].todo \ {n}).todo \subseteq run[r].todo
        BY <2>1, NextStageNotices
      <3> QED
        BY <2>2, <3>1, <3>2, <1>t, SilentRun
    <2>4. CASE Claimable(n)
      <3>1. n \notin marked /\ marked' = marked \cup {n}
        BY <1>5, <2>4 DEF NoticeClaim, Claimable
      <3>2. /\ run'[r].mine = {n} /\ run'[r].todo = run[r].todo \ {n}
            /\ \A q \in Runs \ {r} : run'[q] = run[q]
        BY <1>5, <2>4, <1>r DEF NoticeClaim, TypeOK, RunRecord
      <3>3. sent[n] = 0 /\ \A q \in Runs : n \notin run[q].mine
        BY <3>1 DEF UnmarkedIsFresh, Holds
      <3>4. UnmarkedIsFresh'
        BY <2>2, <3>1, <3>2 DEF UnmarkedIsFresh, Holds
      <3>5. OneHolder'
        BY <2>2, <3>2, <3>3 DEF OneHolder, Holds
      <3>6. NoRoomIsFresh'
        BY <2>1, <2>2, <3>2 DEF NoRoomIsFresh, Holds
      <3> QED
        BY <2>2, <3>4, <3>5, <3>6, <1>t DEF OneRoomWriter, Writing, SentOnce
    <2> QED
      BY <2>3, <2>4
  <1>6. ASSUME NEW r \in Runs, NoticeEmit(r) PROVE ClaimInv'
    <2> DEFINE x == [NextStage(r, run[r].kind, run[r].todo) EXCEPT !.mine = {}]
    <2>1. run[r].kind \in {"room", "matchRoom", "reminder"} /\ run[r].todo \in SUBSET Notices
      BY <1>6, <1>r DEF NoticeEmit, TypeOK, RunRecord
    <2>2. x.mine = {} /\ x.todo \subseteq run[r].todo
      BY <2>1, NextStageNotices
    <2>3. run' = [run EXCEPT ![r] = x] /\ UNCHANGED <<hasRoom, marked, adm>>
      BY <1>6 DEF NoticeEmit
    <2>4. \A n \in Notices : sent'[n] = IF Holds(r, n) THEN OnceMore(sent[n]) ELSE sent[n]
      BY <1>6 DEF NoticeEmit, Holds
    <2> HIDE DEF x
    <2>5. /\ run'[r].mine = {} /\ run'[r].todo \subseteq run[r].todo
          /\ \A q \in Runs \ {r} : run'[q] = run[q]
      BY <2>2, <2>3 DEF TypeOK
    <2>6. \A n \in Notices : sent'[n] <= 1 /\ (~Holds(r, n) => sent'[n] = sent[n])
      BY <2>4 DEF OneHolder, SentOnce, OnceMore
    <2>7. UnmarkedIsFresh'
      BY <2>3, <2>5, <2>6 DEF UnmarkedIsFresh, Holds
    <2>8. OneHolder'
      BY <2>5, <2>6 DEF OneHolder, Holds
    <2>9. NoRoomIsFresh'
      BY <2>3, <2>5, <2>6 DEF NoRoomIsFresh, Holds
    <2> QED
      BY <2>3, <2>6, <2>7, <2>8, <2>9, <1>t DEF OneRoomWriter, Writing, SentOnce
  <1>7. ASSUME NEW a \in Admins, Request(a) PROVE ClaimInv'
    <2>1. PICK pc, target, released : Ask(a, pc, target, released)
      BY <1>7 DEF Request, UpdateStatusRead, FinalizeRead, SetRoomRead, GenerateRound1Read, PublishRead
    <2>2. \A b \in Admins \ {a} : adm'[b] = adm[b]
      BY <2>1 DEF Ask, TypeOK
    <2>3. UNCHANGED <<hasRoom, marked, sent, run>>
      BY <1>7 DEF Request, UpdateStatusRead, FinalizeRead, SetRoomRead, GenerateRound1Read, PublishRead
    <2>4. CASE SetRoomRead(a)
      <3>1. Tournament \notin hasRoom /\ \A b \in Admins : ~Writing(b)
        BY <2>4 DEF SetRoomRead, RoomsSetOnce, Writing
      <3>2. OneRoomWriter'
        BY <2>2, <2>3, <3>1 DEF OneRoomWriter, Writing
      <3> QED
        BY <2>3, <3>2, <1>t, SilentStep
    <2>5. CASE ~SetRoomRead(a)
      <3>1. adm'[a].pc # "roomWrite"
        BY <1>7, <2>5 DEF Request, UpdateStatusRead, FinalizeRead, GenerateRound1Read, PublishRead, Ask, TypeOK
      <3>2. OneRoomWriter'
        BY <2>2, <2>3, <3>1 DEF OneRoomWriter, Writing
      <3> QED
        BY <2>3, <3>2, <1>t, SilentStep
    <2> QED
      BY <2>4, <2>5
  <1>8. ASSUME NEW a \in Admins, Write(a) PROVE ClaimInv'
    <2>1. adm'[a].pc = "idle" /\ \A b \in Admins \ {a} : adm'[b] = adm[b]
      BY <1>8 DEF Write, StatusWrite, SetRoomWrite, GenerateRound1Write, PublishWrite, Answer, TypeOK
    <2>2. CASE SetRoomWrite(a)
      <3>1. /\ hasRoom' = hasRoom \cup {Tournament} /\ UNCHANGED <<sent, run>>
            /\ \A n \in Notices : n # <<"room", Tournament>> => (n \in marked' <=> n \in marked)
        BY <2>2 DEF SetRoomWrite
      <3>2. Tournament \notin hasRoom /\ \A b \in Admins : Writing(b) => b = a
        BY <2>2 DEF SetRoomWrite, OneRoomWriter, Writing
      <3>3. sent[<<"room", Tournament>>] = 0 /\ \A r \in Runs : ~Holds(r, <<"room", Tournament>>)
        BY <3>2 DEF NoRoomIsFresh
      <3>4. UnmarkedIsFresh'
        BY <3>1, <3>3 DEF UnmarkedIsFresh, Holds
      <3>5. OneHolder' /\ SentOnce'
        BY <3>1 DEF OneHolder, SentOnce, Holds
      <3>6. NoRoomIsFresh'
        BY <3>1 DEF NoRoomIsFresh, Holds
      <3>7. OneRoomWriter'
        BY <2>1, <3>2 DEF OneRoomWriter, Writing
      <3> QED
        BY <3>4, <3>5, <3>6, <3>7, <1>t
    <2>3. CASE ~SetRoomWrite(a)
      <3>1. UNCHANGED <<hasRoom, marked, sent, run>>
        BY <1>8, <2>3 DEF Write, StatusWrite, GenerateRound1Write, PublishWrite
      <3>2. OneRoomWriter'
        BY <2>1, <3>1 DEF OneRoomWriter, Writing
      <3> QED
        BY <3>1, <3>2, <1>t, SilentStep
    <2> QED
      BY <2>2, <2>3
  <1>9. ASSUME NEW m \in Matches, SetMatchRoom(m) PROVE ClaimInv'
    <2> DEFINE n == <<"matchRoom", m>>
    <2>1. /\ hasRoom' = hasRoom \cup {m} /\ UNCHANGED <<sent, run, adm>> /\ n \in Notices
          /\ \A k \in Notices : k # n => (k \in marked' <=> k \in marked)
          /\ n \notin marked' => m \notin hasRoom
      BY <1>9 DEF SetMatchRoom, RoomsSetOnce
    <2>2. n \notin marked' => sent[n] = 0 /\ \A r \in Runs : ~Holds(r, n)
      BY <2>1 DEF NoRoomIsFresh
    <2>3. UnmarkedIsFresh'
      BY <2>1, <2>2 DEF UnmarkedIsFresh, Holds
    <2>4. OneHolder' /\ SentOnce'
      BY <2>1 DEF OneHolder, SentOnce, Holds
    <2>5. NoRoomIsFresh'
      BY <2>1 DEF NoRoomIsFresh, Holds
    <2>6. OneRoomWriter'
      BY <2>1, MatchesAssumption DEF OneRoomWriter, Writing
    <2> QED
      BY <2>3, <2>4, <2>5, <2>6, <1>t
  <1>10. CASE \/ \E m \in Matches : CreateMatch(m) \/ RecordResults(m)
              \/ Reschedule \/ FillField \/ Tick \/ UNCHANGED vars
    <2>1. UNCHANGED <<hasRoom, marked, sent, run, adm>>
      BY <1>10 DEF CreateMatch, RecordResults, Reschedule, FillField, Tick, vars
    <2>2. OneRoomWriter'
      BY <2>1 DEF OneRoomWriter, Writing
    <2> QED
      BY <2>1, <2>2, <1>t, SilentStep
  <1> QED
    BY <1>1, <1>2, <1>3, <1>4, <1>5, <1>6, <1>7, <1>8, <1>9, <1>10 DEF Next, Continue

\* As long as rooms are set once, every room release and every reminder is
\* emitted at most once, whatever runs overlap or die and whatever the admins do.
THEOREM EmittedOnce ==
    ASSUME RoomsSetOnce
    PROVE  Spec => []SentOnce
  <1>1. Init => ClaimInv
    <2> SUFFICES ASSUME Init PROVE ClaimInv
      OBVIOUS
    <2>1. TypeOK
      BY InitType
    <2> QED
      BY <2>1 DEF Init, ClaimInv, UnmarkedIsFresh, OneHolder, NoRoomIsFresh, OneRoomWriter, Writing,
                  Holds, SentOnce
  <1>2. ClaimInv /\ [Next]_vars => ClaimInv'
    BY ClaimStep
  <1>3. ClaimInv => SentOnce
    BY DEF ClaimInv
  <1> QED
    BY <1>1, <1>2, <1>3, PTL DEF Spec

-----------------------------------------------------------------------------
(* A tournament is completed when its matches are played *)

\* A match is created only while no run is on its way.
NoLateMatch == "lateMatch" \notin Env

Completing(r) == run[r].pc = "completeWrite"

\* What a run found on its way to completing the tournament is still so when
\* it writes: a result is never taken back.
PlayedWhenCompleting == \A r \in Runs : Completing(r) => AllPlayed

\* What a run does next never leads it to complete the tournament, unless it
\* has just looked at the matches.
LEMMA NextStageCompletesNothing ==
    ASSUME TypeOK, NEW r \in Runs, NEW kind \in {"room", "matchRoom", "reminder"}, NEW todo
    PROVE  /\ NextStage(r, kind, todo).pc # "completeWrite"
           /\ [NextStage(r, kind, todo) EXCEPT !.mine = {}].pc # "completeWrite"
  <1>1. run[r] \in RunRecord
    BY DEF TypeOK
  <1>2. AfterKind(kind) # "completeWrite"
    BY DEF AfterKind
  <1>3. CASE todo = {}
    BY <1>1, <1>2, <1>3 DEF NextStage, RunRecord
  <1>4. CASE todo # {}
    BY <1>1, <1>4 DEF NextStage, RunRecord
  <1> QED
    BY <1>3, <1>4

\* A run alone in changing, which does not get to completing.
LEMMA OtherRunStep ==
    ASSUME TypeOK, PlayedWhenCompleting, UNCHANGED match,
           NEW r \in Runs, NEW x, run' = [run EXCEPT ![r] = x], x.pc # "completeWrite"
    PROVE  PlayedWhenCompleting'
  <1>1. \A q \in Runs : run'[q] = IF q = r THEN x ELSE run[q]
    BY DEF TypeOK
  <1> QED
    BY <1>1 DEF PlayedWhenCompleting, Completing, AllPlayed, Created

LEMMA StoppedRunStep ==
    ASSUME TypeOK, PlayedWhenCompleting, UNCHANGED match,
           NEW r \in Runs, run' = [run EXCEPT ![r] = NoRun]
    PROVE  PlayedWhenCompleting'
  <1>1. NoRun.pc # "completeWrite"
    OBVIOUS
  <1> HIDE DEF NoRun
  <1> QED
    BY <1>1, OtherRunStep

LEMMA PlayedStep ==
    ASSUME NoLateMatch, TypeOK, PlayedWhenCompleting, [Next]_vars
    PROVE  PlayedWhenCompleting'
  <1>r. \A r \in Runs : run[r] \in RunRecord
    BY DEF TypeOK
  <1>1. ASSUME NEW r \in Runs, StartRun(r) PROVE PlayedWhenCompleting'
    <2>1. [NoRun EXCEPT !.pc = "closeFind", !.now = now].pc # "completeWrite"
      OBVIOUS
    <2>2. /\ run' = [run EXCEPT ![r] = [NoRun EXCEPT !.pc = "closeFind", !.now = now]]
          /\ UNCHANGED match
      BY <1>1 DEF StartRun
    <2> HIDE DEF NoRun
    <2> QED
      BY <2>1, <2>2, OtherRunStep
  <1>2. ASSUME NEW r \in Runs, CloseFind(r) \/ CloseWrite(r) \/ LiveFind(r) \/ LiveWrite(r)
        PROVE  PlayedWhenCompleting'
    <2>1. PICK pc \in {"closeWrite", "room", "liveWrite", "completeFind"} :
              run' = [run EXCEPT ![r] = [run[r] EXCEPT !.pc = pc]]
      BY <1>2 DEF CloseFind, CloseWrite, LiveFind, LiveWrite, Goto
    <2>2. [run[r] EXCEPT !.pc = pc].pc # "completeWrite"
      BY <1>r DEF RunRecord
    <2>3. UNCHANGED match
      BY <1>2 DEF CloseFind, CloseWrite, LiveFind, LiveWrite
    <2> QED
      BY <2>1, <2>2, <2>3, OtherRunStep
  <1>3. ASSUME NEW r \in Runs, NoticeFind(r) PROVE PlayedWhenCompleting'
    <2>1. PICK todo : run' = [run EXCEPT ![r] = NextStage(r, run[r].pc, todo)]
      BY <1>3 DEF NoticeFind
    <2>2. run[r].pc \in {"room", "matchRoom", "reminder"} /\ UNCHANGED match
      BY <1>3 DEF NoticeFind
    <2> QED
      BY <2>1, <2>2, NextStageCompletesNothing, OtherRunStep
  <1>4. ASSUME NEW r \in Runs, NEW n \in Notices, NoticeClaim(r, n) PROVE PlayedWhenCompleting'
    <2>1. UNCHANGED match /\ run[r].kind \in {"room", "matchRoom", "reminder"}
      BY <1>4, <1>r DEF NoticeClaim, TypeOK, RunRecord
    <2>2. CASE Claimable(n)
      <3> DEFINE x == [run[r] EXCEPT !.pc = "emit", !.todo = @ \ {n}, !.mine = {n}]
      <3>1. run' = [run EXCEPT ![r] = x]
        BY <1>4, <2>2 DEF NoticeClaim, TypeOK
      <3>2. x.pc # "completeWrite"
        BY <1>r DEF RunRecord
      <3> HIDE DEF x
      <3> QED
        BY <2>1, <3>1, <3>2, OtherRunStep
    <2>3. CASE ~Claimable(n)
      <3>1. run' = [run EXCEPT ![r] = NextStage(r, run[r].kind, run[r].todo \ {n})]
        BY <1>4, <2>3 DEF NoticeClaim
      <3> QED
        BY <2>1, <3>1, NextStageCompletesNothing, OtherRunStep
    <2> QED
      BY <2>2, <2>3
  <1>5. ASSUME NEW r \in Runs, NoticeEmit(r) PROVE PlayedWhenCompleting'
    <2>1. /\ run' = [run EXCEPT ![r] = [NextStage(r, run[r].kind, run[r].todo) EXCEPT !.mine = {}]]
          /\ UNCHANGED match
      BY <1>5 DEF NoticeEmit
    <2>2. run[r].kind \in {"room", "matchRoom", "reminder"}
      BY <1>5, <1>r DEF NoticeEmit, TypeOK, RunRecord
    <2> QED
      BY <2>1, <2>2, NextStageCompletesNothing, OtherRunStep
  <1>6. ASSUME NEW r \in Runs, CompleteFind(r) PROVE PlayedWhenCompleting'
    <2>1. CASE IsPlayed
      <3>1. AllPlayed /\ UNCHANGED match
        BY <1>6, <2>1 DEF IsPlayed, CompleteFind
      <3>2. AllPlayed'
        BY <3>1 DEF AllPlayed, Created
      <3> QED
        BY <3>2 DEF PlayedWhenCompleting
    <2>2. CASE ~IsPlayed
      <3>1. run' = [run EXCEPT ![r] = NoRun] /\ UNCHANGED match
        BY <1>6, <2>2 DEF CompleteFind
      <3> QED
        BY <3>1, StoppedRunStep
    <2> QED
      BY <2>1, <2>2
  <1>7. ASSUME NEW r \in Runs, CompleteWrite(r) \/ Fail(r) PROVE PlayedWhenCompleting'
    <2>1. run' = [run EXCEPT ![r] = NoRun] /\ UNCHANGED match
      BY <1>7 DEF CompleteWrite, Fail
    <2> QED
      BY <2>1, StoppedRunStep
  <1>8. ASSUME NEW m \in Matches, CreateMatch(m) PROVE PlayedWhenCompleting'
    \* No run is on its way, so none is completing.
    BY <1>8 DEF CreateMatch, NoLateMatch, PlayedWhenCompleting, Completing
  <1>9. ASSUME NEW m \in Matches, RecordResults(m) PROVE PlayedWhenCompleting'
    <2>1. /\ UNCHANGED run /\ match[m].status # "NONE"
          /\ match'[m].status = "COMPLETED" /\ \A k \in Matches \ {m} : match'[k] = match[k]
      BY <1>9 DEF RecordResults, TypeOK
    <2>2. Created' = Created
      BY <2>1 DEF Created
    <2>3. AllPlayed => AllPlayed'
      BY <2>1, <2>2 DEF AllPlayed, Created
    <2> QED
      BY <2>1, <2>3 DEF PlayedWhenCompleting, Completing
  <1>10. CASE \/ \E a \in Admins : Request(a) \/ Write(a)
              \/ \E m \in Matches : SetMatchRoom(m)
              \/ Reschedule \/ FillField \/ Tick \/ UNCHANGED vars
    <2>1. UNCHANGED <<match, run>>
      <3>1. ASSUME NEW a \in Admins, Request(a) PROVE UNCHANGED <<match, run>>
        BY <3>1 DEF Request, UpdateStatusRead, FinalizeRead, SetRoomRead, GenerateRound1Read, PublishRead
      <3>2. ASSUME NEW a \in Admins, Write(a) PROVE UNCHANGED <<match, run>>
        BY <3>2 DEF Write, StatusWrite, SetRoomWrite, GenerateRound1Write, PublishWrite
      <3> QED
        BY <1>10, <3>1, <3>2 DEF SetMatchRoom, Reschedule, FillField, Tick, vars
    <2> QED
      BY <2>1 DEF PlayedWhenCompleting, Completing, AllPlayed, Created
  <1> QED
    BY <1>1, <1>2, <1>3, <1>4, <1>5, <1>6, <1>7, <1>8, <1>9, <1>10 DEF Next, Continue

\* As long as no match is created while a run is on its way, the scheduler
\* completes a tournament only when it has matches and all of them are played,
\* however many runs overlap, die, or race with results that are corrected.
THEOREM CompletedWhenPlayed ==
    ASSUME NoLateMatch
    PROVE  Spec => CompletesWhenPlayed
  <1>1. Init => PlayedWhenCompleting
    BY DEF Init, PlayedWhenCompleting, Completing
  <1>2. TypeOK /\ PlayedWhenCompleting /\ [Next]_vars => PlayedWhenCompleting'
    BY PlayedStep
  <1>3. PlayedWhenCompleting => \A r \in Runs : CompleteWrite(r) => AllPlayed
    BY DEF PlayedWhenCompleting, Completing, CompleteWrite
  <1>4. Spec => []PlayedWhenCompleting
    BY <1>1, <1>2, TypeCorrect, PTL DEF Spec
  <1> QED
    BY <1>3, <1>4, PTL DEF CompletesWhenPlayed
=============================================================================
