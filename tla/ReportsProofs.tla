----------------------------- MODULE ReportsProofs -----------------------------
(***************************************************************************)
(* Proofs about what stands behind a report: the transaction of an         *)
(* idempotent request (ReportIdempotency), for every set of requests,      *)
(* users and keys; the narrations that share its budget (NarrativeBudget), *)
(* for any sections and settings; and the evidence of recommendations and  *)
(* of the chat (Research, Narratives), for any companies, boards,          *)
(* statistics and questions.                                               *)
(***************************************************************************)
EXTENDS ReportIdempotency, NarrativeBudget, Narratives, SumTheorems

-----------------------------------------------------------------------------
(* TypeOK is inductive: the two row sets are tied to the program counters,
   which is all that later proofs need to know of where a request is. *)
LEMMA TypeInit == Init => TypeOK
BY DEF Init, TypeOK, Program

LEMMA TypeStep == TypeOK /\ [Next]_vars => TypeOK'
<1> SUFFICES ASSUME TypeOK, [Next]_vars PROVE TypeOK'
  OBVIOUS
<1> USE DEF TypeOK, Program, Active, Ended, Goto, args
<1>1. CASE UNCHANGED vars
  BY <1>1 DEF vars
<1>2. ASSUME NEW r \in Requests, Receive(r) PROVE TypeOK'
  BY <1>2 DEF Receive
<1>3. ASSUME NEW r \in Requests, Handler(r) PROVE TypeOK'
  <2>1. CASE FindExisting(r)
    BY <2>1 DEF FindExisting, Matching
  <2>2. CASE StartGeneration(r)
    BY <2>2 DEF StartGeneration
  <2>3. CASE Generated(r)
    BY <2>3 DEF Generated
  <2>4. CASE GenerationFails(r)
    BY <2>4 DEF GenerationFails
  <2>5. CASE Insert(r)
    BY <2>5 DEF Insert
  <2>6. CASE InsertConflicts(r)
    BY <2>6 DEF InsertConflicts
  <2>7. CASE ReadWinner(r)
    BY <2>7 DEF ReadWinner, Matching
  <2>8. CASE Commit(r)
    BY <2>8 DEF Commit
  <2>9. CASE Reply(r)
    BY <2>9 DEF Reply
  <2> QED
    BY <1>3, <2>1, <2>2, <2>3, <2>4, <2>5, <2>6, <2>7, <2>8, <2>9 DEF Handler
<1>4. ASSUME NEW r \in Requests, Disconnect(r) PROVE TypeOK'
  BY <1>4 DEF Disconnect
<1> QED
  BY <1>1, <1>2, <1>3, <1>4 DEF Next

(* The variables keep their types, and a row is inserted or stored only for a
   request that has reached that point. *)
THEOREM TypeCorrect == Spec => []TypeOK
BY TypeInit, TypeStep, PTL DEF Spec

-----------------------------------------------------------------------------
(* OneReportPerKey does not say what an open transaction may hold; the
   uniqueness that PostgreSQL enforces ranges over inserted rows as well. *)
UniqueRows ==
  \A a, b \in inserted \cup reports : Keyed(a) /\ SameCall(a, b) => a = b

(* A request that lost its insert has a stored winner to read, because stored
   reports are never removed. *)
LoserHasWinner == \A r \in Requests : pc[r] = "reread" => Matching(reports, r) # {}

(* What a request is about to answer is its own row or a stored one. *)
AnswerInSight ==
  \A r \in Requests : pc[r] \in {"commit", "reply", "answered"} =>
    /\ answer[r] \in reports \cup (IF pc[r] = "commit" THEN inserted \cap {r} ELSE {})
    /\ SameCall(answer[r], r)
    /\ ~Keyed(r) => answer[r] = r

IInv == TypeOK /\ UniqueRows /\ LoserHasWinner /\ AnswerInSight /\ WinnerIsVisible

LEMMA InvInit == Init => IInv
BY TypeInit DEF Init, IInv, UniqueRows, LoserHasWinner, AnswerInSight, WinnerIsVisible

(* A step that leaves the arguments, the stored reports and the inserted rows
   alone or removes an inserted row disturbs nothing but program counters. *)
LEMMA UniqueRowsStep == IInv /\ [Next]_vars => UniqueRows'
<1> SUFFICES ASSUME IInv, [Next]_vars PROVE UniqueRows'
  OBVIOUS
<1> USE DEF IInv, UniqueRows, SameCall, Keyed, args
<1>1. ASSUME NEW r \in Requests, Insert(r) PROVE UniqueRows'
  BY <1>1 DEF Insert, Matching, Scope, Goto, TypeOK
<1>2. ASSUME NEW r \in Requests, Commit(r) PROVE UniqueRows'
  BY <1>2 DEF Commit
<1>3. ASSUME NEW r \in Requests, Disconnect(r) PROVE UniqueRows'
  BY <1>3 DEF Disconnect
<1>4. CASE UNCHANGED <<args, inserted, reports>>
  BY <1>4
<1> QED
  BY <1>1, <1>2, <1>3, <1>4
  DEF Next, Handler, vars, Receive, FindExisting, StartGeneration, Generated,
      GenerationFails, InsertConflicts, ReadWinner, Reply

LEMMA LoserHasWinnerStep == IInv /\ [Next]_vars => LoserHasWinner'
<1> SUFFICES ASSUME IInv, [Next]_vars, NEW q \in Requests, pc'[q] = "reread"
             PROVE  Matching(reports, q)' # {}
  BY DEF LoserHasWinner
<1>1. UNCHANGED args /\ reports \subseteq reports'
  BY DEF Next, Handler, vars, args, Receive, FindExisting, StartGeneration, Generated,
         GenerationFails, Insert, InsertConflicts, ReadWinner, Commit, Reply, Disconnect
<1>2. pc[q] = "reread" \/ Matching(reports, q) # {}
  BY DEF Next, Handler, vars, Receive, FindExisting, StartGeneration, Generated, Goto,
         GenerationFails, Insert, InsertConflicts, ReadWinner, Commit, Reply, Disconnect,
         IInv, TypeOK
<1>3. Matching(reports, q) # {}
  BY <1>2 DEF IInv, LoserHasWinner
<1> QED
  BY <1>1, <1>3 DEF Matching, Keyed, Scope, args

LEMMA AnswerInSightStep == IInv /\ [Next]_vars => AnswerInSight'
<1> SUFFICES ASSUME IInv, [Next]_vars PROVE AnswerInSight'
  OBVIOUS
<1> USE DEF IInv, TypeOK, AnswerInSight, SameCall, Keyed, Goto, args
<1>1. CASE UNCHANGED vars
  BY <1>1 DEF vars
<1>2. ASSUME NEW r \in Requests, Receive(r) PROVE AnswerInSight'
  BY <1>2 DEF Receive
<1>3. ASSUME NEW r \in Requests, Handler(r) PROVE AnswerInSight'
  <2>1. CASE FindExisting(r)
    BY <2>1 DEF FindExisting, Matching, Scope
  <2>2. CASE StartGeneration(r)
    BY <2>2 DEF StartGeneration
  <2>3. CASE Generated(r)
    BY <2>3 DEF Generated
  <2>4. CASE GenerationFails(r)
    BY <2>4 DEF GenerationFails
  <2>5. CASE Insert(r)
    BY <2>5 DEF Insert
  <2>6. CASE InsertConflicts(r)
    BY <2>6 DEF InsertConflicts
  <2>7. CASE ReadWinner(r)
    BY <2>7 DEF ReadWinner, Matching, Scope, LoserHasWinner
  <2>8. CASE Commit(r)
    BY <2>8 DEF Commit
  <2>9. CASE Reply(r)
    BY <2>9 DEF Reply
  <2> QED
    BY <1>3, <2>1, <2>2, <2>3, <2>4, <2>5, <2>6, <2>7, <2>8, <2>9 DEF Handler
<1>4. ASSUME NEW r \in Requests, Disconnect(r) PROVE AnswerInSight'
  BY <1>4 DEF Disconnect, Active
<1> QED
  BY <1>1, <1>2, <1>3, <1>4 DEF Next

LEMMA WinnerIsVisibleStep == IInv /\ [Next]_vars => WinnerIsVisible'
BY DEF IInv, TypeOK, WinnerIsVisible, LoserHasWinner, Next, Handler, vars, Goto, Receive,
       FindExisting, StartGeneration, Generated, GenerationFails, Insert, InsertConflicts,
       ReadWinner, Commit, Reply, Disconnect

LEMMA Inductive == Spec => []IInv
<1>1. IInv /\ [Next]_vars => IInv'
  BY TypeStep, UniqueRowsStep, LoserHasWinnerStep, AnswerInSightStep, WinnerIsVisibleStep
  DEF IInv
<1> QED
  BY InvInit, <1>1, PTL DEF Spec

(* At most one stored report for an owner and a key, whatever the number of
   overlapping retries. *)
THEOREM StoresOnce == Spec => []OneReportPerKey
<1>1. IInv => OneReportPerKey
  BY DEF IInv, UniqueRows, OneReportPerKey
<1> QED
  BY Inductive, <1>1, PTL

(* Every answer is a stored report of the caller's own call. *)
THEOREM AnswersTheOriginal == Spec => []AnswersAreOriginal
<1>1. IInv => AnswersAreOriginal
  BY DEF IInv, AnswerInSight, AnswersAreOriginal
<1> QED
  BY Inductive, <1>1, PTL

(* The error branch of create_report cannot be reached. *)
THEOREM LoserFindsWinner == Spec => []WinnerIsVisible
<1>1. IInv => WinnerIsVisible
  BY DEF IInv
<1> QED
  BY Inductive, <1>1, PTL

(* Overlapping retries of one call converge, for any number of them. *)
THEOREM RetriesOfOneCallConverge == Spec => []RetriesConverge
  BY StoresOnce, AnswersTheOriginal, LoserFindsWinner, PTL DEF RetriesConverge

-----------------------------------------------------------------------------
(* A narration is honest because of what is true while it is written: its calls
   are counted as they are reserved, within its attempts, the request's calls and
   the request's time, and the text is only set by the step that earned it. *)
Stages == {"waiting", "reserve", "calling", "validate", "done", "raised"}

NarrativeTypes ==
  /\ clock \in 0..TotalSeconds /\ calls \in 0..MaxCalls
  /\ progress \in [Narrations -> Stages]
  /\ attempts \in [Narrations -> 0..Retries]
  /\ responses \in [Narrations -> Nat]
  /\ timer \in [Narrations -> Int]
  /\ text \in [Narrations -> {"none", "narrative", "fallback"}]

CallsAreCounted == Sum(attempts, Narrations) = calls

CallsEndInTime ==
  \A g \in Narrations : progress[g] = "calling" => clock + timer[g] <= TotalSeconds

AttemptsAnswered ==
  \A g \in Narrations :
    /\ responses[g] <= attempts[g]
    /\ progress[g] = "calling" => responses[g] < attempts[g]
    /\ text[g] = "narrative" => responses[g] >= 1

TextIsEarned ==
  \A g \in Narrations :
    /\ text[g] = "none" <=> progress[g] \in {"waiting", "reserve", "calling"}
    /\ progress[g] = "done" => text[g] = "narrative" \/ g \in sound

ExecutiveComesLast ==
  /\ request = "idle" => \A g \in Narrations : progress[g] = "waiting"
  /\ progress[Executive] # "waiting" => \A g \in Sections : progress[g] = "done"
  /\ request = "published" => progress[Executive] = "done"

NarrativeInv ==
  /\ NarrativeTypes /\ CallsAreCounted /\ CallsEndInTime
  /\ AttemptsAnswered /\ TextIsEarned /\ ExecutiveComesLast /\ FallbackIsEarned

LEMMA NarrationsAreFinite == IsFiniteSet(Narrations) /\ Executive \in Narrations
BY SectionsAssumption, FS_AddElement DEF Narrations

(* The sum of the property is the sum of the proofs. *)
LEMMA AttemptsAreSummed == AttemptCount = Sum(attempts, Narrations)
BY DEF AttemptCount, MapThenSumSet, MapThenFoldSet, Sum, Sums, Chosen

LEMMA SettingsAre == Retries \in Nat \ {0} /\ Timeout \in Nat \ {0}
                     /\ TotalSeconds \in Nat \ {0} /\ MaxCalls \in Nat \ {0}
BY SettingsAssumption

LEMMA NarrativeInvInit == NarrativeInit => NarrativeInv
<1> SUFFICES ASSUME NarrativeInit PROVE NarrativeInv
  OBVIOUS
<1>1. CallsAreCounted
  BY NarrationsAreFinite, SumOfZeros DEF NarrativeInit, CallsAreCounted
<1> QED
  BY <1>1, SettingsAre, NarrationsAreFinite
     DEF NarrativeInit, NarrativeInv, NarrativeTypes, CallsEndInTime, AttemptsAnswered,
         TextIsEarned, ExecutiveComesLast, FallbackIsEarned, Stages

LEMMA ReserveKeeps ==
  ASSUME NEW g \in Narrations, NarrativeInv, Reserve(g) PROVE NarrativeInv'
<1>1. /\ progress[g] = "reserve" /\ attempts[g] < Retries /\ calls < MaxCalls /\ clock \in Nat
      /\ progress' = [progress EXCEPT ![g] = "calling"]
      /\ attempts' = [attempts EXCEPT ![g] = @ + 1] /\ calls' = calls + 1
      /\ timer' = [timer EXCEPT ![g] = AttemptTimeout]
      /\ UNCHANGED <<clock, responses, text, sound, request>>
  BY SettingsAre DEF Reserve, Moves, BudgetSpent, NarrativeInv, NarrativeTypes
<1>2. AttemptTimeout \in Int /\ clock + AttemptTimeout <= TotalSeconds
  BY SettingsAre, <1>1 DEF AttemptTimeout, Minimum, Remaining, NarrativeInv, NarrativeTypes
<1>3. NarrativeTypes'
  BY SettingsAre, <1>1, <1>2 DEF NarrativeInv, NarrativeTypes, Stages
<1>4. CallsAreCounted'
  <2>1. /\ \A h \in Narrations : attempts[h] \in Int
        /\ \A h \in Narrations \ {g} : attempts'[h] = attempts[h]
        /\ attempts'[g] = attempts[g] + 1 /\ attempts[g] \in Int /\ attempts'[g] \in Int
    BY SettingsAre, <1>1 DEF NarrativeInv, NarrativeTypes
  <2> DEFINE f == attempts
             h == attempts'
             S == Narrations
  <2>2. Sum(h, S) = Sum(f, S) - f[g] + h[g]
    <3>1. /\ IsFiniteSet(S) /\ g \in S /\ h[g] \in Int /\ \A x \in S : f[x] \in Int
          /\ \A x \in S \ {g} : h[x] = f[x]
      BY <2>1, NarrationsAreFinite
    <3> HIDE DEF f, h, S
    <3> QED
      BY <3>1, SumChange
  <2>3. calls \in Int /\ Sum(attempts, Narrations) = calls
    BY DEF NarrativeInv, NarrativeTypes, CallsAreCounted
  <2> QED
    BY <1>1, <2>1, <2>2, <2>3 DEF CallsAreCounted
<1>5. CallsEndInTime'
  BY <1>1, <1>2 DEF NarrativeInv, NarrativeTypes, CallsEndInTime
<1>6. AttemptsAnswered'
  BY SettingsAre, <1>1 DEF NarrativeInv, NarrativeTypes, AttemptsAnswered
<1>7. TextIsEarned' /\ ExecutiveComesLast'
  BY <1>1, NarrationsAreFinite, SectionsAssumption
     DEF NarrativeInv, NarrativeTypes, TextIsEarned, ExecutiveComesLast, Narrations
<1>8. FallbackIsEarned'
  BY SettingsAre, <1>1 DEF NarrativeInv, NarrativeTypes, FallbackIsEarned, BudgetSpent, Remaining,
                           TextIsEarned
<1> QED
  BY <1>3, <1>4, <1>5, <1>6, <1>7, <1>8 DEF NarrativeInv

(* The steps that neither reserve a call nor let time pass. *)
LEMMA WritingKeeps ==
  ASSUME NEW g \in Narrations, NarrativeInv,
         FallBack(g) \/ TimeOut(g) \/ Validate(g) \/ Accept(g) \/ Reject(g) \/ ProviderFails(g)
  PROVE  NarrativeInv'
<1>1. UNCHANGED <<clock, calls, attempts, timer, sound>>
  BY DEF FallBack, TimeOut, Validate, Accept, Reject, ProviderFails
<1>2. CallsAreCounted'
  BY <1>1 DEF NarrativeInv, CallsAreCounted
<1>3. /\ progress[g] # "waiting" /\ progress[g] # "done"
      /\ \E to \in Stages \ {"waiting", "calling"} : progress' = [progress EXCEPT ![g] = to]
  BY DEF FallBack, TimeOut, Validate, Accept, Reject, ProviderFails, Moves, Stages
<1>4. NarrativeTypes'
  <2>1. progress' \in [Narrations -> Stages]
    BY <1>3 DEF NarrativeInv, NarrativeTypes
  <2>2. /\ responses' \in [Narrations -> Nat]
        /\ text' \in [Narrations -> {"none", "narrative", "fallback"}]
    BY DEF FallBack, TimeOut, Validate, Accept, Reject, ProviderFails,
           NarrativeInv, NarrativeTypes
  <2> QED
    BY <1>1, <2>1, <2>2 DEF NarrativeInv, NarrativeTypes
<1>5. CallsEndInTime'
  BY <1>1, <1>3 DEF NarrativeInv, NarrativeTypes, CallsEndInTime
<1>6. AttemptsAnswered'
  BY SettingsAre, <1>1 DEF FallBack, TimeOut, Validate, Accept, Reject, ProviderFails, Moves,
                          NarrativeInv, NarrativeTypes, AttemptsAnswered
<1>7. TextIsEarned'
  BY <1>1 DEF FallBack, TimeOut, Validate, Accept, Reject, ProviderFails, Moves,
              NarrativeInv, NarrativeTypes, TextIsEarned
<1>8. ExecutiveComesLast'
  <2>1. request # "idle" /\ (request' = request \/ request' = "failed")
    BY <1>3 DEF FallBack, TimeOut, Validate, Accept, Reject, ProviderFails,
                NarrativeInv, ExecutiveComesLast
  <2>2. request # "published"
    BY <1>3 DEF NarrativeInv, ExecutiveComesLast, Narrations
  <2>3. g \in Sections => progress'[Executive] = "waiting"
    BY <1>3, NarrationsAreFinite, SectionsAssumption
       DEF NarrativeInv, NarrativeTypes, ExecutiveComesLast
  <2>4. g \notin Sections => progress[Executive] # "waiting" /\
          \A h \in Sections : progress'[h] = progress[h]
    BY <1>3, SectionsAssumption DEF Narrations, NarrativeInv, NarrativeTypes
  <2> QED
    BY <2>1, <2>2, <2>3, <2>4 DEF NarrativeInv, ExecutiveComesLast
<1>9. FallbackIsEarned'
  BY <1>1 DEF FallBack, TimeOut, Validate, Accept, Reject, ProviderFails,
              NarrativeInv, NarrativeTypes, FallbackIsEarned, BudgetSpent, Remaining
<1> QED
  BY <1>2, <1>4, <1>5, <1>6, <1>7, <1>8, <1>9 DEF NarrativeInv

LEMMA TickKeeps == NarrativeInv /\ Tick => NarrativeInv'
<1> SUFFICES ASSUME NarrativeInv, Tick PROVE NarrativeInv'
  OBVIOUS
<1>1. /\ clock < TotalSeconds /\ clock' = clock + 1 /\ request # "idle"
      /\ timer' = [g \in Narrations |-> IF progress[g] = "calling" THEN timer[g] - 1 ELSE timer[g]]
      /\ UNCHANGED <<calls, progress, attempts, responses, text, sound, request>>
  BY DEF Tick
<1>2. NarrativeTypes' /\ CallsEndInTime'
  BY SettingsAre, <1>1 DEF NarrativeInv, NarrativeTypes, CallsEndInTime
<1>3. FallbackIsEarned'
  BY SettingsAre, <1>1 DEF NarrativeInv, NarrativeTypes, FallbackIsEarned, BudgetSpent, Remaining
<1> QED
  BY <1>1, <1>2, <1>3 DEF NarrativeInv, CallsAreCounted, AttemptsAnswered, TextIsEarned,
                          ExecutiveComesLast

LEMMA RequestKeeps == NarrativeInv /\ (Begin \/ StartExecutive \/ Finish) => NarrativeInv'
<1> SUFFICES ASSUME NarrativeInv, Begin \/ StartExecutive \/ Finish PROVE NarrativeInv'
  OBVIOUS
<1>1. UNCHANGED <<clock, calls, attempts, responses, timer, text, sound>>
  BY DEF Begin, StartExecutive, Finish, narration
<1>2. CallsAreCounted' /\ FallbackIsEarned'
  BY <1>1 DEF NarrativeInv, CallsAreCounted, FallbackIsEarned, BudgetSpent, Remaining
<1>3. NarrativeTypes' /\ CallsEndInTime' /\ AttemptsAnswered' /\ TextIsEarned'
  BY <1>1, NarrationsAreFinite
     DEF Begin, StartExecutive, Finish, narration, Moves, NarrativeInv, NarrativeTypes, Stages,
         CallsEndInTime, AttemptsAnswered, TextIsEarned, ExecutiveComesLast
<1>4. ExecutiveComesLast'
  BY <1>1, NarrationsAreFinite, SectionsAssumption
     DEF Begin, StartExecutive, Finish, narration, Moves, NarrativeInv, NarrativeTypes,
         ExecutiveComesLast, Narrations
<1> QED
  BY <1>2, <1>3, <1>4 DEF NarrativeInv

LEMMA NarrativeInvStep == NarrativeInv /\ [NarrativeNext]_narrativeVars => NarrativeInv'
<1> SUFFICES ASSUME NarrativeInv, [NarrativeNext]_narrativeVars PROVE NarrativeInv'
  OBVIOUS
<1>1. CASE UNCHANGED narrativeVars
  BY <1>1 DEF narrativeVars, narration, NarrativeInv, NarrativeTypes, CallsAreCounted,
              CallsEndInTime, AttemptsAnswered, TextIsEarned, ExecutiveComesLast,
              FallbackIsEarned, BudgetSpent, Remaining
<1> QED
  BY <1>1, ReserveKeeps, WritingKeeps, TickKeeps, RequestKeeps
     DEF NarrativeNext, Client, Provider

(* For any number of sections, whatever the provider does and the settings are:
   the calls of a request stay within its budget and are the attempts it reports,
   no call outlives its time, a fallback means that attempts or budget were used
   up, and what is published is validated in every part (GenerationBudget,
   generate_grounded_result, report_generator.py). *)
THEOREM NarrationsStayHonest == NarrativeSpec => []NarrationsAreHonest
<1>1. NarrativeInv => NarrationsAreHonest
  <2> SUFFICES ASSUME NarrativeInv PROVE NarrationsAreHonest
    OBVIOUS
  <2>1. BudgetRespected
    BY AttemptsAreSummed DEF NarrativeInv, NarrativeTypes, CallsAreCounted, CallsEndInTime,
                             BudgetRespected
  <2>2. PublishedIsGrounded
    <3> SUFFICES ASSUME request = "published", NEW g \in Narrations
                 PROVE  /\ progress[g] = "done"
                        /\ text[g] = "narrative" => responses[g] \in 1..attempts[g]
                        /\ text[g] = "fallback" => g \in sound
      BY DEF PublishedIsGrounded
    <3>1. progress[g] = "done"
      BY DEF NarrativeInv, ExecutiveComesLast, Narrations
    <3> QED
      BY <3>1 DEF NarrativeInv, NarrativeTypes, AttemptsAnswered, TextIsEarned
  <2> QED
    BY <2>1, <2>2 DEF NarrationsAreHonest, NarrativeInv
<1> QED
  BY <1>1, NarrativeInvInit, NarrativeInvStep, PTL DEF NarrativeSpec

-----------------------------------------------------------------------------
(* An answer's recommendations and its history paragraph come from one slice
   because the candidates are assembled from the slice that the draft holds. *)

(* Candidates with the statistics of one slice. *)
OfSlice(cs, slice) ==
  \A s \in DOMAIN cs :
    /\ cs[s].probability = IF slice = Void THEN Void ELSE slice.probability
    /\ cs[s].sample = IF slice = Void THEN Void ELSE slice.sample

LEMMA AssembledOfSlice == ASSUME NEW slice PROVE OfSlice(Assemble(slice), slice)
BY DEF OfSlice, Assemble

(* Analogues are evidence only when a slice was read, and are cited as read. *)
LEMMA CitedAsRead ==
  ASSUME NEW cs, NEW slice, OfSlice(cs, slice), NEW a \in DOMAIN cs,
         "analogues" \in Recommendation(cs, a).evidence
  PROVE  /\ slice # Void
         /\ Recommendation(cs, a).past = [f \in {"probability", "sample"} |-> slice[f]]
<1>1. Recommendation(cs, a).evidence = Evidence(cs[a])
  BY DEF Recommendation
<1>2. cs[a].probability # Void
  BY <1>1 DEF Evidence
<1>3. slice # Void /\ cs[a].probability = slice.probability /\ cs[a].sample = slice.sample
  BY <1>2 DEF OfSlice
<1>4. Recommendation(cs, a).past = [probability |-> slice.probability, sample |-> slice.sample]
  BY <1>3 DEF Recommendation
<1> QED
  BY <1>3, <1>4

(* Of the parts of an answer, only signals and a company cite recommendations. *)
LEMMA CitesCandidates ==
  ASSUME NEW q, NEW recent, NEW mine \in Belongings, NEW changes, NEW slice, NEW cs,
         NEW rec \in Draft(q, recent, mine, changes, slice, cs).cited
  PROVE  \E a \in DOMAIN cs : rec = Recommendation(cs, a)
<1> DEFINE topics == Topics(q, recent)
           about == (Everything \cap topics) \cup (IF Candidate(q, cs) THEN {"company"} ELSE {})
           part == [t \in about |->
             CASE t = "portfolio" -> PortfolioPart(mine.portfolio)
               [] t = "watchlist" -> WatchlistPart(mine.watched, changes)
               [] t = "market"    -> MarketPart(changes)
               [] t = "history"   -> HistoryPart(slice)
               [] t = "news"      -> NewsPart(mine.headline)
               [] t = "signals"   -> SignalsPart(cs)
               [] t = "company"   -> CompanyPart(cs, q.company, mine.headline)]
<1>1. Draft(q, recent, mine, changes, slice, cs).cited = UNION {part[t].cited : t \in about}
  BY DEF Draft
<1>2. PICK t \in about : rec \in part[t].cited
  <2> HIDE DEF about, part
  <2>1. rec \in UNION {part[t].cited : t \in about}
    BY <1>1
  <2> QED
    BY <2>1
<1>3. \A n, e, r : Part(n, e, r).cited = {}
  BY DEF Part
<1>4. /\ PortfolioPart(mine.portfolio).cited = {}
      /\ WatchlistPart(mine.watched, changes).cited = {}
      /\ MarketPart(changes).cited = {}
      /\ HistoryPart(slice).cited = {}
      /\ NewsPart(mine.headline).cited = {}
  BY <1>3, BelongingsAssumption
     DEF PortfolioPart, WatchlistPart, MarketPart, HistoryPart, NewsPart
<1>5. \A r \in SignalsPart(cs).cited : \E a \in DOMAIN cs : r = Recommendation(cs, a)
  BY DEF SignalsPart, Part, Judged
<1>6. CompanyPart(cs, q.company, mine.headline).cited = {Recommendation(cs, q.company)}
  BY DEF CompanyPart, Part
<1>7. CASE t = "company"
  <2>1. t \notin Everything
    BY <1>7 DEF Everything
  <2>2. Candidate(q, cs)
    BY <2>1
  <2>3. part[t] = CompanyPart(cs, q.company, mine.headline)
    BY <1>7
  <2> QED
    BY <1>2, <1>6, <2>2, <2>3 DEF Candidate
<1>8. CASE t \in Everything
  <2>1. CASE t = "signals"
    BY <1>2, <1>5, <2>1
  <2>2. CASE t # "signals"
    <3>1. t \in {"portfolio", "watchlist", "market", "history", "news"}
      BY <1>8, <2>2 DEF Everything
    <3>2. part[t].cited = {}
      <4> HIDE DEF about
      <4> QED
        BY <1>4, <3>1
    <3> QED
      BY <1>2, <3>2
  <2> QED
    BY <2>1, <2>2
<1> QED
  BY <1>2, <1>7, <1>8

Story(given) ==
  given # Void /\ "history" \in given.topics =>
    \A rec \in given.cited : "analogues" \in rec.evidence =>
      /\ given.history # Void
      /\ rec.past = [f \in {"probability", "sample"} |-> given.history[f]]

LEMMA DraftIsOneStory ==
  ASSUME NEW q, NEW recent, NEW mine \in Belongings, NEW changes, NEW slice
  PROVE  Story(Draft(q, recent, mine, changes, slice, Assemble(slice)))
<1> DEFINE cs == Assemble(slice)
           given == Draft(q, recent, mine, changes, slice, cs)
<1> SUFFICES ASSUME "history" \in given.topics,
                    NEW rec \in given.cited, "analogues" \in rec.evidence
             PROVE  /\ given.history # Void
                    /\ rec.past = [f \in {"probability", "sample"} |-> given.history[f]]
  BY DEF Story
<1>1. given.history = slice
  BY DEF Draft
<1>2. OfSlice(cs, slice)
  BY AssembledOfSlice
<1>3. PICK a \in DOMAIN cs : rec = Recommendation(cs, a)
  <2> HIDE DEF cs
  <2> QED
    BY CitesCandidates
<1> HIDE DEF cs, given
<1>4. slice # Void /\ rec.past = [f \in {"probability", "sample"} |-> slice[f]]
  BY <1>2, <1>3, CitedAsRead
<1> QED
  BY <1>1, <1>4

Reading == {"history", "market", "candidates"}

StoryInv ==
  /\ DOMAIN stage = Asks /\ DOMAIN draft = Asks
  /\ \A a \in Asks :
       /\ DOMAIN draft[a] = {"question", "recent", "mine", "slice", "changes", "answer"}
       /\ stage[a] \in Reading => draft[a].mine \in Belongings
       /\ Story(draft[a].answer)

LEMMA NoDraftIs ==
  /\ DOMAIN NoDraft = {"question", "recent", "mine", "slice", "changes", "answer"}
  /\ NoDraft.answer = Void /\ Story(NoDraft.answer)
BY DEF NoDraft, Story

LEMMA StoryInit == ResearchInit => StoryInv
BY NoDraftIs DEF ResearchInit, StoryInv, Reading

(* A step of one ask is about its own draft. *)
LEMMA OneDraft ==
  ASSUME StoryInv, NEW a \in Asks, NEW to, NEW d,
         stage' = [stage EXCEPT ![a] = to], draft' = [draft EXCEPT ![a] = d],
         DOMAIN d = {"question", "recent", "mine", "slice", "changes", "answer"},
         to \in Reading => d.mine \in Belongings, Story(d.answer)
  PROVE  StoryInv'
BY DEF StoryInv, Story

LEMMA StoryStep == StoryInv /\ [ResearchNext]_researchVars => StoryInv'
<1> SUFFICES ASSUME StoryInv, [ResearchNext]_researchVars PROVE StoryInv'
  OBVIOUS
<1>1. ASSUME NEW a \in Asks, Ask(a) PROVE StoryInv'
  <2>1. PICK q \in Questions, mine \in Belongings : \E recent :
          draft' = [draft EXCEPT ![a] =
            [NoDraft EXCEPT !.question = q, !.mine = mine, !.recent = recent]]
    BY <1>1 DEF Ask
  <2>2. PICK recent : draft' = [draft EXCEPT ![a] =
          [NoDraft EXCEPT !.question = q, !.mine = mine, !.recent = recent]]
    BY <2>1
  <2> DEFINE d == [NoDraft EXCEPT !.question = q, !.mine = mine, !.recent = recent]
  <2>3. /\ DOMAIN d = {"question", "recent", "mine", "slice", "changes", "answer"}
        /\ d.mine \in Belongings /\ d.answer = Void
    BY DEF NoDraft
  <2>4. stage' = [stage EXCEPT ![a] = "history"] /\ draft' = [draft EXCEPT ![a] = d]
    BY <1>1, <2>2 DEF Ask, Steps
  <2>5. Story(d.answer)
    BY <2>3 DEF Story
  <2> HIDE DEF d
  <2> QED
    BY <2>3, <2>4, <2>5, OneDraft
<1>2. ASSUME NEW a \in Asks, ReadHistorySlice(a) \/ ReadMarketSlice(a) PROVE StoryInv'
  BY <1>2 DEF ReadHistorySlice, ReadMarketSlice, Steps, StoryInv, Reading
<1>3. ASSUME NEW a \in Asks, ReadCandidates(a) PROVE StoryInv'
  <2> DEFINE d == Drafted(draft[a], Assemble(draft[a].slice))
  <2>1. /\ stage[a] \in Reading /\ stage' = [stage EXCEPT ![a] = "question"]
        /\ draft' = [draft EXCEPT ![a] = d]
    BY <1>3 DEF ReadCandidates, Steps, Reading
  <2>2. draft[a].mine \in Belongings
    BY <2>1 DEF StoryInv
  <2>3. /\ DOMAIN d = {"question", "recent", "mine", "slice", "changes", "answer"}
        /\ d.answer = Draft(draft[a].question, draft[a].recent, draft[a].mine,
                            draft[a].changes, draft[a].slice, Assemble(draft[a].slice))
    BY DEF Drafted, NoDraft
  <2>4. Story(d.answer)
    BY <2>2, <2>3, DraftIsOneStory
  <2> HIDE DEF d
  <2> QED
    BY <2>1, <2>3, <2>4, OneDraft DEF Reading
<1>4. ASSUME NEW a \in Asks, AddQuestion(a) \/ AddAnswer(a) PROVE StoryInv'
  BY <1>4 DEF AddQuestion, AddAnswer, Steps, StoryInv, Reading
<1>5. ASSUME NEW a \in Asks, CommitExchange(a) PROVE StoryInv'
  BY <1>5 DEF CommitExchange, Steps, StoryInv, Reading, Story
<1>6. ASSUME NEW a \in Asks, Abort(a) PROVE StoryInv'
  BY <1>6, NoDraftIs, OneDraft DEF Abort, Reading
<1>7. CASE UNCHANGED researchVars \/ StoreSession \/ PublishAnalogies \/ ClearHistory
  BY <1>7 DEF researchVars, StoreSession, PublishAnalogies, ClearHistory, StoryInv
<1> QED
  BY <1>1, <1>2, <1>3, <1>4, <1>5, <1>6, <1>7 DEF ResearchNext

(* For any questions, boards and statistics: an answer that shows analogues cites
   the ones it shows, however often an index is published while it is drafted
   (ChatService.ask, ContextBuilder). *)
THEOREM AnswersStayOneStory ==
  ResearchInit /\ [][ResearchNext]_researchVars => []AnswersTellOneStory
<1>1. StoryInv => AnswersTellOneStory
  BY DEF StoryInv, Story, AnswersTellOneStory
<1> QED
  BY <1>1, StoryInit, StoryStep, PTL

-----------------------------------------------------------------------------
(* The transcript.  An ask that has not answered has added nothing, or its
   question only; afterwards its question and answer have one fate. *)

Messages == [ask : Asks, role : {"user", "assistant"}, status : {"added", "committed", "gone"}]

IsExchange(a) ==
  \E i, j \in DOMAIN transcript :
    /\ i < j /\ MessagesOf(a) = {i, j}
    /\ transcript[i].role = "user" /\ transcript[j].role = "assistant"
    /\ transcript[i].status = transcript[j].status

AskIsWhole(a) ==
  /\ stage[a] \in Reading \cup {"idle", "question"} => MessagesOf(a) = {}
  /\ stage[a] = "answer" =>
       \E i \in DOMAIN transcript :
         MessagesOf(a) = {i} /\ transcript[i].role = "user" /\ transcript[i].status = "added"
  /\ stage[a] \in {"commit", "done"} => IsExchange(a)
  /\ stage[a] # "done" => \A i \in MessagesOf(a) : transcript[i].status # "committed"
  /\ stage[a] = "commit" => \A i \in MessagesOf(a) : transcript[i].status = "added"

TranscriptInv ==
  /\ transcript \in Seq(Messages) /\ DOMAIN stage = Asks
  /\ \A a \in Asks : AskIsWhole(a)

LEMMA TranscriptInit == ResearchInit => TranscriptInv
<1> SUFFICES ASSUME ResearchInit PROVE TranscriptInv
  OBVIOUS
<1>1. transcript = <<>> /\ \A a \in Asks : MessagesOf(a) = {} /\ stage[a] = "idle"
  BY DEF ResearchInit, MessagesOf
<1>2. \A a \in Asks : AskIsWhole(a)
  BY <1>1 DEF AskIsWhole
<1> QED
  BY <1>1, <1>2 DEF ResearchInit, TranscriptInv

(* An ask whose messages and stage stay is as whole as it was. *)
LEMMA OthersStayWhole ==
  ASSUME TranscriptInv, NEW b \in Asks, stage'[b] = stage[b], MessagesOf(b)' = MessagesOf(b),
         DOMAIN transcript \subseteq DOMAIN transcript',
         \A i \in MessagesOf(b) : transcript'[i] = transcript[i]
  PROVE  AskIsWhole(b)'
<1>1. AskIsWhole(b)
  BY DEF TranscriptInv
<1>2. MessagesOf(b) \subseteq DOMAIN transcript
  BY DEF MessagesOf
<1>3. IsExchange(b) => IsExchange(b)'
  BY <1>2 DEF IsExchange
<1> QED
  BY <1>1, <1>2, <1>3 DEF AskIsWhole

LEMMA MarkedIs ==
  ASSUME TranscriptInv, NEW places, NEW status \in {"added", "committed", "gone"},
         transcript' = Marked(places, status)
  PROVE  /\ transcript' \in Seq(Messages) /\ DOMAIN transcript' = DOMAIN transcript
         /\ \A i \in DOMAIN transcript :
              /\ transcript'[i].role = transcript[i].role
              /\ transcript'[i].status = IF i \in places THEN status ELSE transcript[i].status
              /\ i \notin places => transcript'[i] = transcript[i]
         /\ \A a : MessagesOf(a)' = MessagesOf(a)
<1> DEFINE n == Len(transcript)
<1>1. n \in Nat /\ DOMAIN transcript = 1..n /\ \A i \in 1..n : transcript[i] \in Messages
  BY DEF TranscriptInv
<1>2. transcript' = [i \in 1..n |-> IF i \in places THEN [transcript[i] EXCEPT !.status = status]
                                    ELSE transcript[i]]
  BY <1>1 DEF Marked
<1>3. \A i \in 1..n :
        /\ transcript'[i] \in Messages
        /\ transcript'[i].ask = transcript[i].ask /\ transcript'[i].role = transcript[i].role
        /\ transcript'[i].status = IF i \in places THEN status ELSE transcript[i].status
        /\ i \notin places => transcript'[i] = transcript[i]
  <2> SUFFICES ASSUME NEW i \in 1..n
               PROVE  /\ transcript'[i] \in Messages
                      /\ transcript'[i].ask = transcript[i].ask
                      /\ transcript'[i].role = transcript[i].role
                      /\ transcript'[i].status =
                           IF i \in places THEN status ELSE transcript[i].status
                      /\ i \notin places => transcript'[i] = transcript[i]
    OBVIOUS
  <2>1. transcript[i] \in Messages
    BY <1>1
  <2>2. transcript'[i] = IF i \in places THEN [transcript[i] EXCEPT !.status = status]
                         ELSE transcript[i]
    BY <1>2
  <2> QED
    BY <2>1, <2>2 DEF Messages
<1>4. transcript' \in [1..n -> Messages]
  BY <1>2, <1>3
<1>5. transcript' \in Seq(Messages) /\ DOMAIN transcript' = 1..n
  BY <1>1, <1>4
<1>6. \A a : MessagesOf(a)' = MessagesOf(a)
  BY <1>1, <1>3, <1>5 DEF MessagesOf
<1> QED
  BY <1>1, <1>3, <1>5, <1>6

LEMMA AppendedIs ==
  ASSUME TranscriptInv, NEW a \in Asks, NEW role \in {"user", "assistant"},
         transcript' = Append(transcript, Message(a, role))
  PROVE  LET next == Len(transcript) + 1 IN
         /\ next \in Nat /\ \A i \in DOMAIN transcript : i < next
         /\ transcript' \in Seq(Messages) /\ DOMAIN transcript' = DOMAIN transcript \cup {next}
         /\ transcript'[next] = Message(a, role)
         /\ \A i \in DOMAIN transcript : transcript'[i] = transcript[i]
         /\ MessagesOf(a)' = MessagesOf(a) \cup {next}
         /\ \A b \in Asks \ {a} : MessagesOf(b)' = MessagesOf(b)
<1> DEFINE n == Len(transcript)
<1>1. n \in Nat /\ DOMAIN transcript = 1..n /\ transcript \in Seq(Messages)
  BY DEF TranscriptInv
<1>2. Message(a, role) \in Messages /\ Message(a, role).ask = a
  BY DEF Message, Messages
<1>3. /\ transcript' \in Seq(Messages) /\ DOMAIN transcript' = 1..(n + 1)
      /\ transcript'[n + 1] = Message(a, role)
      /\ \A i \in 1..n : transcript'[i] = transcript[i]
  BY <1>1, <1>2
<1>4. 1..(n + 1) = 1..n \cup {n + 1} /\ n + 1 \notin 1..n
  BY <1>1
<1>5. MessagesOf(a)' = MessagesOf(a) \cup {n + 1}
  BY <1>1, <1>2, <1>3, <1>4 DEF MessagesOf
<1>6. \A b \in Asks \ {a} : MessagesOf(b)' = MessagesOf(b)
  BY <1>1, <1>2, <1>3, <1>4 DEF MessagesOf
<1> QED
  BY <1>1, <1>3, <1>4, <1>5, <1>6

LEMMA TranscriptStep == TranscriptInv /\ [ResearchNext]_researchVars => TranscriptInv'
<1> SUFFICES ASSUME TranscriptInv, [ResearchNext]_researchVars PROVE TranscriptInv'
  OBVIOUS
<1>0. /\ DOMAIN stage = Asks /\ \A b \in Asks : AskIsWhole(b)
      /\ \A b : MessagesOf(b) \subseteq DOMAIN transcript
  BY DEF TranscriptInv, MessagesOf
<1>1. ASSUME NEW a \in Asks, AddQuestion(a) \/ AddAnswer(a) PROVE TranscriptInv'
  <2>1. PICK role \in {"user", "assistant"} :
          /\ transcript' = Append(transcript, Message(a, role))
          /\ role = "user" => stage[a] = "question" /\ stage' = [stage EXCEPT ![a] = "answer"]
          /\ role = "assistant" => stage[a] = "answer" /\ stage' = [stage EXCEPT ![a] = "commit"]
    BY <1>1 DEF AddQuestion, AddAnswer, Steps
  <2> DEFINE last == Len(transcript) + 1
  <2>2. /\ last \in Nat /\ \A i \in DOMAIN transcript : i < last
        /\ transcript' \in Seq(Messages) /\ DOMAIN transcript' = DOMAIN transcript \cup {last}
        /\ transcript'[last] = Message(a, role)
        /\ \A i \in DOMAIN transcript : transcript'[i] = transcript[i]
        /\ MessagesOf(a)' = MessagesOf(a) \cup {last}
        /\ \A b \in Asks \ {a} : MessagesOf(b)' = MessagesOf(b)
    BY <2>1, AppendedIs
  <2> HIDE DEF last
  <2>3. transcript'[last].role = role /\ transcript'[last].status = "added"
    BY <2>2 DEF Message
  <2>4. ASSUME NEW b \in Asks \ {a} PROVE AskIsWhole(b)'
    BY <1>0, <2>1, <2>2, <2>4, OthersStayWhole
  <2>5. CASE role = "user"
    <3>1. MessagesOf(a)' = {last} /\ stage'[a] = "answer"
      BY <1>0, <2>1, <2>2, <2>5 DEF AskIsWhole
    <3>2. AskIsWhole(a)'
      BY <2>2, <2>3, <2>5, <3>1 DEF AskIsWhole, Reading
    <3> QED
      BY <1>0, <2>1, <2>2, <2>4, <2>5, <3>2 DEF TranscriptInv
  <2>6. CASE role = "assistant"
    <3>1. stage'[a] = "commit"
      BY <1>0, <2>1, <2>6
    <3>2. PICK i \in DOMAIN transcript :
            MessagesOf(a) = {i} /\ transcript[i].role = "user" /\ transcript[i].status = "added"
      BY <1>0, <2>1, <2>6 DEF AskIsWhole
    <3>3. MessagesOf(a)' = {i, last} /\ i < last /\ transcript'[i] = transcript[i]
      BY <2>2, <3>2
    <3>4. IsExchange(a)'
      BY <2>2, <2>3, <2>6, <3>2, <3>3 DEF IsExchange
    <3>5. AskIsWhole(a)'
      BY <2>3, <3>1, <3>2, <3>3, <3>4 DEF AskIsWhole, Reading
    <3> QED
      BY <1>0, <2>1, <2>2, <2>4, <2>6, <3>5 DEF TranscriptInv
  <2> QED
    BY <2>5, <2>6
<1>2. ASSUME NEW a \in Asks, NEW to, NEW status \in {"committed", "gone"},
             stage' = [stage EXCEPT ![a] = to], transcript' = Marked(MessagesOf(a), status),
             \/ to = "failed" /\ status = "gone"
             \/ to = "done" /\ status = "committed" /\ stage[a] = "commit"
      PROVE  TranscriptInv'
  <2>1. /\ transcript' \in Seq(Messages) /\ DOMAIN transcript' = DOMAIN transcript
        /\ \A i \in DOMAIN transcript :
             /\ transcript'[i].role = transcript[i].role
             /\ i \in MessagesOf(a) => transcript'[i].status = status
             /\ i \notin MessagesOf(a) => transcript'[i] = transcript[i]
        /\ \A b : MessagesOf(b)' = MessagesOf(b)
    BY <1>2, MarkedIs
  <2>2. ASSUME NEW b \in Asks \ {a} PROVE AskIsWhole(b)'
    <3>1. MessagesOf(b) \cap MessagesOf(a) = {}
      BY DEF MessagesOf
    <3> QED
      BY <1>0, <1>2, <2>1, <3>1, OthersStayWhole
  <2>3. AskIsWhole(a)'
    <3>1. stage'[a] = to
      BY <1>0, <1>2
    <3>2. stage[a] = "commit" => IsExchange(a)'
      <4>1. stage[a] = "commit" => IsExchange(a)
        BY <1>0 DEF AskIsWhole
      <4> QED
        BY <2>1, <4>1 DEF IsExchange
    <3>3. \A i \in MessagesOf(a)' : transcript'[i].status = status
      BY <1>0, <2>1
    <3> QED
      BY <1>2, <3>1, <3>2, <3>3 DEF AskIsWhole, Reading
  <2> QED
    BY <1>0, <1>2, <2>1, <2>2, <2>3 DEF TranscriptInv
<1>3. CASE ClearHistory
  <2>1. stage' = stage /\ transcript' = Marked(Visible, "gone")
    BY <1>3 DEF ClearHistory
  <2>2. /\ transcript' \in Seq(Messages) /\ DOMAIN transcript' = DOMAIN transcript
        /\ \A i \in DOMAIN transcript :
             /\ transcript'[i].role = transcript[i].role
             /\ transcript'[i].status =
                  IF transcript[i].status = "committed" THEN "gone" ELSE transcript[i].status
        /\ \A b : MessagesOf(b)' = MessagesOf(b)
    <3>1. /\ transcript' \in Seq(Messages) /\ DOMAIN transcript' = DOMAIN transcript
          /\ \A i \in DOMAIN transcript :
               /\ transcript'[i].role = transcript[i].role
               /\ transcript'[i].status = IF i \in Visible THEN "gone" ELSE transcript[i].status
          /\ \A b : MessagesOf(b)' = MessagesOf(b)
      BY <2>1, MarkedIs
    <3>2. \A i \in DOMAIN transcript : i \in Visible <=> transcript[i].status = "committed"
      BY DEF Visible
    <3> QED
      BY <3>1, <3>2
  <2>3. ASSUME NEW b \in Asks PROVE AskIsWhole(b)'
    <3>1. AskIsWhole(b) /\ MessagesOf(b) \subseteq DOMAIN transcript
      BY <1>0
    <3>2. IsExchange(b) => IsExchange(b)'
      BY <2>2 DEF IsExchange
    <3> QED
      BY <2>1, <2>2, <3>1, <3>2 DEF AskIsWhole
  <2> QED
    BY <1>0, <2>1, <2>2, <2>3 DEF TranscriptInv
<1>4. ASSUME NEW a \in Asks, NEW to \in Reading \cup {"question"},
             stage[a] \in Reading \cup {"idle"}, stage' = [stage EXCEPT ![a] = to],
             transcript' = transcript
      PROVE  TranscriptInv'
  <2>1. ASSUME NEW b \in Asks PROVE AskIsWhole(b)'
    <3>1. AskIsWhole(b) /\ MessagesOf(b)' = MessagesOf(b)
      BY <1>0, <1>4 DEF MessagesOf
    <3>2. CASE b = a
      <4>1. MessagesOf(b)' = {} /\ stage'[b] = to
        BY <1>0, <1>4, <3>1, <3>2 DEF AskIsWhole
      <4> QED
        BY <1>4, <4>1 DEF AskIsWhole, Reading
    <3>3. CASE b # a
      BY <1>0, <1>4, <3>1, <3>3, OthersStayWhole
    <3> QED
      BY <3>2, <3>3
  <2> QED
    BY <1>0, <1>4, <2>1 DEF TranscriptInv
<1>5. CASE UNCHANGED <<stage, transcript>>
  BY <1>5 DEF TranscriptInv, AskIsWhole, IsExchange, MessagesOf
<1>6. ASSUME NEW a \in Asks, Ask(a) \/ ReadHistorySlice(a) \/ ReadMarketSlice(a) \/ ReadCandidates(a)
      PROVE  TranscriptInv'
  BY <1>4, <1>6 DEF Ask, ReadHistorySlice, ReadMarketSlice, ReadCandidates, Steps, Reading
<1>7. ASSUME NEW a \in Asks, CommitExchange(a) \/ Abort(a) PROVE TranscriptInv'
  BY <1>2, <1>7 DEF CommitExchange, Abort, Steps
<1> QED
  BY <1>1, <1>3, <1>5, <1>6, <1>7 DEF ResearchNext, researchVars, StoreSession, PublishAnalogies

(* However asks overlap, fail between their two messages, or are cleared away:
   what can be read of the conversation is questions, each with its answer after
   it (ChatService.ask, clear_history). *)
THEOREM ExchangesStayWhole ==
  ResearchInit /\ [][ResearchNext]_researchVars => []ExchangesAreWhole
<1>1. TranscriptInv => ExchangesAreWhole
  <2> SUFFICES ASSUME TranscriptInv, NEW i \in Visible
               PROVE  \E j \in Visible :
                        /\ transcript[j].ask = transcript[i].ask
                        /\ transcript[j].role # transcript[i].role
                        /\ transcript[i].role = "user" <=> i < j
    BY DEF ExchangesAreWhole
  <2> DEFINE a == transcript[i].ask
  <2>1. i \in DOMAIN transcript /\ transcript[i].status = "committed" /\ DOMAIN transcript \subseteq Int
    BY DEF Visible, TranscriptInv
  <2>2. a \in Asks /\ i \in MessagesOf(a)
    <3>1. transcript \in Seq(Messages)
      BY DEF TranscriptInv
    <3>2. transcript[i] \in Messages
      BY <2>1, <3>1
    <3> QED
      BY <2>1, <3>2 DEF Messages, MessagesOf
  <2>3. IsExchange(a)
    BY <2>1, <2>2 DEF TranscriptInv, AskIsWhole
  <2>4. PICK k, j \in DOMAIN transcript :
          /\ k < j /\ MessagesOf(a) = {k, j}
          /\ transcript[k].role = "user" /\ transcript[j].role = "assistant"
          /\ transcript[k].status = transcript[j].status
    BY <2>3 DEF IsExchange
  <2>5. /\ k \in Visible /\ j \in Visible
        /\ transcript[k].ask = a /\ transcript[j].ask = a /\ i \in {k, j}
    BY <2>1, <2>2, <2>4 DEF Visible, MessagesOf
  <2> HIDE DEF a
  <2>6. CASE i = k
    BY <2>4, <2>5, <2>6 DEF a
  <2>7. CASE i = j
    <3>1. ~ (i < k)
      BY <2>1, <2>4, <2>7
    <3> QED
      BY <2>4, <2>5, <2>7, <3>1 DEF a
  <2> QED
    BY <2>5, <2>6, <2>7
<1> QED
  BY <1>1, TranscriptInit, TranscriptStep, PTL

-----------------------------------------------------------------------------
(* A pick can be explained because every component of its score that is not zero
   is one of its facts. *)

(* A candidate with whatever may be known of it. *)
Candidates(c) ==
  /\ \A f \in {"change", "rsi", "ema20", "ema50", "macd", "atr", "sentiment", "sector"} :
       c[f] \in Int \cup {Void}
  /\ c.change = Void => c.atr = Void
  /\ c.probability # Void => c.probability \in 0..100 /\ c.sample \in Nat \ {0}

LEMMA ClampIs ==
  ASSUME NEW x \in Int, NEW low \in Int, NEW high \in Int, low <= high
  PROVE  /\ Clamp(x, low, high) \in low..high
         /\ x \in low..high => Clamp(x, low, high) = x
         /\ Clamp(x, low, high) = IF x < low THEN low ELSE IF x > high THEN high ELSE x
<1> DEFINE least == Min({x, high})
<1>1. least \in {x, high} /\ least <= x /\ least <= high
  BY Pair
<1> HIDE DEF least
<1> DEFINE most == Max({low, least})
<1>2. most \in {low, least} /\ most >= low /\ most >= least
  BY <1>1, Pair
<1>3. Clamp(x, low, high) = most
  BY DEF Clamp, least
<1> HIDE DEF most
<1> QED
  BY <1>1, <1>2, <1>3

(* A score is a whole number, and zero when nothing is known. *)
LEMMA ScoreIs ==
  ASSUME NEW c, Candidates(c)
  PROVE  /\ Score(c) \in Int
         /\ (\A f \in {"change", "rsi", "ema20", "macd", "atr", "sector", "probability"} :
               c[f] = Void) /\ Or0(c.sentiment) = 0 => Score(c) = 0
<1> DEFINE unit(x) == Clamp(x, -300, 300)
           rsi == IF c.rsi \in {Void, 0} THEN 0 ELSE unit((c.rsi - 50) * 6)
           macd == IF Or0(c.macd) > 0 THEN 150 ELSE IF Or0(c.macd) < 0 THEN -150 ELSE 0
           past == IF c.probability = Void THEN 0 ELSE unit((c.probability - 50) * 6)
           trend == unit(Or0(c.ema20) * 60)
           momentum == unit(Or0(c.change) * 100)
           sector == unit(Or0(c.sector) * 100)
           sentiment == unit(Or0(c.sentiment) * 3)
           volatility == Clamp(Or0(c.atr) * 60, 0, 300)
<1>1. \A x \in Int : unit(x) \in Int /\ (x = 0 => unit(x) = 0)
  BY ClampIs
<1>2. Clamp(0, 0, 300) = 0 /\ \A x \in Int : Clamp(x, 0, 300) \in Int
  BY ClampIs
<1>3. \A f \in {"change", "ema20", "macd", "atr", "sentiment", "sector"} :
        Or0(c[f]) \in Int /\ (c[f] = Void => Or0(c[f]) = 0)
  BY DEF Candidates, Or0
<1>4. c.rsi \in Int \cup {Void} /\ c.probability \in Int \cup {Void}
  BY DEF Candidates
<1>5. Score(c) = 10 * (rsi + trend + macd) + 20 * momentum + 15 * sector + 20 * sentiment
                 + 15 * past - 10 * volatility
  BY DEF Score
<1> HIDE DEF unit
<1>6. /\ rsi \in Int /\ macd \in Int /\ past \in Int /\ trend \in Int /\ momentum \in Int
      /\ sector \in Int /\ sentiment \in Int /\ volatility \in Int
  <2>1. rsi \in Int /\ past \in Int /\ macd \in Int
    BY <1>1, <1>4
  <2>2. /\ Or0(c.ema20) * 60 \in Int /\ Or0(c.change) * 100 \in Int /\ Or0(c.sector) * 100 \in Int
        /\ Or0(c.sentiment) * 3 \in Int /\ Or0(c.atr) * 60 \in Int
    BY <1>3
  <2> QED
    BY <1>1, <1>2, <2>1, <2>2
<1>7. ASSUME \A f \in {"change", "rsi", "ema20", "macd", "atr", "sector", "probability"} :
               c[f] = Void, Or0(c.sentiment) = 0
      PROVE  /\ rsi = 0 /\ macd = 0 /\ past = 0 /\ trend = 0 /\ momentum = 0
             /\ sector = 0 /\ sentiment = 0 /\ volatility = 0
  <2>1. /\ Or0(c.ema20) = 0 /\ Or0(c.change) = 0 /\ Or0(c.sector) = 0 /\ Or0(c.atr) = 0
        /\ Or0(c.macd) = 0
    BY <1>3, <1>7
  <2> QED
    BY <1>1, <1>2, <1>7, <2>1
<1> HIDE DEF rsi, macd, past, trend, momentum, sector, sentiment, volatility
<1> QED
  BY <1>5, <1>6, <1>7

LEMMA PickHasEvidence ==
  ASSUME NEW c, Candidates(c), Verdict(Score(c)) # "hold"
  PROVE  Evidence(c) # {}
<1> SUFFICES ASSUME Evidence(c) = {} PROVE FALSE
  OBVIOUS
<1>1. \A f \in {"rsi", "ema20", "macd", "change", "sector"} : c[f] = Void
  BY DEF Evidence
<1>2. Or0(c.sentiment) = 0
  BY DEF Evidence
<1>3. c.probability = Void
  BY DEF Evidence, Candidates
<1>4. c.atr = Void
  BY <1>1 DEF Candidates
<1>5. Score(c) = 0
  BY <1>1, <1>2, <1>3, <1>4, ScoreIs
<1> QED
  BY <1>5 DEF Verdict, One

LEMMA PickHasRisks == ASSUME NEW c PROVE Risks(c) # {}
BY DEF Risks

(* What is to be watched is surer than what is to be avoided, whatever the one
   slice of analogues adds to both. *)
LEMMA WatchedIsSurer ==
  ASSUME NEW c, NEW d, Candidates(c), Candidates(d), c.probability = d.probability,
         Verdict(Score(c)) = "watch", Verdict(Score(d)) = "avoid"
  PROVE  Score(c) > Score(d) /\ Confidence(c) > Confidence(d)
<1> DEFINE p == c.probability
           adjustment == IF p = Void THEN 0 ELSE (One \div 5) * (p - 50)
           x == 50 * One + 40 * Score(c) + adjustment
           y == 50 * One + 40 * Score(d) + adjustment
           u == Clamp(x, 5 * One, 95 * One)
           v == Clamp(y, 5 * One, 95 * One)
<1>1. Score(c) \in Int /\ Score(d) \in Int
  BY ScoreIs
<1>2. 10 * Score(c) >= 30000 /\ 10 * Score(d) <= -30000
  BY <1>1 DEF Verdict, One
<1>3. adjustment \in Int /\ -300000 <= adjustment /\ adjustment <= 300000
  <2>1. p = Void \/ p \in 0..100
    BY DEF Candidates
  <2>2. One \div 5 = 6000
    BY DEF One
  <2>3. CASE p = Void
    BY <2>3
  <2>4. CASE p # Void /\ p \in 0..100
    <3>1. adjustment = 6000 * (p - 50)
      BY <2>2, <2>4
    <3> HIDE DEF p, adjustment
    <3> QED
      BY <2>4, <3>1
  <2> HIDE DEF adjustment, p
  <2> QED
    BY <2>1, <2>3, <2>4
<1>4. Confidence(c) = (u + 15000) \div 30000 /\ Confidence(d) = (v + 15000) \div 30000
  BY DEF Confidence, One
<1> HIDE DEF adjustment
<1>5. x \in Int /\ y \in Int /\ x >= 1320000 /\ y <= 1680000 /\ x - y >= 240000
  <2> DEFINE s == Score(c)
             t == Score(d)
  <2>1. s \in Int /\ t \in Int /\ 10 * s >= 30000 /\ 10 * t <= -30000
    BY <1>1, <1>2
  <2>2. x = 1500000 + 40 * s + adjustment /\ y = 1500000 + 40 * t + adjustment
    BY DEF One
  <2> HIDE DEF s, t, x, y
  <2> QED
    BY <1>3, <2>1, <2>2
<1> HIDE DEF x, y
<1>6. /\ u = IF x < 150000 THEN 150000 ELSE IF x > 2850000 THEN 2850000 ELSE x
      /\ v = IF y < 150000 THEN 150000 ELSE IF y > 2850000 THEN 2850000 ELSE y
  BY <1>5, ClampIs DEF One
<1> HIDE DEF u, v
<1>7. u \in Nat /\ v \in Nat /\ u >= v + 30000
  BY <1>5, <1>6
<1> QED
  BY <1>1, <1>2, <1>4, <1>7

(* The higher score comes first. *)
LEMMA HigherIsPlacedFirst ==
  ASSUME NEW cs, IsFiniteSet(DOMAIN cs), DOMAIN cs \subseteq Int,
         \A s \in DOMAIN cs : Score(cs[s]) \in Int,
         NEW up \in DOMAIN cs, NEW down \in DOMAIN cs, Score(cs[up]) > Score(cs[down])
  PROVE  Place(cs, up) < Place(cs, down)
<1> DEFINE before(a) == {b \in DOMAIN cs : RankedBefore(cs, b, a)}
<1>1. before(up) \subseteq before(down) \ {up}
  BY DEF RankedBefore
<1>2. up \in before(down)
  BY DEF RankedBefore
<1>3. IsFiniteSet(before(down)) /\ IsFiniteSet(before(down) \ {up})
  BY FS_Subset
<1>4. /\ Cardinality(before(up)) <= Cardinality(before(down) \ {up})
      /\ Cardinality(before(up)) \in Nat
  BY <1>1, <1>3, FS_Subset, FS_CardinalityType
<1>5. /\ Cardinality(before(down) \ {up}) = Cardinality(before(down)) - 1
      /\ Cardinality(before(down)) \in Nat
  BY <1>2, <1>3, FS_RemoveElement, FS_CardinalityType
<1>6. Place(cs, up) = Cardinality(before(up)) + 1 /\ Place(cs, down) = Cardinality(before(down)) + 1
  BY DEF Place
<1> HIDE DEF before
<1> QED
  BY <1>4, <1>5, <1>6

(* What is read of the market: of a quoted company its facts, and the statistics
   of an index that was published. *)
Quoted(facts) ==
  /\ \A f \in {"change", "rsi", "ema20", "ema50", "macd", "atr", "sentiment"} :
       f \in DOMAIN facts /\ facts[f] \in Int \cup {Void}
  /\ facts.change = Void => facts.atr = Void

Counted(slice) ==
  /\ slice.sample \in Nat
  /\ slice.probability \in IF slice.sample = 0 THEN {Void} ELSE 0..100

MarketInv ==
  /\ \A s \in Companies : rows[s] # Void => Quoted(rows[s])
  /\ analogy # Void => Counted(analogy)

LEMMA AverageIs ==
  ASSUME NEW P, IsFiniteSet(P), P # {}, \A t \in P : rows[t].change \in Int
  PROVE  MapThenSumSet(LAMBDA t : rows[t].change, P) \div Cardinality(P) \in Int
<1> DEFINE f == [t \in P |-> rows[t].change]
           total == MapThenSumSet(LAMBDA t : rows[t].change, P)
<1>1. ASSUME NEW h
      PROVE  h = [s \in SUBSET P |-> IF s = {} THEN 0
                                     ELSE rows[Chosen(s)].change + h[s \ {Chosen(s)}]]
             <=> Sums(h, f, P)
  <2>1. \A s \in SUBSET P : s # {} => f[Chosen(s)] = rows[Chosen(s)].change
    BY ChosenIsIn
  <2> HIDE DEF f
  <2>2. [s \in SUBSET P |-> IF s = {} THEN 0
                            ELSE rows[Chosen(s)].change + h[s \ {Chosen(s)}]]
        = [s \in SUBSET P |-> IF s = {} THEN 0 ELSE f[Chosen(s)] + h[s \ {Chosen(s)}]]
    BY <2>1
  <2> QED
    BY <2>2 DEF Sums
<1>2. (CHOOSE h : h = [s \in SUBSET P |-> IF s = {} THEN 0
                                          ELSE rows[Chosen(s)].change + h[s \ {Chosen(s)}]])
      = CHOOSE h : Sums(h, f, P)
  BY <1>1
<1>3. total = Sum(f, P)
  BY <1>2 DEF MapThenSumSet, MapThenFoldSet, Sum, Chosen
<1>4. total \in Int
  BY <1>3, SumType
<1> DEFINE n == Cardinality(P)
<1>5. n \in Nat \ {0}
  BY FS_CardinalityType, FS_EmptySet
<1> HIDE DEF total, n
<1>6. total \div n \in Int
  BY <1>4, <1>5
<1> QED
  BY <1>6 DEF total, n

LEMMA AssembledAreCandidates ==
  ASSUME MarketInv
  PROVE  /\ DOMAIN Assemble(analogy) \subseteq Companies
         /\ \A s \in DOMAIN Assemble(analogy) : Candidates(Assemble(analogy)[s])
         /\ \A s, t \in DOMAIN Assemble(analogy) :
              Assemble(analogy)[s].probability = Assemble(analogy)[t].probability
<1> DEFINE quoted == {s \in Companies : rows[s] # Void}
           moved == {s \in quoted : rows[s].change # Void}
           peers(s) == {t \in moved : Field[t] = Field[s]}
           sector(s) == IF Field[s] = Void \/ peers(s) = {} THEN Void
                        ELSE MapThenSumSet(LAMBDA t : rows[t].change, peers(s))
                             \div Cardinality(peers(s))
           known(f) == IF analogy = Void THEN Void ELSE analogy[f]
           one(s) == [f \in DOMAIN rows[s] \cup {"sector", "probability", "sample"} |->
                        CASE f = "sector" -> sector(s)
                          [] f \in {"probability", "sample"} -> known(f)
                          [] OTHER -> rows[s][f]]
           cs == Assemble(analogy)
<1>1. DOMAIN cs = quoted /\ \A s \in quoted : cs[s] = one(s)
  BY DEF Assemble
<1>2. ASSUME NEW s \in quoted PROVE sector(s) \in Int \cup {Void}
  <2> SUFFICES ASSUME peers(s) # {} PROVE sector(s) \in Int \cup {Void}
    OBVIOUS
  <2>1. IsFiniteSet(peers(s)) /\ \A t \in peers(s) : rows[t].change \in Int
    BY CompaniesAssumption, FS_Subset DEF MarketInv, Quoted
  <2> HIDE DEF peers
  <2> QED
    BY <2>1, AverageIs
<1> HIDE DEF sector, cs
<1>3. ASSUME NEW s \in quoted
      PROVE  /\ cs[s].sector = sector(s)
             /\ cs[s].probability = known("probability") /\ cs[s].sample = known("sample")
             /\ \A f \in {"change", "rsi", "ema20", "ema50", "macd", "atr", "sentiment"} :
                  cs[s][f] = rows[s][f]
  <2>1. rows[s] # Void /\ Quoted(rows[s]) /\ cs[s] = one(s)
    BY <1>1 DEF MarketInv
  <2>2. ASSUME NEW f \in {"change", "rsi", "ema20", "ema50", "macd", "atr", "sentiment"}
        PROVE  cs[s][f] = rows[s][f]
    <3>1. f \in DOMAIN rows[s] /\ f \notin {"sector", "probability", "sample"}
      BY <2>1 DEF Quoted
    <3> HIDE DEF known
    <3> QED
      BY <2>1, <3>1
  <2>3. /\ one(s)["sector"] = sector(s) /\ one(s)["probability"] = known("probability")
        /\ one(s)["sample"] = known("sample")
    <3> HIDE DEF known
    <3> QED
      OBVIOUS
  <2> HIDE DEF one, known
  <2> QED
    BY <2>1, <2>2, <2>3
<1>4. ASSUME NEW s \in quoted PROVE Candidates(cs[s])
  <2>1. \A f \in {"change", "rsi", "ema20", "ema50", "macd", "atr", "sentiment"} :
          cs[s][f] \in Int \cup {Void}
    BY <1>3 DEF MarketInv, Quoted
  <2>2. cs[s].change = Void => cs[s].atr = Void
    BY <1>3 DEF MarketInv, Quoted
  <2>3. known("probability") # Void => known("probability") \in 0..100 /\ known("sample") \in Nat \ {0}
    BY DEF MarketInv, Counted
  <2> HIDE DEF known
  <2> QED
    BY <1>2, <1>3, <2>1, <2>2, <2>3 DEF Candidates
<1> QED
  BY <1>1, <1>3, <1>4 DEF cs

-----------------------------------------------------------------------------
(* The deterministic texts name what their prompt holds. *)
LEMMA SectionsArePublishable ==
  ASSUME NEW changes, NEW slice, slice # Void => Counted(slice),
         NEW portfolio \in {Void, "empty", "unpriced", "valued"},
         NEW section \in SectionsOf(changes, slice, portfolio)
  PROVE  Publishable(section)
<1>1. Publishable(MarketSection(changes))
  BY DEF Publishable, Grounded, MarketSection, Text
<1>2. CASE slice # Void /\ section = HistoricalSection(slice)
  <2>1. CASE slice.sample = 0
    <3>1. /\ section.facts.kind = "historical" /\ section.facts.sample = 0
          /\ section.text = Text({}, {"historical"})
      BY <1>2, <2>1 DEF HistoricalSection
    <3>2. ~ 0 > 0
      OBVIOUS
    <3> HIDE <1>2
    <3> QED
      BY <3>1, <3>2 DEF Publishable, Grounded, Text
  <2>2. CASE slice.sample # 0
    <3>1. slice.probability # Void
      BY <1>2, <2>2, CompaniesAssumption DEF Counted
    <3>2. /\ section.facts = [kind |-> "historical", sample |-> slice.sample,
                              figures |-> {"sample"} \cup {"probability", "average"}]
          /\ section.text = Text({"sample", "probability", "average"}, {"historical", "forecast"})
      BY <1>2, <2>2, <3>1 DEF HistoricalSection
    <3> QED
      BY <3>2 DEF Publishable, Grounded, Text
  <2> QED
    BY <2>1, <2>2
<1>3. CASE section = PortfolioSection(portfolio)
  BY <1>3 DEF Publishable, Grounded, PortfolioSection, Text
<1> QED
  BY <1>1, <1>2, <1>3 DEF SectionsOf

LEMMA SummaryIsPublishable ==
  ASSUME NEW texts, NEW one \in texts, NEW word \in one.words
  PROVE  Publishable(ExecutiveSummary(texts))
BY DEF Publishable, Grounded, ExecutiveSummary, Text

LEMMA ExplanationIsPublishable ==
  ASSUME NEW r, r.evidence # {}, r.risks # {}
  PROVE  Publishable(Explanation(r))
BY DEF Publishable, Grounded, Explanation, Text

(* Whatever is known of the market and of the stocks, for any rows, statistics
   and number of picks: the deterministic text of every section, of the summary
   and of every pick passes the validator that refuses an ungrounded one, and the
   watched are surer and ranked higher than the avoided (prompt_builder.py,
   explainability.py, recommendation_engine.py). *)
THEOREM PicksStayExplained ==
  ResearchInit /\ [][ResearchNext]_researchVars => []PicksAreExplained
<1>1. ResearchInit => MarketInv
  BY DEF ResearchInit, MarketInv
<1>2. MarketInv /\ [ResearchNext]_researchVars => MarketInv'
  <2> SUFFICES ASSUME MarketInv, [ResearchNext]_researchVars PROVE MarketInv'
    OBVIOUS
  <2>1. CASE StoreSession
    BY <2>1, BoardsAssumption DEF StoreSession, MarketInv, Quoted
  <2>2. CASE PublishAnalogies
    BY <2>2, AnalogiesAssumption DEF PublishAnalogies, MarketInv, Counted
  <2>3. CASE UNCHANGED <<rows, analogy>>
    BY <2>3 DEF MarketInv
  <2> QED
    BY <2>1, <2>2, <2>3 DEF ResearchNext, researchVars, ClearHistory, Ask, ReadHistorySlice,
         ReadMarketSlice, ReadCandidates, AddQuestion, AddAnswer, CommitExchange, Abort
<1>3. MarketInv => PicksAreExplained
  <2> DEFINE cs == Assemble(analogy)
             changes == [s \in Companies |-> IF rows[s] = Void THEN Void ELSE rows[s].change]
             told(portfolio) == SectionsOf(changes, analogy, portfolio)
  <2> SUFFICES ASSUME MarketInv
               PROVE  /\ \A portfolio \in {Void, "empty", "unpriced", "valued"} :
                           /\ \A section \in told(portfolio) \cup Explained(cs) : Publishable(section)
                           /\ Publishable(ExecutiveSummary({section.text : section \in told(portfolio)}))
                      /\ \A s \in Picks(cs) : Evidence(cs[s]) # {} /\ Risks(cs[s]) # {}
                      /\ \A up \in Judged(cs, "watch"), down \in Judged(cs, "avoid") :
                           Confidence(cs[up]) > Confidence(cs[down]) /\ Place(cs, up) < Place(cs, down)
    BY DEF PicksAreExplained
  <2>1. /\ DOMAIN cs \subseteq Companies /\ IsFiniteSet(DOMAIN cs)
        /\ \A s \in DOMAIN cs : Candidates(cs[s]) /\ Score(cs[s]) \in Int
        /\ \A s, t \in DOMAIN cs : cs[s].probability = cs[t].probability
    BY AssembledAreCandidates, CompaniesAssumption, FS_Subset, ScoreIs
  <2>2. analogy # Void => Counted(analogy)
    BY DEF MarketInv
  <2> HIDE DEF cs, changes
  <2>3. \A s \in Picks(cs) : s \in DOMAIN cs /\ Verdict(Score(cs[s])) # "hold"
    BY DEF Picks, Watchlist, Judged
  <2>4. \A s \in Picks(cs) : Evidence(cs[s]) # {} /\ Risks(cs[s]) # {}
    BY <2>1, <2>3, PickHasEvidence, PickHasRisks
  <2>5. \A section \in Explained(cs) : Publishable(section)
    <3> SUFFICES ASSUME NEW s \in Picks(cs)
                 PROVE  Publishable(Explanation(Recommendation(cs, s)))
      BY DEF Explained
    <3>1. /\ Recommendation(cs, s).evidence # {} /\ Recommendation(cs, s).risks # {}
      BY <2>4 DEF Recommendation
    <3> QED
      BY <3>1, ExplanationIsPublishable
  <2>6. ASSUME NEW portfolio \in {Void, "empty", "unpriced", "valued"}
        PROVE  /\ \A section \in told(portfolio) : Publishable(section)
               /\ Publishable(ExecutiveSummary({section.text : section \in told(portfolio)}))
    <3>1. \A section \in told(portfolio) : Publishable(section)
      BY <2>2, SectionsArePublishable
    <3>2. MarketSection(changes) \in told(portfolio)
      BY DEF SectionsOf
    <3>3. "market" \in MarketSection(changes).text.words
      BY DEF MarketSection, Text
    <3> HIDE DEF told
    <3>4. MarketSection(changes).text \in {section.text : section \in told(portfolio)}
      BY <3>2
    <3>5. Publishable(ExecutiveSummary({section.text : section \in told(portfolio)}))
      BY <3>3, <3>4, SummaryIsPublishable
    <3> QED
      BY <3>1, <3>5
  <2>7. ASSUME NEW up \in Judged(cs, "watch"), NEW down \in Judged(cs, "avoid")
        PROVE  Confidence(cs[up]) > Confidence(cs[down]) /\ Place(cs, up) < Place(cs, down)
    <3>1. /\ up \in DOMAIN cs /\ Verdict(Score(cs[up])) = "watch"
          /\ down \in DOMAIN cs /\ Verdict(Score(cs[down])) = "avoid"
      BY DEF Judged
    <3>2. Score(cs[up]) > Score(cs[down]) /\ Confidence(cs[up]) > Confidence(cs[down])
      BY <2>1, <3>1, WatchedIsSurer
    <3>3. DOMAIN cs \subseteq Int
      BY <2>1, CompaniesAssumption
    <3> QED
      BY <2>1, <3>1, <3>2, <3>3, HigherIsPlacedFirst
  <2> QED
    BY <2>4, <2>5, <2>6, <2>7
<1> QED
  BY <1>1, <1>2, <1>3, PTL
===============================================================================
