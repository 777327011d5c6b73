---------------------------- MODULE SearchShardsProofs ----------------------------
(***************************************************************************)
(* The proxy's responses are in time and belong to the question asked, for *)
(* any shards, replicas, threads and size of the queue, and any number of  *)
(* searches and failures.  First what holds of RequestAsyncDeliver alone,  *)
(* for any requests: when waitFinish returns, all that was delivered has   *)
(* run; then of the proxy, which uses it.                                  *)
(***************************************************************************)
EXTENDS SearchShards, FiniteSetTheorems, TLAPS

-----------------------------------------------------------------------------
(* RequestAsyncDeliver                                                     *)

\* the threads that are at a request
Busy == {t \in Threads : task[t] \in {"running", "ran"}}

Serving == client \notin {"stopping", "stopped"}

DeliverTypeOK ==
    /\ queue \in Seq(Requests \cup {NULL})
    /\ deliverCount \in Int
    /\ client \in {"idle", "delivering", "counted", "waiting", "finished", "stopping", "stopped"}
    /\ toDeliver \in Seq(Requests \cup {NULL})
    /\ task \in [Threads -> {"waiting", "running", "ran", "ended"}]
    /\ pReq \in [Threads -> Requests \cup {NULL}]

\* a thread that is at a request has one
RequestInv == \A t \in Busy : pReq[t] \in Requests

\* Until stop(), every request that is counted is about to be enqueued, in the queue or at a
\* thread, and no null pointer is about.
CountInv ==
    Serving =>
        /\ queue \in Seq(Requests)
        /\ toDeliver \in Seq(Requests)
        /\ \A t \in Threads : task[t] # "ended"
        /\ deliverCount = Len(queue) + Cardinality(Busy) + (IF client = "counted" THEN 1 ELSE 0)

\* stop() finds nothing on its way, and puts only null pointers there
StopInv ==
    ~Serving =>
        /\ queue \in Seq({NULL})
        /\ toDeliver \in Seq({NULL})
        /\ Busy = {}

\* whoever waits is owed a broadcast, and whoever does not has nothing to wait for
ClientInv ==
    /\ client = "counted" => toDeliver # <<>>
    /\ client \in {"waiting", "finished"} => toDeliver = <<>>
    /\ client = "waiting" => deliverCount > 0
    /\ client \in {"idle", "finished"} => deliverCount = 0

DeliverInv == DeliverTypeOK /\ RequestInv /\ CountInv /\ StopInv /\ ClientInv

-----------------------------------------------------------------------------
(* Counting                                                                *)

LEMMA BusyIsFinite == IsFiniteSet(Busy) /\ Cardinality(Busy) \in Nat
  BY ThreadsAssumption, FS_Subset, FS_CardinalityType DEF Busy

\* A counter at zero, with the invariant: nothing is on its way.
LEMMA ZeroMeansNothing ==
  ASSUME DeliverTypeOK, CountInv, Serving, client # "counted", deliverCount = 0
  PROVE  NothingOnItsWay /\ Busy = {}
<1>1. Len(queue) \in Nat /\ Cardinality(Busy) \in Nat
  BY BusyIsFinite DEF DeliverTypeOK
<1>2. Len(queue) = 0 /\ Cardinality(Busy) = 0
  BY <1>1 DEF CountInv
<1>3. Busy = {}
  BY <1>2, BusyIsFinite, FS_EmptySet
<1>4. queue = <<>>
  BY <1>2 DEF DeliverTypeOK
<1>5. \A t \in Threads : task[t] = "waiting"
  BY <1>3 DEF Busy, DeliverTypeOK, CountInv
<1> QED
  BY <1>3, <1>4, <1>5 DEF NothingOnItsWay

-----------------------------------------------------------------------------
(* The invariant is inductive                                              *)

LEMMA InitDeliverInv == DeliverInit => DeliverInv
<1> SUFFICES ASSUME DeliverInit PROVE DeliverInv
  OBVIOUS
<1>1. Busy = {}
  BY DEF DeliverInit, Busy
<1>2. Cardinality(Busy) = 0
  BY <1>1, FS_EmptySet
<1> QED
  BY <1>1, <1>2, NullAssumption
  DEF DeliverInit, DeliverInv, DeliverTypeOK, RequestInv, CountInv, StopInv, ClientInv, Serving

\* Steps that leave the threads alone.
LEMMA ClientKeeps ==
  ASSUME DeliverInv, BeginAny \/ Count \/ Enqueue \/ WaitFinish \/ Finish
  PROVE  DeliverInv'
<1> USE DEF DeliverInv
<1>1. task' = task /\ pReq' = pReq /\ Busy' = Busy
  BY DEF BeginAny, Begin, Count, Enqueue, WaitFinish, Finish, Busy
<1>2. Serving /\ Serving'
  BY DEF BeginAny, Begin, Count, Enqueue, WaitFinish, Finish, Serving
<1>3. Cardinality(Busy) \in Nat
  BY BusyIsFinite
<1>4. RequestInv' /\ StopInv'
  BY <1>1, <1>2 DEF RequestInv, StopInv
<1>5. CASE BeginAny
  BY <1>1, <1>2, <1>3, <1>4, <1>5
  DEF BeginAny, Begin, DeliverTypeOK, CountInv, ClientInv
<1>6. CASE Count
  BY <1>1, <1>2, <1>3, <1>4, <1>6 DEF Count, DeliverTypeOK, CountInv, ClientInv
<1>7. CASE Enqueue
  <2>1. Head(toDeliver) \in Requests /\ Tail(toDeliver) \in Seq(Requests)
    BY <1>2, <1>7 DEF Enqueue, CountInv, ClientInv
  <2>2. queue' \in Seq(Requests) /\ Len(queue') = Len(queue) + 1
    BY <1>2, <1>7, <2>1 DEF Enqueue, CountInv
  <2> QED
    BY <1>1, <1>2, <1>3, <1>4, <1>7, <2>1, <2>2 DEF Enqueue, DeliverTypeOK, CountInv, ClientInv
<1>8. CASE WaitFinish
  <2>1. Len(queue) \in Nat
    BY DEF DeliverTypeOK
  <2> QED
    BY <1>1, <1>2, <1>3, <1>4, <1>8, <2>1 DEF WaitFinish, DeliverTypeOK, CountInv, ClientInv
<1>9. CASE Finish
  BY <1>1, <1>2, <1>3, <1>4, <1>9 DEF Finish, DeliverTypeOK, CountInv, ClientInv
<1> QED
  BY <1>5, <1>6, <1>7, <1>8, <1>9

\* stop() begins when nothing is on its way, and enqueues null pointers only.
LEMMA StopKeeps ==
  ASSUME DeliverInv, Stop \/ EnqueueNull \/ JoinAll
  PROVE  DeliverInv'
<1> USE DEF DeliverInv
<1>1. task' = task /\ pReq' = pReq /\ Busy' = Busy
  BY DEF Stop, EnqueueNull, JoinAll, Busy
<1>2. ~Serving'
  BY DEF Stop, EnqueueNull, JoinAll, Serving
<1>3. RequestInv' /\ CountInv'
  BY <1>1, <1>2 DEF RequestInv, CountInv
<1>4. CASE Stop
  <2>1. NothingOnItsWay /\ Busy = {}
    BY <1>4, ZeroMeansNothing DEF Stop, Serving, ClientInv
  <2>2. Cardinality(Threads) \in Nat
    BY ThreadsAssumption, FS_CardinalityType
  <2>3. toDeliver' \in Seq({NULL})
    BY <1>4, <2>2 DEF Stop
  <2> QED
    BY <1>1, <1>2, <1>3, <1>4, <2>1, <2>3
    DEF Stop, NothingOnItsWay, DeliverTypeOK, StopInv, ClientInv
<1>5. CASE EnqueueNull
  <2>1. queue \in Seq({NULL}) /\ toDeliver \in Seq({NULL}) /\ Busy = {}
    BY <1>5 DEF EnqueueNull, StopInv, Serving
  <2>2. queue' \in Seq({NULL}) /\ toDeliver' \in Seq({NULL})
    BY <1>5, <2>1 DEF EnqueueNull
  <2> QED
    BY <1>1, <1>2, <1>3, <1>5, <2>1, <2>2 DEF EnqueueNull, DeliverTypeOK, StopInv, ClientInv
<1>6. CASE JoinAll
  BY <1>1, <1>2, <1>3, <1>6 DEF JoinAll, DeliverTypeOK, StopInv, ClientInv, Serving
<1> QED
  BY <1>4, <1>5, <1>6

LEMMA WaitDequeueKeeps ==
  ASSUME DeliverInv, NEW t \in Threads, WaitDequeue(t)
  PROVE  DeliverInv'
<1> USE DEF DeliverInv
<1>1. queue # <<>> /\ queue' = Tail(queue) /\ task[t] = "waiting"
  BY DEF WaitDequeue
<1>2. deliverCount' = deliverCount /\ client' = client /\ toDeliver' = toDeliver
  BY DEF WaitDequeue
<1>3. DeliverTypeOK'
  BY <1>1 DEF WaitDequeue, TaskGoto, DeliverTypeOK
<1>4. ClientInv'
  BY <1>2 DEF ClientInv
<1>5. CASE Serving
  <2>1. Head(queue) \in Requests /\ Head(queue) # NULL
    BY <1>1, <1>5, NullAssumption DEF CountInv
  <2>2. task' = [task EXCEPT ![t] = "running"] /\ pReq' = [pReq EXCEPT ![t] = Head(queue)]
    BY <2>1 DEF WaitDequeue, TaskGoto
  <2>3. Busy' = Busy \cup {t} /\ t \notin Busy
    BY <1>1, <2>2 DEF Busy, DeliverTypeOK
  <2>4. Cardinality(Busy') = Cardinality(Busy) + 1
    BY <2>3, BusyIsFinite, FS_AddElement
  <2>5. queue' \in Seq(Requests) /\ Len(queue') = Len(queue) - 1
    BY <1>1, <1>5 DEF CountInv
  <2>6. CountInv'
    <3>1. \A u \in Threads : task'[u] # "ended"
      BY <1>5, <2>2 DEF CountInv, DeliverTypeOK
    <3>2. Len(queue) \in Nat /\ Cardinality(Busy) \in Nat
      BY BusyIsFinite DEF DeliverTypeOK
    <3> QED
      BY <1>2, <1>5, <2>4, <2>5, <3>1, <3>2 DEF CountInv, Serving
  <2>7. RequestInv'
    BY <2>1, <2>2, <2>3 DEF RequestInv, DeliverTypeOK
  <2> QED
    BY <1>2, <1>3, <1>4, <1>5, <2>6, <2>7 DEF StopInv, Serving
<1>6. CASE ~Serving
  <2>1. queue \in Seq({NULL}) /\ toDeliver \in Seq({NULL}) /\ Busy = {}
    BY <1>6 DEF StopInv
  <2>2. Head(queue) = NULL /\ queue' \in Seq({NULL})
    BY <1>1, <2>1
  <2>3. task' = [task EXCEPT ![t] = "ended"]
    BY <2>2 DEF WaitDequeue, TaskGoto
  <2>4. Busy' = {}
    BY <2>1, <2>3 DEF Busy, DeliverTypeOK
  <2> QED
    BY <1>2, <1>3, <1>4, <1>6, <2>1, <2>2, <2>4 DEF StopInv, CountInv, RequestInv, Serving
<1> QED
  BY <1>5, <1>6

LEMMA RunKeeps ==
  ASSUME DeliverInv, NEW t \in Threads, RunAny(t)
  PROVE  DeliverInv'
<1> USE DEF DeliverInv
<1>1. Busy' = Busy
  BY DEF RunAny, TaskGoto, Busy, DeliverTypeOK
<1>2. \A u \in Threads : task'[u] = "ended" => task[u] = "ended"
  BY DEF RunAny, TaskGoto, DeliverTypeOK
<1> QED
  BY <1>1, <1>2
  DEF RunAny, TaskGoto, DeliverTypeOK, RequestInv, CountInv, StopInv, ClientInv, Serving

\* The thread that counts to zero lets the client go.
LEMMA DeliveredKeeps ==
  ASSUME DeliverInv, NEW t \in Threads, Delivered(t)
  PROVE  DeliverInv'
<1> USE DEF DeliverInv
<1>1. t \in Busy /\ task[t] = "ran"
  BY DEF Delivered, Busy
<1>2. Serving
  BY <1>1 DEF StopInv
<1>3. Serving' /\ (client' = "counted" <=> client = "counted")
  BY <1>2 DEF Delivered, Serving
<1>4. Busy' = Busy \ {t}
  BY DEF Delivered, TaskGoto, Busy, DeliverTypeOK
<1>5. Cardinality(Busy') = Cardinality(Busy) - 1 /\ Cardinality(Busy) \in Nat \ {0}
  BY <1>1, <1>4, BusyIsFinite, FS_RemoveElement, FS_EmptySet
<1>6. DeliverTypeOK'
  BY DEF Delivered, TaskGoto, DeliverTypeOK
<1>7. RequestInv'
  BY <1>4 DEF Delivered, RequestInv, Busy, DeliverTypeOK
<1>8. CountInv'
  <2>1. \A u \in Threads : task'[u] # "ended"
    BY <1>2 DEF Delivered, TaskGoto, CountInv, DeliverTypeOK
  <2>2. Len(queue) \in Nat
    BY DEF DeliverTypeOK
  <2> QED
    BY <1>2, <1>3, <1>5, <2>1, <2>2 DEF Delivered, CountInv
<1>9. ClientInv'
  <2>1. Len(queue) \in Nat
    BY DEF DeliverTypeOK
  <2>2. deliverCount > 0 /\ deliverCount \in Int
    BY <1>2, <1>5, <2>1 DEF CountInv
  <2>3. deliverCount' = deliverCount - 1 /\ toDeliver' = toDeliver
    BY DEF Delivered
  <2>4. deliverCount' >= 0
    BY <2>2, <2>3
  <2>5. client # "idle" /\ client # "finished"
    BY <2>2 DEF ClientInv
  <2> QED
    BY <2>2, <2>3, <2>4, <2>5 DEF Delivered, ClientInv
<1> QED
  BY <1>3, <1>6, <1>7, <1>8, <1>9 DEF StopInv

LEMMA DeliverStepKeepsInv == DeliverInv /\ [DeliverNext]_deliverVars => DeliverInv'
<1> SUFFICES ASSUME DeliverInv, [DeliverNext]_deliverVars PROVE DeliverInv'
  OBVIOUS
<1>1. CASE BeginAny \/ Count \/ Enqueue \/ WaitFinish \/ Finish
  BY <1>1, ClientKeeps
<1>2. CASE Stop \/ EnqueueNull \/ JoinAll
  BY <1>2, StopKeeps
<1>3. CASE \E t \in Threads : WaitDequeue(t) \/ RunAny(t) \/ Delivered(t)
  BY <1>3, WaitDequeueKeeps, RunKeeps, DeliveredKeeps
<1>4. CASE UNCHANGED deliverVars
  BY <1>4
  DEF deliverVars, DeliverInv, DeliverTypeOK, RequestInv, CountInv, StopInv, ClientInv, Serving, Busy
<1> QED
  BY <1>1, <1>2, <1>3, <1>4 DEF DeliverNext

\* The counter, the queue and the threads agree (RequestAsyncDeliver::deliver, delivered).
THEOREM DeliverCounts == DeliverSpec => []DeliverInv
  BY InitDeliverInv, DeliverStepKeepsInv, PTL DEF DeliverSpec

LEMMA DeliverInvImplies == DeliverInv => FinishMeansRan
<1> SUFFICES ASSUME DeliverInv, client = "finished" PROVE NothingOnItsWay
  BY DEF FinishMeansRan
<1> QED
  BY ZeroMeansNothing DEF DeliverInv, ClientInv, Serving

\* When waitFinish returns, every request that was delivered has run: its one test of the
\* counter, and one broadcast at zero, are enough.
THEOREM FinishIsComplete == DeliverSpec => []FinishMeansRan
  BY DeliverCounts, DeliverInvImplies, PTL

-----------------------------------------------------------------------------
(* SearchShards                                                            *)

\* Both phases ask a sequence of shards.
LEMMA ShardSequences == AllShards \in Seq(Shards) /\ SomeShards \subseteq Seq(Shards)
<1>1. Len(ReplicaCount) \in Nat /\ Shards = 1..Len(ReplicaCount)
  BY ReplicasAssumption DEF Shards
<1>2. AllShards \in [1..Len(ReplicaCount) -> Shards]
  BY <1>1 DEF AllShards
<1> QED
  BY <1>1, <1>2 DEF SomeShards

\* What a processor does to its RequestAsyncDeliver is what RequestAsyncDeliver describes.
LEMMA StepIsDeliverStep == [Next]_vars => [DeliverNext]_deliverVars
<1> SUFFICES ASSUME [Next]_vars PROVE [DeliverNext]_deliverVars
  OBVIOUS
<1>1. AllShards \in Seq(Requests) /\ SomeShards \subseteq Seq(Requests)
  BY ShardSequences, ReplicasAssumption
<1>2. CASE SyntaxSearch
  BY <1>1, <1>2 DEF SyntaxSearch, DeliverNext, BeginAny
<1>3. CASE StopChecker
  BY <1>3 DEF StopChecker, deliverVars
<1>4. CASE AsyncSearch
  BY <1>4 DEF AsyncSearch, DeliverNext
<1>5. CASE DeliverOrWait
  BY <1>5 DEF DeliverOrWait, DeliverNext
<1>6. CASE CollectResult
  BY <1>1, <1>6 DEF CollectResult, Return, PhaseTwo, DeliverNext, BeginAny
<1>7. CASE StopDeliver
  BY <1>7 DEF StopDeliver, DeliverNext
<1>8. ASSUME NEW t \in Threads, Run(t) PROVE [DeliverNext]_deliverVars
  <2>1. CASE BeginRun(t)
    BY <2>1 DEF BeginRun, DeliverNext
  <2>2. CASE SelectReplica(t)
    BY <2>2 DEF SelectReplica
  <2>3. CASE SelectNone(t)
    BY <2>3 DEF SelectNone, DeliverNext
  <2>4. CASE SearchAnswered(t)
    BY <2>4 DEF SearchAnswered, DeliverNext
  <2>5. CASE SearchFailed(t)
    BY <2>5 DEF SearchFailed
  <2>6. CASE ListUnavailable(t)
    BY <2>6 DEF ListUnavailable
  <2>7. CASE MarkUnavailable(t)
    BY <2>7 DEF MarkUnavailable
  <2>8. CASE EndRun(t)
    BY <2>8 DEF EndRun, DeliverNext
  <2> QED
    BY <1>8, <2>1, <2>2, <2>3, <2>4, <2>5, <2>6, <2>7, <2>8 DEF Run
<1>9. CASE Check
  BY <1>9 DEF Check, Wake, PingNull, PingAnswered, PingFailed, EndCheck
<1>10. CASE UNCHANGED vars
  BY <1>10 DEF vars, deliverVars
<1> QED
  BY <1>2, <1>3, <1>4, <1>5, <1>6, <1>7, <1>8, <1>9, <1>10 DEF Next, Client

\* The processor uses its RequestAsyncDeliver as described: what is proved of that holds here.
THEOREM UsesDeliver == Spec => DeliverSpec
<1>1. Init => DeliverInit
  BY DEF Init
<1> QED
  BY <1>1, StepIsDeliverStep, PTL DEF Spec, DeliverSpec

-----------------------------------------------------------------------------
(* Which question a response answers                                       *)

Phases == {"NONE_PHASE", "ONE_PHASE", "TWO_PHASE_ONE", "TWO_PHASE_TWO"}

\* the client is between asyncSearch and collectResult
Asking == client \in {"delivering", "counted", "waiting", "finished"}

SearchTypeOK ==
    /\ requestedShards \in Seq(Shards)
    /\ sRequest \in [Shards -> Nat \X Phases]
    /\ sResponse \in [Shards -> [to : Nat \X Phases, status : {"EC_OK", "EC_ERROR"}]]
    /\ searches \in Nat
    /\ phase \in Phases

\* the client has still to hand the shard s its request
ToDeliver(s) == \E i \in DOMAIN toDeliver : toDeliver[i] = s

\* a request of the shard s waits for a thread, or is being run by one
Outstanding(s) ==
    \/ \E i \in DOMAIN queue : queue[i] = s
    \/ \E t \in Threads : task[t] = "running" /\ pReq[t] = s

\* A requested shard is still to be asked, or being asked, or has answered.
Asked(s) ==
    \/ ToDeliver(s)
    \/ sRequest[s] = Question /\ (Outstanding(s) \/ sResponse[s].to = Question)

AskedInv ==
    /\ Asking => \A i \in DOMAIN requestedShards : Asked(requestedShards[i])
    /\ client = "counted" => sRequest[Head(toDeliver)] = Question

SearchInv == DeliverInv /\ SearchTypeOK /\ AskedInv

LEMMA InitSearchInv == Init => SearchInv
<1> SUFFICES ASSUME Init PROVE SearchInv
  OBVIOUS
<1>1. DeliverInv
  BY InitDeliverInv DEF Init
<1>2. SearchTypeOK
  BY DEF Init, SearchTypeOK, NoAnswer, Phases
<1>3. ~Asking
  BY DEF Init, DeliverInit, Asking
<1> QED
  BY <1>1, <1>2, <1>3 DEF SearchInv, AskedInv, Asking

\* Steps that change neither the queue, the threads' requests nor what the shards have.
LEMMA OtherStepsKeepAsked ==
  ASSUME SearchInv, UNCHANGED <<deliverVars, searchVars, sRequest, sResponse>>
  PROVE  AskedInv'
BY DEF SearchInv, AskedInv, Asking, Asked, ToDeliver, Outstanding, Question, deliverVars, searchVars

\* The client's steps.
LEMMA ClientKeepsAsked ==
  ASSUME SearchInv, DeliverInv',
         SyntaxSearch \/ AsyncSearch \/ DeliverOrWait \/ CollectResult \/ StopChecker \/ StopDeliver
  PROVE  SearchTypeOK' /\ AskedInv'
<1> USE DEF SearchInv
<1>1. Requests = Shards
  BY ReplicasAssumption
<1>2. AllShards \in Seq(Shards) /\ SomeShards \subseteq Seq(Shards)
  BY ShardSequences
<1>3. CASE SyntaxSearch
  <2>1. SearchTypeOK'
    BY <1>2, <1>3 DEF SyntaxSearch, SearchTypeOK, Phases, shardVars
  <2>2. client' = "delivering" /\ toDeliver' = requestedShards'
    BY <1>3 DEF SyntaxSearch, Begin
  <2> QED
    BY <2>1, <2>2 DEF AskedInv, Asked, ToDeliver
<1>4. CASE AsyncSearch
  <2>1. Head(toDeliver) \in Shards
    BY <1>1, <1>4 DEF AsyncSearch, Count, DeliverInv, CountInv, Serving
  <2>2. Question \in Nat \X Phases
    BY DEF Question, SearchTypeOK
  <2>3. sRequest' = [sRequest EXCEPT ![Head(toDeliver)] = Question] /\ Question' = Question
    BY <1>4 DEF AsyncSearch, Question, searchVars
  <2>4. SearchTypeOK'
    BY <1>4, <2>1, <2>2, <2>3 DEF AsyncSearch, SearchTypeOK, searchVars
  <2>5. ASSUME NEW s \in Shards, Asked(s) PROVE Asked(s)'
    BY <1>4, <2>1, <2>3, <2>5
    DEF AsyncSearch, Count, Asked, ToDeliver, Outstanding, SearchTypeOK
  <2>6. sRequest'[Head(toDeliver')] = Question'
    BY <1>4, <2>1, <2>3 DEF AsyncSearch, Count, SearchTypeOK
  <2>7. client = "delivering" /\ requestedShards' = requestedShards
    BY <1>4 DEF AsyncSearch, Count, searchVars
  <2> QED
    BY <2>4, <2>5, <2>6, <2>7 DEF AskedInv, Asking, SearchTypeOK
<1>5. CASE DeliverOrWait
  <2>1. UNCHANGED <<searchVars, sRequest, sResponse, task, pReq>>
    BY <1>5 DEF DeliverOrWait, shardVars, Enqueue, WaitFinish
  <2>2. SearchTypeOK'
    BY <2>1 DEF SearchTypeOK, searchVars
  <2>3. CASE Enqueue
    <3>1. Head(toDeliver) \in Shards /\ toDeliver \in Seq(Shards) /\ queue \in Seq(Shards)
      BY <1>1, <2>3 DEF Enqueue, DeliverInv, CountInv, Serving, ClientInv
    <3>2. queue' = Append(queue, Head(toDeliver)) /\ toDeliver' = Tail(toDeliver)
      BY <2>3 DEF Enqueue
    <3>3. toDeliver # <<>> /\ client = "counted" /\ client' = "delivering"
      BY <2>3 DEF Enqueue, DeliverInv, ClientInv
    <3>4. ASSUME NEW s \in Shards, Outstanding(s) PROVE Outstanding(s)'
      <4>1. \A i \in DOMAIN queue : i \in DOMAIN queue' /\ queue'[i] = queue[i]
        BY <3>1, <3>2
      <4> QED
        BY <2>1, <3>4, <4>1 DEF Outstanding
    <3>5. ASSUME NEW s \in Shards, ToDeliver(s), s # Head(toDeliver) PROVE ToDeliver(s)'
      <4>1. PICK i \in DOMAIN toDeliver : toDeliver[i] = s
        BY <3>5 DEF ToDeliver
      <4>2. i # 1 /\ i \in 1..Len(toDeliver)
        BY <3>1, <3>5, <4>1
      <4>3. i - 1 \in DOMAIN toDeliver' /\ toDeliver'[i - 1] = s
        BY <3>1, <3>2, <3>3, <4>1, <4>2
      <4> QED
        BY <4>3 DEF ToDeliver
    <3>6. ASSUME NEW s \in Shards, s = Head(toDeliver) PROVE Outstanding(s)'
      <4>1. Len(queue) + 1 \in DOMAIN queue' /\ queue'[Len(queue) + 1] = s
        BY <3>1, <3>2, <3>6
      <4> QED
        BY <4>1 DEF Outstanding
    <3>7. ASSUME NEW s \in Shards, Asked(s) PROVE Asked(s)'
      <4>1. CASE s = Head(toDeliver)
        BY <2>1, <3>3, <3>6, <4>1 DEF AskedInv, Asked, Question, searchVars
      <4>2. CASE s # Head(toDeliver)
        BY <2>1, <3>4, <3>5, <3>7, <4>2 DEF Asked, Question, searchVars
      <4> QED
        BY <4>1, <4>2
    <3> QED
      BY <2>1, <2>2, <3>3, <3>7 DEF AskedInv, Asking, SearchTypeOK, searchVars
  <2>4. CASE WaitFinish
    <3>1. UNCHANGED <<queue, toDeliver>> /\ client = "delivering" /\ client' # "counted"
      BY <2>4 DEF WaitFinish
    <3>2. \A s : Asked(s) => Asked(s)'
      BY <2>1, <3>1 DEF Asked, ToDeliver, Outstanding, Question, searchVars
    <3> QED
      BY <2>1, <2>2, <3>1, <3>2 DEF AskedInv, Asking, searchVars
  <2> QED
    BY <1>5, <2>3, <2>4 DEF DeliverOrWait
<1>6. CASE CollectResult
  <2>1. UNCHANGED <<sRequest, sResponse, searches>>
    BY <1>6 DEF CollectResult, shardVars, Return, PhaseTwo
  <2>2. CASE Finish
    <3>1. client' = "idle"
      BY <2>2 DEF Finish
    <3>2. UNCHANGED <<phase, requestedShards>>
      BY <1>6, <3>1 DEF CollectResult, Return, PhaseTwo, Begin
    <3> QED
      BY <2>1, <3>1, <3>2 DEF SearchTypeOK, AskedInv, Asking
  <2>3. ASSUME NEW rs \in SomeShards, PhaseTwo(rs) PROVE SearchTypeOK' /\ AskedInv'
    <3>1. client' = "delivering" /\ toDeliver' = requestedShards'
      BY <2>3 DEF PhaseTwo, Begin
    <3>2. SearchTypeOK'
      BY <1>2, <2>1, <2>3 DEF PhaseTwo, SearchTypeOK, Phases
    <3> QED
      BY <3>1, <3>2 DEF AskedInv, Asked, ToDeliver
  <2> QED
    BY <1>6, <2>2, <2>3 DEF CollectResult, Return
<1>7. CASE StopChecker
  BY <1>7, OtherStepsKeepAsked DEF StopChecker, SearchTypeOK, searchVars, shardVars
<1>8. CASE StopDeliver
  <2>1. ~Asking' /\ client' # "counted"
    BY <1>8 DEF StopDeliver, Stop, EnqueueNull, JoinAll, Asking
  <2>2. SearchTypeOK'
    BY <1>8 DEF StopDeliver, SearchTypeOK, searchVars, shardVars
  <2> QED
    BY <2>1, <2>2 DEF AskedInv, Asking
<1> QED
  BY <1>3, <1>4, <1>5, <1>6, <1>7, <1>8

\* Who responds for a shard answers the request the shard has.
LEMMA RespondKeepsAsked ==
  ASSUME SearchInv, NEW t \in Threads, NEW st \in {"EC_OK", "EC_ERROR"},
         task[t] = "running", Respond(pReq[t], st), RunAny(t) \/ UNCHANGED deliverVars,
         UNCHANGED <<searchVars, sRequest>>
  PROVE  SearchTypeOK' /\ AskedInv'
<1> USE DEF SearchInv
<1>1. pReq[t] \in Shards
  BY ReplicasAssumption DEF DeliverInv, RequestInv, Busy
<1>2. SearchTypeOK'
  BY <1>1 DEF Respond, SearchTypeOK, searchVars
<1>3. UNCHANGED <<client, toDeliver, queue, pReq>> /\ \A u \in Threads \ {t} : task'[u] = task[u]
  BY DEF RunAny, TaskGoto, deliverVars, DeliverInv, DeliverTypeOK
<1>4. ASSUME NEW s \in Shards, Asked(s) PROVE Asked(s)'
  <2>1. sResponse' = [sResponse EXCEPT ![pReq[t]] = [to |-> sRequest[pReq[t]], status |-> st]]
    BY DEF Respond
  <2>2. CASE s = pReq[t]
    BY <1>1, <1>3, <1>4, <2>1, <2>2 DEF Asked, ToDeliver, Question, searchVars, SearchTypeOK
  <2>3. CASE s # pReq[t]
    BY <1>1, <1>3, <1>4, <2>1, <2>3 DEF Asked, ToDeliver, Outstanding, Question, searchVars, SearchTypeOK
  <2> QED
    BY <2>2, <2>3
<1> QED
  BY <1>2, <1>3, <1>4 DEF AskedInv, Asking, SearchTypeOK, searchVars, Question

\* The threads' steps.
LEMMA RunKeepsAsked ==
  ASSUME SearchInv, NEW t \in Threads, Run(t)
  PROVE  SearchTypeOK' /\ AskedInv'
<1> USE DEF SearchInv
<1>1. CASE BeginRun(t)
  <2>1. UNCHANGED <<client, toDeliver, searchVars, sRequest, sResponse>>
    BY <1>1 DEF BeginRun, WaitDequeue, shardVars
  <2>2. task[t] = "waiting" /\ queue # <<>> /\ queue' = Tail(queue)
    BY <1>1 DEF BeginRun, WaitDequeue
  <2>3. queue \in Seq(Requests \cup {NULL})
    BY DEF DeliverInv, DeliverTypeOK
  <2>4. ASSUME NEW s \in Shards, Outstanding(s) PROVE Outstanding(s)'
    <3>1. CASE s = Head(queue)
      <4>1. s # NULL
        BY ReplicasAssumption, NullAssumption
      <4>2. task'[t] = "running" /\ pReq'[t] = s
        BY <1>1, <3>1, <4>1 DEF BeginRun, WaitDequeue, TaskGoto, DeliverInv, DeliverTypeOK
      <4> QED
        BY <4>2 DEF Outstanding
    <3>2. ASSUME s # Head(queue), NEW i \in DOMAIN queue, queue[i] = s PROVE Outstanding(s)'
      <4>1. i # 1 /\ i \in 1..Len(queue)
        BY <2>3, <3>2
      <4>2. i - 1 \in DOMAIN queue' /\ queue'[i - 1] = s
        BY <2>2, <2>3, <3>2, <4>1
      <4> QED
        BY <4>2 DEF Outstanding
    <3>3. ASSUME NEW u \in Threads, task[u] = "running", pReq[u] = s PROVE Outstanding(s)'
      <4>1. u # t
        BY <2>2, <3>3
      <4>2. task'[u] = "running" /\ pReq'[u] = s
        BY <1>1, <3>3, <4>1 DEF BeginRun, WaitDequeue, TaskGoto, DeliverInv, DeliverTypeOK
      <4> QED
        BY <4>2 DEF Outstanding
    <3> QED
      BY <2>4, <3>1, <3>2, <3>3 DEF Outstanding
  <2>5. \A s \in Shards : Asked(s) => Asked(s)'
    BY <2>1, <2>4 DEF Asked, ToDeliver, Question, searchVars
  <2> QED
    BY <2>1, <2>5 DEF SearchTypeOK, AskedInv, Asking, Question, searchVars
<1>2. CASE SelectReplica(t) \/ ListUnavailable(t) \/ MarkUnavailable(t)
  <2>1. UNCHANGED <<deliverVars, searchVars, sRequest, sResponse>>
    BY <1>2 DEF SelectReplica, ListUnavailable, MarkUnavailable
  <2> QED
    BY <2>1, OtherStepsKeepAsked DEF SearchTypeOK, searchVars
<1>3. CASE SelectNone(t)
  BY <1>3, RespondKeepsAsked DEF SelectNone, In
<1>4. CASE SearchAnswered(t)
  BY <1>4, RespondKeepsAsked DEF SearchAnswered, In
<1>5. CASE SearchFailed(t)
  BY <1>5, RespondKeepsAsked DEF SearchFailed, In
<1>6. CASE EndRun(t)
  <2>1. UNCHANGED <<queue, toDeliver, searchVars, sRequest, sResponse>>
    BY <1>6 DEF EndRun, Delivered, shardVars
  <2>2. \A u \in Threads : task[u] = "running" => task'[u] = "running" /\ pReq'[u] = pReq[u]
    BY <1>6 DEF EndRun, Delivered, TaskGoto, DeliverInv, DeliverTypeOK
  <2>3. Asking' = Asking /\ (client' = "counted" => client = "counted")
    BY <1>6 DEF EndRun, Delivered, Asking
  <2>4. \A s : Asked(s) => Asked(s)'
    BY <2>1, <2>2 DEF Asked, ToDeliver, Outstanding, Question, searchVars
  <2> QED
    BY <2>1, <2>3, <2>4 DEF SearchTypeOK, AskedInv, Question, searchVars
<1> QED
  BY <1>1, <1>2, <1>3, <1>4, <1>5, <1>6 DEF Run

LEMMA StepKeepsSearchInv == SearchInv /\ [Next]_vars => SearchInv'
<1> SUFFICES ASSUME SearchInv, [Next]_vars PROVE SearchInv'
  OBVIOUS
<1>1. DeliverInv'
  BY StepIsDeliverStep, DeliverStepKeepsInv DEF SearchInv
<1>2. CASE SyntaxSearch \/ StopChecker \/ Client
  BY <1>1, <1>2, ClientKeepsAsked DEF SearchInv, Client
<1>3. CASE \E t \in Threads : Run(t)
  BY <1>1, <1>3, RunKeepsAsked DEF SearchInv
<1>4. CASE Check \/ UNCHANGED vars
  <2>1. UNCHANGED <<deliverVars, searchVars, sRequest, sResponse>>
    BY <1>4 DEF Check, Wake, PingNull, PingAnswered, PingFailed, EndCheck, vars, shardVars
  <2> QED
    BY <1>1, <2>1, OtherStepsKeepAsked DEF SearchInv, SearchTypeOK, searchVars
<1> QED
  BY <1>2, <1>3, <1>4 DEF Next

\* What collectResult reads is final, and answers what was asked (SearchShardBase::run,
\* SearchShardsBase::doPhaseOneSearch and doPhaseTwoSearch).
THEOREM AnswersBelongToQuestions == Spec => []AnswersBelong
<1>1. SearchInv => AnswersBelong
  <2> SUFFICES ASSUME SearchInv, client = "finished" PROVE
        /\ NothingOnItsWay
        /\ \A i \in DOMAIN requestedShards : sResponse[requestedShards[i]].to = Question
    BY DEF AnswersBelong
  <2>1. NothingOnItsWay
    BY DeliverInvImplies DEF SearchInv, FinishMeansRan
  <2>2. \A s : ~Outstanding(s)
    BY <2>1 DEF NothingOnItsWay, Outstanding
  <2>3. \A s : ~ToDeliver(s)
    BY DEF SearchInv, DeliverInv, ClientInv, ToDeliver
  <2> QED
    BY <2>1, <2>2, <2>3 DEF SearchInv, AskedInv, Asking, Asked
<1> QED
  BY <1>1, InitSearchInv, StepKeepsSearchInv, PTL DEF Spec

=============================================================================
