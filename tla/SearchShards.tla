----------------------------- MODULE SearchShards -----------------------------
(***************************************************************************)
(* The search proxy: one processor of ProxyServiceBase, a SearchShardsBase *)
(* with its shards, their replicas and its health checker.                 *)
(*                                                                         *)
(* A search asks all shards for the ids of documents and then, of those    *)
(* that had some of the best, the documents.  Each question goes through   *)
(* RequestAsyncDeliver to SearchShardBase::run, which asks the shard's     *)
(* replicas in turn until one answers.  A replica that fails is listed and *)
(* marked; the health checker pings the listed ones every 30 seconds.      *)
(*                                                                         *)
(* A processor serves one search at a time: ProxyServiceBase takes it out  *)
(* of a queue for that long.  Replicas and the network are the             *)
(* environment; a search or a ping fails or not, MaxFailures times at most.*)
(*                                                                         *)
(* One line of init (SearchShardsBase.cpp:99) is read as what it means:    *)
(* m_pHealthChecker.reset(...).                                            *)
(***************************************************************************)
EXTENDS RequestAsyncDeliver, FiniteSetsExt, SequencesExt

CONSTANTS
    ReplicaCount, \* of each shard, in the order of the configuration
    MaxSearches,  \* bound: calls of syntaxSearch
    MaxFailures   \* bound: searches and pings that fail

Shards == DOMAIN ReplicaCount
Replicas(s) == 0..ReplicaCount[s] - 1

ASSUME ReplicasAssumption ==
    /\ ReplicaCount \in Seq(Nat \ {0})
    /\ Requests = Shards
    /\ NULL \notin UNION {Replicas(s) : s \in Shards}
ASSUME BoundAssumption == MaxSearches \in Nat /\ MaxFailures \in Nat

VARIABLES
    searches,        \* the number of the current search
    phase,           \* m_currentPhase
    requestedShards, \* m_requestedShards
    result,          \* m_sResult
    sRequest,        \* [Shards -> m_sRequest]
    sResponse,       \* [Shards -> m_sResponse: what it answers, with m_status]
    place,           \* [Threads -> where SearchShardBase::run is, or will begin]
    activeReplica,   \* [Shards -> m_pActiveReplica]
    available,       \* [Shards -> the replicas RoundRobinPolicy has as AVAILABLE]
    nActive,         \* [Shards -> RoundRobinPolicy's m_nActive]
    unavailable,     \* [Shards -> m_unavailableReplicas]
    checker,         \* where the health checker is: [at, shard, next, answered]
    stopRequested,
    failures

searchVars == <<searches, phase, requestedShards, result>>
shardVars == <<sRequest, sResponse, place, activeReplica>>
replicaVars == <<available, nActive, unavailable>>
vars == <<deliverVars, searchVars, shardVars, replicaVars, checker, stopRequested, failures>>

\* the current question
Question == <<searches, phase>>

NoAnswer == [to |-> <<0, "NONE_PHASE">>, status |-> "EC_ERROR"]

Init ==
    /\ DeliverInit
    /\ searches = 0
    /\ phase = "NONE_PHASE"
    /\ requestedShards = <<>>
    /\ result = "none"
    /\ sRequest = [s \in Shards |-> NoAnswer.to]
    /\ sResponse = [s \in Shards |-> NoAnswer]
    /\ place = [t \in Threads |-> "select"]
    /\ activeReplica = [s \in Shards |-> NULL]
    /\ available = [s \in Shards |-> Replicas(s)]
    /\ nActive = [s \in Shards |-> -1]
    /\ unavailable = [s \in Shards |-> <<>>]
    /\ checker = [at |-> "asleep", shard |-> 1, next |-> 1, answered |-> <<>>]
    /\ stopRequested = FALSE
    /\ failures = 0

-----------------------------------------------------------------------------
(* The client: SearchShardsBase::syntaxSearch                              *)

\* m_shards, and what may be left of it for the second phase
AllShards == [s \in Shards |-> s]

SomeShards ==
    {rs \in UNION {[1..n -> Shards] : n \in 0..Len(ReplicaCount)} :
        \A i, j \in DOMAIN rs : i < j => rs[i] < rs[j]}

\* doPhaseOneSearch, or forwardRequest when there is one shard only
SyntaxSearch ==
    /\ client = "idle"
    /\ ~stopRequested
    /\ searches < MaxSearches
    /\ searches' = searches + 1
    /\ phase' = IF Len(ReplicaCount) > 1 THEN "TWO_PHASE_ONE" ELSE "ONE_PHASE"
    /\ requestedShards' = AllShards
    /\ Begin(AllShards)
    /\ UNCHANGED <<result, shardVars, replicaVars, checker, stopRequested, failures>>

\* SearchShardBase::asyncSearch, up to the enqueue
AsyncSearch ==
    /\ Count
    /\ sRequest' = [sRequest EXCEPT ![Head(toDeliver)] = Question]
    /\ UNCHANGED <<searchVars, sResponse, place, activeReplica, replicaVars,
                   checker, stopRequested, failures>>

DeliverOrWait ==
    /\ Enqueue \/ WaitFinish
    /\ UNCHANGED <<searchVars, shardVars, replicaVars, checker, stopRequested, failures>>

ShardFailed == \E i \in DOMAIN requestedShards : sResponse[requestedShards[i]].status # "EC_OK"

\* m_sResult is set and returned
Return(res) ==
    /\ Finish
    /\ result' = res
    /\ UNCHANGED <<searches, phase, requestedShards>>

\* doPhaseTwoSearch: the shards rs have documents among the best
PhaseTwo(rs) ==
    /\ phase' = "TWO_PHASE_TWO"
    /\ requestedShards' = rs
    /\ Begin(rs)
    /\ UNCHANGED <<searches, result>>

\* collectResult.  An answer, though EC_OK, may tell of an error of its own.
CollectResult ==
    /\ client = "finished"
    /\ \/ Return("EC_ERROR")
       \/ phase = "TWO_PHASE_ONE" /\ ~ShardFailed /\ \E rs \in SomeShards : PhaseTwo(rs)
       \/ phase # "TWO_PHASE_ONE" /\ ~ShardFailed /\ Return("EC_OK")
    /\ UNCHANGED <<shardVars, replicaVars, checker, stopRequested, failures>>

\* ~SearchShardsBase: stop the health checker, join it ...
StopChecker ==
    /\ client = "idle"
    /\ stopRequested' = TRUE
    /\ UNCHANGED <<deliverVars, searchVars, shardVars, replicaVars, checker, failures>>

\* ... and stop m_deliver
StopDeliver ==
    /\ \/ stopRequested /\ checker.at = "ended" /\ Stop
       \/ EnqueueNull
       \/ JoinAll
    /\ UNCHANGED <<searchVars, shardVars, replicaVars, checker, stopRequested, failures>>

-----------------------------------------------------------------------------
(* A thread of m_deliver: SearchShardBase::run                             *)

\* m_lock of the shard, which the checker keeps while it pings
Unlocked(s) == ~(checker.at = "pinging" /\ checker.shard = s)

In(t, where) == task[t] = "running" /\ place[t] = where

Goto(t, where) == place' = [place EXCEPT ![t] = where]

Respond(s, answer) ==
    sResponse' = [sResponse EXCEPT ![s] = [to |-> sRequest[s], status |-> answer]]

BeginRun(t) ==
    /\ WaitDequeue(t)
    /\ UNCHANGED <<searchVars, shardVars, replicaVars, checker, stopRequested, failures>>

\* RoundRobinPolicy::select: how far from m_nActive the next available replica is
Tries(s) ==
    {i \in 1..ReplicaCount[s] : (nActive[s] + i) % ReplicaCount[s] \in available[s]}

Advance(s, i) == nActive' = [nActive EXCEPT ![s] = (nActive[s] + i) % ReplicaCount[s]]

SelectReplica(t) ==
    LET s == pReq[t] IN
    /\ In(t, "select")
    /\ Tries(s) # {}
    /\ Advance(s, Min(Tries(s)))
    /\ activeReplica' = [activeReplica EXCEPT ![s] = nActive'[s]]
    /\ Goto(t, "search")
    /\ UNCHANGED <<deliverVars, searchVars, sRequest, sResponse, available, unavailable,
                   checker, stopRequested, failures>>

\* "No replica to select"
SelectNone(t) ==
    LET s == pReq[t] IN
    /\ In(t, "select")
    /\ Tries(s) = {}
    /\ Advance(s, ReplicaCount[s])
    /\ activeReplica' = [activeReplica EXCEPT ![s] = NULL]
    /\ Respond(s, "EC_ERROR")
    /\ RunAny(t)
    /\ UNCHANGED <<searchVars, sRequest, place, available, unavailable,
                   checker, stopRequested, failures>>

SearchAnswered(t) ==
    /\ In(t, "search")
    /\ Respond(pReq[t], "EC_OK")
    /\ Goto(t, "select")
    /\ RunAny(t)
    /\ UNCHANGED <<searchVars, sRequest, activeReplica, replicaVars,
                   checker, stopRequested, failures>>

\* a timeout, or another error
SearchFailed(t) ==
    /\ In(t, "search")
    /\ failures < MaxFailures
    /\ failures' = failures + 1
    /\ Respond(pReq[t], "EC_ERROR")
    /\ Goto(t, "list")
    /\ UNCHANGED <<deliverVars, searchVars, sRequest, activeReplica, replicaVars,
                   checker, stopRequested>>

\* m_unavailableReplicas.push_back, under m_lock
ListUnavailable(t) ==
    LET s == pReq[t] IN
    /\ In(t, "list")
    /\ Unlocked(s)
    /\ unavailable' = [unavailable EXCEPT ![s] = Append(@, activeReplica[s])]
    /\ Goto(t, "mark")
    /\ UNCHANGED <<deliverVars, searchVars, sRequest, sResponse, activeReplica,
                   available, nActive, checker, stopRequested, failures>>

MarkUnavailable(t) ==
    LET s == pReq[t] IN
    /\ In(t, "mark")
    /\ available' = [available EXCEPT ![s] = @ \ {activeReplica[s]}]
    /\ Goto(t, "select")
    /\ UNCHANGED <<deliverVars, searchVars, sRequest, sResponse, activeReplica,
                   nActive, unavailable, checker, stopRequested, failures>>

EndRun(t) ==
    /\ Delivered(t)
    /\ UNCHANGED <<searchVars, shardVars, replicaVars, checker, stopRequested, failures>>

Run(t) ==
    \/ BeginRun(t) \/ SelectReplica(t) \/ SelectNone(t)
    \/ SearchAnswered(t) \/ SearchFailed(t) \/ ListUnavailable(t) \/ MarkUnavailable(t)
    \/ EndRun(t)

-----------------------------------------------------------------------------
(* The health checker: ReplicaHealthChecker::run, checkUnavailableReplicas *)

\* checkUnavailableReplicas of the shard s: lock its m_lock.  No other lock is held then and
\* nothing of another shard is touched, so this goes with the step before it.
BeginCheck(s) == [at |-> "pinging", shard |-> s, next |-> 1, answered |-> <<>>]

\* the loop of run, at its start or after a sleep
Wake ==
    /\ checker.at = "asleep"
    /\ checker' = IF stopRequested THEN [checker EXCEPT !.at = "ended"] ELSE BeginCheck(1)
    /\ UNCHANGED <<deliverVars, searchVars, shardVars, replicaVars, stopRequested, failures>>

Listed == unavailable[checker.shard]

Pinging == checker.at = "pinging" /\ checker.next <= Len(Listed)

\* ping() of a null pointer ends the process
PingNull ==
    /\ Pinging
    /\ Listed[checker.next] = NULL
    /\ checker' = [checker EXCEPT !.at = "crashed"]
    /\ UNCHANGED <<deliverVars, searchVars, shardVars, replicaVars, stopRequested, failures>>

\* then markAvailable
PingAnswered ==
    /\ Pinging
    /\ Listed[checker.next] # NULL
    /\ available' = [available EXCEPT ![checker.shard] = @ \cup {Listed[checker.next]}]
    /\ checker' = [checker EXCEPT !.next = @ + 1, !.answered = Append(@, Listed[checker.next])]
    /\ UNCHANGED <<deliverVars, searchVars, shardVars, nActive, unavailable,
                   stopRequested, failures>>

PingFailed ==
    /\ Pinging
    /\ Listed[checker.next] # NULL
    /\ failures < MaxFailures
    /\ failures' = failures + 1
    /\ checker' = [checker EXCEPT !.next = @ + 1]
    /\ UNCHANGED <<deliverVars, searchVars, shardVars, replicaVars, stopRequested>>

\* std::remove without erase: what follows the first r moves forward, and a shared_ptr
\* that was moved and not overwritten is null.
StdRemove(list, r) ==
    IF r \notin Range(list) THEN list ELSE
    LET first == Min({i \in DOMAIN list : list[i] = r})
        kept == SelectSeq(SubSeq(list, first + 1, Len(list)), LAMBDA e : e # r)
    IN  [i \in DOMAIN list |->
            IF i >= first /\ i - first < Len(kept) THEN kept[i - first + 1]
            ELSE IF i > first /\ list[i] # r THEN NULL ELSE list[i]]

\* mutant: with the erase that is missing
EndCheckErases ==
    /\ checker.at = "pinging"
    /\ checker.next > Len(Listed)
    /\ unavailable' = [unavailable EXCEPT
            ![checker.shard] = SelectSeq(@, LAMBDA r : r \notin Range(checker.answered))]
    /\ checker' = IF stopRequested \/ checker.shard = Len(ReplicaCount)
                  THEN [checker EXCEPT !.at = "asleep", !.next = 1, !.answered = <<>>]
                  ELSE BeginCheck(checker.shard + 1)
    /\ UNCHANGED <<deliverVars, searchVars, shardVars, available, nActive,
                   stopRequested, failures>>

\* the replicas that answered are removed, m_lock unlocked, and the next shard's turn comes
EndCheck ==
    /\ checker.at = "pinging"
    /\ checker.next > Len(Listed)
    /\ unavailable' = [unavailable EXCEPT ![checker.shard] = FoldLeft(StdRemove, @, checker.answered)]
    /\ checker' = IF stopRequested \/ checker.shard = Len(ReplicaCount)
                  THEN [checker EXCEPT !.at = "asleep", !.next = 1, !.answered = <<>>]
                  ELSE BeginCheck(checker.shard + 1)
    /\ UNCHANGED <<deliverVars, searchVars, shardVars, available, nActive,
                   stopRequested, failures>>

Check == Wake \/ PingNull \/ PingAnswered \/ PingFailed \/ EndCheck

-----------------------------------------------------------------------------

Alive == checker.at # "crashed"

Client == AsyncSearch \/ DeliverOrWait \/ CollectResult \/ StopDeliver

Next ==
    /\ Alive
    /\ \/ SyntaxSearch \/ StopChecker \/ Client
       \/ \E t \in Threads : Run(t)
       \/ Check

Spec == Init /\ [][Next]_vars

\* All threads run; a search or a ping ends, and the sleep does; the checker, which leaves
\* m_lock between two shards and when it sleeps, starves nobody.
FairSpec ==
    /\ Spec
    /\ WF_vars(Alive /\ Client)
    /\ \A t \in Threads : WF_vars(Alive /\ Run(t)) /\ SF_vars(Alive /\ ListUnavailable(t))
    /\ WF_vars(Alive /\ Check)

-----------------------------------------------------------------------------

\* When waitFinish returns, the response of each requested shard answers the current
\* question of the current search, and no thread is left that may overwrite it.
AnswersBelong ==
    client = "finished" =>
        /\ NothingOnItsWay
        /\ \A i \in DOMAIN requestedShards : sResponse[requestedShards[i]].to = Question

\* Every search is answered (waitFinish is not left waiting, replicas are given up).
SearchesAnswered == client = "delivering" ~> (client = "idle" \/ ~Alive)

\* Marking is not for ever: again and again all replicas are available, or the process
\* or the processor ends.  (Failures are bounded: pings are answered in the end.)
ReplicasComeBack ==
    []<>(stopRequested \/ ~Alive \/ \A s \in Shards : available[s] = Replicas(s))

=============================================================================
