---------------------- MODULE AsyncDocumentConsumerProofs ---------------------
(***************************************************************************)
(* Proofs about AsyncDocumentConsumer, for any documents, keys, threads,   *)
(* sizes of the queues and numbers of calls.                               *)
(*                                                                         *)
(* The inductive invariant is stated part by part, each part proved from   *)
(* the ones before it:                                                     *)
(*                                                                         *)
(*   ShapeInv              what the queues and threads hold (every state)  *)
(*   UpdaterInv, ReachInv  the updating thread and the deletions it owes   *)
(*   CallInv               every key in a message was in a call            *)
(*   HomeInv, OrderInv     where a document is, and which it overtakes     *)
(*   StopInv               the null pointers that end the tasks, counted   *)
(*   SealInv, ChainInv     the way of a sealed barrel, while no commit()   *)
(*                         interferes                                      *)
(*   LineInv               the same way, with a single building thread     *)
(*   CalmInv               and during the first commit(), when it was      *)
(*                         called while the other threads were idle        *)
(*                                                                         *)
(* commit() seals the barrels of other threads behind their backs; what it *)
(* may break is stated for the states before its first call (commits = 0). *)
(***************************************************************************)
EXTENDS AsyncDocumentConsumer, SequenceLemmas

-----------------------------------------------------------------------------
(* The inductive invariant                                                 *)

\* the documents that are added, and those of them that are in each kind of place
Added == Docs \ Updates
InQueue(d) == \E p \in DOMAIN docQueue : docQueue[p].doc = d
InTask(d) == \E i \in Tasks : taskMsg[i].doc = d
InBarrel(d) == \E b \in BarrelIds : d \in Range(barrels[b].docs)

\* what a message can be
IsMessage(m) ==
    /\ m.action = "add" => m.doc \in Added
    /\ m.action = "update" => m.doc \in Updates
    /\ m.action \in {"delete", "none", "null"} => m.doc = NoDoc
    /\ m.action = "none" => m = Dummy
    /\ m.action = "null" => m = Null

DocMessages == {m \in Messages : IsMessage(m)}
KeyMessages == {m \in DocMessages : m.action # "add"}

TaskPlaces == {"loop", "full", "handOff", "renew", "last", "process", "pass", "exited"}
ForcePlaces == {"force", "waitDocs", "seal", "sealHandOff", "renew"}
CommitPlaces == ForcePlaces \cup {"waitUpdates", "flush", "flushHandOff"}
WaitPlaces == {"flushAgain", "flushAgainHandOff", "waitCommit", "reset"}
StopPlaces == {"joinUpdater", "stopTasks", "stopWait", "joinTasks"}
HandOffPlaces == {"sealHandOff", "flushHandOff", "flushAgainHandOff"}
ClientPlaces == {"idle", "drain", "closed"} \cup CommitPlaces \cup WaitPlaces \cup StopPlaces

Barrels == [docs : Seq(Added), sealed : BOOLEAN, described : SUBSET Added, uncommitted : BOOLEAN]

KeeperShape ==
    /\ barrels \in Seq(Barrels)
    /\ \A b \in BarrelIds : barrels[b].described \subseteq Range(barrels[b].docs)
    /\ commitMap \in Seq(BarrelIds) /\ batch \in Seq(BarrelIds)
    /\ inCommit \in Seq(BarrelIds) /\ onDisk \in Seq(BarrelIds)
    /\ commitQueue \in Seq(Seq(BarrelIds))
    /\ primaryKeys \subseteq Added /\ deleted \subseteq Added

QueueShape ==
    /\ docQueue \in Seq(DocMessages) /\ Len(docQueue) <= DocQueueSize
    /\ updateQueue \in Seq(KeyMessages) /\ Len(updateQueue) <= DocQueueSize

\* where a task is says what it has in its hands
TaskState(pc, m, hand) ==
    /\ pc = "process" => m.action \in {"add", "update", "delete"}
    /\ pc = "pass" => m.action \in {"update", "delete"}
    /\ pc \in {"last", "exited"} => m = Null
    /\ pc \in {"loop", "full", "renew"} => m = Dummy
    /\ pc = "handOff" => m \in {Dummy, Null}
    /\ hand # <<>> <=> pc = "handOff"

TaskShape ==
    /\ taskPc \in [Tasks -> TaskPlaces]
    /\ taskMsg \in [Tasks -> DocMessages]
    /\ writer \in [Tasks -> BarrelIds]
    /\ taskHand \in [Tasks -> Seq(BarrelIds)]
    /\ \A i \in Tasks : TaskState(taskPc[i], taskMsg[i], taskHand[i])

UpdaterShape ==
    /\ updaterPc \in {"loop", "lookup", "spin", "pass", "exited"}
    /\ updaterMsg \in KeyMessages
    /\ updaterPc \in {"loop", "exited"} => updaterMsg = Dummy
    /\ updaterPc \in {"lookup", "spin", "pass"} => updaterMsg.action \in {"update", "delete"}

ClientShape ==
    /\ clientPc \in ClientPlaces
    /\ turn \in Nat
    /\ clientPc \in {"waitUpdates", "joinUpdater"} => turn = 1
    /\ clientPc \in ForcePlaces \cup {"stopTasks"} => turn \in Tasks
    /\ clientHand \in Seq(BarrelIds)
    /\ clientHand # <<>> <=> clientPc \in HandOffPlaces
    /\ commits \in Nat
    /\ commits = 0 => clientPc \notin CommitPlaces
    /\ consumed \in Seq(Docs)
    /\ deletions \subseteq [key : Range(Key), sealed : SUBSET Added]

ShapeInv == KeeperShape /\ QueueShape /\ TaskShape /\ UpdaterShape /\ ClientShape

\* The null pointer is the last that the updating thread gets.
UpdaterInv ==
    /\ \A i \in DOMAIN updateQueue : updateQueue[i] = Null => i = Len(updateQueue) /\ clientPc = "joinUpdater"
    /\ updaterPc = "exited" =>
          updateQueue = <<>> /\ clientPc \in StopPlaces \cup WaitPlaces \cup {"drain", "closed"}
    /\ clientPc \in {"stopTasks", "stopWait", "joinTasks", "drain", "closed"} => updaterPc = "exited"
    /\ commits = 0 /\ clientPc \in WaitPlaces => updaterPc = "exited"

\* A deletion is on its way until it has found a document.
Asked(key) ==
    \/ \E m \in Range(updateQueue) : m.action = "delete" /\ m.key = key
    \/ updaterPc = "lookup" /\ updaterMsg.action = "delete" /\ updaterMsg.key = key

ReachInv ==
    \A x \in deletions :
        /\ x.sealed \subseteq primaryKeys
        /\ (\E d \in x.sealed : Key[d] = x.key) =>
              Asked(x.key) \/ \E d \in deleted : Key[d] = x.key

\* Every key in a message was in a call.
Called(key) ==
    \/ \E x \in deletions : x.key = key
    \/ \E u \in Range(consumed) \cap Updates : Key[u] = key

IsCalled(m) == m.action \in {"delete", "update"} => Called(m.key)

Seen == Range(docQueue) \cup Range(updateQueue) \cup {taskMsg[i] : i \in Tasks} \cup {updaterMsg}

CallInv == \A m \in Seen : IsCalled(m)

\* An added document is in one place, once it has been consumed.
QueueOnce ==
    \A p, q \in DOMAIN docQueue : docQueue[p].doc \in Added /\ docQueue[p].doc = docQueue[q].doc => p = q
TaskOnce == \A i, j \in Tasks : taskMsg[i].doc \in Added /\ taskMsg[i].doc = taskMsg[j].doc => i = j
BarrelOnce == \A b, c \in BarrelIds : Range(barrels[b].docs) \cap Range(barrels[c].docs) # {} => b = c
OneKind ==
    \A d \in Added :
        ~ (InQueue(d) /\ InTask(d)) /\ ~ (InQueue(d) /\ InBarrel(d)) /\ ~ (InTask(d) /\ InBarrel(d))
Somewhere == \A d \in Added : d \in Range(consumed) <=> InQueue(d) \/ InTask(d) \/ InBarrel(d)

HomeInv == QueueOnce /\ TaskOnce /\ BarrelOnce /\ OneKind /\ Somewhere

\* It overtakes none that was consumed before it, up to the barrel.
Before(d, e) == \E i, j \in DOMAIN consumed : i < j /\ consumed[i] = d /\ consumed[j] = e

Overtaken == \A d, e \in Added : (InTask(d) \/ InBarrel(d)) /\ InQueue(e) => Before(d, e)
QueueInOrder ==
    \A p, q \in DOMAIN docQueue :
        p < q /\ docQueue[p].doc \in Added /\ docQueue[q].doc \in Added
            => Before(docQueue[p].doc, docQueue[q].doc)
BarrelInOrder ==
    \A i \in Tasks : \A d \in Range(barrels[writer[i]].docs) :
        taskMsg[i].doc \in Added => Before(d, taskMsg[i].doc)
OwnBarrels == \A i, j \in Tasks : writer[i] = writer[j] => i = j

OrderInv == Overtaken /\ QueueInOrder /\ BarrelInOrder /\ OwnBarrels

\* The null pointers that stop has sent, one for each task.
NullsIn(s) == {p \in DOMAIN s : s[p] = Null}
Ended == {i \in Tasks : taskMsg[i] = Null}
Joined == updaterPc = "exited" /\ clientPc \in WaitPlaces \cup {"drain", "closed"}
Sent ==
    CASE clientPc = "stopTasks" -> turn - 1
      [] clientPc \in {"stopWait", "joinTasks"} \/ Joined -> BuildThreadCount
      [] OTHER -> 0

StopInv ==
    /\ Cardinality(NullsIn(docQueue)) + Cardinality(Ended) = Sent
    /\ clientPc = "joinTasks" \/ Joined => docQueue = <<>> /\ Ended = Tasks
    /\ Joined => \A i \in Tasks : taskPc[i] = "exited"
    /\ Joined /\ clientPc # "flushAgain" => batch = <<>>
    /\ clientPc = "closed" => commitQueue = <<>> /\ inCommit = <<>>

\* Without a commit(): a task leaves its barrel when it has sealed it, ...
Live(i) == taskPc[i] \in {"loop", "full", "process", "pass", "last"}

SealInv ==
    commits = 0 =>
        /\ \A i \in Tasks : Live(i) => ~barrels[writer[i]].sealed
        /\ \A b \in BarrelIds : ~barrels[b].sealed => \E i \in Tasks : Live(i) /\ writer[i] = b
        /\ \A b \in BarrelIds :
              IF barrels[b].sealed THEN barrels[b].described = Range(barrels[b].docs)
              ELSE /\ barrels[b].described = {}
                   /\ barrels[b].uncommitted <=> barrels[b].docs # <<>>

\* ... and a sealed barrel is in one place of one list, on its way to the disk.
Kinds == {"batch", "client", "task", "queue", "commit", "disk"}

At(b, kind, n, k) ==
    \/ kind = "batch" /\ n = 0 /\ k \in DOMAIN batch /\ batch[k] = b
    \/ kind = "client" /\ n = 0 /\ k \in DOMAIN clientHand /\ clientHand[k] = b
    \/ kind = "task" /\ n \in Tasks /\ k \in DOMAIN taskHand[n] /\ taskHand[n][k] = b
    \/ kind = "queue" /\ n \in DOMAIN commitQueue /\ k \in DOMAIN commitQueue[n] /\ commitQueue[n][k] = b
    \/ kind = "commit" /\ n = 0 /\ k \in DOMAIN inCommit /\ inCommit[k] = b
    \/ kind = "disk" /\ n = 0 /\ k \in DOMAIN onDisk /\ onDisk[k] = b

Once(b) ==
    \A kind, other \in Kinds, n, m, k, l \in Nat :
        At(b, kind, n, k) /\ At(b, other, m, l) => kind = other /\ n = m /\ k = l
OnItsWay(b) == \E kind \in Kinds, n, k \in Nat : At(b, kind, n, k)

ChainInv ==
    commits = 0 =>
        \A b \in BarrelIds :
            /\ Once(b)
            /\ OnItsWay(b) => barrels[b].sealed
            /\ barrels[b].described # {} => OnItsWay(b)

\* With one task, the barrels are on their way in the order of sealing.
LineInv ==
    BuildThreadCount = 1 /\ commits = 0 =>
        LET disk == Len(onDisk)
            taken == disk + Len(inCommit)
            queued == taken + Len(commitQueue)
        IN /\ batch = <<>> /\ clientHand = <<>>
           /\ Len(inCommit) <= 1 /\ Len(taskHand[1]) <= 1
           /\ Len(commitMap) = queued + Len(taskHand[1])
           /\ \A k \in 1..disk : onDisk[k] = commitMap[k]
           /\ inCommit # <<>> => inCommit[1] = commitMap[disk + 1]
           /\ \A n \in DOMAIN commitQueue : Len(commitQueue[n]) = 1 /\ commitQueue[n][1] = commitMap[taken + n]
           /\ taskHand[1] # <<>> => taskHand[1][1] = commitMap[queued + 1]

\* The first commit(), when it was called while every other thread was idle: they stay
\* idle, ...
CalmCommit == commits = 1 /\ calm /\ clientPc \in CommitPlaces \cup WaitPlaces /\ updaterPc # "exited"

Quiet ==
    /\ Range(docQueue) \cup Range(updateQueue) \subseteq {Dummy}
    /\ updaterPc = "loop" /\ \A i \in Tasks : taskPc[i] = "loop"

\* ... and each document is in a barrel that is still to be sealed, or on its way.
Carried(b) ==
    \/ b \in Range(batch) \cup Range(clientHand) \cup Range(inCommit)
    \/ \E n \in DOMAIN commitQueue : b \in Range(commitQueue[n])

ToSeal(i) ==
    \/ clientPc \in {"waitUpdates", "force", "waitDocs", "seal"} /\ i >= turn
    \/ clientPc \in {"sealHandOff", "renew"} /\ i > turn

KeptOpen(d, b) ==
    /\ d \in Range(barrels[b].docs)
    /\ barrels[b].uncommitted /\ ~barrels[b].sealed
    /\ \E i \in Tasks : writer[i] = b /\ ToSeal(i)

KeptSealed(d, b) ==
    /\ d \in barrels[b].described
    /\ \/ b \in Range(batch) /\ clientPc \in CommitPlaces \cup {"flushAgain"}
       \/ b \in Range(clientHand) \cup Range(inCommit) \cup Range(onDisk)
       \/ clientPc # "reset" /\ \E n \in DOMAIN commitQueue : b \in Range(commitQueue[n])

Kept ==
    /\ \A b \in BarrelIds : Carried(b) => barrels[b].sealed
    /\ \A d \in promised : \E b \in BarrelIds : KeptOpen(d, b) \/ KeptSealed(d, b)

CalmInv == CalmCommit => Quiet /\ Kept

-----------------------------------------------------------------------------
(* The keeper's operations                                                 *)

LEMMA TypedConcat ==
  ASSUME NEW S, NEW s \in Seq(S), NEW t \in Seq(S)
  PROVE  s \o t \in Seq(S)
BY ConcatProperties

LEMMA SameBarrel ==
  ASSUME NEW r \in Barrels, NEW s \in Barrels, r.docs = s.docs, r.sealed = s.sealed,
         r.described = s.described, r.uncommitted = s.uncommitted
  PROVE  r = s
BY DEF Barrels

\* What each operation does, barrel by barrel.
LEMMA SealBarrelEffect ==
  ASSUME KeeperShape, NEW b \in BarrelIds, SealBarrel(b)
  PROVE  /\ barrels' \in Seq(Barrels) /\ Len(barrels') = Len(barrels)
         /\ \A c \in BarrelIds : c # b => barrels'[c] = barrels[c]
         /\ barrels'[b] = [docs |-> barrels[b].docs, sealed |-> TRUE,
                           described |-> IF barrels[b].uncommitted THEN Range(barrels[b].docs)
                                         ELSE barrels[b].described,
                           uncommitted |-> barrels[b].uncommitted]
<1> DEFINE docs == Range(barrels[b].docs)
           known == IF barrels[b].uncommitted THEN docs ELSE barrels[b].described
           new == [docs |-> barrels[b].docs, sealed |-> TRUE, described |-> known,
                   uncommitted |-> barrels[b].uncommitted]
<1>1. barrels \in [1..Len(barrels) -> Barrels] /\ Len(barrels) \in Nat /\ b \in 1..Len(barrels)
  BY DEF KeeperShape, BarrelIds
<1>2. barrels[b] \in Barrels
  BY <1>1
<1>3. known \subseteq Added
  BY <1>2 DEF Barrels, Range
<1>4. barrels' = [barrels EXCEPT ![b].sealed = TRUE, ![b].described = known]
  BY DEF SealBarrel
<1> HIDE DEF known
<1>5. new \in Barrels
  BY <1>2, <1>3 DEF Barrels
<1>6. barrels' = [barrels EXCEPT ![b] = new]
  <2> DEFINE put == [[barrels[b] EXCEPT !.sealed = TRUE] EXCEPT !.described = known]
  <2>1. put \in Barrels /\ put.docs = new.docs /\ put.sealed = new.sealed
        /\ put.described = new.described /\ put.uncommitted = new.uncommitted
    BY <1>2, <1>3 DEF Barrels
  <2>2. barrels' = [barrels EXCEPT ![b] = put]
    BY <1>1, <1>4
  <2> HIDE DEF put, new
  <2> QED
    BY <1>5, <2>1, <2>2, SameBarrel
<1> HIDE DEF new
<1>7. /\ barrels' \in Seq(Barrels) /\ Len(barrels') = Len(barrels)
      /\ \A j \in 1..Len(barrels) : barrels'[j] = IF j = b THEN new ELSE barrels[j]
  BY <1>1, <1>5, <1>6, ExceptSeq DEF KeeperShape
<1> QED
  BY <1>1, <1>7 DEF new, known, BarrelIds

LEMMA AddDocumentEffect ==
  ASSUME KeeperShape, NEW b \in BarrelIds, NEW d \in Added, AddDocument(b, d)
  PROVE  /\ barrels' \in Seq(Barrels) /\ Len(barrels') = Len(barrels)
         /\ \A c \in BarrelIds : c # b => barrels'[c] = barrels[c]
         /\ barrels'[b] = [docs |-> Append(barrels[b].docs, d), sealed |-> barrels[b].sealed,
                           described |-> barrels[b].described, uncommitted |-> TRUE]
<1> DEFINE docs == Append(barrels[b].docs, d)
           new == [docs |-> docs, sealed |-> barrels[b].sealed,
                   described |-> barrels[b].described, uncommitted |-> TRUE]
<1>1. barrels \in [1..Len(barrels) -> Barrels] /\ Len(barrels) \in Nat /\ b \in 1..Len(barrels)
  BY DEF KeeperShape, BarrelIds
<1>2. barrels[b] \in Barrels
  BY <1>1
<1>3. docs \in Seq(Added)
  BY <1>2 DEF Barrels
<1>4. barrels' = [barrels EXCEPT ![b].docs = docs, ![b].uncommitted = TRUE]
  BY DEF AddDocument
<1> HIDE DEF docs
<1>5. new \in Barrels
  BY <1>2, <1>3 DEF Barrels
<1>6. barrels' = [barrels EXCEPT ![b] = new]
  <2> DEFINE put == [[barrels[b] EXCEPT !.docs = docs] EXCEPT !.uncommitted = TRUE]
  <2>1. put \in Barrels /\ put.docs = new.docs /\ put.sealed = new.sealed
        /\ put.described = new.described /\ put.uncommitted = new.uncommitted
    BY <1>2, <1>3 DEF Barrels
  <2>2. barrels' = [barrels EXCEPT ![b] = put]
    BY <1>1, <1>4
  <2> HIDE DEF put, new
  <2> QED
    BY <1>5, <2>1, <2>2, SameBarrel
<1> HIDE DEF new
<1>7. /\ barrels' \in Seq(Barrels) /\ Len(barrels') = Len(barrels)
      /\ \A j \in 1..Len(barrels) : barrels'[j] = IF j = b THEN new ELSE barrels[j]
  BY <1>1, <1>5, <1>6, ExceptSeq DEF KeeperShape
<1> QED
  BY <1>1, <1>7 DEF new, docs, BarrelIds

\* The barrel of a batch of one counts no uncommitted documents any more.
LEMMA CommitBatchEffect ==
  ASSUME KeeperShape, CommitBatch
  PROVE  /\ barrels' \in Seq(Barrels) /\ Len(barrels') = Len(barrels)
         /\ \A c \in BarrelIds :
               barrels'[c] = IF Len(inCommit) = 1 /\ c = inCommit[1]
                             THEN [docs |-> barrels[c].docs, sealed |-> barrels[c].sealed,
                                   described |-> barrels[c].described, uncommitted |-> FALSE]
                             ELSE barrels[c]
<1>1. barrels \in [1..Len(barrels) -> Barrels] /\ Len(barrels) \in Nat
  BY DEF KeeperShape
<1>2. CASE Len(inCommit) # 1
  <2>1. barrels' = barrels
    BY <1>2 DEF CommitBatch
  <2> QED
    BY <1>2, <2>1 DEF KeeperShape
<1>3. CASE Len(inCommit) = 1
  <2> DEFINE b == inCommit[1]
             new == [docs |-> barrels[b].docs, sealed |-> barrels[b].sealed,
                     described |-> barrels[b].described, uncommitted |-> FALSE]
  <2>1. b \in 1..Len(barrels)
    <3>1. inCommit \in Seq(BarrelIds) /\ 1 \in 1..Len(inCommit)
      BY <1>3 DEF KeeperShape
    <3> QED
      BY <3>1, ElementOfSeq DEF BarrelIds
  <2>2. barrels[b] \in Barrels
    BY <1>1, <2>1
  <2>3. barrels' = [barrels EXCEPT ![b].uncommitted = FALSE]
    BY <1>3 DEF CommitBatch
  <2> HIDE DEF b
  <2>4. new \in Barrels
    BY <2>2 DEF Barrels
  <2>5. barrels' = [barrels EXCEPT ![b] = new]
    <3> DEFINE put == [barrels[b] EXCEPT !.uncommitted = FALSE]
    <3>1. put \in Barrels /\ put.docs = new.docs /\ put.sealed = new.sealed
          /\ put.described = new.described /\ put.uncommitted = new.uncommitted
      BY <2>2 DEF Barrels
    <3>2. barrels' = [barrels EXCEPT ![b] = put]
      BY <1>1, <2>1, <2>3
    <3> HIDE DEF put, new
    <3> QED
      BY <2>4, <3>1, <3>2, SameBarrel
  <2>6. \A c \in BarrelIds : c = b => new = [docs |-> barrels[c].docs, sealed |-> barrels[c].sealed,
                                             described |-> barrels[c].described, uncommitted |-> FALSE]
    OBVIOUS
  <2> HIDE DEF new
  <2>7. /\ barrels' \in Seq(Barrels) /\ Len(barrels') = Len(barrels)
        /\ \A j \in 1..Len(barrels) : barrels'[j] = IF j = b THEN new ELSE barrels[j]
    BY <2>1, <2>4, <2>5, ExceptSeq DEF KeeperShape
  <2> QED
    BY <1>3, <2>6, <2>7 DEF b, BarrelIds
<1> QED
  BY <1>2, <1>3

\* some message is there to delete the key
Wanted(key) == \E m \in Seen : m.action \in {"delete", "update"} /\ m.key = key

\* What a step of any thread does with the keeper, unless it adds a document.
KeeperStep ==
    \/ \E b \in BarrelIds : SealBarrel(b)
    \/ \E b \in BarrelIds, key \in Range(Key) \cup {NoDoc} : Wanted(key) /\ DeleteInMemory(b, key)
    \/ \E taken \in Seq(BarrelIds) : Submit(taken)
    \/ \E d \in Added : Wanted(Key[d]) /\ DeleteOnDisk(d)
    \/ CreateBarrelWriter \/ ResetMerger \/ CommitTake \/ CommitBatch
    \/ UNCHANGED keeperVars

AddStep(i) == ProcessAdd(i) /\ writer[i] \in BarrelIds /\ taskMsg[i].doc \in Added

LEMMA KeeperSteps ==
  ASSUME ShapeInv, [Next]_vars
  PROVE  KeeperStep \/ \E i \in Tasks : AddStep(i)
<1> USE DEF ShapeInv
<1>1. ASSUME NEW i \in Tasks, TaskStep(i) PROVE KeeperStep \/ AddStep(i)
  <2>1. writer[i] \in BarrelIds /\ taskHand[i] \in Seq(BarrelIds) /\ taskMsg[i] \in DocMessages
    BY DEF TaskShape
  <2>2. taskMsg[i].key \in Range(Key) \cup {NoDoc} /\ (taskMsg[i].action = "add" => taskMsg[i].doc \in Added)
    BY <2>1 DEF DocMessages, Messages, IsMessage
  <2>3. CASE SealFull(i) \/ SealLast(i)
    BY <2>1, <2>3 DEF SealFull, SealLast, TaskSeal, KeeperStep
  <2>4. CASE TaskHandOff(i)
    BY <2>1, <2>4 DEF TaskHandOff, KeeperStep
  <2>5. CASE Renew(i)
    BY <2>5 DEF Renew, KeeperStep
  <2>6. CASE ProcessAdd(i)
    BY <2>1, <2>2, <2>6 DEF ProcessAdd, AddStep
  <2>7. CASE ProcessDelete(i)
    <3>1. Wanted(taskMsg[i].key)
      BY <2>7 DEF ProcessDelete, Wanted, Seen
    <3> QED
      BY <2>1, <2>2, <2>7, <3>1 DEF ProcessDelete, KeeperStep
  <2>8. CASE NotFull(i) \/ TaskTake(i) \/ ProcessElsewhere(i) \/ Pass(i)
    BY <2>8 DEF NotFull, TaskTake, ProcessElsewhere, Pass, KeeperStep
  <2> QED
    BY <1>1, <2>3, <2>4, <2>5, <2>6, <2>7, <2>8 DEF TaskStep
<1>2. ASSUME UpdaterStep PROVE KeeperStep
  <2>1. ASSUME NEW d \in Docs, UpdaterDelete(d) PROVE KeeperStep
    <3>1. d \in Added
      BY <2>1 DEF UpdaterDelete, Entries, KeeperShape
    <3>2. Wanted(Key[d])
      <4>1. updaterMsg \in Seen /\ updaterMsg.key = Key[d]
        BY <2>1 DEF UpdaterDelete, Entries, Seen
      <4>2. updaterMsg.action \in {"delete", "update"}
        BY <2>1 DEF UpdaterDelete, UpdaterShape
      <4> QED
        BY <4>1, <4>2 DEF Wanted
    <3> QED
      BY <2>1, <3>1, <3>2 DEF UpdaterDelete, KeeperStep
  <2>2. ASSUME NEW d \in Docs, UpdaterSpin(d) PROVE KeeperStep
    BY <2>2 DEF UpdaterSpin, KeeperStep
  <2>3. CASE UpdaterTake \/ UpdaterMiss \/ UpdaterPass
    BY <2>3 DEF UpdaterTake, UpdaterMiss, UpdaterPass, KeeperStep
  <2> QED
    BY <1>2, <2>1, <2>2, <2>3 DEF UpdaterStep
<1>3. CASE CommitThreadStep
  BY <1>3 DEF CommitThreadStep, KeeperStep
<1>4. ASSUME ClientStep PROVE KeeperStep
  <2>1. CASE ForceSeal
    <3>1. writer[turn] \in BarrelIds
      BY <2>1 DEF ForceSeal, ClientShape, ForcePlaces, TaskShape
    <3> QED
      BY <2>1, <3>1 DEF ForceSeal, KeeperStep
  <2>2. CASE ForceRenew \/ Flush \/ Reset
    BY <2>2 DEF ForceRenew, Flush, Reset, KeeperStep
  <2>3. CASE ClientHandOff
    BY <2>3 DEF ClientHandOff, ClientShape, KeeperStep
  <2>4. CASE WaitUpdates \/ ForceTask \/ WaitDocs \/ WaitCommit
    <3>1. UNCHANGED keeperVars
      BY <2>4 DEF WaitUpdates, ForceTask, WaitDocs, WaitCommit
    <3> QED
      BY <3>1 DEF KeeperStep
  <2>5. CASE JoinUpdater \/ StopTask \/ StopWait \/ JoinTasks \/ CloseScheduler
    BY <2>5 DEF JoinUpdater, StopTask, StopWait, JoinTasks, CloseScheduler, KeeperStep
  <2> QED
    BY <1>4, <2>1, <2>2, <2>3, <2>4, <2>5 DEF ClientStep
<1>5. ASSUME NEW d \in Docs, Consume(d) PROVE KeeperStep
  BY <1>5 DEF Consume, KeeperStep
<1>6. ASSUME NEW key \in Range(Key), Delete(key) PROVE KeeperStep
  BY <1>6 DEF Delete, KeeperStep
<1>7. CASE Commit \/ Stop \/ UpdaterSpinning \/ Closed \/ UNCHANGED vars
  BY <1>7 DEF Commit, Stop, UpdaterSpinning, Closed, vars, KeeperStep
<1> QED
  BY <1>1, <1>2, <1>3, <1>4, <1>5, <1>6, <1>7 DEF Next

\* A barrel is never forgotten.
LEMMA KeeperShapeStep ==
  ASSUME KeeperShape, KeeperStep \/ \E i \in Tasks : AddStep(i)
  PROVE  KeeperShape' /\ BarrelIds \subseteq BarrelIds'
<1> DEFINE Lists == /\ commitMap' \in Seq(BarrelIds) /\ batch' \in Seq(BarrelIds)
                    /\ inCommit' \in Seq(BarrelIds) /\ onDisk' \in Seq(BarrelIds)
                    /\ commitQueue' \in Seq(Seq(BarrelIds))
           Bits == primaryKeys' \subseteq Added /\ deleted' \subseteq Added
           Sealed == \A b \in BarrelIds' : barrels'[b].described \subseteq Range(barrels'[b].docs)
           Goal == Lists /\ Bits /\ Sealed /\ barrels' \in Seq(Barrels) /\ BarrelIds \subseteq BarrelIds'
<1> SUFFICES Goal
  <2>1. Seq(BarrelIds) \subseteq Seq(BarrelIds')
    BY SeqMonotonic
  <2>2. Seq(Seq(BarrelIds)) \subseteq Seq(Seq(BarrelIds'))
    BY <2>1, SeqMonotonic
  <2> QED
    BY <2>1, <2>2 DEF KeeperShape
<1>1. ASSUME NEW b \in BarrelIds PROVE barrels[b] \in Barrels
  BY ElementOfSeq DEF KeeperShape, BarrelIds
<1>2. ASSUME NEW b \in BarrelIds, NEW key PROVE Lookup(b, key) \subseteq Range(barrels[b].docs) /\ Lookup(b, key) \subseteq Added
  <2>1. barrels[b].docs \in Seq(Added)
    BY <1>1 DEF Barrels
  <2> QED
    BY <2>1 DEF Lookup, Range
<1>3. ASSUME NEW b \in BarrelIds, SealBarrel(b) PROVE Goal
  <2>1. Lists
    <3>1. Gathered(b) \in Seq(BarrelIds)
      BY AppendProperties DEF Gathered, KeeperShape
    <3>2. commitMap' \in Seq(BarrelIds)
      <4>1. commitMap' = commitMap \/ commitMap' = Append(commitMap, b)
        BY <1>3 DEF SealBarrel
      <4>2. commitMap \in Seq(BarrelIds) /\ Append(commitMap, b) \in Seq(BarrelIds)
        BY AppendProperties DEF KeeperShape
      <4> QED
        BY <4>1, <4>2
    <3>3. batch' \in Seq(BarrelIds)
      <4>1. batch' \in {<<>>, Gathered(b)}
        BY <1>3 DEF SealBarrel
      <4> QED
        BY <3>1, <4>1, EmptySeq
    <3> QED
      BY <1>3, <3>2, <3>3 DEF SealBarrel, KeeperShape
  <2>2. Bits
    <3> DEFINE found == UNION {Lookup(b, Key[d]) : d \in Range(barrels[b].docs)}
    <3>1. found \subseteq Added
      BY <1>2
    <3>2. primaryKeys' \in {primaryKeys, primaryKeys \cup found} /\ deleted' = deleted
      BY <1>3 DEF SealBarrel
    <3> HIDE DEF found
    <3> QED
      BY <3>1, <3>2 DEF KeeperShape
  <2>3. barrels' \in Seq(Barrels) /\ BarrelIds' = BarrelIds
    BY <1>3, SealBarrelEffect DEF BarrelIds
  <2>4. Sealed
    <3>1. barrels'[b].described \subseteq Range(barrels'[b].docs)
      <4> DEFINE docs == Range(barrels[b].docs)
                 known == IF barrels[b].uncommitted THEN docs ELSE barrels[b].described
      <4>1. known \subseteq docs
        BY DEF KeeperShape
      <4>2. barrels'[b] = [docs |-> barrels[b].docs, sealed |-> TRUE, described |-> known,
                           uncommitted |-> barrels[b].uncommitted]
        BY <1>3, SealBarrelEffect
      <4> HIDE DEF known
      <4> QED
        BY <4>1, <4>2
    <3>2. ASSUME NEW c \in BarrelIds, c # b PROVE barrels'[c].described \subseteq Range(barrels'[c].docs)
      BY <1>3, <3>2, SealBarrelEffect DEF KeeperShape
    <3> QED
      BY <2>3, <3>1, <3>2
  <2> QED
    BY <2>1, <2>2, <2>3, <2>4
<1>4. ASSUME NEW b \in BarrelIds, NEW d \in Added, AddDocument(b, d) PROVE Goal
  <2>1. Lists
    BY <1>4 DEF AddDocument, KeeperShape
  <2>2. Bits
    <3>1. primaryKeys' = primaryKeys /\ deleted' = deleted \cup Lookup(b, Key[d])
      BY <1>4 DEF AddDocument
    <3> QED
      BY <1>2, <3>1 DEF KeeperShape
  <2>3. barrels' \in Seq(Barrels) /\ BarrelIds' = BarrelIds
    BY <1>4, AddDocumentEffect DEF BarrelIds
  <2>4. Sealed
    <3>1. barrels'[b].described \subseteq Range(barrels'[b].docs)
      <4>1. barrels[b].docs \in Seq(Added) /\ barrels[b].described \subseteq Range(barrels[b].docs)
        BY <1>1 DEF Barrels, KeeperShape
      <4>2. Range(barrels[b].docs) \subseteq Range(Append(barrels[b].docs, d))
        BY <4>1, SequenceOf, AppendSequence
      <4>3. /\ barrels'[b].described = barrels[b].described
            /\ barrels'[b].docs = Append(barrels[b].docs, d)
        <5>1. barrels'[b] = [docs |-> Append(barrels[b].docs, d), sealed |-> barrels[b].sealed,
                             described |-> barrels[b].described, uncommitted |-> TRUE]
          BY <1>4, AddDocumentEffect
        <5> QED
          BY <5>1
      <4> QED
        BY <4>1, <4>2, <4>3
    <3>2. ASSUME NEW c \in BarrelIds, c # b PROVE barrels'[c].described \subseteq Range(barrels'[c].docs)
      BY <1>4, <3>2, AddDocumentEffect DEF KeeperShape
    <3> QED
      BY <2>3, <3>1, <3>2
  <2> QED
    BY <2>1, <2>2, <2>3, <2>4
<1>5. ASSUME NEW b \in BarrelIds, NEW key \in Range(Key) \cup {NoDoc}, DeleteInMemory(b, key) PROVE Goal
  <2>1. /\ deleted' = deleted \cup Lookup(b, key) /\ primaryKeys' = primaryKeys
        /\ Lists /\ barrels' = barrels
    BY <1>5 DEF DeleteInMemory, KeeperShape
  <2> QED
    BY <1>2, <2>1 DEF KeeperShape, BarrelIds
<1>6. ASSUME NEW taken \in Seq(BarrelIds), Submit(taken) PROVE Goal
  <2>1. commitQueue' \in Seq(Seq(BarrelIds))
    BY <1>6, AppendProperties DEF Submit, KeeperShape
  <2> QED
    BY <1>6, <2>1 DEF Submit, KeeperShape, BarrelIds
<1>7. ASSUME NEW d \in Added, DeleteOnDisk(d) PROVE Goal
  BY <1>7 DEF DeleteOnDisk, KeeperShape, BarrelIds
<1>8. CASE CreateBarrelWriter
  <2>1. EmptyBarrel \in Barrels
    BY EmptySeq DEF EmptyBarrel, Barrels
  <2>2. /\ barrels' \in Seq(Barrels) /\ Len(barrels') = Len(barrels) + 1 /\ Len(barrels) \in Nat
        /\ \A b \in BarrelIds : barrels'[b] = barrels[b]
        /\ barrels'[Len(barrels) + 1] = EmptyBarrel
    BY <1>8, <2>1, AppendProperties DEF CreateBarrelWriter, KeeperShape, BarrelIds
  <2>3. BarrelIds' = BarrelIds \cup {Len(barrels) + 1}
    BY <2>2 DEF BarrelIds
  <2>4. EmptyBarrel.described = {}
    BY DEF EmptyBarrel
  <2>5. Sealed
    BY <2>2, <2>3, <2>4 DEF KeeperShape
  <2>6. Lists /\ Bits
    BY <1>8 DEF CreateBarrelWriter, KeeperShape
  <2> QED
    BY <2>2, <2>3, <2>5, <2>6
<1>9. CASE ResetMerger
  BY <1>9, EmptySeq DEF ResetMerger, KeeperShape, BarrelIds
<1>10. CASE CommitTake
  <2>1. inCommit' \in Seq(BarrelIds) /\ commitQueue' \in Seq(Seq(BarrelIds))
    BY <1>10, HeadTailProperties DEF CommitTake, KeeperShape
  <2> QED
    BY <1>10, <2>1 DEF CommitTake, KeeperShape, BarrelIds
<1>11. CASE CommitBatch
  <2>1. barrels' \in Seq(Barrels) /\ BarrelIds' = BarrelIds
    BY <1>11, CommitBatchEffect DEF BarrelIds
  <2>2. ASSUME NEW b \in BarrelIds PROVE barrels'[b].docs = barrels[b].docs /\ barrels'[b].described = barrels[b].described
    <3>1. \/ barrels'[b] = barrels[b]
          \/ barrels'[b] = [docs |-> barrels[b].docs, sealed |-> barrels[b].sealed,
                            described |-> barrels[b].described, uncommitted |-> FALSE]
      BY <1>11, CommitBatchEffect
    <3> QED
      BY <3>1
  <2>3. Sealed
    BY <2>1, <2>2 DEF KeeperShape
  <2>4. onDisk' \in Seq(BarrelIds) /\ inCommit' \in Seq(BarrelIds)
    BY <1>11, TypedConcat, EmptySeq DEF CommitBatch, KeeperShape
  <2>5. Lists /\ Bits
    BY <1>11, <2>4 DEF CommitBatch, KeeperShape
  <2> QED
    BY <2>1, <2>3, <2>5
<1>12. CASE UNCHANGED keeperVars
  BY <1>12 DEF keeperVars, KeeperShape, BarrelIds
<1>13. ASSUME NEW i \in Tasks, AddStep(i) PROVE Goal
  BY <1>4, <1>13 DEF AddStep, ProcessAdd
<1> QED
  BY <1>3, <1>5, <1>6, <1>7, <1>8, <1>9, <1>10, <1>11, <1>12, <1>13 DEF KeeperStep

-----------------------------------------------------------------------------
(* Messages                                                                *)

LEMMA DummyAndNull ==
  /\ Dummy \in KeyMessages /\ Null \in KeyMessages /\ Dummy # Null
  /\ Dummy.action = "none" /\ Null.action = "null"
  /\ Dummy.doc = NoDoc /\ Null.doc = NoDoc /\ NoDoc \notin Docs
<1>1. /\ Dummy = [action |-> "none", doc |-> NoDoc, key |-> NoDoc, taskId |-> -1]
      /\ Null = [action |-> "null", doc |-> NoDoc, key |-> NoDoc, taskId |-> -1]
  BY DEF Dummy, Null, Message, INVALID_TASKID
<1>2. Dummy \in Messages /\ Null \in Messages
  BY <1>1 DEF Messages, INVALID_TASKID
<1>3. Dummy.action = "none" /\ Null.action = "null" /\ Dummy.doc = NoDoc /\ Null.doc = NoDoc
  BY <1>1
<1>4. IsMessage(Dummy) /\ IsMessage(Null)
  BY <1>3 DEF IsMessage
<1> QED
  BY <1>2, <1>3, <1>4, UpdateAssumption DEF KeyMessages, DocMessages

\* What the client's calls enqueue.
LEMMA CallMessages ==
  /\ \A d \in Added : /\ Message("add", d, Key[d]) \in DocMessages
                      /\ Message("add", d, Key[d]).doc = d /\ Message("add", d, Key[d]).action = "add"
  /\ \A d \in Updates : /\ Message("update", d, Key[d]) \in KeyMessages
                        /\ Message("update", d, Key[d]).doc = d
                        /\ Message("update", d, Key[d]).action = "update"
                        /\ Message("update", d, Key[d]).key = Key[d]
  /\ \A key \in Range(Key) : /\ Message("delete", NoDoc, key) \in KeyMessages
                             /\ Message("delete", NoDoc, key).doc = NoDoc
                             /\ Message("delete", NoDoc, key).action = "delete"
                             /\ Message("delete", NoDoc, key).key = key
<1>1. \A d \in Docs : Key[d] \in Range(Key)
  BY KeyAssumption DEF Range
<1>2. ASSUME NEW d \in Added
      PROVE  /\ Message("add", d, Key[d]) \in DocMessages
             /\ Message("add", d, Key[d]).doc = d /\ Message("add", d, Key[d]).action = "add"
  <2> DEFINE m == [action |-> "add", doc |-> d, key |-> Key[d], taskId |-> -1]
  <2>1. m = Message("add", d, Key[d])
    BY DEF Message, INVALID_TASKID
  <2>2. d \in Docs /\ m \in Messages /\ m.doc = d /\ m.action = "add"
    BY <1>1 DEF Messages, INVALID_TASKID, Added
  <2>3. IsMessage(m)
    BY <2>2 DEF IsMessage
  <2> QED
    BY <2>1, <2>2, <2>3 DEF DocMessages
<1>3. ASSUME NEW d \in Updates
      PROVE  LET m == Message("update", d, Key[d])
             IN m \in KeyMessages /\ m.doc = d /\ m.action = "update" /\ m.key = Key[d]
  <2> DEFINE m == [action |-> "update", doc |-> d, key |-> Key[d], taskId |-> -1]
  <2>1. m = Message("update", d, Key[d])
    BY DEF Message, INVALID_TASKID
  <2>2. d \in Docs /\ m \in Messages /\ m.doc = d /\ m.action = "update" /\ m.key = Key[d]
    BY <1>1, UpdateAssumption DEF Messages, INVALID_TASKID
  <2>3. IsMessage(m)
    BY <2>2 DEF IsMessage
  <2> QED
    BY <2>1, <2>2, <2>3 DEF DocMessages, KeyMessages
<1>4. ASSUME NEW key \in Range(Key)
      PROVE  LET m == Message("delete", NoDoc, key)
             IN m \in KeyMessages /\ m.doc = NoDoc /\ m.action = "delete" /\ m.key = key
  <2> DEFINE m == [action |-> "delete", doc |-> NoDoc, key |-> key, taskId |-> -1]
  <2>1. m = Message("delete", NoDoc, key)
    BY DEF Message, INVALID_TASKID
  <2>2. m \in Messages /\ m.doc = NoDoc /\ m.action = "delete" /\ m.key = key
    BY DEF Messages, INVALID_TASKID
  <2>3. IsMessage(m)
    BY <2>2 DEF IsMessage
  <2> QED
    BY <2>1, <2>2, <2>3 DEF DocMessages, KeyMessages
<1> QED
  BY <1>2, <1>3, <1>4

\* A message that is passed on is the same but for the task it is meant for.
LEMMA PassedMessage ==
  ASSUME NEW m \in DocMessages, m.action \in {"update", "delete"}, NEW task \in {0, 1, INVALID_TASKID}
  PROVE  LET passed == [m EXCEPT !.taskId = task]
         IN /\ passed \in DocMessages /\ passed.action = m.action
            /\ passed.doc = m.doc /\ passed.key = m.key
<1> DEFINE passed == [m EXCEPT !.taskId = task]
<1>1. m \in Messages /\ IsMessage(m)
  BY DEF DocMessages
<1>2. /\ passed \in Messages
      /\ passed.action = m.action /\ passed.doc = m.doc /\ passed.key = m.key
  BY <1>1 DEF Messages
<1> HIDE DEF passed
<1>3. IsMessage(passed)
  BY <1>1, <1>2 DEF IsMessage
<1> QED
  BY <1>2, <1>3 DEF DocMessages, passed

\* A document is in a message only as an addition or an update.
LEMMA MessageDocs ==
  ASSUME NEW m \in DocMessages
  PROVE  /\ m.action \in {"add", "delete", "update", "none", "null"}
         /\ m.key \in Range(Key) \cup {NoDoc}
         /\ m.doc \in Added <=> m.action = "add"
         /\ m.action = "none" <=> m = Dummy
         /\ m.action = "null" <=> m = Null
<1>1. m \in Messages /\ IsMessage(m)
  BY DEF DocMessages
<1>2. m.action \in {"add", "delete", "update", "none", "null"} /\ m.key \in Range(Key) \cup {NoDoc}
  BY <1>1 DEF Messages
<1>3. Added \cap Updates = {} /\ NoDoc \notin Added
  BY UpdateAssumption DEF Added
<1> QED
  BY <1>1, <1>2, <1>3, DummyAndNull DEF IsMessage

-----------------------------------------------------------------------------
(* The shape of the queues and of the threads                              *)

\* Where a message comes from that is put into a queue.
Origin(m) ==
    \/ m.action \in {"none", "null", "add"}
    \/ Wanted(m.key)
    \/ \E u \in Updates : Key[u] = m.key /\ u \in Range(consumed')
    \/ \E x \in deletions' : x.key = m.key

\* What a step does with the queue of the building threads, ...
DocQueueStep ==
    \/ docQueue' = docQueue
    \/ docQueue # <<>> /\ docQueue' = Tail(docQueue)
    \/ Len(docQueue) < DocQueueSize /\ \E m \in DocMessages : Origin(m) /\ docQueue' = Append(docQueue, m)

\* ... and with that of the updating thread.
UpdateQueueStep ==
    \/ updateQueue' = updateQueue
    \/ updateQueue # <<>> /\ updateQueue' = Tail(updateQueue)
    \/ Len(updateQueue) < DocQueueSize /\ \E m \in KeyMessages : Origin(m) /\ updateQueue' = Append(updateQueue, m)

LEMMA QueueSteps ==
  ASSUME ShapeInv, [Next]_vars
  PROVE  DocQueueStep /\ UpdateQueueStep
<1> USE DEF ShapeInv
<1> DEFINE Goal == DocQueueStep /\ UpdateQueueStep
<1>0. ASSUME NEW m \in DocMessages, EnqueueDoc(m), Origin(m) PROVE Goal
  BY <1>0 DEF EnqueueDoc, DocQueueStep, UpdateQueueStep
<1>00. ASSUME NEW m \in KeyMessages, EnqueueUpdate(m), Origin(m) PROVE Goal
  BY <1>00 DEF EnqueueUpdate, DocQueueStep, UpdateQueueStep
<1>000. Origin(Dummy) /\ Origin(Null)
  BY DummyAndNull DEF Origin
<1>1. ASSUME NEW i \in Tasks, TaskStep(i) PROVE Goal
  <2>1. CASE TaskTake(i)
    BY <2>1 DEF TaskTake, DocQueueStep, UpdateQueueStep
  <2>2. CASE Pass(i)
    <3> DEFINE passed == [taskMsg[i] EXCEPT !.taskId = NextTaskId(i)]
    <3>1. taskMsg[i] \in DocMessages /\ taskMsg[i].action \in {"update", "delete"}
      BY <2>2 DEF Pass, TaskShape, TaskState
    <3>2. passed \in DocMessages /\ Origin(passed)
      <4>1. passed \in DocMessages /\ passed.key = taskMsg[i].key
        BY <3>1, PassedMessage DEF NextTaskId
      <4> HIDE DEF passed
      <4> QED
        BY <3>1, <4>1 DEF Origin, Wanted, Seen
    <3>3. docQueue' = Append(docQueue, passed) /\ Len(docQueue) < DocQueueSize /\ updateQueue' = updateQueue
      BY <2>2 DEF Pass
    <3> HIDE DEF passed
    <3> QED
      BY <3>2, <3>3 DEF DocQueueStep, UpdateQueueStep
  <2>3. CASE SealFull(i) \/ NotFull(i) \/ TaskHandOff(i) \/ Renew(i) \/ SealLast(i)
             \/ ProcessAdd(i) \/ ProcessDelete(i) \/ ProcessElsewhere(i)
    <3>1. UNCHANGED queues
      BY <2>3 DEF SealFull, SealLast, TaskSeal, NotFull, TaskHandOff, Renew, ProcessAdd, ProcessDelete,
                  ProcessElsewhere
    <3> QED
      BY <3>1 DEF queues, DocQueueStep, UpdateQueueStep
  <2> QED
    BY <1>1, <2>1, <2>2, <2>3 DEF TaskStep
<1>2. ASSUME UpdaterStep PROVE Goal
  <2>1. CASE UpdaterTake
    BY <2>1 DEF UpdaterTake, DocQueueStep, UpdateQueueStep
  <2>2. CASE UpdaterPass
    <3> DEFINE passed == [updaterMsg EXCEPT !.taskId = 0]
    <3>1. updaterMsg \in DocMessages /\ updaterMsg.action \in {"update", "delete"}
      BY <2>2 DEF UpdaterPass, UpdaterShape, KeyMessages
    <3>2. passed \in DocMessages /\ Origin(passed)
      <4>1. passed \in DocMessages /\ passed.key = updaterMsg.key
        BY <3>1, PassedMessage
      <4> HIDE DEF passed
      <4> QED
        BY <3>1, <4>1 DEF Origin, Wanted, Seen
    <3>3. docQueue' = Append(docQueue, passed) /\ Len(docQueue) < DocQueueSize /\ updateQueue' = updateQueue
      BY <2>2 DEF UpdaterPass
    <3> HIDE DEF passed
    <3> QED
      BY <3>2, <3>3 DEF DocQueueStep, UpdateQueueStep
  <2>3. CASE UpdaterMiss \/ \E d \in Docs : UpdaterDelete(d) \/ UpdaterSpin(d)
    BY <2>3 DEF UpdaterMiss, UpdaterDelete, UpdaterSpin, queues, DocQueueStep, UpdateQueueStep
  <2> QED
    BY <1>2, <2>1, <2>2, <2>3 DEF UpdaterStep
<1>3. ASSUME ClientStep PROVE Goal
  <2>1. CASE ForceTask
    BY <1>0, <1>000, <2>1, DummyAndNull DEF ForceTask, KeyMessages
  <2>2. CASE StopTask
    BY <1>0, <1>000, <2>2, DummyAndNull DEF StopTask, KeyMessages
  <2>3. CASE WaitUpdates \/ WaitDocs \/ ForceSeal \/ ForceRenew \/ Flush \/ ClientHandOff
    BY <2>3 DEF WaitUpdates, WaitDocs, ForceSeal, ForceRenew, Flush, ClientHandOff, queues,
                DocQueueStep, UpdateQueueStep
  <2>4. CASE WaitCommit \/ Reset \/ JoinUpdater \/ StopWait \/ JoinTasks \/ CloseScheduler
    BY <2>4 DEF WaitCommit, Reset, JoinUpdater, StopWait, JoinTasks, CloseScheduler, queues,
                DocQueueStep, UpdateQueueStep
  <2> QED
    BY <1>3, <2>1, <2>2, <2>3, <2>4 DEF ClientStep
<1>4. ASSUME NEW d \in Docs, Consume(d) PROVE Goal
  <2>1. CASE d \notin Updates
    <3>1. Message("add", d, Key[d]) \in DocMessages /\ EnqueueDoc(Message("add", d, Key[d]))
      BY <1>4, <2>1, CallMessages DEF Consume, Added
    <3>2. Origin(Message("add", d, Key[d]))
      BY <1>4, <2>1, CallMessages DEF Origin, Added
    <3> QED
      BY <1>0, <3>1, <3>2
  <2>2. CASE d \in Updates
    <3>1. Message("update", d, Key[d]) \in KeyMessages /\ EnqueueUpdate(Message("update", d, Key[d]))
      BY <1>4, <2>2, CallMessages DEF Consume
    <3>2. Origin(Message("update", d, Key[d]))
      <4>1. consumed' = Append(consumed, d) /\ IsSequence(consumed)
        BY <1>4, SequenceOf DEF Consume, ClientShape
      <4>2. d \in Range(consumed')
        BY <4>1, AppendSequence
      <4> QED
        BY <2>2, <4>2, CallMessages DEF Origin
    <3> QED
      BY <1>00, <3>1, <3>2
  <2> QED
    BY <2>1, <2>2
<1>5. ASSUME NEW key \in Range(Key), Delete(key) PROVE Goal
  <2>1. Message("delete", NoDoc, key) \in KeyMessages /\ EnqueueUpdate(Message("delete", NoDoc, key))
    BY <1>5, CallMessages DEF Delete
  <2>2. Origin(Message("delete", NoDoc, key))
    <3> DEFINE x == [key |-> key, sealed |-> primaryKeys]
    <3>1. x \in deletions' /\ x.key = key
      BY <1>5 DEF Delete
    <3> HIDE DEF x
    <3> QED
      BY <3>1, CallMessages DEF Origin
  <2> QED
    BY <1>00, <2>1, <2>2
<1>6. CASE Commit
  BY <1>00, <1>000, <1>6, DummyAndNull DEF Commit
<1>7. CASE Stop
  BY <1>00, <1>000, <1>7, DummyAndNull DEF Stop
<1>8. CASE CommitThreadStep \/ UpdaterSpinning \/ Closed \/ UNCHANGED vars
  BY <1>8 DEF CommitThreadStep, UpdaterSpinning, Closed, vars, queues, DocQueueStep, UpdateQueueStep
<1> QED
  BY <1>1, <1>2, <1>3, <1>4, <1>5, <1>6, <1>7, <1>8 DEF Next

LEMMA QueueShapeStep ==
  ASSUME QueueShape, DocQueueStep, UpdateQueueStep
  PROVE  QueueShape'
<1> USE QueueAssumption
<1> DEFINE DocGoal == docQueue' \in Seq(DocMessages) /\ Len(docQueue') <= DocQueueSize
           UpdateGoal == updateQueue' \in Seq(KeyMessages) /\ Len(updateQueue') <= DocQueueSize
<1>1. DocGoal
  <2>1. CASE docQueue' = docQueue
    BY <2>1 DEF QueueShape
  <2>2. CASE docQueue # <<>> /\ docQueue' = Tail(docQueue)
    BY <2>2, HeadTailProperties DEF QueueShape
  <2>3. ASSUME NEW m \in DocMessages, docQueue' = Append(docQueue, m), Len(docQueue) < DocQueueSize
        PROVE  DocGoal
    BY <2>3, AppendProperties DEF QueueShape
  <2> QED
    BY <2>1, <2>2, <2>3 DEF DocQueueStep
<1>2. UpdateGoal
  <2>1. CASE updateQueue' = updateQueue
    BY <2>1 DEF QueueShape
  <2>2. CASE updateQueue # <<>> /\ updateQueue' = Tail(updateQueue)
    BY <2>2, HeadTailProperties DEF QueueShape
  <2>3. ASSUME NEW m \in KeyMessages, updateQueue' = Append(updateQueue, m), Len(updateQueue) < DocQueueSize
        PROVE  UpdateGoal
    BY <2>3, AppendProperties DEF QueueShape
  <2> QED
    BY <2>1, <2>2, <2>3 DEF UpdateQueueStep
<1> QED
  BY <1>1, <1>2 DEF QueueShape

\* A step of one task, or of the client in its place, that leaves the others alone.
LEMMA TaskMove ==
  ASSUME TaskShape, BarrelIds \subseteq BarrelIds', NEW i \in Tasks,
         NEW pc \in TaskPlaces, NEW m \in DocMessages, NEW w \in BarrelIds',
         NEW hand \in Seq(BarrelIds'), TaskState(pc, m, hand),
         taskPc' = [taskPc EXCEPT ![i] = pc], taskMsg' = [taskMsg EXCEPT ![i] = m],
         writer' = [writer EXCEPT ![i] = w], taskHand' = [taskHand EXCEPT ![i] = hand]
  PROVE  TaskShape'
<1>1. Seq(BarrelIds) \subseteq Seq(BarrelIds')
  BY SeqMonotonic
<1>2. /\ taskPc' \in [Tasks -> TaskPlaces] /\ taskMsg' \in [Tasks -> DocMessages]
      /\ writer' \in [Tasks -> BarrelIds'] /\ taskHand' \in [Tasks -> Seq(BarrelIds')]
  BY <1>1 DEF TaskShape
<1>3. ASSUME NEW j \in Tasks PROVE TaskState(taskPc'[j], taskMsg'[j], taskHand'[j])
  <2>1. CASE j = i
    BY <2>1 DEF TaskShape
  <2>2. CASE j # i
    <3>1. taskPc'[j] = taskPc[j] /\ taskMsg'[j] = taskMsg[j] /\ taskHand'[j] = taskHand[j]
      BY <2>2 DEF TaskShape
    <3> QED
      BY <3>1 DEF TaskShape
  <2> QED
    BY <2>1, <2>2
<1> QED
  BY <1>2, <1>3 DEF TaskShape, TaskState, Tasks

LEMMA SealedBatchShape ==
  ASSUME KeeperShape, NEW b \in BarrelIds
  PROVE  SealedBatch(b) \in Seq(BarrelIds)
<1>1. Append(batch, b) \in Seq(BarrelIds) /\ batch \in Seq(BarrelIds)
  BY AppendProperties DEF KeeperShape
<1>2. Gathered(b) \in Seq(BarrelIds)
  BY <1>1 DEF Gathered
<1> QED
  BY <1>2, EmptySeq DEF SealedBatch

\* Whose the threads' variables are.
LEMMA OthersLeaveTasks ==
  ASSUME [Next]_vars
  PROVE  UNCHANGED taskVars \/ ForceRenew \/ \E i \in Tasks : TaskStep(i)
<1>1. ASSUME ClientStep PROVE ForceRenew \/ UNCHANGED taskVars
  <2>1. CASE WaitUpdates \/ ForceTask \/ WaitDocs \/ ForceSeal \/ Flush \/ ClientHandOff \/ WaitCommit
    BY <2>1 DEF WaitUpdates, ForceTask, WaitDocs, ForceSeal, Flush, ClientHandOff, WaitCommit
  <2>2. CASE Reset \/ JoinUpdater \/ StopTask \/ StopWait \/ JoinTasks \/ CloseScheduler
    BY <2>2 DEF Reset, JoinUpdater, StopTask, StopWait, JoinTasks, CloseScheduler
  <2> QED
    BY <1>1, <2>1, <2>2 DEF ClientStep
<1>2. ASSUME UpdaterStep PROVE UNCHANGED taskVars
  BY <1>2 DEF UpdaterStep, UpdaterTake, UpdaterMiss, UpdaterPass, UpdaterDelete, UpdaterSpin
<1>3. ASSUME \/ CommitThreadStep \/ UpdaterSpinning \/ Commit \/ Stop \/ Closed \/ UNCHANGED vars
             \/ \E d \in Docs : Consume(d)
             \/ \E key \in Range(Key) : Delete(key)
      PROVE  UNCHANGED taskVars
  BY <1>3 DEF CommitThreadStep, UpdaterSpinning, Commit, Stop, Closed, vars, Consume, Delete
<1> QED
  BY <1>1, <1>2, <1>3 DEF Next

LEMMA OthersLeaveUpdater ==
  ASSUME [Next]_vars
  PROVE  UNCHANGED updaterVars \/ UpdaterStep
<1>1. ASSUME NEW i \in Tasks, TaskStep(i) PROVE UNCHANGED updaterVars
  BY <1>1 DEF TaskStep, SealFull, SealLast, TaskSeal, NotFull, TaskHandOff, Renew, TaskTake, ProcessAdd,
              ProcessDelete, ProcessElsewhere, Pass
<1>2. ASSUME ClientStep PROVE UNCHANGED updaterVars
  <2>1. CASE WaitUpdates \/ ForceTask \/ WaitDocs \/ ForceSeal \/ Flush \/ ClientHandOff \/ WaitCommit
    BY <2>1 DEF WaitUpdates, ForceTask, WaitDocs, ForceSeal, Flush, ClientHandOff, WaitCommit
  <2>2. CASE Reset \/ JoinUpdater \/ StopTask \/ StopWait \/ JoinTasks \/ CloseScheduler \/ ForceRenew
    BY <2>2 DEF Reset, JoinUpdater, StopTask, StopWait, JoinTasks, CloseScheduler, ForceRenew
  <2> QED
    BY <1>2, <2>1, <2>2 DEF ClientStep
<1>3. ASSUME \/ CommitThreadStep \/ UpdaterSpinning \/ Commit \/ Stop \/ Closed \/ UNCHANGED vars
             \/ \E d \in Docs : Consume(d)
             \/ \E key \in Range(Key) : Delete(key)
      PROVE  UNCHANGED updaterVars
  BY <1>3 DEF CommitThreadStep, UpdaterSpinning, Commit, Stop, Closed, vars, Consume, Delete
<1> QED
  BY <1>1, <1>2, <1>3 DEF Next

LEMMA OthersLeaveClient ==
  ASSUME [Next]_vars
  PROVE  \/ ClientStep \/ Commit \/ Stop
         \/ \E d \in Docs : Consume(d)
         \/ \E key \in Range(Key) : Delete(key)
         \/ UNCHANGED <<clientVars, history>>
<1>1. ASSUME NEW i \in Tasks, TaskStep(i) PROVE UNCHANGED <<clientVars, history>>
  BY <1>1 DEF TaskStep, SealFull, SealLast, TaskSeal, NotFull, TaskHandOff, Renew, TaskTake, ProcessAdd,
              ProcessDelete, ProcessElsewhere, Pass
<1>2. ASSUME UpdaterStep PROVE UNCHANGED <<clientVars, history>>
  BY <1>2 DEF UpdaterStep, UpdaterTake, UpdaterMiss, UpdaterPass, UpdaterDelete, UpdaterSpin
<1>3. ASSUME CommitThreadStep \/ UpdaterSpinning \/ Closed \/ UNCHANGED vars
      PROVE  UNCHANGED <<clientVars, history>>
  BY <1>3 DEF CommitThreadStep, UpdaterSpinning, Closed, vars
<1> QED
  BY <1>1, <1>2, <1>3 DEF Next

LEMMA TaskShapeStep ==
  ASSUME ShapeInv, [Next]_vars, BarrelIds \subseteq BarrelIds', KeeperShape'
  PROVE  TaskShape'
<1> USE DEF ShapeInv
<1>0. Seq(BarrelIds) \subseteq Seq(BarrelIds')
  BY SeqMonotonic
<1>1. ASSUME NEW i \in Tasks, TaskStep(i) PROVE TaskShape'
  <2> DEFINE m == taskMsg[i]
  <2>1. /\ taskPc \in [Tasks -> TaskPlaces] /\ taskMsg \in [Tasks -> DocMessages]
        /\ writer \in [Tasks -> BarrelIds] /\ taskHand \in [Tasks -> Seq(BarrelIds)]
    BY DEF TaskShape
  <2>2. m \in DocMessages /\ writer[i] \in BarrelIds /\ writer[i] \in BarrelIds'
        /\ taskHand[i] \in Seq(BarrelIds')
    BY <1>0, <2>1
  <2>3. /\ taskPc' = taskPc => taskPc' = [taskPc EXCEPT ![i] = taskPc[i]]
        /\ taskMsg' = taskMsg => taskMsg' = [taskMsg EXCEPT ![i] = m]
        /\ writer' = writer => writer' = [writer EXCEPT ![i] = writer[i]]
        /\ taskHand' = taskHand => taskHand' = [taskHand EXCEPT ![i] = taskHand[i]]
    BY <2>1
  <2>4. TaskState(taskPc[i], m, taskHand[i])
    BY DEF TaskShape
  <2>5. Dummy \in DocMessages /\ <<>> \in Seq(BarrelIds') /\ Dummy # Null
    BY DummyAndNull, EmptySeq DEF KeyMessages
  <2>6. ASSUME NEW next \in {"renew", "exited"}, TaskSeal(i, next), next = "renew" => m = Dummy,
               next = "exited" => m = Null
        PROVE  TaskShape'
    <3> DEFINE taken == SealedBatch(writer[i])
               pc == IF taken # <<>> THEN "handOff" ELSE next
    <3>1. taken \in Seq(BarrelIds')
      BY <1>0, <2>2, SealedBatchShape
    <3>2. taskPc' = [taskPc EXCEPT ![i] = pc] /\ taskHand' = [taskHand EXCEPT ![i] = taken]
          /\ writer' = writer /\ taskMsg' = taskMsg
      BY <2>6 DEF TaskSeal, TaskGoto
    <3>3. pc \in TaskPlaces /\ TaskState(pc, m, taken)
      BY <2>6 DEF TaskPlaces, TaskState
    <3> HIDE DEF taken, pc, m
    <3> QED
      BY <2>2, <2>3, <3>1, <3>2, <3>3, TaskMove
  <2>7. CASE SealFull(i)
    BY <2>4, <2>6, <2>7 DEF SealFull, TaskState
  <2>8. CASE SealLast(i)
    BY <2>4, <2>6, <2>8 DEF SealLast, TaskState
  <2>9. ASSUME NEW pc \in TaskPlaces, taskPc' = [taskPc EXCEPT ![i] = pc],
               UNCHANGED <<taskMsg, writer, taskHand>>, TaskState(pc, m, taskHand[i])
        PROVE  TaskShape'
    BY ZenonT(60), <2>2, <2>3, <2>9, TaskMove
  <2>10. ASSUME NEW pc \in {"loop", "full"}, Processed(i, pc), UNCHANGED <<writer, taskHand>>,
                taskPc[i] # "handOff"
         PROVE  TaskShape'
    <3>1. taskPc' = [taskPc EXCEPT ![i] = pc] /\ taskMsg' = [taskMsg EXCEPT ![i] = Dummy]
      BY <2>10 DEF Processed, TaskGoto
    <3>2. pc \in TaskPlaces /\ TaskState(pc, Dummy, taskHand[i])
      BY <2>4, <2>10 DEF TaskState, TaskPlaces
    <3> QED
      BY <2>2, <2>3, <2>5, <2>10, <3>1, <3>2, TaskMove
  <2>11. CASE NotFull(i)
    <3>1. TaskState("loop", m, taskHand[i]) /\ "loop" \in TaskPlaces
      BY <2>4, <2>11 DEF NotFull, TaskState, TaskPlaces
    <3> QED
      BY <2>9, <2>11, <3>1 DEF NotFull, TaskGoto
  <2>12. CASE TaskHandOff(i)
    <3> DEFINE pc == IF m = Null THEN "exited" ELSE "renew"
    <3>1. TaskState(pc, m, <<>>) /\ pc \in TaskPlaces
      BY <2>4, <2>12 DEF TaskHandOff, TaskState, TaskPlaces
    <3>2. taskPc' = [taskPc EXCEPT ![i] = pc] /\ taskHand' = [taskHand EXCEPT ![i] = <<>>]
          /\ writer' = writer /\ taskMsg' = taskMsg
      BY <2>12 DEF TaskHandOff, TaskGoto
    <3> HIDE DEF pc, m
    <3> QED
      BY <2>2, <2>3, <2>5, <3>1, <3>2, TaskMove
  <2>13. CASE Renew(i)
    <3>1. TaskState("loop", m, taskHand[i]) /\ "loop" \in TaskPlaces
      BY <2>4, <2>13 DEF Renew, TaskState, TaskPlaces
    <3>2. taskPc' = [taskPc EXCEPT ![i] = "loop"] /\ writer' = [writer EXCEPT ![i] = Len(barrels')]
          /\ taskHand' = taskHand /\ taskMsg' = taskMsg
      BY <2>13 DEF Renew, TaskGoto
    <3>3. Len(barrels') \in BarrelIds'
      <4>1. EmptyBarrel \in Barrels
        BY EmptySeq DEF EmptyBarrel, Barrels
      <4>2. Len(barrels') = Len(barrels) + 1 /\ Len(barrels) \in Nat
        BY <2>13, <4>1, AppendProperties DEF Renew, CreateBarrelWriter, KeeperShape
      <4> QED
        BY <4>2 DEF BarrelIds
    <3> QED
      BY <2>2, <2>3, <3>1, <3>2, <3>3, TaskMove
  <2>14. CASE TaskTake(i)
    <3> DEFINE taken == Head(docQueue)
    <3>1. taken \in DocMessages
      BY <2>14, HeadTailProperties DEF TaskTake, QueueShape
    <3>2. CASE taken = Dummy
      <4>1. UNCHANGED taskVars
        BY <2>14, <3>2 DEF TaskTake, taskVars
      <4> QED
        BY <2>2, <2>3, <2>4, <4>1, TaskMove DEF taskVars, TaskShape
    <3>3. CASE taken # Dummy
      <4> DEFINE pc == IF taken = Null THEN "last" ELSE "process"
      <4>1. /\ taskPc' = [taskPc EXCEPT ![i] = pc] /\ taskMsg' = [taskMsg EXCEPT ![i] = taken]
            /\ writer' = writer /\ taskHand' = taskHand
        BY <2>14, <3>3 DEF TaskTake, TaskGoto
      <4>2. taken # Null => taken.action \in {"add", "update", "delete"}
        BY <3>1, <3>3, MessageDocs
      <4>3. TaskState(pc, taken, taskHand[i]) /\ pc \in TaskPlaces
        BY <2>4, <2>14, <4>2 DEF TaskTake, TaskState, TaskPlaces
      <4> HIDE DEF pc, taken, m
      <4> QED
        BY <2>2, <2>3, <3>1, <4>1, <4>3, TaskMove
    <3> QED
      BY <3>2, <3>3
  <2>15. CASE ProcessAdd(i)
    BY <2>10, <2>15 DEF ProcessAdd
  <2>16. CASE ProcessDelete(i)
    BY <2>10, <2>16 DEF ProcessDelete
  <2>17. CASE ProcessElsewhere(i)
    <3>1. CASE NextTaskId(i) # INVALID_TASKID /\ TaskGoto(i, "pass") /\ UNCHANGED taskMsg
      <4>1. TaskState("pass", m, taskHand[i]) /\ "pass" \in TaskPlaces
        BY <2>4, <2>17 DEF ProcessElsewhere, TaskState, TaskPlaces
      <4> QED
        BY <2>9, <2>17, <3>1, <4>1 DEF ProcessElsewhere, TaskGoto
    <3>2. CASE Processed(i, "loop")
      BY <2>10, <2>17, <3>2 DEF ProcessElsewhere
    <3> QED
      BY <2>17, <3>1, <3>2 DEF ProcessElsewhere
  <2>18. CASE Pass(i)
    BY <2>10, <2>18 DEF Pass
  <2> QED
    BY <1>1, <2>7, <2>8, <2>11, <2>12, <2>13, <2>14, <2>15, <2>16, <2>17, <2>18 DEF TaskStep
<1>2. CASE ForceRenew
  <2>1. turn \in Tasks
    BY <1>2 DEF ForceRenew, ClientShape, ForcePlaces
  <2>2. /\ taskPc' = [taskPc EXCEPT ![turn] = taskPc[turn]] /\ taskMsg' = [taskMsg EXCEPT ![turn] = taskMsg[turn]]
        /\ taskHand' = [taskHand EXCEPT ![turn] = taskHand[turn]]
        /\ writer' = [writer EXCEPT ![turn] = Len(barrels')]
    BY <1>2 DEF ForceRenew, TaskShape
  <2>3. Len(barrels') \in BarrelIds'
    <3>1. EmptyBarrel \in Barrels
      BY EmptySeq DEF EmptyBarrel, Barrels
    <3>2. Len(barrels') = Len(barrels) + 1 /\ Len(barrels) \in Nat
      BY <1>2, <3>1, AppendProperties DEF ForceRenew, CreateBarrelWriter, KeeperShape
    <3> QED
      BY <3>2 DEF BarrelIds
  <2>4. /\ taskPc[turn] \in TaskPlaces /\ taskMsg[turn] \in DocMessages /\ taskHand[turn] \in Seq(BarrelIds')
        /\ TaskState(taskPc[turn], taskMsg[turn], taskHand[turn])
    BY <1>0, <2>1 DEF TaskShape
  <2> QED
    BY <2>1, <2>2, <2>3, <2>4, TaskMove
<1>3. ASSUME UNCHANGED taskVars PROVE TaskShape'
  <2>1. taskHand \in [Tasks -> Seq(BarrelIds')] /\ writer \in [Tasks -> BarrelIds']
    BY <1>0 DEF TaskShape
  <2> QED
    BY <1>3, <2>1 DEF TaskShape, taskVars, TaskState
<1> QED
  BY <1>1, <1>2, <1>3, OthersLeaveTasks

LEMMA UpdaterShapeStep ==
  ASSUME ShapeInv, [Next]_vars
  PROVE  UpdaterShape'
<1> USE DEF ShapeInv
<1> DEFINE UpdaterPlaces == {"loop", "lookup", "spin", "pass", "exited"}
<1>1. ASSUME NEW pc \in UpdaterPlaces, NEW m \in KeyMessages, updaterPc' = pc, updaterMsg' = m,
             pc \in {"loop", "exited"} => m = Dummy,
             pc \in {"lookup", "spin", "pass"} => m.action \in {"update", "delete"}
      PROVE  UpdaterShape'
  BY <1>1 DEF UpdaterShape
<1>2. Dummy \in KeyMessages
  BY DummyAndNull
<1>3. ASSUME UpdaterStep PROVE UpdaterShape'
  <2>1. CASE UpdaterTake
    <3> DEFINE m == Head(updateQueue)
    <3>1. m \in KeyMessages
      BY <2>1, HeadTailProperties DEF UpdaterTake, QueueShape
    <3>2. CASE m = Dummy
      BY <2>1, <3>2 DEF UpdaterTake, UpdaterShape, updaterVars
    <3>3. CASE m = Null
      <4>1. m # Dummy
        BY <3>3, DummyAndNull
      <4>2. updaterPc' = "exited" /\ updaterMsg' = Dummy
        BY <2>1, <3>3, <4>1 DEF UpdaterTake
      <4> HIDE DEF m
      <4> QED
        BY <1>1, <1>2, <4>2
    <3>4. CASE m # Dummy /\ m # Null
      <4>1. m.action \in {"update", "delete"}
        BY <3>1, <3>4, MessageDocs DEF KeyMessages
      <4>2. updaterPc' = "lookup" /\ updaterMsg' = m
        BY <2>1, <3>4 DEF UpdaterTake
      <4> HIDE DEF m
      <4> QED
        BY <1>1, <3>1, <4>1, <4>2
    <3> QED
      BY <3>2, <3>3, <3>4
  <2>2. CASE UpdaterMiss
    BY <2>2 DEF UpdaterMiss, UpdaterShape
  <2>3. CASE UpdaterPass
    BY <1>1, <1>2, <2>3 DEF UpdaterPass
  <2>4. ASSUME NEW d \in Docs, UpdaterDelete(d) PROVE UpdaterShape'
    BY <1>1, <1>2, <2>4 DEF UpdaterDelete
  <2>5. ASSUME NEW d \in Docs, UpdaterSpin(d) PROVE UpdaterShape'
    BY <2>5 DEF UpdaterSpin, UpdaterShape
  <2> QED
    BY <1>3, <2>1, <2>2, <2>3, <2>4, <2>5 DEF UpdaterStep
<1>4. ASSUME UNCHANGED updaterVars PROVE UpdaterShape'
  BY <1>4 DEF updaterVars, UpdaterShape
<1> QED
  BY <1>3, <1>4, OthersLeaveUpdater

LEMMA ClientShapeStep ==
  ASSUME ShapeInv, [Next]_vars, BarrelIds \subseteq BarrelIds'
  PROVE  ClientShape'
<1> USE DEF ShapeInv
<1>0. /\ Seq(BarrelIds) \subseteq Seq(BarrelIds') /\ <<>> \in Seq(BarrelIds')
      /\ clientHand \in Seq(BarrelIds') /\ clientHand \in Seq(BarrelIds) /\ 1 \in Tasks
  <2>1. Seq(BarrelIds) \subseteq Seq(BarrelIds')
    BY SeqMonotonic
  <2> QED
    BY <2>1, EmptySeq, BuildThreadAssumption DEF ClientShape, Tasks
<1> DEFINE Hist == UNCHANGED <<consumed, deletions>>
<1>1. ASSUME NEW pc \in ClientPlaces, NEW t \in Nat, NEW hand \in Seq(BarrelIds'), NEW n \in Nat,
             clientPc' = pc, turn' = t, clientHand' = hand, commits' = n, Hist,
             pc \in {"waitUpdates", "joinUpdater"} => t = 1,
             pc \in ForcePlaces \cup {"stopTasks"} => t \in Tasks,
             hand # <<>> <=> pc \in HandOffPlaces,
             n = 0 => pc \notin CommitPlaces
      PROVE  ClientShape'
  BY <1>1 DEF ClientShape, ForcePlaces, CommitPlaces, HandOffPlaces, Tasks
<1> DEFINE Fine == /\ clientPc \in ClientPlaces /\ turn \in Nat /\ commits \in Nat
                   /\ clientPc \in {"waitUpdates", "joinUpdater"} => turn = 1
                   /\ clientPc \in ForcePlaces \cup {"stopTasks"} => turn \in Tasks
                   /\ clientHand # <<>> <=> clientPc \in HandOffPlaces
                   /\ commits = 0 => clientPc \notin CommitPlaces
<1>2. Fine
  BY DEF ClientShape
<1>3. ASSUME NEW pc \in ClientPlaces \ HandOffPlaces, ClientGoto(pc), Hist,
             clientPc \notin HandOffPlaces,
             pc \notin {"waitUpdates", "joinUpdater"},
             pc \in ForcePlaces \cup {"stopTasks"} =>
                 clientPc \in ForcePlaces \cup {"waitUpdates", "joinUpdater"},
             pc \in CommitPlaces => clientPc \in CommitPlaces
      PROVE  ClientShape'
  BY <1>0, <1>1, <1>2, <1>3 DEF ClientGoto
<1>4. ASSUME ClientStep PROVE ClientShape'
  <2>1. ASSUME UNCHANGED history PROVE Hist
    BY <2>1 DEF history
  <2> USE DEF ClientPlaces, ForcePlaces, CommitPlaces, WaitPlaces, StopPlaces, HandOffPlaces
  <2>2. CASE WaitUpdates
    BY <1>3, <2>1, <2>2 DEF WaitUpdates
  <2>3. CASE ForceTask
    BY <1>3, <2>1, <2>3 DEF ForceTask
  <2>4. CASE WaitDocs
    BY <1>3, <2>1, <2>4 DEF WaitDocs
  <2>5. CASE ForceSeal
    <3> DEFINE taken == SealedBatch(writer[turn])
               pc == IF taken # <<>> THEN "sealHandOff" ELSE "renew"
    <3>1. taken \in Seq(BarrelIds')
      BY <1>0, <1>2, <2>5, SealedBatchShape DEF ForceSeal, TaskShape
    <3>2. clientPc' = pc /\ clientHand' = taken /\ clientPc = "seal" /\ turn' = turn /\ commits' = commits
      BY <2>5 DEF ForceSeal
    <3> HIDE DEF taken
    <3> QED
      BY <1>1, <1>2, <2>1, <2>5, <3>1, <3>2 DEF ForceSeal
  <2>6. CASE ForceRenew
    <3>1. /\ clientPc = "renew" /\ turn' = turn + 1 /\ clientHand' = clientHand /\ commits' = commits
          /\ clientPc' = IF turn < BuildThreadCount THEN "force" ELSE "flush"
      BY <2>6 DEF ForceRenew
    <3>2. turn \in Tasks /\ turn + 1 \in Nat /\ (turn < BuildThreadCount => turn + 1 \in Tasks)
      BY <1>2, <3>1, BuildThreadAssumption DEF Tasks
    <3>3. Hist /\ clientHand = <<>> /\ commits # 0
      BY <1>2, <2>1, <2>6, <3>1 DEF ForceRenew
    <3>4. /\ clientPc' \in ClientPlaces /\ clientPc' \notin {"waitUpdates", "joinUpdater", "stopTasks"}
          /\ clientPc' \in ForcePlaces => turn' \in Tasks
          /\ clientPc' \notin HandOffPlaces
      BY <3>1, <3>2
    <3>5. turn' \in Nat /\ commits \in Nat
      BY <1>2, <3>1, <3>2
    <3> HIDE DEF ClientPlaces, ForcePlaces, CommitPlaces, HandOffPlaces
    <3> QED
      BY <1>0, <1>1, <3>1, <3>3, <3>4, <3>5
  <2>7. CASE Flush
    <3>1. batch \in Seq(BarrelIds')
      BY <1>0 DEF KeeperShape
    <3>2. /\ clientPc \in {"flush", "flushAgain"} /\ clientHand' = batch /\ turn' = turn /\ commits' = commits
          /\ clientPc' = CASE batch # <<>> /\ clientPc = "flush" -> "flushHandOff"
                     [] batch # <<>> /\ clientPc = "flushAgain" -> "flushAgainHandOff"
                     [] batch = <<>> /\ clientPc = "flush" -> "flushAgain"
                     [] batch = <<>> /\ clientPc = "flushAgain" -> "waitCommit"
      BY <2>7 DEF Flush
    <3>3. \/ batch # <<>> /\ clientPc = "flush" /\ clientPc' = "flushHandOff"
          \/ batch # <<>> /\ clientPc = "flushAgain" /\ clientPc' = "flushAgainHandOff"
          \/ batch = <<>> /\ clientPc = "flush" /\ clientPc' = "flushAgain"
          \/ batch = <<>> /\ clientPc = "flushAgain" /\ clientPc' = "waitCommit"
      BY <3>2
    <3> QED
      BY <1>1, <1>2, <2>1, <2>7, <3>1, <3>2, <3>3 DEF Flush
  <2>8. CASE ClientHandOff
    <3>1. /\ clientPc \in HandOffPlaces /\ clientHand' = <<>> /\ turn' = turn /\ commits' = commits
          /\ clientPc' = CASE clientPc = "sealHandOff" -> "renew"
                     [] clientPc = "flushHandOff" -> "flushAgain"
                     [] clientPc = "flushAgainHandOff" -> "waitCommit"
      BY <2>8 DEF ClientHandOff
    <3>2. \/ clientPc = "sealHandOff" /\ clientPc' = "renew"
          \/ clientPc = "flushHandOff" /\ clientPc' = "flushAgain"
          \/ clientPc = "flushAgainHandOff" /\ clientPc' = "waitCommit"
      BY <3>1
    <3> QED
      BY <1>0, <1>1, <1>2, <2>1, <2>8, <3>1, <3>2 DEF ClientHandOff
  <2>9. CASE WaitCommit
    BY <1>3, <2>1, <2>9 DEF WaitCommit
  <2>10. CASE Reset
    BY <1>3, <2>1, <2>10 DEF Reset
  <2>11. CASE JoinUpdater
    BY <1>3, <2>1, <2>11 DEF JoinUpdater
  <2>12. CASE StopTask
    <3>1. /\ clientPc = "stopTasks" /\ turn' = turn + 1 /\ clientHand' = clientHand /\ commits' = commits
          /\ clientPc' = IF turn < BuildThreadCount THEN "stopTasks" ELSE "stopWait"
      BY <2>12 DEF StopTask
    <3>2. turn \in Tasks /\ turn + 1 \in Nat /\ (turn < BuildThreadCount => turn + 1 \in Tasks)
      BY <1>2, <3>1, BuildThreadAssumption DEF Tasks
    <3> QED
      BY <1>0, <1>1, <1>2, <2>1, <2>12, <3>1, <3>2 DEF StopTask
  <2>13. CASE StopWait
    BY <1>3, <2>1, <2>13 DEF StopWait
  <2>14. CASE JoinTasks
    BY <1>3, <2>1, <2>14 DEF JoinTasks
  <2>15. CASE CloseScheduler
    BY <1>3, <2>1, <2>15 DEF CloseScheduler
  <2> QED
    BY <1>4, <2>2, <2>3, <2>4, <2>5, <2>6, <2>7, <2>8, <2>9, <2>10, <2>11, <2>12, <2>13, <2>14, <2>15
       DEF ClientStep
<1>5. CASE Commit
  <2>1. /\ clientPc = "idle" /\ clientPc' = "waitUpdates" /\ turn' = 1 /\ clientHand' = clientHand
        /\ commits' = commits + 1 /\ Hist
    BY <1>5 DEF Commit, MayCall
  <2>2. clientHand = <<>> /\ commits + 1 \in Nat /\ commits + 1 # 0
    BY <1>2, <2>1 DEF HandOffPlaces
  <2>3. "waitUpdates" \in ClientPlaces /\ "waitUpdates" \notin HandOffPlaces
    BY DEF ClientPlaces, CommitPlaces, HandOffPlaces
  <2> QED
    BY <1>0, <1>1, <2>1, <2>2, <2>3
<1>6. CASE Stop
  <2>1. /\ clientPc = "idle" /\ clientPc' = "joinUpdater" /\ turn' = 1 /\ clientHand' = clientHand
        /\ commits' = commits /\ Hist
    BY <1>6 DEF Stop, history
  <2>2. clientHand = <<>>
    BY <1>2, <2>1 DEF HandOffPlaces
  <2>3. /\ "joinUpdater" \in ClientPlaces /\ "joinUpdater" \notin HandOffPlaces
        /\ "joinUpdater" \notin CommitPlaces
    BY DEF ClientPlaces, StopPlaces, HandOffPlaces, CommitPlaces, ForcePlaces
  <2> QED
    BY <1>0, <1>1, <1>2, <2>1, <2>2, <2>3
<1>7. ASSUME NEW d \in Docs, Consume(d) PROVE ClientShape'
  <2>1. consumed' \in Seq(Docs)
    BY <1>7, AppendProperties DEF Consume, ClientShape
  <2> QED
    BY <1>0, <1>7, <2>1 DEF Consume, ClientShape, clientVars, Tasks
<1>8. ASSUME NEW key \in Range(Key), Delete(key) PROVE ClientShape'
  <2>1. [key |-> key, sealed |-> primaryKeys] \in [key : Range(Key), sealed : SUBSET Added]
    BY DEF KeeperShape
  <2>2. deletions' \subseteq [key : Range(Key), sealed : SUBSET Added]
    BY <1>8, <2>1 DEF Delete, ClientShape
  <2> QED
    BY <1>0, <1>8, <2>2 DEF Delete, ClientShape, Tasks
<1>9. ASSUME UNCHANGED <<clientVars, history>> PROVE ClientShape'
  BY <1>0, <1>9 DEF ClientShape, clientVars, history, Tasks
<1> QED
  BY <1>4, <1>5, <1>6, <1>7, <1>8, <1>9, OthersLeaveClient

LEMMA InitShape == Init => ShapeInv
<1> SUFFICES ASSUME Init PROVE ShapeInv
  OBVIOUS
<1>1. EmptyBarrel \in Barrels /\ EmptyBarrel.described = {}
  BY EmptySeq DEF EmptyBarrel, Barrels
<1>2. barrels = [b \in 1..BuildThreadCount |-> EmptyBarrel]
  BY DEF Init, KeeperInit
<1>3. barrels \in Seq(Barrels) /\ BarrelIds = 1..BuildThreadCount
  <2>1. barrels \in [1..BuildThreadCount -> Barrels] /\ BuildThreadCount \in Nat
    BY <1>1, <1>2, BuildThreadAssumption
  <2> QED
    BY <2>1 DEF BarrelIds
<1>4. KeeperShape
  <2>1. \A b \in BarrelIds : barrels[b].described \subseteq Range(barrels[b].docs)
    BY <1>1, <1>2, <1>3
  <2> QED
    BY <1>3, <2>1, EmptySeq DEF Init, KeeperInit, KeeperShape
<1>5. QueueShape
  BY EmptySeq, QueueAssumption DEF Init, QueueShape
<1>6. TaskShape
  <2>1. Dummy \in DocMessages
    BY DummyAndNull DEF KeyMessages
  <2>2. TaskState("loop", Dummy, <<>>)
    BY DEF TaskState
  <2> QED
    BY <1>3, <2>1, <2>2, EmptySeq DEF Init, TaskShape, TaskPlaces, Tasks
<1>7. UpdaterShape
  BY DummyAndNull DEF Init, UpdaterShape
<1>8. ClientShape
  BY EmptySeq
     DEF Init, ClientShape, ClientPlaces, ForcePlaces, CommitPlaces, HandOffPlaces, WaitPlaces, StopPlaces
<1> QED
  BY <1>4, <1>5, <1>6, <1>7, <1>8 DEF ShapeInv

LEMMA ShapeStep ==
  ASSUME ShapeInv, [Next]_vars
  PROVE  ShapeInv' /\ BarrelIds \subseteq BarrelIds'
<1>1. KeeperShape' /\ BarrelIds \subseteq BarrelIds'
  BY KeeperSteps, KeeperShapeStep DEF ShapeInv
<1>2. QueueShape'
  BY QueueSteps, QueueShapeStep DEF ShapeInv
<1> QED
  BY <1>1, <1>2, TaskShapeStep, UpdaterShapeStep, ClientShapeStep DEF ShapeInv

\* Every list, message and index is of the kind it is taken for: a barrel that a
\* task writes, a list names or the client seals exists, a task sees no message that
\* doProcess does not know, and the queues keep within their size.
THEOREM TypesAreRight == Spec => []TypeOK
<1>1. ShapeInv => TypeOK
  <2> SUFFICES ASSUME ShapeInv PROVE TypeOK
    OBVIOUS
  <2> USE DEF ShapeInv
  <2>1. ASSUME NEW b \in BarrelIds
        PROVE  /\ Range(barrels[b].docs) \subseteq Docs \ Updates
               /\ barrels[b].described \subseteq Range(barrels[b].docs)
    <3>1. barrels[b] \in Barrels
      BY ElementOfSeq DEF KeeperShape, BarrelIds
    <3> QED
      BY <3>1, RangeOfSeq DEF Barrels, KeeperShape, Added
  <2>2. Range(docQueue) \subseteq Messages /\ Range(updateQueue) \subseteq Messages
    BY RangeOfSeq DEF QueueShape, DocMessages, KeyMessages
  <2>3. Range(commitMap) \subseteq BarrelIds /\ Range(onDisk) \subseteq BarrelIds
    BY RangeOfSeq DEF KeeperShape
  <2> QED
    BY <2>1, <2>2, <2>3
       DEF TypeOK, QueueShape, TaskShape, UpdaterShape, KeeperShape, DocMessages, KeyMessages, Added
<1>2. ShapeInv /\ [Next]_vars => ShapeInv'
  BY ShapeStep
<1> QED
  BY InitShape, <1>1, <1>2, PTL DEF Spec

-----------------------------------------------------------------------------
(* What happens to the added documents                                     *)

SameDocs == \A b \in BarrelIds : barrels'[b].docs = barrels[b].docs
NewBarrelsEmpty == \A b \in BarrelIds' \ BarrelIds : barrels'[b].docs = <<>>

\* One is consumed, ...
Enter(d, m) ==
    /\ d \in Added \ Range(consumed) /\ m.doc = d
    /\ consumed' = Append(consumed, d) /\ docQueue' = Append(docQueue, m)
    /\ UNCHANGED <<taskMsg, writer, barrels, deleted>>

\* ... a task takes the first message, ...
Take(i) ==
    /\ docQueue # <<>> /\ docQueue' = Tail(docQueue)
    /\ taskMsg[i] = Dummy /\ taskMsg' = [taskMsg EXCEPT ![i] = Head(docQueue)]
    /\ UNCHANGED <<consumed, writer, barrels, deleted>>

\* ... a task puts its document into its barrel, ...
Put(i) ==
    /\ taskMsg[i].doc \in Added /\ AddDocument(writer[i], taskMsg[i].doc)
    /\ taskMsg' = [taskMsg EXCEPT ![i] = Dummy]
    /\ UNCHANGED <<consumed, docQueue, writer>>

\* ... or all stay where they are.
Stay ==
    /\ docQueue' = docQueue \/ \E m \in DocMessages : m.doc \notin Added /\ docQueue' = Append(docQueue, m)
    /\ \A i \in Tasks : \/ taskMsg'[i] = taskMsg[i]
                        \/ taskMsg'[i].doc \notin Added /\ taskMsg[i].doc \notin Added
    /\ consumed' = consumed \/ \E u \in Updates : consumed' = Append(consumed, u)
    /\ SameDocs /\ NewBarrelsEmpty
    /\ \/ writer' = writer
       \/ \E i \in Tasks : writer' = [writer EXCEPT ![i] = Len(barrels')] /\ CreateBarrelWriter

DocumentStep ==
    \/ \E d \in Added, m \in DocMessages : Enter(d, m)
    \/ \E i \in Tasks : Take(i)
    \/ \E i \in Tasks : Put(i)
    \/ Stay

LEMMA CreateEffect ==
  ASSUME KeeperShape, CreateBarrelWriter
  PROVE  /\ Len(barrels) \in Nat /\ Len(barrels') = Len(barrels) + 1
         /\ BarrelIds' = BarrelIds \cup {Len(barrels')} /\ Len(barrels') \notin BarrelIds
         /\ \A b \in BarrelIds : barrels'[b] = barrels[b]
         /\ barrels'[Len(barrels')] = EmptyBarrel
<1>1. EmptyBarrel \in Barrels
  BY EmptySeq DEF EmptyBarrel, Barrels
<1>2. /\ Len(barrels) \in Nat /\ Len(barrels') = Len(barrels) + 1
      /\ \A b \in BarrelIds : barrels'[b] = barrels[b]
      /\ barrels'[Len(barrels) + 1] = EmptyBarrel
  BY <1>1, AppendProperties DEF CreateBarrelWriter, KeeperShape, BarrelIds
<1> QED
  BY <1>2 DEF BarrelIds

LEMMA KeeperLeavesDocs ==
  ASSUME KeeperShape, KeeperStep
  PROVE  SameDocs /\ NewBarrelsEmpty
<1>1. ASSUME NEW b \in BarrelIds, SealBarrel(b) PROVE SameDocs /\ NewBarrelsEmpty
  <2>1. BarrelIds' = BarrelIds
    BY <1>1, SealBarrelEffect DEF BarrelIds
  <2>2. barrels'[b].docs = barrels[b].docs
    <3>1. \E known : barrels'[b] = [docs |-> barrels[b].docs, sealed |-> TRUE, described |-> known,
                                    uncommitted |-> barrels[b].uncommitted]
      BY <1>1, SealBarrelEffect
    <3> QED
      BY <3>1
  <2> QED
    BY <1>1, <2>1, <2>2, SealBarrelEffect DEF SameDocs, NewBarrelsEmpty
<1>2. CASE CommitBatch
  <2>1. BarrelIds' = BarrelIds
    BY <1>2, CommitBatchEffect DEF BarrelIds
  <2>2. ASSUME NEW b \in BarrelIds PROVE barrels'[b].docs = barrels[b].docs
    <3>1. \/ barrels'[b] = barrels[b]
          \/ barrels'[b] = [docs |-> barrels[b].docs, sealed |-> barrels[b].sealed,
                            described |-> barrels[b].described, uncommitted |-> FALSE]
      BY <1>2, CommitBatchEffect
    <3> QED
      BY <3>1
  <2> QED
    BY <2>1, <2>2 DEF SameDocs, NewBarrelsEmpty
<1>3. CASE CreateBarrelWriter
  <2>1. EmptyBarrel.docs = <<>>
    BY DEF EmptyBarrel
  <2> QED
    BY <1>3, <2>1, CreateEffect DEF SameDocs, NewBarrelsEmpty
<1>4. ASSUME UNCHANGED barrels PROVE SameDocs /\ NewBarrelsEmpty
  BY <1>4 DEF SameDocs, NewBarrelsEmpty, BarrelIds
<1>5. ASSUME \/ \E b \in BarrelIds, key \in Range(Key) \cup {NoDoc} : DeleteInMemory(b, key)
             \/ \E taken \in Seq(BarrelIds) : Submit(taken)
             \/ \E d \in Added : DeleteOnDisk(d)
             \/ ResetMerger \/ CommitTake \/ UNCHANGED keeperVars
      PROVE  UNCHANGED barrels
  BY <1>5 DEF DeleteInMemory, Submit, DeleteOnDisk, ResetMerger, CommitTake, keeperVars
<1> QED
  BY <1>1, <1>2, <1>3, <1>4, <1>5 DEF KeeperStep

LEMMA DocumentSteps ==
  ASSUME ShapeInv, [Next]_vars
  PROVE  DocumentStep
<1> USE DEF ShapeInv
<1>1. ASSUME NEW i \in Tasks, AddStep(i) PROVE DocumentStep
  BY <1>1 DEF AddStep, ProcessAdd, Processed, Put, DocumentStep, queues, clientVars, history
<1> DEFINE InPlace == /\ docQueue' = docQueue \/ \E m \in DocMessages : m.doc \notin Added /\ docQueue' = Append(docQueue, m)
                      /\ \A i \in Tasks : \/ taskMsg'[i] = taskMsg[i]
                                          \/ taskMsg'[i].doc \notin Added /\ taskMsg[i].doc \notin Added
                      /\ consumed' = consumed \/ \E u \in Updates : consumed' = Append(consumed, u)
                      /\ \/ writer' = writer
                         \/ \E i \in Tasks : writer' = [writer EXCEPT ![i] = Len(barrels')] /\ CreateBarrelWriter
           Moved == (\E d \in Added, m \in DocMessages : Enter(d, m)) \/ (\E i \in Tasks : Take(i))
<1>2. ASSUME KeeperStep, InPlace \/ Moved PROVE DocumentStep
  <2>1. SameDocs /\ NewBarrelsEmpty
    BY <1>2, KeeperLeavesDocs
  <2>2. CASE InPlace
    <3>1. Stay
      BY <2>1, <2>2 DEF Stay
    <3> QED
      BY <3>1 DEF DocumentStep
  <2>3. CASE Moved
    BY <2>3 DEF DocumentStep
  <2> QED
    BY <1>2, <2>2, <2>3
<1>3. /\ Dummy \in DocMessages /\ Dummy.doc \notin Added /\ Null \in DocMessages /\ Null.doc \notin Added
      /\ taskMsg \in [Tasks -> DocMessages]
  BY DummyAndNull DEF KeyMessages, TaskShape, Added
<1>4. ASSUME NEW i \in Tasks, TaskStep(i) PROVE ProcessAdd(i) \/ InPlace \/ Moved
  <2>1. CASE SealFull(i) \/ SealLast(i) \/ NotFull(i) \/ TaskHandOff(i)
    BY <2>1 DEF SealFull, SealLast, TaskSeal, NotFull, TaskHandOff, queues, history
  <2>2. CASE Renew(i)
    BY <2>2 DEF Renew, queues, history
  <2>3. CASE TaskTake(i)
    <3>1. taskMsg[i] = Dummy
      BY <2>3 DEF TaskTake, TaskShape, TaskState
    <3>2. taskMsg' = [taskMsg EXCEPT ![i] = Head(docQueue)]
      BY <1>3, <2>3, <3>1 DEF TaskTake
    <3> QED
      BY <2>3, <3>1, <3>2 DEF TaskTake, Take, keeperVars, history
  <2>4. ASSUME taskMsg[i].action \in {"update", "delete"} PROVE taskMsg[i].doc \notin Added
    <3>1. taskMsg[i] \in DocMessages
      BY <1>3
    <3> QED
      BY <2>4, <3>1, MessageDocs
  <2>5. ASSUME NEW pc, Processed(i, pc), taskMsg[i].action \in {"update", "delete"}, NEW j \in Tasks
        PROVE  \/ taskMsg'[j] = taskMsg[j]
               \/ taskMsg'[j].doc \notin Added /\ taskMsg[j].doc \notin Added
    <3>1. taskMsg' = [taskMsg EXCEPT ![i] = Dummy]
      BY <2>5 DEF Processed
    <3>2. taskMsg'[j] = IF j = i THEN Dummy ELSE taskMsg[j]
      BY <1>3, <3>1
    <3> QED
      BY <1>3, <2>4, <2>5, <3>2
  <2>6. CASE ProcessDelete(i)
    BY <2>5, <2>6 DEF ProcessDelete, queues, history
  <2>7. CASE ProcessElsewhere(i)
    BY <2>5, <2>7 DEF ProcessElsewhere, queues, history
  <2>8. CASE Pass(i)
    <3> DEFINE passed == [taskMsg[i] EXCEPT !.taskId = NextTaskId(i)]
    <3>1. taskMsg[i] \in DocMessages /\ taskMsg[i].action \in {"update", "delete"}
      BY <2>8 DEF Pass, TaskShape, TaskState
    <3>2. passed \in DocMessages /\ passed.doc = taskMsg[i].doc
      BY <3>1, PassedMessage DEF NextTaskId
    <3>3. docQueue' = Append(docQueue, passed) /\ Processed(i, "loop") /\ writer' = writer /\ consumed' = consumed
      BY <2>8 DEF Pass, history
    <3> HIDE DEF passed
    <3> QED
      BY <2>4, <2>5, <3>1, <3>2, <3>3
  <2> QED
    BY <1>4, <2>1, <2>2, <2>3, <2>6, <2>7, <2>8 DEF TaskStep
<1>5. ASSUME UpdaterStep PROVE InPlace
  <2>1. CASE UpdaterPass
    <3> DEFINE passed == [updaterMsg EXCEPT !.taskId = 0]
    <3>1. updaterMsg \in DocMessages /\ updaterMsg.action \in {"update", "delete"}
      BY <2>1 DEF UpdaterPass, UpdaterShape, KeyMessages
    <3>2. passed \in DocMessages /\ passed.doc = updaterMsg.doc
      BY <3>1, PassedMessage
    <3>3. docQueue' = Append(docQueue, passed) /\ taskMsg' = taskMsg /\ writer' = writer /\ consumed' = consumed
      BY <2>1 DEF UpdaterPass, taskVars, history
    <3>4. updaterMsg.doc \notin Added
      BY <3>1, MessageDocs
    <3> HIDE DEF passed
    <3> QED
      BY <3>2, <3>3, <3>4
  <2>2. CASE UpdaterTake \/ UpdaterMiss \/ \E d \in Docs : UpdaterDelete(d) \/ UpdaterSpin(d)
    BY <2>2 DEF UpdaterTake, UpdaterMiss, UpdaterDelete, UpdaterSpin, queues, taskVars, history
  <2> QED
    BY <1>5, <2>1, <2>2 DEF UpdaterStep
<1>6. ASSUME ClientStep PROVE InPlace
  <2>1. CASE ForceTask \/ StopTask
    BY <1>3, <2>1 DEF ForceTask, StopTask, EnqueueDoc, taskVars, history
  <2>2. CASE ForceRenew
    <3>1. turn \in Tasks
      BY <2>2 DEF ForceRenew, ClientShape, ForcePlaces
    <3> QED
      BY <2>2, <3>1 DEF ForceRenew, queues, history
  <2>3. CASE WaitUpdates \/ WaitDocs \/ ForceSeal \/ Flush \/ ClientHandOff
    BY <2>3 DEF WaitUpdates, WaitDocs, ForceSeal, Flush, ClientHandOff, queues, taskVars, history
  <2>4. CASE WaitCommit \/ Reset \/ JoinUpdater \/ StopWait \/ JoinTasks \/ CloseScheduler
    BY <2>4 DEF WaitCommit, Reset, JoinUpdater, StopWait, JoinTasks, CloseScheduler, queues, taskVars, history
  <2> QED
    BY <1>6, <2>1, <2>2, <2>3, <2>4 DEF ClientStep
<1>7. ASSUME NEW d \in Docs, Consume(d) PROVE InPlace \/ Moved
  <2>1. d \notin Range(consumed) /\ consumed' = Append(consumed, d)
        /\ UNCHANGED <<taskMsg, writer, barrels, deleted>>
    BY <1>7 DEF Consume, taskVars, keeperVars
  <2>2. CASE d \notin Updates
    <3>1. /\ d \in Added /\ Message("add", d, Key[d]) \in DocMessages /\ Message("add", d, Key[d]).doc = d
          /\ docQueue' = Append(docQueue, Message("add", d, Key[d]))
      BY <1>7, <2>2, CallMessages DEF Consume, EnqueueDoc, Added
    <3> QED
      BY <2>1, <3>1 DEF Enter
  <2>3. CASE d \in Updates
    BY <1>7, <2>1, <2>3 DEF Consume, EnqueueUpdate
  <2> QED
    BY <2>2, <2>3
<1>8. ASSUME NEW key \in Range(Key), Delete(key) PROVE InPlace
  BY <1>8 DEF Delete, EnqueueUpdate, taskVars
<1>9. CASE Commit \/ Stop
  <2>1. InPlace
    BY <1>9 DEF Commit, Stop, EnqueueUpdate, taskVars, history
  <2> QED
    BY <1>2, <2>1, <1>1, KeeperSteps
<1>10. ASSUME CommitThreadStep \/ UpdaterSpinning \/ Closed \/ UNCHANGED vars PROVE InPlace
  BY <1>10 DEF CommitThreadStep, UpdaterSpinning, Closed, vars, queues, taskVars, history
<1>11. ASSUME NEW i \in Tasks, ProcessAdd(i) PROVE DocumentStep
  <2>1. taskMsg[i].doc \in Added
    BY <1>3, <1>11, MessageDocs DEF ProcessAdd
  <2> QED
    BY <1>11, <2>1 DEF ProcessAdd, Processed, Put, DocumentStep, queues, clientVars, history
<1> QED
  BY <1>1, <1>2, <1>4, <1>5, <1>6, <1>7, <1>8, <1>9, <1>10, <1>11, KeeperSteps DEF Next

\* Where an added document is, before and after each of these steps.
LEMMA EnterPlaces ==
  ASSUME ShapeInv, NEW d \in Added, NEW m \in DocMessages, Enter(d, m)
  PROVE  /\ \A e \in Added : /\ InQueue(e)' <=> InQueue(e) \/ e = d
                             /\ InTask(e)' <=> InTask(e)
                             /\ InBarrel(e)' <=> InBarrel(e)
         /\ Range(consumed') = Range(consumed) \cup {d}
         /\ DOMAIN docQueue' = DOMAIN docQueue \cup {Len(docQueue) + 1} /\ Len(docQueue) \in Nat
         /\ DOMAIN docQueue = 1..Len(docQueue)
         /\ docQueue'[Len(docQueue) + 1].doc = d
         /\ \A p \in DOMAIN docQueue : docQueue'[p] = docQueue[p]
<1>1. IsSequence(docQueue) /\ IsSequence(consumed)
  BY SequenceOf DEF ShapeInv, QueueShape, ClientShape
<1>2. Range(consumed') = Range(consumed) \cup {d}
  BY <1>1, AppendSequence DEF Enter
<1>3. /\ DOMAIN docQueue' = 1..(Len(docQueue) + 1) /\ DOMAIN docQueue = 1..Len(docQueue)
      /\ Len(docQueue) \in Nat /\ docQueue'[Len(docQueue) + 1] = m
      /\ \A p \in DOMAIN docQueue : docQueue'[p] = docQueue[p]
  BY <1>1, AppendSequence, SequenceShape DEF Enter
<1>4. DOMAIN docQueue' = DOMAIN docQueue \cup {Len(docQueue) + 1}
  BY <1>3
<1>5. m.doc = d /\ taskMsg' = taskMsg /\ barrels' = barrels
  BY DEF Enter
<1>6. ASSUME NEW e \in Added
      PROVE  /\ InQueue(e)' <=> InQueue(e) \/ e = d
             /\ InTask(e)' <=> InTask(e)
             /\ InBarrel(e)' <=> InBarrel(e)
  BY <1>3, <1>4, <1>5 DEF InQueue, InTask, InBarrel, BarrelIds, Tasks
<1> QED
  BY <1>2, <1>3, <1>4, <1>5, <1>6

LEMMA TakePlaces ==
  ASSUME ShapeInv, NEW i \in Tasks, Take(i)
  PROVE  LET taken == docQueue[1].doc
         IN /\ \A e \in Added : /\ InQueue(e) <=> InQueue(e)' \/ e = taken
                                /\ InTask(e)' <=> InTask(e) \/ e = taken
                                /\ InBarrel(e)' <=> InBarrel(e)
            /\ 1 \in DOMAIN docQueue
            /\ \A p \in DOMAIN docQueue' :
                  p \in Nat \ {0} /\ p + 1 \in DOMAIN docQueue /\ docQueue'[p] = docQueue[p + 1]
            /\ taskMsg[i].doc \notin Added
            /\ \A j \in Tasks : taskMsg'[j] = IF j = i THEN docQueue[1] ELSE taskMsg[j]
<1>1. IsSequence(docQueue) /\ docQueue # <<>> /\ docQueue' = Tail(docQueue)
  BY SequenceOf DEF ShapeInv, QueueShape, Take
<1>2. /\ Len(docQueue) \in Nat /\ DOMAIN docQueue = 1..Len(docQueue) /\ 1 \in DOMAIN docQueue
      /\ DOMAIN docQueue' = 1..(Len(docQueue) - 1) /\ Head(docQueue) = docQueue[1]
      /\ \A p \in 1..(Len(docQueue) - 1) : docQueue'[p] = docQueue[p + 1] /\ p + 1 \in DOMAIN docQueue
  BY <1>1, TailSequence, SequenceShape
<1>3. taskMsg[i].doc \notin Added
  BY DummyAndNull DEF Take, Added
<1>4. \A j \in Tasks : taskMsg'[j] = IF j = i THEN docQueue[1] ELSE taskMsg[j]
  BY <1>2 DEF Take, ShapeInv, TaskShape
<1>5. barrels' = barrels
  BY DEF Take
<1>6. ASSUME NEW e \in Added
      PROVE  /\ InQueue(e) <=> InQueue(e)' \/ e = docQueue[1].doc
             /\ InTask(e)' <=> InTask(e) \/ e = docQueue[1].doc
             /\ InBarrel(e)' <=> InBarrel(e)
  <2>1. ASSUME NEW p \in DOMAIN docQueue, p # 1 PROVE p - 1 \in DOMAIN docQueue' /\ docQueue'[p - 1] = docQueue[p]
    <3>1. p - 1 \in 1..(Len(docQueue) - 1) /\ (p - 1) + 1 = p
      BY <1>2, <2>1
    <3> QED
      BY <1>2, <3>1
  <2>2. InQueue(e) <=> InQueue(e)' \/ e = docQueue[1].doc
    BY <1>2, <2>1 DEF InQueue
  <2>3. InTask(e)' <=> InTask(e) \/ e = docQueue[1].doc
    BY <1>3, <1>4 DEF InTask, Tasks
  <2> QED
    BY <1>5, <2>2, <2>3 DEF InBarrel, BarrelIds
<1>7. \A p \in DOMAIN docQueue' : p \in Nat \ {0} /\ p + 1 \in DOMAIN docQueue /\ docQueue'[p] = docQueue[p + 1]
  BY <1>2
<1> QED
  BY <1>2, <1>3, <1>4, <1>6, <1>7

LEMMA PutPlaces ==
  ASSUME ShapeInv, NEW i \in Tasks, Put(i)
  PROVE  LET d == taskMsg[i].doc
         IN /\ \A e \in Added : /\ InQueue(e)' <=> InQueue(e)
                                /\ InTask(e)' <=> \E j \in Tasks \ {i} : taskMsg[j].doc = e
                                /\ InBarrel(e)' <=> InBarrel(e) \/ e = d
            /\ BarrelIds' = BarrelIds /\ writer[i] \in BarrelIds /\ InTask(d)
            /\ Range(barrels'[writer[i]].docs) = Range(barrels[writer[i]].docs) \cup {d}
            /\ \A b \in BarrelIds : b # writer[i] => barrels'[b] = barrels[b]
            /\ \A j \in Tasks : taskMsg'[j] = IF j = i THEN Dummy ELSE taskMsg[j]
            /\ Dummy.doc \notin Added
<1> DEFINE d == taskMsg[i].doc
           b == writer[i]
<1>1. d \in Added /\ b \in BarrelIds /\ KeeperShape /\ AddDocument(b, d)
  BY DEF ShapeInv, TaskShape, Put
<1>2. /\ Len(barrels') = Len(barrels) /\ \A c \in BarrelIds : c # b => barrels'[c] = barrels[c]
      /\ barrels'[b].docs = Append(barrels[b].docs, d)
  <2>1. barrels'[b] = [docs |-> Append(barrels[b].docs, d), sealed |-> barrels[b].sealed,
                       described |-> barrels[b].described, uncommitted |-> TRUE]
    BY <1>1, AddDocumentEffect
  <2>2. barrels'[b].docs = Append(barrels[b].docs, d)
    BY <2>1
  <2> QED
    BY <1>1, <2>2, AddDocumentEffect
<1>3. Range(Append(barrels[b].docs, d)) = Range(barrels[b].docs) \cup {d}
  <2>1. barrels[b] \in Barrels
    BY <1>1, ElementOfSeq DEF KeeperShape, BarrelIds
  <2>2. IsSequence(barrels[b].docs)
    BY <2>1, SequenceOf DEF Barrels
  <2> QED
    BY <2>2, AppendSequence
<1>4. BarrelIds' = BarrelIds
  BY <1>2 DEF BarrelIds
<1>5. \A j \in Tasks : taskMsg'[j] = IF j = i THEN Dummy ELSE taskMsg[j]
  BY DEF Put, ShapeInv, TaskShape
<1>6. Dummy.doc \notin Added
  BY DummyAndNull DEF Added
<1>7. Range(barrels'[b].docs) = Range(barrels[b].docs) \cup {d}
  BY <1>2, <1>3
<1> HIDE DEF d, b
<1>8. ASSUME NEW e \in Added
      PROVE  /\ InQueue(e)' <=> InQueue(e)
             /\ InTask(e)' <=> \E j \in Tasks \ {i} : taskMsg[j].doc = e
             /\ InBarrel(e)' <=> InBarrel(e) \/ e = d
  <2>1. InQueue(e)' <=> InQueue(e)
    BY DEF Put, InQueue
  <2>2. InTask(e)' <=> \E j \in Tasks \ {i} : taskMsg[j].doc = e
    BY <1>5, <1>6 DEF InTask, Tasks
  <2>3. InBarrel(e)' <=> InBarrel(e) \/ e = d
    BY <1>1, <1>2, <1>4, <1>7 DEF InBarrel
  <2> QED
    BY <2>1, <2>2, <2>3
<1>9. InTask(d)
  BY DEF InTask, d
<1> QED
  BY <1>1, <1>2, <1>4, <1>5, <1>6, <1>7, <1>8, <1>9 DEF d, b

LEMMA StayPlaces ==
  ASSUME ShapeInv, Stay, BarrelIds \subseteq BarrelIds'
  PROVE  /\ \A e \in Added : /\ InQueue(e)' <=> InQueue(e)
                             /\ InTask(e)' <=> InTask(e)
                             /\ InBarrel(e)' <=> InBarrel(e)
         /\ \A p \in DOMAIN docQueue' : docQueue'[p].doc \in Added => p \in DOMAIN docQueue /\ docQueue'[p] = docQueue[p]
         /\ \A i \in Tasks : taskMsg'[i].doc \in Added => taskMsg'[i] = taskMsg[i]
         /\ \A b \in BarrelIds' :
               Range(barrels'[b].docs) # {} => b \in BarrelIds /\ Range(barrels'[b].docs) = Range(barrels[b].docs)
         /\ Range(consumed) \subseteq Range(consumed')
         /\ \A d \in Added : d \in Range(consumed') => d \in Range(consumed)
<1>1. IsSequence(docQueue) /\ IsSequence(consumed)
  BY SequenceOf DEF ShapeInv, QueueShape, ClientShape
<1>2. /\ \A p \in DOMAIN docQueue' : docQueue'[p].doc \in Added => p \in DOMAIN docQueue /\ docQueue'[p] = docQueue[p]
      /\ \A p \in DOMAIN docQueue : p \in DOMAIN docQueue' /\ docQueue'[p] = docQueue[p]
  <2>1. CASE docQueue' = docQueue
    BY <2>1
  <2>2. ASSUME NEW m \in DocMessages, m.doc \notin Added, docQueue' = Append(docQueue, m)
        PROVE  <1>2
    <3>1. /\ DOMAIN docQueue' = 1..(Len(docQueue) + 1) /\ DOMAIN docQueue = 1..Len(docQueue)
          /\ Len(docQueue) \in Nat /\ docQueue'[Len(docQueue) + 1] = m
          /\ \A p \in DOMAIN docQueue : docQueue'[p] = docQueue[p]
      BY <1>1, <2>2, AppendSequence, SequenceShape
    <3> QED
      BY <2>2, <3>1
  <2> QED
    BY <2>1, <2>2 DEF Stay
<1>3. \A i \in Tasks : /\ taskMsg'[i].doc \in Added => taskMsg'[i] = taskMsg[i]
                       /\ taskMsg[i].doc \in Added => taskMsg'[i] = taskMsg[i]
  BY DEF Stay
<1>4. \A b \in BarrelIds' :
         Range(barrels'[b].docs) # {} => b \in BarrelIds /\ Range(barrels'[b].docs) = Range(barrels[b].docs)
  <2>1. Range(<<>>) = {}
    BY EmptySequence
  <2> QED
    BY <2>1 DEF Stay, SameDocs, NewBarrelsEmpty
<1>5. Range(consumed) \subseteq Range(consumed') /\ \A d \in Added : d \in Range(consumed') => d \in Range(consumed)
  <2>1. ASSUME NEW u \in Updates PROVE Range(Append(consumed, u)) = Range(consumed) \cup {u}
    BY <1>1, AppendSequence
  <2> QED
    BY <2>1 DEF Stay, Added
<1>6. ASSUME NEW e \in Added
      PROVE  /\ InQueue(e)' <=> InQueue(e)
             /\ InTask(e)' <=> InTask(e)
             /\ InBarrel(e)' <=> InBarrel(e)
  <2>1. InQueue(e)' <=> InQueue(e)
    BY <1>2 DEF InQueue
  <2>2. InTask(e)' <=> InTask(e)
    BY <1>3 DEF InTask, Tasks
  <2>3. InBarrel(e)' <=> InBarrel(e)
    BY <1>4 DEF InBarrel, Stay, SameDocs
  <2> QED
    BY <2>1, <2>2, <2>3
<1> QED
  BY <1>2, <1>3, <1>4, <1>5, <1>6

\* A document that moves is never in two places.
LEMMA HomeStep ==
  ASSUME ShapeInv, HomeInv, DocumentStep, BarrelIds \subseteq BarrelIds'
  PROVE  HomeInv'
<1> USE DEF HomeInv
<1>1. ASSUME NEW d \in Added, NEW m \in DocMessages, Enter(d, m) PROVE HomeInv'
  <2>1. ~ InQueue(d) /\ ~ InTask(d) /\ ~ InBarrel(d)
    BY <1>1 DEF Enter, Somewhere
  <2>2. QueueOnce'
    <3>1. \A p \in DOMAIN docQueue : docQueue[p].doc # d
      BY <2>1 DEF InQueue
    <3> QED
      BY <1>1, <3>1, EnterPlaces DEF QueueOnce
  <2>3. TaskOnce' /\ BarrelOnce'
    BY <1>1 DEF Enter, TaskOnce, BarrelOnce, BarrelIds, Tasks
  <2>4. OneKind'
    BY <1>1, <2>1, EnterPlaces DEF OneKind
  <2>5. Somewhere'
    BY <1>1, EnterPlaces DEF Somewhere
  <2> QED
    BY <2>2, <2>3, <2>4, <2>5
<1>2. ASSUME NEW i \in Tasks, Take(i) PROVE HomeInv'
  <2> DEFINE taken == docQueue[1].doc
  <2>0. /\ \A e \in Added : /\ InQueue(e) <=> InQueue(e)' \/ e = taken
                            /\ InTask(e)' <=> InTask(e) \/ e = taken
                            /\ InBarrel(e)' <=> InBarrel(e)
        /\ 1 \in DOMAIN docQueue
        /\ \A p \in DOMAIN docQueue' :
              p \in Nat \ {0} /\ p + 1 \in DOMAIN docQueue /\ docQueue'[p] = docQueue[p + 1]
        /\ \A j \in Tasks : taskMsg'[j] = IF j = i THEN docQueue[1] ELSE taskMsg[j]
    BY <1>2, TakePlaces
  <2>1. QueueOnce'
    <3> SUFFICES ASSUME NEW p \in DOMAIN docQueue', NEW q \in DOMAIN docQueue',
                        docQueue'[p].doc \in Added, docQueue'[p].doc = docQueue'[q].doc
                 PROVE  p = q
      BY DEF QueueOnce
    <3>1. p + 1 = q + 1 /\ p \in Nat /\ q \in Nat
      BY <2>0 DEF QueueOnce
    <3> QED
      BY <3>1
  <2>2. ASSUME NEW e \in Added, e = taken PROVE ~ InTask(e) /\ ~ InBarrel(e) /\ ~ InQueue(e)'
    <3>1. InQueue(e)
      BY <2>0, <2>2 DEF InQueue
    <3>2. ASSUME NEW p \in DOMAIN docQueue', docQueue'[p].doc = e PROVE FALSE
      <4>1. p + 1 = 1 /\ p \in Nat \ {0}
        BY <2>0, <2>2, <3>2 DEF QueueOnce
      <4> QED
        BY <4>1
    <3> QED
      BY <3>1, <3>2 DEF OneKind, InQueue
  <2>3. TaskOnce'
    <3>1. \A j \in Tasks : taken \in Added => taskMsg[j].doc # taken
      BY <2>2 DEF InTask
    <3> QED
      BY <2>0, <3>1 DEF TaskOnce, Tasks
  <2>4. BarrelOnce'
    BY <1>2 DEF Take, BarrelOnce, BarrelIds
  <2>5. OneKind'
    <3> SUFFICES ASSUME NEW e \in Added
                 PROVE  (~ (InQueue(e) /\ InTask(e)) /\ ~ (InQueue(e) /\ InBarrel(e)) /\ ~ (InTask(e) /\ InBarrel(e)))'
      BY DEF OneKind, Added
    <3>1. CASE e = taken
      BY <2>0, <2>2, <3>1
    <3>2. CASE e # taken
      BY <2>0, <3>2 DEF OneKind
    <3> QED
      BY <3>1, <3>2
  <2>6. Somewhere'
    BY <1>2, <2>0 DEF Somewhere, Take
  <2> QED
    BY <2>1, <2>3, <2>4, <2>5, <2>6
<1>3. ASSUME NEW i \in Tasks, Put(i) PROVE HomeInv'
  <2> DEFINE d == taskMsg[i].doc
  <2>0. /\ \A e \in Added : /\ InQueue(e)' <=> InQueue(e)
                            /\ InTask(e)' <=> \E j \in Tasks \ {i} : taskMsg[j].doc = e
                            /\ InBarrel(e)' <=> InBarrel(e) \/ e = d
        /\ BarrelIds' = BarrelIds /\ writer[i] \in BarrelIds /\ InTask(d) /\ d \in Added
        /\ Range(barrels'[writer[i]].docs) = Range(barrels[writer[i]].docs) \cup {d}
        /\ \A b \in BarrelIds : b # writer[i] => barrels'[b] = barrels[b]
        /\ \A j \in Tasks : taskMsg'[j] = IF j = i THEN Dummy ELSE taskMsg[j]
        /\ Dummy.doc \notin Added
    BY <1>3, PutPlaces DEF Put
  <2>1. ~ InBarrel(d) /\ ~ InQueue(d)
    BY <2>0 DEF OneKind
  <2>2. \A j \in Tasks \ {i} : taskMsg[j].doc # d
    BY <2>0 DEF TaskOnce
  <2>3. QueueOnce'
    BY <1>3 DEF Put, QueueOnce
  <2>4. TaskOnce'
    BY <2>0 DEF TaskOnce, Tasks
  <2>5. BarrelOnce'
    <3>1. \A b \in BarrelIds : d \notin Range(barrels[b].docs)
      BY <2>1 DEF InBarrel
    <3>2. \A b \in BarrelIds : Range(barrels'[b].docs) = IF b = writer[i] THEN Range(barrels[b].docs) \cup {d}
                                                        ELSE Range(barrels[b].docs)
      BY <2>0
    <3> HIDE DEF d
    <3>3. ASSUME NEW b \in BarrelIds, NEW c \in BarrelIds,
                 Range(barrels'[b].docs) \cap Range(barrels'[c].docs) # {}
          PROVE  b = c
      BY <3>1, <3>2, <3>3 DEF BarrelOnce
    <3> QED
      BY <2>0, <3>3 DEF BarrelOnce
  <2>6. OneKind'
    <3> SUFFICES ASSUME NEW e \in Added
                 PROVE  (~ (InQueue(e) /\ InTask(e)) /\ ~ (InQueue(e) /\ InBarrel(e)) /\ ~ (InTask(e) /\ InBarrel(e)))'
      BY DEF OneKind, Added
    <3>1. CASE e = d
      BY <2>0, <2>1, <2>2, <3>1
    <3>2. CASE e # d
      BY <2>0, <3>2 DEF OneKind, InTask
    <3> QED
      BY <3>1, <3>2
  <2>7. Somewhere'
    <3> SUFFICES ASSUME NEW e \in Added
                 PROVE  (e \in Range(consumed) <=> InQueue(e) \/ InTask(e) \/ InBarrel(e))'
      BY DEF Somewhere, Added
    <3>1. consumed' = consumed
      BY <1>3 DEF Put
    <3>2. CASE e = d
      BY <2>0, <3>1, <3>2 DEF Somewhere
    <3>3. CASE e # d
      BY <2>0, <3>1, <3>3 DEF Somewhere, InTask
    <3> QED
      BY <3>2, <3>3
  <2> QED
    BY <2>3, <2>4, <2>5, <2>6, <2>7
<1>4. CASE Stay
  <2>1. QueueOnce'
    BY <1>4, StayPlaces DEF QueueOnce
  <2>2. TaskOnce'
    BY <1>4, StayPlaces DEF TaskOnce, Tasks
  <2>3. BarrelOnce'
    BY <1>4, StayPlaces DEF BarrelOnce
  <2>4. OneKind' /\ Somewhere'
    BY <1>4, StayPlaces DEF OneKind, Somewhere, Added
  <2> QED
    BY <2>1, <2>2, <2>3, <2>4
<1> QED
  BY <1>1, <1>2, <1>3, <1>4 DEF DocumentStep

LEMMA InitHome == Init => HomeInv
<1> SUFFICES ASSUME Init PROVE HomeInv
  OBVIOUS
<1>1. DOMAIN docQueue = {} /\ Range(consumed) = {}
  BY EmptySequence, SequenceShape DEF Init
<1>2. \A i \in Tasks : taskMsg[i].doc \notin Added
  BY DummyAndNull DEF Init, Added
<1>3. \A b \in BarrelIds : Range(barrels[b].docs) = {}
  <2>1. EmptyBarrel.docs = <<>>
    BY DEF EmptyBarrel
  <2>2. BarrelIds = 1..BuildThreadCount /\ \A b \in 1..BuildThreadCount : barrels[b] = EmptyBarrel
    <3>1. barrels = [b \in 1..BuildThreadCount |-> EmptyBarrel]
      BY DEF Init, KeeperInit
    <3> QED
      BY <3>1, BuildThreadAssumption DEF BarrelIds
  <2> QED
    BY <2>1, <2>2, EmptySequence
<1> QED
  BY <1>1, <1>2, <1>3
     DEF HomeInv, QueueOnce, TaskOnce, BarrelOnce, OneKind, Somewhere, InQueue, InTask, InBarrel

LEMMA ConsumedGrows ==
  ASSUME ShapeInv, DocumentStep
  PROVE  /\ consumed' = consumed \/ \E x : consumed' = Append(consumed, x)
         /\ \A p \in DOMAIN consumed : p \in DOMAIN consumed' /\ consumed'[p] = consumed[p]
         /\ \A d, e : Before(d, e) => Before(d, e)'
<1>1. consumed' = consumed \/ \E x : consumed' = Append(consumed, x)
  BY DEF DocumentStep, Enter, Take, Put, Stay
<1>2. IsSequence(consumed)
  BY SequenceOf DEF ShapeInv, ClientShape
<1>3. \A p \in DOMAIN consumed : p \in DOMAIN consumed' /\ consumed'[p] = consumed[p]
  <2>1. ASSUME NEW x, consumed' = Append(consumed, x) PROVE <1>3
    BY <1>2, <2>1, AppendSequence, SequenceShape
  <2> QED
    BY <1>1, <2>1
<1>4. \A d, e : Before(d, e) => Before(d, e)'
  BY <1>3 DEF Before
<1> QED
  BY <1>1, <1>3, <1>4

\* What is consumed comes after all that was consumed before.
LEMMA EnterIsLast ==
  ASSUME ShapeInv, NEW d \in Added, NEW m \in DocMessages, Enter(d, m), NEW x \in Range(consumed)
  PROVE  Before(x, d)'
<1>1. IsSequence(consumed)
  BY SequenceOf DEF ShapeInv, ClientShape
<1>2. /\ DOMAIN consumed' = 1..(Len(consumed) + 1) /\ DOMAIN consumed = 1..Len(consumed)
      /\ Len(consumed) \in Nat /\ consumed'[Len(consumed) + 1] = d
      /\ \A p \in DOMAIN consumed : consumed'[p] = consumed[p]
  BY <1>1, AppendSequence, SequenceShape DEF Enter
<1>3. PICK p \in DOMAIN consumed : consumed[p] = x
  BY DEF Range
<1>4. p \in DOMAIN consumed' /\ Len(consumed) + 1 \in DOMAIN consumed' /\ p < Len(consumed) + 1
  BY <1>2
<1> QED
  BY <1>2, <1>3, <1>4 DEF Before

LEMMA BarrelDocsAdded ==
  ASSUME ShapeInv, NEW b \in BarrelIds
  PROVE  barrels[b] \in Barrels /\ Range(barrels[b].docs) \subseteq Added /\ IsSequence(barrels[b].docs)
<1>1. barrels[b] \in Barrels
  BY ElementOfSeq DEF ShapeInv, KeeperShape, BarrelIds
<1> QED
  BY <1>1, SequenceOf DEF Barrels

LEMMA OrderStep ==
  ASSUME ShapeInv, HomeInv, OrderInv, DocumentStep, BarrelIds \subseteq BarrelIds'
  PROVE  OrderInv'
<1> USE DEF OrderInv
<1>0. /\ \A d, e : Before(d, e) => Before(d, e)'
      /\ writer \in [Tasks -> BarrelIds]
  BY ConsumedGrows DEF ShapeInv, TaskShape
<1>1. ASSUME NEW d \in Added, NEW m \in DocMessages, Enter(d, m) PROVE OrderInv'
  <2>0. /\ \A e \in Added : /\ InQueue(e)' <=> InQueue(e) \/ e = d
                            /\ InTask(e)' <=> InTask(e)
                            /\ InBarrel(e)' <=> InBarrel(e)
        /\ DOMAIN docQueue' = DOMAIN docQueue \cup {Len(docQueue) + 1} /\ Len(docQueue) \in Nat
        /\ DOMAIN docQueue = 1..Len(docQueue)
        /\ docQueue'[Len(docQueue) + 1].doc = d
        /\ \A p \in DOMAIN docQueue : docQueue'[p] = docQueue[p]
    BY <1>1, EnterPlaces
  <2>1. ASSUME NEW e \in Added, InQueue(e) \/ InTask(e) \/ InBarrel(e) PROVE Before(e, d)'
    <3>1. e \in Range(consumed)
      BY <2>1 DEF HomeInv, Somewhere
    <3> QED
      BY <1>1, <3>1, EnterIsLast
  <2>2. Overtaken'
    <3> SUFFICES ASSUME NEW x \in Added, NEW e \in Added, (InTask(x) \/ InBarrel(x))', InQueue(e)'
                 PROVE  Before(x, e)'
      BY DEF Overtaken, Added
    <3>1. CASE e = d
      BY <2>0, <2>1, <3>1
    <3>2. CASE e # d
      BY <1>0, <2>0, <3>2 DEF Overtaken
    <3> QED
      BY <3>1, <3>2
  <2>3. QueueInOrder'
    <3> SUFFICES ASSUME NEW p \in DOMAIN docQueue', NEW q \in DOMAIN docQueue', p < q,
                        docQueue'[p].doc \in Added, docQueue'[q].doc \in Added
                 PROVE  Before(docQueue[p].doc, docQueue[q].doc)'
      BY DEF QueueInOrder, Added
    <3>1. p \in DOMAIN docQueue
      BY <2>0
    <3>2. CASE q \in DOMAIN docQueue
      BY <1>0, <2>0, <3>1, <3>2 DEF QueueInOrder
    <3>3. CASE q \notin DOMAIN docQueue
      <4>1. docQueue'[q].doc = d /\ docQueue'[p].doc = docQueue[p].doc /\ InQueue(docQueue[p].doc)
        BY <2>0, <3>1, <3>3 DEF InQueue
      <4> QED
        BY <2>1, <4>1
    <3> QED
      BY <3>2, <3>3
  <2>4. BarrelInOrder' /\ OwnBarrels'
    BY <1>0, <1>1 DEF Enter, BarrelInOrder, OwnBarrels, Tasks
  <2> QED
    BY <2>2, <2>3, <2>4
<1>2. ASSUME NEW i \in Tasks, Take(i) PROVE OrderInv'
  <2> DEFINE taken == docQueue[1].doc
  <2>0. /\ \A e \in Added : /\ InQueue(e) <=> InQueue(e)' \/ e = taken
                            /\ InTask(e)' <=> InTask(e) \/ e = taken
                            /\ InBarrel(e)' <=> InBarrel(e)
        /\ 1 \in DOMAIN docQueue
        /\ \A p \in DOMAIN docQueue' :
              p \in Nat \ {0} /\ p + 1 \in DOMAIN docQueue /\ docQueue'[p] = docQueue[p + 1]
        /\ \A j \in Tasks : taskMsg'[j] = IF j = i THEN docQueue[1] ELSE taskMsg[j]
        /\ writer' = writer /\ barrels' = barrels
    BY <1>2, TakePlaces DEF Take
  <2>1. Overtaken'
    <3> SUFFICES ASSUME NEW x \in Added, NEW e \in Added, (InTask(x) \/ InBarrel(x))', InQueue(e)'
                 PROVE  Before(x, e)'
      BY DEF Overtaken, Added
    <3>1. CASE x = taken
      <4>1. PICK p \in DOMAIN docQueue' : docQueue'[p].doc = e
        BY DEF InQueue
      <4>2. 1 < p + 1 /\ p + 1 \in DOMAIN docQueue /\ docQueue[p + 1].doc = e
        BY <2>0, <4>1
      <4>3. Before(x, e)
        BY <2>0, <3>1, <4>2 DEF QueueInOrder
      <4> QED
        BY <1>0, <4>3
    <3>2. CASE x # taken
      BY <1>0, <2>0, <3>2 DEF Overtaken
    <3> QED
      BY <3>1, <3>2
  <2>2. QueueInOrder'
    <3> SUFFICES ASSUME NEW p \in DOMAIN docQueue', NEW q \in DOMAIN docQueue', p < q,
                        docQueue'[p].doc \in Added, docQueue'[q].doc \in Added
                 PROVE  Before(docQueue[p].doc, docQueue[q].doc)'
      BY DEF QueueInOrder, Added
    <3>1. p + 1 < q + 1 /\ p + 1 \in DOMAIN docQueue /\ q + 1 \in DOMAIN docQueue
          /\ docQueue'[p] = docQueue[p + 1] /\ docQueue'[q] = docQueue[q + 1]
      BY <2>0
    <3> QED
      BY <1>0, <3>1 DEF QueueInOrder
  <2>3. BarrelInOrder'
    <3> SUFFICES ASSUME NEW j \in Tasks, NEW d \in Range(barrels'[writer'[j]].docs), taskMsg'[j].doc \in Added
                 PROVE  Before(d, taskMsg[j].doc)'
      BY DEF BarrelInOrder, Added, Tasks
    <3>1. CASE j = i
      <4>1. taskMsg'[j].doc = taken /\ d \in Range(barrels[writer[i]].docs) /\ writer[i] \in BarrelIds
        BY <1>0, <2>0, <3>1
      <4>2. InBarrel(d) /\ d \in Added
        BY <4>1, BarrelDocsAdded DEF InBarrel
      <4>3. Before(d, taken)
        BY <2>0, <4>1, <4>2 DEF Overtaken, InQueue
      <4> QED
        BY <1>0, <4>1, <4>3
    <3>2. CASE j # i
      BY <1>0, <2>0, <3>2 DEF BarrelInOrder
    <3> QED
      BY <3>1, <3>2
  <2>4. OwnBarrels'
    BY <2>0 DEF OwnBarrels, Tasks
  <2> QED
    BY <2>1, <2>2, <2>3, <2>4
<1>3. ASSUME NEW i \in Tasks, Put(i) PROVE OrderInv'
  <2> DEFINE d == taskMsg[i].doc
  <2>0. /\ \A e \in Added : /\ InQueue(e)' <=> InQueue(e)
                            /\ InTask(e)' <=> \E j \in Tasks \ {i} : taskMsg[j].doc = e
                            /\ InBarrel(e)' <=> InBarrel(e) \/ e = d
        /\ InTask(d)
        /\ \A b \in BarrelIds : b # writer[i] => barrels'[b] = barrels[b]
        /\ \A j \in Tasks : taskMsg'[j] = IF j = i THEN Dummy ELSE taskMsg[j]
        /\ Dummy.doc \notin Added
        /\ writer' = writer /\ docQueue' = docQueue
    BY <1>3, PutPlaces DEF Put
  <2>1. Overtaken'
    <3> SUFFICES ASSUME NEW x \in Added, NEW e \in Added, (InTask(x) \/ InBarrel(x))', InQueue(e)'
                 PROVE  Before(x, e)'
      BY DEF Overtaken, Added
    <3>1. InTask(x) \/ InBarrel(x)
      BY <2>0 DEF InTask
    <3> QED
      BY <1>0, <2>0, <3>1 DEF Overtaken
  <2>2. QueueInOrder'
    BY <1>0, <2>0 DEF QueueInOrder
  <2>3. BarrelInOrder'
    <3> SUFFICES ASSUME NEW j \in Tasks, NEW x \in Range(barrels'[writer'[j]].docs), taskMsg'[j].doc \in Added
                 PROVE  Before(x, taskMsg[j].doc)'
      BY DEF BarrelInOrder, Added, Tasks
    <3>1. j # i /\ writer[j] # writer[i] /\ writer[j] \in BarrelIds
      BY <1>0, <2>0 DEF OwnBarrels
    <3>2. barrels'[writer'[j]] = barrels[writer[j]] /\ taskMsg'[j] = taskMsg[j]
      BY <2>0, <3>1
    <3> QED
      BY <1>0, <3>2 DEF BarrelInOrder
  <2>4. OwnBarrels'
    BY <2>0 DEF OwnBarrels, Tasks
  <2> QED
    BY <2>1, <2>2, <2>3, <2>4
<1>4. CASE Stay
  <2>0. /\ \A e \in Added : /\ InQueue(e)' <=> InQueue(e)
                            /\ InTask(e)' <=> InTask(e)
                            /\ InBarrel(e)' <=> InBarrel(e)
        /\ \A p \in DOMAIN docQueue' : docQueue'[p].doc \in Added => p \in DOMAIN docQueue /\ docQueue'[p] = docQueue[p]
        /\ \A i \in Tasks : taskMsg'[i].doc \in Added => taskMsg'[i] = taskMsg[i]
    BY <1>4, StayPlaces
  <2>1. Overtaken'
    BY <1>0, <2>0 DEF Overtaken, Added
  <2>2. QueueInOrder'
    BY <1>0, <2>0 DEF QueueInOrder, Added
  <2>3. /\ \A j \in Tasks : \/ writer'[j] = writer[j]
                            \/ writer'[j] \notin BarrelIds /\ Range(barrels'[writer'[j]].docs) = {}
        /\ \A j, k \in Tasks : writer'[j] = writer'[k] => j = k
    <3>1. CASE writer' = writer
      BY <3>1 DEF OwnBarrels
    <3>2. ASSUME NEW i \in Tasks, writer' = [writer EXCEPT ![i] = Len(barrels')], CreateBarrelWriter
          PROVE  <2>3
      <4>1. EmptyBarrel.docs = <<>>
        BY DEF EmptyBarrel
      <4>2. Len(barrels') \notin BarrelIds /\ Range(barrels'[Len(barrels')].docs) = {}
        BY <3>2, <4>1, CreateEffect, EmptySequence DEF ShapeInv
      <4>3. \A j \in Tasks : writer'[j] = IF j = i THEN Len(barrels') ELSE writer[j]
        BY <1>0, <3>2
      <4> QED
        BY <1>0, <4>2, <4>3 DEF OwnBarrels
    <3> QED
      BY <1>4, <3>1, <3>2 DEF Stay
  <2>4. BarrelInOrder'
    <3> SUFFICES ASSUME NEW j \in Tasks, NEW x \in Range(barrels'[writer'[j]].docs), taskMsg'[j].doc \in Added
                 PROVE  Before(x, taskMsg[j].doc)'
      BY DEF BarrelInOrder, Added, Tasks
    <3>1. writer'[j] = writer[j] /\ writer[j] \in BarrelIds /\ taskMsg'[j] = taskMsg[j]
      BY <1>0, <2>0, <2>3
    <3>2. barrels'[writer[j]].docs = barrels[writer[j]].docs
      BY <1>4, <3>1 DEF Stay, SameDocs
    <3> QED
      BY <1>0, <3>1, <3>2 DEF BarrelInOrder
  <2>5. OwnBarrels'
    BY <2>3 DEF OwnBarrels, Tasks
  <2> QED
    BY <2>1, <2>2, <2>4, <2>5
<1> QED
  BY <1>1, <1>2, <1>3, <1>4 DEF DocumentStep

LEMMA InitOrder == Init => OrderInv
<1> SUFFICES ASSUME Init PROVE OrderInv
  OBVIOUS
<1>1. DOMAIN docQueue = {}
  BY EmptySequence, SequenceShape DEF Init
<1>2. \A i \in Tasks : taskMsg[i].doc \notin Added /\ writer[i] = i
  BY DummyAndNull DEF Init, Added
<1> QED
  BY <1>1, <1>2
     DEF OrderInv, Overtaken, QueueInOrder, BarrelInOrder, OwnBarrels, InQueue

-----------------------------------------------------------------------------
(* Why documents are deleted                                               *)

LEMMA CallsRemembered ==
  ASSUME ShapeInv, [Next]_vars
  PROVE  /\ deletions \subseteq deletions' /\ Range(consumed) \subseteq Range(consumed')
         /\ \A key : Called(key) => Called(key)'
<1>1. deletions \subseteq deletions'
  <2>1. ASSUME ClientStep PROVE UNCHANGED history
    <3>1. CASE WaitUpdates \/ ForceTask \/ WaitDocs \/ ForceSeal \/ Flush \/ ClientHandOff \/ WaitCommit
      BY <3>1 DEF WaitUpdates, ForceTask, WaitDocs, ForceSeal, Flush, ClientHandOff, WaitCommit
    <3>2. CASE Reset \/ JoinUpdater \/ StopTask \/ StopWait \/ JoinTasks \/ CloseScheduler \/ ForceRenew
      BY <3>2 DEF Reset, JoinUpdater, StopTask, StopWait, JoinTasks, CloseScheduler, ForceRenew
    <3> QED
      BY <2>1, <3>1, <3>2 DEF ClientStep
  <2>2. ASSUME NEW d \in Docs, Consume(d) PROVE deletions' = deletions
    BY <2>2 DEF Consume
  <2>3. ASSUME NEW key \in Range(Key), Delete(key) PROVE deletions \subseteq deletions'
    BY <2>3 DEF Delete
  <2>4. ASSUME Commit \/ Stop PROVE deletions' = deletions
    BY <2>4 DEF Commit, Stop, history
  <2>5. ASSUME UNCHANGED history PROVE deletions' = deletions
    BY <2>5 DEF history
  <2> QED
    BY <2>1, <2>2, <2>3, <2>4, <2>5, OthersLeaveClient
<1>2. Range(consumed) \subseteq Range(consumed')
  BY DocumentSteps, ConsumedGrows DEF Range
<1> QED
  BY <1>1, <1>2 DEF Called

\* Every message is one that was there, or was called.
LEMMA CallStep ==
  ASSUME ShapeInv, [Next]_vars, CallInv
  PROVE  CallInv'
<1>1. \A key : Called(key) => Called(key)'
  BY CallsRemembered
<1>2. ASSUME NEW m, Origin(m) PROVE IsCalled(m)'
  <2>1. CASE m.action \in {"none", "null", "add"}
    BY <2>1 DEF IsCalled
  <2>2. CASE Wanted(m.key)
    BY <1>1, <2>2 DEF Wanted, CallInv, IsCalled
  <2>3. CASE \E u \in Updates : Key[u] = m.key /\ u \in Range(consumed')
    BY <2>3 DEF IsCalled, Called
  <2>4. CASE \E x \in deletions' : x.key = m.key
    BY <2>4 DEF IsCalled, Called
  <2> QED
    BY <1>2, <2>1, <2>2, <2>3, <2>4 DEF Origin
<1>3. ASSUME NEW m \in Seen PROVE IsCalled(m)'
  BY <1>1, <1>3 DEF CallInv, IsCalled
<1>4. IsCalled(Dummy)'
  BY DummyAndNull DEF IsCalled
<1>5. IsSequence(docQueue) /\ IsSequence(updateQueue)
  BY SequenceOf DEF ShapeInv, QueueShape
<1>6. ASSUME NEW m \in Range(docQueue') PROVE IsCalled(m)'
  <2>1. CASE docQueue' = docQueue
    BY <1>3, <2>1 DEF Seen
  <2>2. CASE docQueue # <<>> /\ docQueue' = Tail(docQueue)
    BY <1>3, <1>5, <2>2, TailSequence DEF Seen
  <2>3. ASSUME NEW n \in DocMessages, Origin(n), docQueue' = Append(docQueue, n) PROVE IsCalled(m)'
    <3>1. m = n \/ m \in Range(docQueue)
      BY <1>5, <2>3, AppendSequence
    <3> QED
      BY <1>2, <1>3, <2>3, <3>1 DEF Seen
  <2> QED
    BY <2>1, <2>2, <2>3, QueueSteps DEF DocQueueStep
<1>7. ASSUME NEW m \in Range(updateQueue') PROVE IsCalled(m)'
  <2>1. CASE updateQueue' = updateQueue
    BY <1>3, <2>1 DEF Seen
  <2>2. CASE updateQueue # <<>> /\ updateQueue' = Tail(updateQueue)
    BY <1>3, <1>5, <2>2, TailSequence DEF Seen
  <2>3. ASSUME NEW n \in KeyMessages, Origin(n), updateQueue' = Append(updateQueue, n) PROVE IsCalled(m)'
    <3>1. m = n \/ m \in Range(updateQueue)
      BY <1>5, <2>3, AppendSequence
    <3> QED
      BY <1>2, <1>3, <2>3, <3>1 DEF Seen
  <2> QED
    BY <2>1, <2>2, <2>3, QueueSteps DEF UpdateQueueStep
<1>8. ASSUME NEW j \in Tasks PROVE IsCalled(taskMsg[j])'
  <2> SUFFICES taskMsg'[j] \in Seen \cup {Dummy}
    BY <1>3, <1>4
  <2>0. taskMsg[j] \in Seen /\ taskMsg \in [Tasks -> DocMessages]
    BY DEF Seen, ShapeInv, TaskShape
  <2>1. ASSUME NEW i \in Tasks, TaskStep(i) PROVE taskMsg'[j] \in Seen \cup {Dummy}
    <3>1. CASE TaskTake(i)
      <4>1. Head(docQueue) \in Seen
        BY <1>5, <3>1, TailSequence DEF TaskTake, Seen, Range
      <4> QED
        BY <2>0, <3>1, <4>1 DEF TaskTake
    <3>2. ASSUME NEW pc, Processed(i, pc) PROVE taskMsg'[j] \in Seen \cup {Dummy}
      BY <2>0, <3>2 DEF Processed
    <3>3. CASE ProcessAdd(i) \/ ProcessDelete(i) \/ ProcessElsewhere(i) \/ Pass(i)
      BY <2>0, <3>2, <3>3 DEF ProcessAdd, ProcessDelete, ProcessElsewhere, Pass
    <3>4. CASE SealFull(i) \/ NotFull(i) \/ TaskHandOff(i) \/ Renew(i) \/ SealLast(i)
      BY <2>0, <3>4 DEF SealFull, SealLast, TaskSeal, NotFull, TaskHandOff, Renew
    <3> QED
      BY <2>1, <3>1, <3>3, <3>4 DEF TaskStep
  <2>2. CASE UNCHANGED taskVars \/ ForceRenew
    BY <2>0, <2>2 DEF taskVars, ForceRenew
  <2> QED
    BY <2>1, <2>2, OthersLeaveTasks
<1>9. IsCalled(updaterMsg)'
  <2> SUFFICES updaterMsg' \in Seen \cup {Dummy}
    BY <1>3, <1>4
  <2>0. updaterMsg \in Seen
    BY DEF Seen
  <2>1. ASSUME UpdaterStep PROVE updaterMsg' \in Seen \cup {Dummy}
    <3>1. CASE UpdaterTake
      <4>1. Head(updateQueue) \in Seen
        BY <1>5, <3>1, TailSequence DEF UpdaterTake, Seen, Range
      <4> QED
        BY <2>0, <3>1, <4>1 DEF UpdaterTake, updaterVars
    <3>2. CASE UpdaterMiss \/ UpdaterPass \/ \E d \in Docs : UpdaterDelete(d) \/ UpdaterSpin(d)
      BY <2>0, <3>2 DEF UpdaterMiss, UpdaterPass, UpdaterDelete, UpdaterSpin
    <3> QED
      BY <2>1, <3>1, <3>2 DEF UpdaterStep
  <2>2. CASE UNCHANGED updaterVars
    BY <2>0, <2>2 DEF updaterVars
  <2> QED
    BY <2>1, <2>2, OthersLeaveUpdater
<1>10. ASSUME NEW m \in Seen' PROVE IsCalled(m)'
  BY <1>6, <1>7, <1>8, <1>9, <1>10 DEF Seen, Tasks
<1> QED
  BY <1>10 DEF CallInv

LEMMA InitCall == Init => CallInv
<1>1. Range(<<>>) = {}
  BY EmptySequence
<1>2. IsCalled(Dummy)
  BY DummyAndNull DEF IsCalled
<1> QED
  BY <1>1, <1>2 DEF Init, CallInv, Seen

\* There is a reason for each bit that a step sets.
LEMMA ReasonStep ==
  ASSUME ShapeInv, [Next]_vars, CallInv, OrderInv, DeletedForAReason
  PROVE  DeletedForAReason'
<1> DEFINE Replaced(d) == \E i, j \in DOMAIN consumed : i < j /\ consumed[i] = d /\ Key[consumed[j]] = Key[d]
           Reason(d) == Called(Key[d]) \/ Replaced(d)
<1>1. DeletedForAReason <=> \A d \in deleted : Reason(d)
  BY DEF DeletedForAReason, Called
<1>2. DeletedForAReason' <=> \A d \in deleted' : Reason(d)'
  BY DEF DeletedForAReason, Called
<1>3. ASSUME NEW d, Reason(d) PROVE Reason(d)'
  <2>1. Called(Key[d]) => Called(Key[d])'
    BY CallsRemembered
  <2>2. Replaced(d) => Replaced(d)'
    BY DocumentSteps, ConsumedGrows
  <2> QED
    BY <1>3, <2>1, <2>2
<1>4. ASSUME NEW key, Wanted(key) PROVE Called(key)
  BY <1>4 DEF Wanted, CallInv, IsCalled
<1> HIDE DEF Reason
<1>5. ASSUME NEW d \in deleted' PROVE Reason(d) \/ Reason(d)'
  <2>1. CASE d \in deleted
    BY <1>1, <2>1
  <2>2. ASSUME NEW b \in BarrelIds, NEW key, Wanted(key), DeleteInMemory(b, key) PROVE Reason(d)
    <3>1. d \in deleted \/ Key[d] = key
      BY <2>2 DEF DeleteInMemory, Lookup
    <3> QED
      BY <1>1, <1>4, <2>2, <3>1 DEF Reason
  <2>3. ASSUME NEW e \in Added, Wanted(Key[e]), DeleteOnDisk(e) PROVE Reason(d)
    BY <1>1, <1>4, <2>3 DEF DeleteOnDisk, Reason
  <2>4. ASSUME NEW i \in Tasks, AddStep(i) PROVE Reason(d)
    <3> DEFINE new == taskMsg[i].doc
    <3>1. d \in deleted \/ d \in Lookup(writer[i], Key[new])
      BY <2>4 DEF AddStep, ProcessAdd, AddDocument
    <3>2. CASE d \in Lookup(writer[i], Key[new])
      <4>1. d \in Range(barrels[writer[i]].docs) /\ Key[d] = Key[new]
        BY <3>2 DEF Lookup, Range
      <4>2. Before(d, new)
        BY <2>4, <4>1 DEF OrderInv, BarrelInOrder, AddStep
      <4> QED
        BY <4>1, <4>2 DEF Before, Reason
    <3> QED
      BY <1>1, <3>1, <3>2
  <2>5. ASSUME \/ \E b \in BarrelIds : SealBarrel(b)
               \/ \E taken \in Seq(BarrelIds) : Submit(taken)
               \/ CreateBarrelWriter \/ ResetMerger \/ CommitTake \/ CommitBatch
               \/ UNCHANGED keeperVars
        PROVE  deleted' = deleted
    BY <2>5 DEF SealBarrel, Submit, CreateBarrelWriter, ResetMerger, CommitTake, CommitBatch, keeperVars
  <2> QED
    BY <1>5, <2>1, <2>2, <2>3, <2>4, <2>5, KeeperSteps DEF KeeperStep
<1> QED
  BY <1>2, <1>3, <1>5

\* A document is only ever deleted for a reason: a deletion or an update of its key
\* that the client has called, or an addition of its key that it called later.
THEOREM DeletionsHaveReasons == Spec => []DeletedForAReason
<1> DEFINE Inv == ShapeInv /\ HomeInv /\ OrderInv /\ CallInv /\ DeletedForAReason
<1>1. Init => Inv
  <2>1. Init => DeletedForAReason
    BY DEF Init, KeeperInit, DeletedForAReason
  <2> QED
    BY <2>1, InitShape, InitHome, InitOrder, InitCall
<1>2. Inv /\ [Next]_vars => Inv'
  <2> SUFFICES ASSUME Inv, [Next]_vars PROVE Inv'
    OBVIOUS
  <2>1. ShapeInv' /\ BarrelIds \subseteq BarrelIds' /\ DocumentStep
    BY ShapeStep, DocumentSteps
  <2> QED
    BY <2>1, HomeStep, OrderStep, CallStep, ReasonStep
<1>3. Inv => DeletedForAReason
  OBVIOUS
<1> QED
  BY <1>1, <1>2, <1>3, PTL DEF Spec

-----------------------------------------------------------------------------
(* What the updating thread owes the deletions                             *)

LEMMA InitUpdater == Init => UpdaterInv
BY EmptySeq, SequenceShape, EmptySequence
   DEF Init, UpdaterInv, WaitPlaces

\* The null pointer comes last, and the updating thread ends with an empty queue.
LEMMA UpdaterStepInv ==
  ASSUME ShapeInv, UpdaterInv, [Next]_vars
  PROVE  UpdaterInv'
<1> DEFINE Ends == StopPlaces \cup WaitPlaces \cup {"drain", "closed"}
           LastNull(s, pc) == \A i \in DOMAIN s : s[i] = Null => i = Len(s) /\ pc = "joinUpdater"
<1>0. IsSequence(updateQueue) /\ DOMAIN updateQueue = 1..Len(updateQueue) /\ Len(updateQueue) \in Nat
  <2>1. IsSequence(updateQueue)
    BY SequenceOf DEF ShapeInv, QueueShape
  <2> QED
    BY <2>1, SequenceShape
<1>1. ASSUME UpdaterStep PROVE UpdaterInv'
  <2>1. UNCHANGED <<clientPc, commits>>
    BY <1>1 DEF UpdaterStep, UpdaterTake, UpdaterMiss, UpdaterPass, UpdaterDelete, UpdaterSpin, clientVars
  <2>2. CASE UpdaterTake
    <3> DEFINE m == Head(updateQueue)
    <3>1. /\ Len(updateQueue') = Len(updateQueue) - 1 /\ DOMAIN updateQueue' = 1..(Len(updateQueue) - 1)
          /\ \A i \in 1..(Len(updateQueue) - 1) : updateQueue'[i] = updateQueue[i + 1] /\ i + 1 \in DOMAIN updateQueue
          /\ m = updateQueue[1] /\ 1 \in DOMAIN updateQueue /\ updateQueue # <<>> /\ updaterPc = "loop"
      BY <1>0, <2>2, TailSequence DEF UpdaterTake
    <3>2. LastNull(updateQueue', clientPc')
      <4> SUFFICES ASSUME NEW i \in DOMAIN updateQueue', updateQueue'[i] = Null
                   PROVE  i = Len(updateQueue') /\ clientPc' = "joinUpdater"
        OBVIOUS
      <4>1. i + 1 = Len(updateQueue) /\ clientPc = "joinUpdater"
        BY <3>1 DEF UpdaterInv
      <4> QED
        BY <1>0, <2>1, <3>1, <4>1
    <3>3. CASE m = Null
      <4>1. 1 = Len(updateQueue) /\ clientPc = "joinUpdater" /\ updaterPc' = "exited"
        BY <2>2, <3>1, <3>3, DummyAndNull DEF UpdaterInv, UpdaterTake
      <4>2. updateQueue' = <<>>
        <5>1. updateQueue' = Tail(updateQueue) /\ updateQueue # <<>>
          BY <2>2 DEF UpdaterTake
        <5>2. IsSequence(updateQueue')
          BY <1>0, <5>1, TailSequence
        <5> QED
          BY <3>1, <4>1, <5>2, SequenceShape
      <4> QED
        BY <2>1, <3>2, <4>1, <4>2 DEF UpdaterInv, StopPlaces, WaitPlaces
    <3>4. CASE m # Null
      <4>1. updaterPc' \in {"loop", "lookup"}
        BY <2>2, <3>1, <3>4 DEF UpdaterTake, updaterVars
      <4> QED
        BY <2>1, <3>1, <3>2, <4>1 DEF UpdaterInv
    <3> QED
      BY <3>3, <3>4
  <2>3. CASE UpdaterMiss \/ UpdaterPass \/ \E d \in Docs : UpdaterDelete(d) \/ UpdaterSpin(d)
    <3>1. updaterPc # "exited" /\ updaterPc' # "exited" /\ updateQueue' = updateQueue
      BY <2>3 DEF UpdaterMiss, UpdaterPass, UpdaterDelete, UpdaterSpin, queues
    <3> QED
      BY <2>1, <3>1 DEF UpdaterInv
  <2> QED
    BY <1>1, <2>2, <2>3 DEF UpdaterStep
<1>2. ASSUME NEW m, m # Null, EnqueueUpdate(m), UNCHANGED updaterVars, clientPc = "idle",
             clientPc' \in {"idle", "waitUpdates"}
      PROVE  UpdaterInv'
  <2>1. updaterPc' # "exited"
    BY <1>2 DEF UpdaterInv, updaterVars, StopPlaces, WaitPlaces
  <2>2. \A i \in DOMAIN updateQueue : updateQueue[i] # Null
    BY <1>2 DEF UpdaterInv
  <2>3. \A i \in DOMAIN updateQueue' : updateQueue'[i] # Null
    BY <1>0, <1>2, <2>2, AppendSequence, SequenceShape DEF EnqueueUpdate
  <2> QED
    BY <1>2, <2>1, <2>3 DEF UpdaterInv, WaitPlaces
<1>3. CASE Stop
  <2>1. clientPc = "idle" /\ clientPc' = "joinUpdater" /\ updateQueue' = Append(updateQueue, Null) /\ updaterPc' = updaterPc
    BY <1>3 DEF Stop, EnqueueUpdate, updaterVars
  <2>2. updaterPc # "exited" /\ \A i \in DOMAIN updateQueue : updateQueue[i] # Null
    BY <2>1 DEF UpdaterInv, StopPlaces, WaitPlaces
  <2>3. LastNull(updateQueue', clientPc')
    BY <1>0, <2>1, <2>2, AppendSequence, SequenceShape
  <2> QED
    BY <2>1, <2>2, <2>3 DEF UpdaterInv, WaitPlaces
<1>4. ASSUME ClientStep PROVE UpdaterInv'
  <2>0. UNCHANGED <<updateQueue, updaterPc, commits>>
    <3>1. CASE WaitUpdates \/ ForceTask \/ WaitDocs \/ ForceSeal \/ Flush \/ ClientHandOff \/ WaitCommit
      BY <3>1 DEF WaitUpdates, ForceTask, WaitDocs, ForceSeal, Flush, ClientHandOff, WaitCommit, EnqueueDoc, ClientGoto,
                  queues, updaterVars
    <3>2. CASE Reset \/ JoinUpdater \/ StopTask \/ StopWait \/ JoinTasks \/ CloseScheduler \/ ForceRenew
      BY <3>2 DEF Reset, JoinUpdater, StopTask, StopWait, JoinTasks, CloseScheduler, ForceRenew, EnqueueDoc, ClientGoto,
                  queues, updaterVars
    <3> QED
      BY <1>4, <3>1, <3>2 DEF ClientStep
  <2> USE DEF StopPlaces, WaitPlaces
  <2>1. ASSUME clientPc # "joinUpdater", clientPc' # "joinUpdater",
               clientPc \in Ends => clientPc' \in Ends \/ updaterPc # "exited",
               clientPc' \in Ends => clientPc \in Ends \/ updaterPc # "exited",
               clientPc' \in {"stopTasks", "stopWait", "joinTasks", "drain", "closed"} => updaterPc = "exited",
               commits = 0 /\ clientPc' \in WaitPlaces => updaterPc = "exited"
        PROVE  UpdaterInv'
    BY <2>0, <2>1 DEF UpdaterInv
  <2>2. CASE WaitUpdates \/ ForceTask \/ WaitDocs \/ ForceSeal \/ ForceRenew
    <3>1. clientPc \notin Ends /\ clientPc' \notin Ends
      BY <2>2 DEF WaitUpdates, ForceTask, WaitDocs, ForceSeal, ForceRenew, ClientGoto
    <3> QED
      BY <2>1, <3>1
  <2>3. ASSUME clientPc \in CommitPlaces PROVE commits # 0 /\ updaterPc # "exited"
    BY <2>3 DEF ShapeInv, ClientShape, UpdaterInv, CommitPlaces, ForcePlaces
  <2>4. CASE Flush \/ ClientHandOff
    <3>1. clientPc \in CommitPlaces \cup WaitPlaces /\ clientPc' \in CommitPlaces \cup WaitPlaces
          /\ (clientPc \in WaitPlaces => clientPc' \in WaitPlaces) /\ clientPc' # "joinUpdater"
      BY <2>4 DEF Flush, ClientHandOff, CommitPlaces, ForcePlaces
    <3>2. CASE clientPc \in CommitPlaces
      BY <2>1, <2>3, <3>1, <3>2 DEF CommitPlaces, ForcePlaces
    <3>3. CASE clientPc \in WaitPlaces
      BY <2>1, <3>1, <3>3 DEF UpdaterInv
    <3> QED
      BY <3>1, <3>2, <3>3
  <2>5. CASE WaitCommit
    BY <2>1, <2>5 DEF WaitCommit, ClientGoto, UpdaterInv
  <2>6. CASE Reset
    BY <2>1, <2>6 DEF Reset, ClientGoto, Closing, UpdaterInv
  <2>7. CASE JoinUpdater
    BY <2>0, <2>7 DEF JoinUpdater, ClientGoto, UpdaterInv
  <2>8. CASE StopTask
    BY <2>1, <2>8 DEF StopTask, UpdaterInv
  <2>9. CASE StopWait \/ JoinTasks \/ CloseScheduler
    BY <2>1, <2>9 DEF StopWait, JoinTasks, CloseScheduler, ClientGoto, UpdaterInv
  <2> QED
    BY <1>4, <2>2, <2>4, <2>5, <2>6, <2>7, <2>8, <2>9 DEF ClientStep
<1>5. ASSUME NEW d \in Docs, Consume(d) PROVE UpdaterInv'
  <2>1. UNCHANGED <<updaterPc, clientPc, commits>> /\ UNCHANGED updaterVars /\ clientPc = "idle"
    BY <1>5 DEF Consume, MayCall, updaterVars, clientVars
  <2>2. CASE d \in Updates
    <3>1. Message("update", d, Key[d]) # Null
      BY <2>2, CallMessages, DummyAndNull
    <3>2. EnqueueUpdate(Message("update", d, Key[d]))
      BY <1>5, <2>2 DEF Consume
    <3> QED
      BY <1>2, <2>1, <3>1, <3>2
  <2>3. CASE d \notin Updates
    <3>1. updateQueue' = updateQueue
      BY <1>5, <2>3 DEF Consume, EnqueueDoc
    <3> QED
      BY <2>1, <3>1 DEF UpdaterInv
  <2> QED
    BY <2>2, <2>3
<1>6. ASSUME NEW key \in Range(Key), Delete(key) PROVE UpdaterInv'
  <2>1. Message("delete", NoDoc, key) # Null
    BY CallMessages, DummyAndNull
  <2> QED
    BY <1>2, <1>6, <2>1 DEF Delete, MayCall
<1>7. CASE Commit
  BY <1>2, <1>7, DummyAndNull DEF Commit, MayCall
<1>8. ASSUME NEW i \in Tasks, TaskStep(i) PROVE updateQueue' = updateQueue
  <2>1. CASE SealFull(i) \/ NotFull(i) \/ TaskHandOff(i) \/ Renew(i) \/ SealLast(i)
    BY <2>1 DEF SealFull, SealLast, TaskSeal, NotFull, TaskHandOff, Renew, queues
  <2>2. CASE TaskTake(i) \/ ProcessAdd(i) \/ ProcessDelete(i) \/ ProcessElsewhere(i) \/ Pass(i)
    BY <2>2 DEF TaskTake, ProcessAdd, ProcessDelete, ProcessElsewhere, Pass, queues
  <2> QED
    BY <1>8, <2>1, <2>2 DEF TaskStep
<1>9. ASSUME CommitThreadStep \/ UpdaterSpinning \/ Closed \/ UNCHANGED vars PROVE updateQueue' = updateQueue
  BY <1>9 DEF CommitThreadStep, UpdaterSpinning, Closed, vars, queues
<1>10. ASSUME UNCHANGED updaterVars, UNCHANGED <<clientVars, history>>, updateQueue' = updateQueue PROVE UpdaterInv'
  BY <1>10 DEF updaterVars, clientVars, UpdaterInv
<1>11. \/ UpdaterStep \/ Stop \/ ClientStep \/ Commit
       \/ \E d \in Docs : Consume(d)
       \/ \E key \in Range(Key) : Delete(key)
       \/ UNCHANGED updaterVars /\ UNCHANGED <<clientVars, history>> /\ updateQueue' = updateQueue
  BY <1>8, <1>9, OthersLeaveUpdater, OthersLeaveClient DEF Next
<1> QED
  BY <1>1, <1>3, <1>4, <1>5, <1>6, <1>7, <1>10, <1>11

LEMMA KeeperGrows ==
  ASSUME KeeperStep \/ \E i \in Tasks : AddStep(i)
  PROVE  primaryKeys \subseteq primaryKeys' /\ deleted \subseteq deleted'
<1>1. ASSUME NEW b \in BarrelIds, SealBarrel(b) PROVE primaryKeys \subseteq primaryKeys' /\ deleted' = deleted
  BY <1>1 DEF SealBarrel
<1>2. ASSUME \/ \E b \in BarrelIds, key \in Range(Key) \cup {NoDoc} : DeleteInMemory(b, key)
             \/ \E taken \in Seq(BarrelIds) : Submit(taken)
             \/ \E d \in Added : DeleteOnDisk(d)
             \/ CreateBarrelWriter \/ ResetMerger \/ CommitTake \/ CommitBatch
             \/ UNCHANGED keeperVars
      PROVE  primaryKeys' = primaryKeys /\ deleted \subseteq deleted'
  BY <1>2 DEF DeleteInMemory, Submit, DeleteOnDisk, CreateBarrelWriter, ResetMerger, CommitTake, CommitBatch, keeperVars
<1>3. ASSUME NEW i \in Tasks, AddStep(i) PROVE primaryKeys' = primaryKeys /\ deleted \subseteq deleted'
  BY <1>3 DEF AddStep, ProcessAdd, AddDocument
<1> QED
  BY <1>1, <1>2, <1>3 DEF KeeperStep

LEMMA ReachStep ==
  ASSUME ShapeInv, ReachInv, [Next]_vars
  PROVE  ReachInv'
<1> DEFINE Hit(key) == \E d \in deleted : Key[d] = key
<1>0. primaryKeys \subseteq primaryKeys' /\ deleted \subseteq deleted'
  BY KeeperSteps, KeeperGrows
<1>1. IsSequence(updateQueue)
  BY SequenceOf DEF ShapeInv, QueueShape
<1>2. ASSUME deletions' = deletions,
             \A x \in deletions : /\ \E d \in x.sealed : Key[d] = x.key
                                  /\ x.sealed \subseteq primaryKeys
                                  /\ Asked(x.key)
                                  => Asked(x.key)' \/ Hit(x.key)'
      PROVE  ReachInv'
  BY <1>0, <1>2 DEF ReachInv
<1>3. ASSUME NEW m, updateQueue' = Append(updateQueue, m) \/ updateQueue' = updateQueue, UNCHANGED updaterVars, NEW key
      PROVE  Asked(key) => Asked(key)'
  <2>1. Range(updateQueue) \subseteq Range(updateQueue')
    <3>1. CASE updateQueue' = Append(updateQueue, m)
      <4>1. Range(Append(updateQueue, m)) = Range(updateQueue) \cup {m}
        BY <1>1, AppendSequence
      <4> QED
        BY <3>1, <4>1
    <3>2. CASE updateQueue' = updateQueue
      BY <3>2
    <3> QED
      BY <1>3, <3>1, <3>2
  <2> QED
    BY <1>3, <2>1 DEF Asked, updaterVars
<1>4. ASSUME UpdaterStep PROVE ReachInv'
  <2>0. deletions' = deletions
    BY <1>4 DEF UpdaterStep, UpdaterTake, UpdaterMiss, UpdaterPass, UpdaterDelete, UpdaterSpin, history
  <2>1. CASE UpdaterTake
    <3> DEFINE m == Head(updateQueue)
    <3>1. updateQueue # <<>> /\ updateQueue' = Tail(updateQueue) /\ updaterPc = "loop"
      BY <2>1 DEF UpdaterTake
    <3>2. ASSUME NEW n \in Range(updateQueue) PROVE n = m \/ n \in Range(updateQueue')
      <4>1. PICK p \in DOMAIN updateQueue : updateQueue[p] = n
        BY DEF Range
      <4>2. /\ Len(updateQueue) \in Nat /\ DOMAIN updateQueue = 1..Len(updateQueue) /\ m = updateQueue[1]
            /\ DOMAIN updateQueue' = 1..(Len(updateQueue) - 1)
            /\ \A i \in 1..(Len(updateQueue) - 1) : updateQueue'[i] = updateQueue[i + 1]
        BY <1>1, <3>1, TailSequence, SequenceShape
      <4>3. CASE p # 1
        <5>1. p - 1 \in DOMAIN updateQueue' /\ (p - 1) + 1 = p
          BY <4>2, <4>3
        <5>2. updateQueue'[p - 1] = n
          BY <4>1, <4>2, <5>1
        <5> QED
          BY <5>1, <5>2 DEF Range
      <4> QED
        BY <4>1, <4>2, <4>3
    <3>3. ASSUME m.action = "delete" PROVE updaterPc' = "lookup" /\ updaterMsg' = m
      BY <2>1, <3>3, DummyAndNull DEF UpdaterTake
    <3>4. ASSUME NEW key, Asked(key) PROVE Asked(key)'
      <4>1. PICK n \in Range(updateQueue) : n.action = "delete" /\ n.key = key
        BY <3>1, <3>4 DEF Asked
      <4>2. CASE n = m
        BY <3>3, <4>1, <4>2 DEF Asked
      <4>3. CASE n \in Range(updateQueue')
        BY <4>1, <4>3 DEF Asked
      <4> QED
        BY <3>2, <4>2, <4>3
    <3> QED
      BY <1>2, <2>0, <3>4
  <2>2. ASSUME NEW d \in Docs, UpdaterDelete(d) PROVE ReachInv'
    <3>1. Key[d] = updaterMsg.key /\ d \in deleted' /\ updateQueue' = updateQueue
      BY <2>2 DEF UpdaterDelete, Entries, DeleteOnDisk, queues
    <3>2. ASSUME NEW key, Asked(key) PROVE Asked(key)' \/ Hit(key)'
      BY <3>1, <3>2 DEF Asked
    <3> QED
      BY <1>2, <2>0, <3>2
  <2>3. ASSUME NEW d \in Docs, UpdaterSpin(d) PROVE ReachInv'
    <3>1. Key[d] = updaterMsg.key /\ d \in deleted' /\ updateQueue' = updateQueue
      BY <1>0, <2>3 DEF UpdaterSpin, Entries, queues
    <3>2. ASSUME NEW key, Asked(key) PROVE Asked(key)' \/ Hit(key)'
      BY <3>1, <3>2 DEF Asked
    <3> QED
      BY <1>2, <2>0, <3>2
  <2>4. CASE UpdaterMiss
    <3>1. Entries(updaterMsg.key) = {} /\ updateQueue' = updateQueue
      BY <2>4 DEF UpdaterMiss, queues
    <3>2. ASSUME NEW x \in deletions, \E d \in x.sealed : Key[d] = x.key, x.sealed \subseteq primaryKeys, Asked(x.key)
          PROVE  Asked(x.key)'
      <4>1. Entries(x.key) # {}
        BY <3>2 DEF Entries
      <4>2. x.key # updaterMsg.key
        BY <3>1, <4>1
      <4> QED
        BY <3>1, <3>2, <4>2 DEF Asked
    <3> QED
      BY <1>2, <2>0, <3>2
  <2>5. CASE UpdaterPass
    <3>1. updaterPc = "pass" /\ updateQueue' = updateQueue
      BY <2>5 DEF UpdaterPass
    <3>2. ASSUME NEW key, Asked(key) PROVE Asked(key)'
      BY <3>1, <3>2 DEF Asked
    <3> QED
      BY <1>2, <2>0, <3>2
  <2> QED
    BY <1>4, <2>1, <2>2, <2>3, <2>4, <2>5 DEF UpdaterStep
<1>5. ASSUME NEW key \in Range(Key), Delete(key) PROVE ReachInv'
  <2> DEFINE call == [key |-> key, sealed |-> primaryKeys]
             m == Message("delete", NoDoc, key)
  <2>1. /\ deletions' = deletions \cup {call} /\ updateQueue' = Append(updateQueue, m)
        /\ UNCHANGED updaterVars
    BY <1>5 DEF Delete, EnqueueUpdate
  <2>2. m \in Range(updateQueue') /\ m.action = "delete" /\ m.key = key
    BY <1>1, <2>1, AppendSequence, CallMessages
  <2>3. Asked(key)'
    BY <2>2 DEF Asked
  <2>4. call.key = key /\ call.sealed = primaryKeys
    OBVIOUS
  <2> HIDE DEF call, m
  <2>5. ASSUME NEW x \in deletions, \E d \in x.sealed : Key[d] = x.key
        PROVE  Asked(x.key)' \/ Hit(x.key)'
    <3>1. Asked(x.key) \/ Hit(x.key)
      BY <2>5 DEF ReachInv
    <3> QED
      BY <1>0, <1>3, <2>1, <3>1
  <2>6. ASSUME NEW x \in deletions' PROVE /\ x.sealed \subseteq primaryKeys'
                                          /\ (\E d \in x.sealed : Key[d] = x.key) => Asked(x.key)' \/ Hit(x.key)'
    <3>1. CASE x = call
      BY <1>0, <2>3, <2>4, <3>1
    <3>2. CASE x \in deletions
      BY <1>0, <2>5, <3>2 DEF ReachInv
    <3> QED
      BY <2>1, <3>1, <3>2
  <2> QED
    BY <2>6 DEF ReachInv
<1>6. ASSUME deletions' = deletions, UNCHANGED updaterVars,
             updateQueue' = updateQueue \/ \E m : updateQueue' = Append(updateQueue, m)
      PROVE  ReachInv'
  BY <1>2, <1>3, <1>6
<1>7. ASSUME ClientStep PROVE UNCHANGED <<updateQueue, history, updaterVars>>
  <2>1. CASE WaitUpdates \/ ForceTask \/ WaitDocs \/ ForceSeal \/ Flush \/ ClientHandOff \/ WaitCommit
    BY <2>1 DEF WaitUpdates, ForceTask, WaitDocs, ForceSeal, Flush, ClientHandOff, WaitCommit, EnqueueDoc, queues
  <2>2. CASE Reset \/ JoinUpdater \/ StopTask \/ StopWait \/ JoinTasks \/ CloseScheduler \/ ForceRenew
    BY <2>2 DEF Reset, JoinUpdater, StopTask, StopWait, JoinTasks, CloseScheduler, ForceRenew, EnqueueDoc, queues
  <2> QED
    BY <1>7, <2>1, <2>2 DEF ClientStep
<1>8. ASSUME NEW i \in Tasks, TaskStep(i) PROVE UNCHANGED <<updateQueue, history, updaterVars>>
  <2>1. CASE SealFull(i) \/ NotFull(i) \/ TaskHandOff(i) \/ Renew(i) \/ SealLast(i)
    BY <2>1 DEF SealFull, SealLast, TaskSeal, NotFull, TaskHandOff, Renew, queues
  <2>2. CASE TaskTake(i) \/ ProcessAdd(i) \/ ProcessDelete(i) \/ ProcessElsewhere(i) \/ Pass(i)
    BY <2>2 DEF TaskTake, ProcessAdd, ProcessDelete, ProcessElsewhere, Pass, queues
  <2> QED
    BY <1>8, <2>1, <2>2 DEF TaskStep
<1>9. ASSUME CommitThreadStep \/ UpdaterSpinning \/ Closed \/ UNCHANGED vars
      PROVE  UNCHANGED <<updateQueue, history, updaterVars>>
  BY <1>9 DEF CommitThreadStep, UpdaterSpinning, Closed, vars, queues
<1>10. ASSUME Commit \/ Stop \/ \E d \in Docs : Consume(d) PROVE ReachInv'
  <2>1. deletions' = deletions /\ UNCHANGED updaterVars
    BY <1>10 DEF Commit, Stop, Consume, history
  <2>2. updateQueue' = updateQueue \/ \E m : updateQueue' = Append(updateQueue, m)
    BY <1>10 DEF Commit, Stop, Consume, EnqueueUpdate, EnqueueDoc
  <2> QED
    BY <1>6, <2>1, <2>2
<1> QED
  BY <1>4, <1>5, <1>6, <1>7, <1>8, <1>9, <1>10 DEF Next, history

\* However it is overtaken, a deletion whose key a sealed barrel held has deleted a
\* document with the key by the time close() returns.
THEOREM DeletesReach == Spec => []DeletesReachSealed
<1> DEFINE Inv == ShapeInv /\ UpdaterInv /\ ReachInv
<1>1. Init => Inv
  <2>1. Init => ReachInv
    BY DEF Init, ReachInv
  <2> QED
    BY <2>1, InitShape, InitUpdater
<1>2. Inv /\ [Next]_vars => Inv'
  BY ShapeStep, UpdaterStepInv, ReachStep
<1>3. Inv => DeletesReachSealed
  <2> SUFFICES ASSUME Inv, clientPc = "closed" PROVE DeletesReachSealed
    BY DEF DeletesReachSealed
  <2>1. updaterPc = "exited" /\ updateQueue = <<>>
    BY DEF UpdaterInv
  <2>2. \A key : ~ Asked(key)
    BY <2>1, EmptySequence DEF Asked
  <2> QED
    BY <2>2 DEF ReachInv, DeletesReachSealed
<1> QED
  BY <1>1, <1>2, <1>3, PTL DEF Spec

-----------------------------------------------------------------------------
(* The end of the tasks                                                    *)

LEMMA NullsCount ==
  ASSUME NEW s, IsSequence(s)
  PROVE  /\ IsFiniteSet(NullsIn(s)) /\ Cardinality(NullsIn(s)) \in Nat
         /\ \A m : Cardinality(NullsIn(Append(s, m))) = Cardinality(NullsIn(s)) + IF m = Null THEN 1 ELSE 0
         /\ s # <<>> =>
               Cardinality(NullsIn(s)) = Cardinality(NullsIn(Tail(s))) + IF Head(s) = Null THEN 1 ELSE 0
<1>1. ASSUME NEW t, IsSequence(t)
      PROVE  /\ IsFiniteSet(NullsIn(t)) /\ Cardinality(NullsIn(t)) \in Nat
             /\ Len(t) \in Nat /\ DOMAIN t = 1..Len(t)
  <2>1. DOMAIN t = 1..Len(t) /\ Len(t) \in Nat
    BY <1>1, SequenceShape
  <2>2. IsFiniteSet(1..Len(t))
    BY <2>1, FS_Interval
  <2>3. IsFiniteSet(NullsIn(t))
    BY <2>1, <2>2, FS_Subset DEF NullsIn
  <2> QED
    BY <2>1, <2>3, FS_CardinalityType
<1>2. ASSUME NEW m PROVE Cardinality(NullsIn(Append(s, m))) = Cardinality(NullsIn(s)) + IF m = Null THEN 1 ELSE 0
  <2> DEFINE t == Append(s, m)
             n == Len(s) + 1
  <2>1. /\ IsSequence(t) /\ Len(t) = n /\ t[n] = m
        /\ \A i \in 1..Len(s) : t[i] = s[i]
    BY AppendSequence
  <2>2. DOMAIN t = 1..n /\ DOMAIN s = 1..Len(s) /\ Len(s) \in Nat
    BY <1>1, <2>1
  <2>3. n \notin NullsIn(s)
    BY <2>2 DEF NullsIn
  <2> HIDE DEF t
  <2>4. NullsIn(t) = IF m = Null THEN NullsIn(s) \cup {n} ELSE NullsIn(s)
    BY <2>1, <2>2 DEF NullsIn
  <2>5. CASE m = Null
    <3>1. Cardinality(NullsIn(s) \cup {n}) = Cardinality(NullsIn(s)) + 1
      BY <1>1, <2>3, FS_AddElement
    <3> QED
      BY <2>4, <2>5, <3>1 DEF t
  <2>6. CASE m # Null
    BY <1>1, <2>4, <2>6 DEF t
  <2> QED
    BY <2>5, <2>6
<1>3. ASSUME s # <<>>
      PROVE  Cardinality(NullsIn(s)) = Cardinality(NullsIn(Tail(s))) + IF Head(s) = Null THEN 1 ELSE 0
  <2> DEFINE t == Tail(s)
             rest == NullsIn(s) \ {1}
             f == [p \in NullsIn(t) |-> p + 1]
  <2>1. /\ IsSequence(t) /\ Len(t) = Len(s) - 1 /\ DOMAIN t = 1..(Len(s) - 1)
        /\ \A i \in 1..(Len(s) - 1) : t[i] = s[i + 1]
        /\ Head(s) = s[1] /\ 1 \in DOMAIN s
    BY <1>3, TailSequence
  <2>2. DOMAIN s = 1..Len(s) /\ Len(s) \in Nat /\ NullsIn(t) \subseteq 1..(Len(s) - 1)
    BY <1>1, <2>1 DEF NullsIn
  <2> HIDE DEF t
  <2>3. f \in [NullsIn(t) -> rest]
    BY <2>1, <2>2 DEF NullsIn
  <2>4. \A p, q \in NullsIn(t) : f[p] = f[q] => p = q
    BY <2>2
  <2>5. ASSUME NEW q \in rest PROVE \E p \in NullsIn(t) : f[p] = q
    <3>1. q - 1 \in NullsIn(t) /\ (q - 1) + 1 = q
      BY <2>1, <2>2 DEF NullsIn
    <3> QED
      BY <3>1
  <2>6. ExistsBijection(NullsIn(t), rest)
    BY <2>3, <2>4, <2>5 DEF ExistsBijection, Bijection, Injection, Surjection, IsInjective
  <2>7. Cardinality(rest) = Cardinality(NullsIn(t))
    BY <1>1, <2>1, <2>6, FS_Bijection
  <2>8. Cardinality(rest) = IF 1 \in NullsIn(s) THEN Cardinality(NullsIn(s)) - 1 ELSE Cardinality(NullsIn(s))
    BY <1>1, FS_RemoveElement
  <2>9. 1 \in NullsIn(s) <=> Head(s) = Null
    BY <2>1 DEF NullsIn
  <2>10. Cardinality(NullsIn(s)) \in Nat
    BY <1>1
  <2> QED
    BY <2>7, <2>8, <2>9, <2>10 DEF t
<1> QED
  BY <1>1, <1>2, <1>3

\* What a step does with the null pointers.
LEMMA EndedStep ==
  ASSUME ShapeInv, [Next]_vars
  PROVE  \/ StopTask
         \/ /\ Ended' = Ended
            /\ docQueue' = docQueue \/ \E m \in DocMessages : m # Null /\ docQueue' = Append(docQueue, m)
         \/ \E i \in Tasks \ Ended :
               /\ docQueue # <<>> /\ docQueue' = Tail(docQueue)
               /\ Ended' = IF Head(docQueue) = Null THEN Ended \cup {i} ELSE Ended
<1> USE DEF ShapeInv
<1> DEFINE Added1 == docQueue' = docQueue \/ \E m \in DocMessages : m # Null /\ docQueue' = Append(docQueue, m)
<1>1. ASSUME NEW i \in Tasks, TaskStep(i), ~ TaskTake(i) PROVE Ended' = Ended /\ Added1
  <2>0. taskMsg \in [Tasks -> DocMessages] /\ TaskState(taskPc[i], taskMsg[i], taskHand[i])
    BY DEF TaskShape
  <2>1. CASE SealFull(i) \/ SealLast(i) \/ NotFull(i) \/ TaskHandOff(i) \/ Renew(i)
    BY <2>1 DEF SealFull, SealLast, TaskSeal, NotFull, TaskHandOff, Renew, Ended, queues, Tasks
  <2>2. ASSUME NEW pc, Processed(i, pc), taskPc[i] \in {"process", "pass"} PROVE Ended' = Ended
    <3>1. taskMsg[i] # Null /\ Dummy # Null
      BY <2>0, <2>2, DummyAndNull DEF TaskState
    <3>2. taskMsg' = [taskMsg EXCEPT ![i] = Dummy]
      BY <2>2 DEF Processed
    <3> QED
      BY <2>0, <3>1, <3>2 DEF Ended, Tasks
  <2>3. CASE ProcessAdd(i) \/ ProcessDelete(i)
    BY <2>2, <2>3 DEF ProcessAdd, ProcessDelete, queues
  <2>4. CASE ProcessElsewhere(i)
    <3>1. taskMsg' = taskMsg => Ended' = Ended
      BY DEF Ended, Tasks
    <3> QED
      BY <2>2, <2>4, <3>1 DEF ProcessElsewhere, queues
  <2>5. CASE Pass(i)
    <3> DEFINE passed == [taskMsg[i] EXCEPT !.taskId = NextTaskId(i)]
    <3>1. taskPc[i] = "pass" /\ docQueue' = Append(docQueue, passed) /\ Processed(i, "loop")
      BY <2>5 DEF Pass
    <3>2. NextTaskId(i) \in {0, 1, INVALID_TASKID}
      BY DEF NextTaskId
    <3>3. passed \in DocMessages /\ passed.action \in {"update", "delete"}
      BY <2>0, <3>1, <3>2, PassedMessage DEF TaskState
    <3> HIDE DEF passed
    <3>4. passed # Null
      BY <3>3, DummyAndNull
    <3> QED
      BY <2>2, <3>1, <3>3, <3>4
  <2> QED
    BY <1>1, <2>1, <2>3, <2>4, <2>5 DEF TaskStep
<1>2. ASSUME NEW i \in Tasks, TaskTake(i)
      PROVE  /\ i \notin Ended /\ docQueue # <<>> /\ docQueue' = Tail(docQueue)
             /\ Ended' = IF Head(docQueue) = Null THEN Ended \cup {i} ELSE Ended
  <2>1. taskMsg \in [Tasks -> DocMessages] /\ taskMsg[i] = Dummy
    BY <1>2 DEF TaskShape, TaskState, TaskTake
  <2>2. i \notin Ended /\ Dummy # Null
    BY <2>1, DummyAndNull DEF Ended
  <2>3. docQueue # <<>> /\ docQueue' = Tail(docQueue)
    BY <1>2 DEF TaskTake
  <2>4. CASE Head(docQueue) = Dummy
    BY <1>2, <2>2, <2>4 DEF TaskTake, Ended, Tasks
  <2>5. CASE Head(docQueue) # Dummy
    <3>1. taskMsg' = [taskMsg EXCEPT ![i] = Head(docQueue)]
      BY <1>2, <2>5 DEF TaskTake
    <3>2. \A j \in Tasks : taskMsg'[j] = IF j = i THEN Head(docQueue) ELSE taskMsg[j]
      BY <2>1, <3>1
    <3>3. Ended' = {j \in Tasks : taskMsg'[j] = Null}
      BY DEF Ended, Tasks
    <3> QED
      BY <2>2, <2>3, <3>2, <3>3 DEF Ended
  <2> QED
    BY <2>2, <2>3, <2>4, <2>5
<1>3. taskMsg' = taskMsg => Ended' = Ended
  BY DEF Ended, Tasks
<1>4. CASE UpdaterStep
  <2>1. taskMsg' = taskMsg
    BY <1>4 DEF UpdaterStep, UpdaterTake, UpdaterMiss, UpdaterPass, UpdaterDelete, UpdaterSpin, taskVars
  <2>2. CASE UpdaterPass
    <3> DEFINE passed == [updaterMsg EXCEPT !.taskId = 0]
    <3>1. docQueue' = Append(docQueue, passed)
      BY <2>2 DEF UpdaterPass
    <3>2. passed \in DocMessages /\ passed.action \in {"update", "delete"}
      BY <2>2, PassedMessage DEF UpdaterPass, UpdaterShape, KeyMessages
    <3> HIDE DEF passed
    <3>3. passed # Null
      BY <3>2, DummyAndNull
    <3> QED
      BY <1>3, <2>1, <3>1, <3>2, <3>3
  <2>3. CASE UpdaterTake \/ UpdaterMiss \/ \E d \in Docs : UpdaterDelete(d) \/ UpdaterSpin(d)
    BY <1>3, <2>1, <2>3 DEF UpdaterTake, UpdaterMiss, UpdaterDelete, UpdaterSpin, queues
  <2> QED
    BY <1>4, <2>2, <2>3 DEF UpdaterStep
<1>5. ASSUME ClientStep, ~ StopTask PROVE Ended' = Ended /\ Added1
  <2>1. taskMsg' = taskMsg
    <3>1. CASE WaitUpdates \/ ForceTask \/ WaitDocs \/ ForceSeal \/ Flush \/ ClientHandOff \/ WaitCommit \/ ForceRenew
      BY <3>1 DEF WaitUpdates, ForceTask, WaitDocs, ForceSeal, Flush, ClientHandOff, WaitCommit, ForceRenew, taskVars
    <3>2. CASE Reset \/ JoinUpdater \/ StopWait \/ JoinTasks \/ CloseScheduler
      BY <3>2 DEF Reset, JoinUpdater, StopWait, JoinTasks, CloseScheduler, taskVars
    <3> QED
      BY <1>5, <3>1, <3>2 DEF ClientStep
  <2>2. CASE ForceTask
    BY <1>3, <2>1, <2>2, DummyAndNull DEF ForceTask, EnqueueDoc, KeyMessages
  <2>3. CASE WaitUpdates \/ WaitDocs \/ ForceSeal \/ Flush \/ ClientHandOff \/ WaitCommit \/ ForceRenew
    BY <1>3, <2>1, <2>3 DEF WaitUpdates, WaitDocs, ForceSeal, Flush, ClientHandOff, WaitCommit, ForceRenew, queues
  <2>4. CASE Reset \/ JoinUpdater \/ StopWait \/ JoinTasks \/ CloseScheduler
    BY <1>3, <2>1, <2>4 DEF Reset, JoinUpdater, StopWait, JoinTasks, CloseScheduler, queues
  <2> QED
    BY <1>5, <2>2, <2>3, <2>4 DEF ClientStep
<1>6. ASSUME NEW d \in Docs, Consume(d) PROVE Ended' = Ended /\ Added1
  <2>1. taskMsg' = taskMsg
    BY <1>6 DEF Consume, taskVars
  <2>2. CASE d \notin Updates /\ EnqueueDoc(Message("add", d, Key[d]))
    <3>1. Message("add", d, Key[d]) \in DocMessages /\ Message("add", d, Key[d]).action = "add"
      BY <2>2, CallMessages DEF Added
    <3>2. Message("add", d, Key[d]) # Null
      BY <3>1, DummyAndNull
    <3> QED
      BY <1>3, <2>1, <2>2, <3>1, <3>2 DEF EnqueueDoc
  <2>3. CASE docQueue' = docQueue
    BY <1>3, <2>1, <2>3
  <2> QED
    BY <1>6, <2>2, <2>3 DEF Consume, EnqueueUpdate
<1>7. ASSUME \/ CommitThreadStep \/ UpdaterSpinning \/ Commit \/ Stop \/ Closed \/ UNCHANGED vars
             \/ \E key \in Range(Key) : Delete(key)
      PROVE  Ended' = Ended /\ Added1
  BY <1>3, <1>7 DEF CommitThreadStep, UpdaterSpinning, Commit, Stop, Closed, vars, Delete, EnqueueUpdate, queues, taskVars
<1> QED
  BY <1>1, <1>2, <1>4, <1>5, <1>6, <1>7 DEF Next

\* What can still happen when the threads are joined.
LEMMA AfterJoin ==
  ASSUME ShapeInv, UpdaterInv, StopInv, [Next]_vars, Joined
  PROVE  \/ CommitThreadStep \/ Flush \/ ClientHandOff \/ WaitCommit \/ Reset \/ CloseScheduler \/ UNCHANGED vars
<1>1. /\ \A i \in Tasks : taskPc[i] = "exited"
      /\ clientPc \in WaitPlaces \cup {"drain", "closed"} /\ updaterPc = "exited"
  BY DEF StopInv, Joined
<1>2. ASSUME NEW i \in Tasks PROVE ~ TaskStep(i)
  BY <1>1 DEF TaskStep, SealFull, SealLast, NotFull, TaskHandOff, Renew, TaskTake, ProcessAdd, ProcessDelete,
              ProcessElsewhere, Pass
<1>3. ~ UpdaterStep /\ ~ UpdaterSpinning
  BY <1>1 DEF UpdaterStep, UpdaterTake, UpdaterMiss, UpdaterPass, UpdaterDelete, UpdaterSpin, UpdaterSpinning
<1>4. /\ ~ WaitUpdates /\ ~ ForceTask /\ ~ WaitDocs /\ ~ ForceSeal /\ ~ ForceRenew
      /\ ~ JoinUpdater /\ ~ StopTask /\ ~ StopWait /\ ~ JoinTasks
  BY <1>1 DEF WaitPlaces, WaitUpdates, ForceTask, WaitDocs, ForceSeal, ForceRenew, JoinUpdater, StopTask, StopWait, JoinTasks
<1>5. ~ Commit /\ ~ Stop /\ (\A d \in Docs : ~ Consume(d)) /\ (\A key \in Range(Key) : ~ Delete(key))
  BY <1>1 DEF WaitPlaces, Commit, Stop, Consume, Delete, MayCall
<1> QED
  BY <1>2, <1>3, <1>4, <1>5 DEF Next, ClientStep, Closed

LEMMA BeforeJoin ==
  ASSUME ShapeInv, UpdaterInv, [Next]_vars, ~ Joined
  PROVE  \/ JoinTasks
         \/ /\ ~ Joined'
            /\ \/ StopTask \/ StopWait \/ JoinUpdater
               \/ clientPc' = clientPc /\ turn' = turn
               \/ clientPc \notin {"stopTasks", "stopWait", "joinTasks"}
                  /\ clientPc' \notin {"stopTasks", "stopWait", "joinTasks", "closed"}
<1> USE DEF ShapeInv
<1> DEFINE Apart == {"stopTasks", "stopWait", "joinTasks"}
           Ends == WaitPlaces \cup {"drain", "closed"}
           Stays == clientPc' = clientPc /\ turn' = turn
<1>1. CASE UNCHANGED <<clientVars, history>>
  <2>1. Stays
    BY <1>1 DEF clientVars
  <2>2. UpdaterStep => ~ (updaterPc' = "exited" /\ clientPc \in Ends)
    <3>1. CASE UpdaterTake
      <4>1. updateQueue # <<>> /\ Head(updateQueue) = updateQueue[1] /\ 1 \in DOMAIN updateQueue
        <5>1. IsSequence(updateQueue)
          BY SequenceOf DEF QueueShape
        <5> QED
          BY <3>1, <5>1, TailSequence DEF UpdaterTake
      <4>2. updaterPc' = "exited" => Head(updateQueue) = Null
        BY <3>1 DEF UpdaterTake, updaterVars
      <4> QED
        BY <4>1, <4>2 DEF UpdaterInv, WaitPlaces
    <3>2. CASE UpdaterMiss \/ UpdaterPass \/ \E d \in Docs : UpdaterDelete(d) \/ UpdaterSpin(d)
      BY <3>2 DEF UpdaterMiss, UpdaterPass, UpdaterDelete, UpdaterSpin
    <3> QED
      BY <3>1, <3>2 DEF UpdaterStep
  <2>3. ~ Joined'
    BY <2>1, <2>2, OthersLeaveUpdater DEF Joined, updaterVars
  <2> QED
    BY <2>1, <2>3
<1>2. ASSUME ClientStep, ~ JoinTasks
      PROVE  ~ Joined' /\ (StopTask \/ StopWait \/ JoinUpdater \/ (clientPc \notin Apart /\ clientPc' \notin Apart \cup {"closed"}))
  <2>1. updaterPc' = updaterPc
    <3>1. CASE WaitUpdates \/ ForceTask \/ WaitDocs \/ ForceSeal \/ Flush \/ ClientHandOff \/ WaitCommit \/ ForceRenew
      BY <3>1 DEF WaitUpdates, ForceTask, WaitDocs, ForceSeal, Flush, ClientHandOff, WaitCommit, ForceRenew, updaterVars
    <3>2. CASE Reset \/ JoinUpdater \/ StopTask \/ StopWait \/ CloseScheduler
      BY <3>2 DEF Reset, JoinUpdater, StopTask, StopWait, CloseScheduler, updaterVars
    <3> QED
      BY <1>2, <3>1, <3>2 DEF ClientStep
  <2>2. CASE StopTask \/ StopWait \/ JoinUpdater
    BY <2>1, <2>2 DEF StopTask, StopWait, JoinUpdater, ClientGoto, Joined, WaitPlaces
  <2>3. CASE WaitUpdates \/ ForceTask \/ WaitDocs \/ ForceSeal \/ ForceRenew
    BY <2>1, <2>3 DEF WaitUpdates, ForceTask, WaitDocs, ForceSeal, ForceRenew, ClientGoto, Joined, WaitPlaces
  <2>4. CASE Flush
    <3>1. clientPc \in {"flush", "flushAgain"} /\ clientPc' \in {"flushHandOff", "flushAgainHandOff", "flushAgain", "waitCommit"}
      BY <2>4 DEF Flush
    <3>2. updaterPc # "exited"
      BY <3>1 DEF UpdaterInv, Joined, WaitPlaces, StopPlaces
    <3> QED
      BY <2>1, <3>1, <3>2 DEF Joined
  <2>5. CASE ClientHandOff
    <3>1. clientPc \in {"sealHandOff", "flushHandOff", "flushAgainHandOff"} /\ clientPc' \in {"renew", "flushAgain", "waitCommit"}
      BY <2>5 DEF ClientHandOff
    <3>2. updaterPc # "exited"
      BY <3>1 DEF UpdaterInv, Joined, WaitPlaces, StopPlaces
    <3> QED
      BY <2>1, <3>1, <3>2 DEF Joined
  <2>6. CASE WaitCommit \/ Reset \/ CloseScheduler
    <3>1. clientPc \in Ends /\ updaterPc # "exited"
      BY <2>6 DEF WaitCommit, Reset, CloseScheduler, Joined, WaitPlaces
    <3>2. clientPc # "drain"
      BY <3>1 DEF UpdaterInv
    <3> QED
      BY <2>1, <2>6, <3>1, <3>2 DEF WaitCommit, Reset, CloseScheduler, ClientGoto, Joined, Closing
  <2> QED
    BY <1>2, <2>2, <2>3, <2>4, <2>5, <2>6 DEF ClientStep
<1>3. CASE Commit \/ Stop \/ (\E d \in Docs : Consume(d)) \/ \E key \in Range(Key) : Delete(key)
  BY <1>3 DEF Commit, Stop, Consume, Delete, MayCall, Joined, WaitPlaces, clientVars
<1> QED
  BY <1>1, <1>2, <1>3, OthersLeaveClient

LEMMA InitStop == Init => StopInv
<1> SUFFICES ASSUME Init PROVE StopInv
  OBVIOUS
<1>1. docQueue = <<>> /\ clientPc = "idle" /\ \A i \in Tasks : taskMsg[i] = Dummy
  BY DEF Init
<1>2. NullsIn(docQueue) = {} /\ Ended = {}
  BY <1>1, EmptySequence, DummyAndNull, SequenceShape DEF NullsIn, Ended
<1>3. Sent = 0 /\ ~ Joined
  BY <1>1 DEF Sent, Joined, WaitPlaces
<1> QED
  BY <1>1, <1>2, <1>3, FS_EmptySet DEF StopInv

\* When every task has its null pointer, nobody is left to enqueue a document.
LEMMA QueueClosed ==
  ASSUME ShapeInv, UpdaterInv, [Next]_vars, clientPc = "joinTasks", Ended = Tasks
  PROVE  UNCHANGED <<docQueue, taskMsg>>
<1>1. updaterPc = "exited"
  BY DEF UpdaterInv
<1>2. \A i \in Tasks : taskMsg[i] = Null /\ taskPc[i] \notin {"loop", "full", "renew", "process", "pass"}
  <2> SUFFICES ASSUME NEW i \in Tasks PROVE taskMsg[i] = Null /\ taskPc[i] \notin {"loop", "full", "renew", "process", "pass"}
    OBVIOUS
  <2>1. taskMsg[i] = Null /\ TaskState(taskPc[i], taskMsg[i], taskHand[i])
    BY DEF Ended, ShapeInv, TaskShape
  <2> QED
    BY <2>1, DummyAndNull DEF TaskState
<1>3. ASSUME NEW i \in Tasks, TaskStep(i) PROVE UNCHANGED <<docQueue, taskMsg>>
  BY <1>2, <1>3 DEF TaskStep, SealFull, SealLast, TaskSeal, NotFull, TaskHandOff, Renew, TaskTake, ProcessAdd,
              ProcessDelete, ProcessElsewhere, Pass, queues
<1>4. ~ UpdaterStep /\ ~ UpdaterSpinning
  BY <1>1 DEF UpdaterStep, UpdaterTake, UpdaterMiss, UpdaterPass, UpdaterDelete, UpdaterSpin, UpdaterSpinning
<1>5. ASSUME ClientStep PROVE UNCHANGED <<docQueue, taskMsg>>
  <2>1. CASE JoinTasks
    BY <2>1 DEF JoinTasks, queues, taskVars
  <2>2. /\ ~ WaitUpdates /\ ~ ForceTask /\ ~ WaitDocs /\ ~ ForceSeal /\ ~ ForceRenew /\ ~ Flush /\ ~ ClientHandOff
        /\ ~ WaitCommit /\ ~ Reset /\ ~ JoinUpdater /\ ~ StopTask /\ ~ StopWait /\ ~ CloseScheduler
    BY DEF WaitUpdates, ForceTask, WaitDocs, ForceSeal, ForceRenew, Flush, ClientHandOff, WaitCommit, Reset,
           JoinUpdater, StopTask, StopWait, CloseScheduler
  <2> QED
    BY <1>5, <2>1, <2>2 DEF ClientStep
<1>6. ~ Commit /\ ~ Stop /\ (\A d \in Docs : ~ Consume(d)) /\ (\A key \in Range(Key) : ~ Delete(key))
  BY DEF Commit, Stop, Consume, Delete, MayCall
<1>7. CASE CommitThreadStep \/ Closed \/ UNCHANGED vars
  BY <1>7 DEF CommitThreadStep, Closed, vars, queues, taskVars
<1> QED
  BY <1>3, <1>4, <1>5, <1>6, <1>7 DEF Next

LEMMA StopStep ==
  ASSUME ShapeInv, UpdaterInv, StopInv, [Next]_vars
  PROVE  StopInv'
<1> DEFINE Count == Cardinality(NullsIn(docQueue)) + Cardinality(Ended) = Sent
           Gone == clientPc = "joinTasks" \/ Joined => docQueue = <<>> /\ Ended = Tasks
<1>0. /\ IsSequence(docQueue) /\ Cardinality(NullsIn(docQueue)) \in Nat
      /\ IsFiniteSet(Tasks) /\ Cardinality(Tasks) = BuildThreadCount
      /\ IsFiniteSet(Ended) /\ Cardinality(Ended) \in Nat
  <2>1. IsSequence(docQueue)
    BY SequenceOf DEF ShapeInv, QueueShape
  <2>2. IsFiniteSet(Tasks) /\ Cardinality(Tasks) = BuildThreadCount
    BY FS_Interval, BuildThreadAssumption DEF Tasks
  <2>3. IsFiniteSet(Ended)
    BY <2>2, FS_Subset DEF Ended
  <2> QED
    BY <2>1, <2>2, <2>3, FS_CardinalityType, NullsCount
<1>1. taskMsg' = taskMsg => Ended' = Ended
  BY DEF Ended, Tasks
<1>2. ASSUME Joined PROVE StopInv'
  <2>0. /\ docQueue = <<>> /\ Ended = Tasks /\ Sent = BuildThreadCount
        /\ clientPc \in WaitPlaces \cup {"drain", "closed"} /\ updaterPc = "exited"
        /\ \A i \in Tasks : taskPc[i] = "exited"
    BY <1>2 DEF StopInv, Joined, Sent, WaitPlaces
  <2>1. ASSUME UNCHANGED <<docQueue, taskMsg, taskPc, updaterPc>>,
               clientPc' \in WaitPlaces \cup {"drain", "closed"},
               clientPc' # "flushAgain" => batch' = <<>>,
               clientPc' = "closed" => commitQueue' = <<>> /\ inCommit' = <<>>
        PROVE  StopInv'
    <3>1. Joined' /\ Sent' = BuildThreadCount
      BY <2>0, <2>1 DEF Joined, Sent, WaitPlaces
    <3>2. Cardinality(NullsIn(docQueue'))  + Cardinality(Ended') = Sent'
      BY <1>1, <1>2, <2>0, <2>1, <3>1 DEF StopInv
    <3> QED
      BY <1>1, <2>0, <2>1, <3>1, <3>2 DEF StopInv, Tasks
  <2>2. CASE CommitThreadStep
    <3>1. UNCHANGED <<docQueue, taskMsg, taskPc, updaterPc, clientPc, batch>>
      BY <2>2 DEF CommitThreadStep, CommitTake, CommitBatch, queues, taskVars, updaterVars, clientVars
    <3>2. clientPc # "closed"
      BY <1>2, <2>2 DEF StopInv, CommitThreadStep, CommitTake, CommitBatch
    <3> QED
      BY <1>2, <2>0, <2>1, <3>1, <3>2 DEF StopInv
  <2>3. CASE Flush
    BY <2>0, <2>1, <2>3 DEF Flush, ResetMerger, WaitPlaces, queues, taskVars, updaterVars
  <2>4. CASE ClientHandOff
    <3>1. clientPc = "flushAgainHandOff" /\ batch = <<>>
      BY <1>2, <2>0, <2>4 DEF ClientHandOff, WaitPlaces, StopInv
    <3> QED
      BY <2>1, <2>4, <3>1 DEF ClientHandOff, Submit, WaitPlaces, queues, taskVars, updaterVars
  <2>5. CASE WaitCommit
    BY <1>2, <2>1, <2>5 DEF WaitCommit, ClientGoto, WaitPlaces, queues, taskVars, updaterVars, keeperVars, StopInv
  <2>6. CASE Reset
    BY <2>0, <2>1, <2>6 DEF Reset, ResetMerger, Closing, ClientGoto, WaitPlaces, queues, taskVars, updaterVars
  <2>7. CASE CloseScheduler
    BY <1>2, <2>1, <2>7 DEF CloseScheduler, ClientGoto, WaitPlaces, queues, taskVars, updaterVars, keeperVars, StopInv
  <2>8. CASE UNCHANGED vars
    BY <1>2, <2>0, <2>1, <2>8 DEF vars, queues, taskVars, updaterVars, clientVars, keeperVars, StopInv
  <2> QED
    BY <1>2, <2>2, <2>3, <2>4, <2>5, <2>6, <2>7, <2>8, AfterJoin
<1>3. ASSUME ~ Joined, JoinTasks PROVE StopInv'
  <2>1. /\ clientPc = "joinTasks" /\ clientPc' = "flushAgain" /\ updaterPc = "exited" /\ updaterPc' = "exited"
        /\ UNCHANGED <<docQueue, taskMsg, taskPc>> /\ \A i \in Tasks : taskPc[i] = "exited"
    BY <1>3 DEF JoinTasks, ClientGoto, UpdaterInv, queues, taskVars, updaterVars
  <2>2. Sent = BuildThreadCount /\ Joined' /\ Sent' = BuildThreadCount
    BY <2>1 DEF Sent, Joined, WaitPlaces
  <2> QED
    BY <1>1, <2>1, <2>2 DEF StopInv, Tasks
<1>4. ASSUME ~ Joined, ~ Joined', Count', Gone' PROVE StopInv'
  <2>1. clientPc' # "closed"
    <3>1. clientPc' = "closed" => clientPc = "closed" \/ CloseScheduler
      <4>1. CASE ClientStep
        <5>1. CASE WaitUpdates \/ ForceTask \/ WaitDocs \/ ForceSeal \/ Flush \/ ClientHandOff \/ WaitCommit \/ ForceRenew
          BY <5>1 DEF WaitUpdates, ForceTask, WaitDocs, ForceSeal, Flush, ClientHandOff, WaitCommit, ForceRenew, ClientGoto
        <5>2. CASE Reset \/ JoinUpdater \/ StopTask \/ StopWait \/ JoinTasks
          BY <5>2 DEF Reset, JoinUpdater, StopTask, StopWait, JoinTasks, ClientGoto
        <5> QED
          BY <4>1, <5>1, <5>2 DEF ClientStep
      <4>2. CASE Commit \/ Stop \/ (\E d \in Docs : Consume(d)) \/ \E key \in Range(Key) : Delete(key)
        BY <4>2 DEF Commit, Stop, Consume, Delete, MayCall, clientVars
      <4>3. CASE UNCHANGED <<clientVars, history>>
        BY <4>3 DEF clientVars
      <4> QED
        BY <4>1, <4>2, <4>3, OthersLeaveClient
    <3>2. clientPc \notin {"drain", "closed"}
      BY <1>4 DEF UpdaterInv, Joined
    <3> QED
      BY <3>1, <3>2 DEF CloseScheduler
  <2> QED
    BY <1>4, <2>1 DEF StopInv
<1>5. ASSUME ~ Joined, ~ Joined', StopTask PROVE StopInv'
  <2>1. /\ clientPc = "stopTasks" /\ docQueue' = Append(docQueue, Null) /\ taskMsg' = taskMsg /\ turn' = turn + 1
        /\ clientPc' = IF turn < BuildThreadCount THEN "stopTasks" ELSE "stopWait"
    BY <1>5 DEF StopTask, EnqueueDoc, taskVars
  <2>2. turn \in 1..BuildThreadCount /\ BuildThreadCount \in Nat
    BY <2>1, BuildThreadAssumption DEF ShapeInv, ClientShape, Tasks
  <2>3. Sent = turn - 1 /\ Sent' = turn
    BY <1>5, <2>1, <2>2 DEF Sent
  <2>4. Cardinality(NullsIn(docQueue')) = Cardinality(NullsIn(docQueue)) + 1
    BY <1>0, <2>1, NullsCount
  <2>5. Count'
    BY <1>0, <1>1, <2>1, <2>2, <2>3, <2>4 DEF StopInv
  <2>6. Gone'
    BY <1>5, <2>1
  <2> QED
    BY <1>4, <1>5, <2>5, <2>6
<1>6. ASSUME ~ Joined, ~ Joined', StopWait PROVE StopInv'
  <2>1. /\ clientPc = "stopWait" /\ clientPc' = "joinTasks" /\ docQueue = <<>> /\ UNCHANGED <<docQueue, taskMsg>>
    BY <1>6 DEF StopWait, ClientGoto, queues, taskVars
  <2>2. Sent = BuildThreadCount /\ Sent' = BuildThreadCount
    BY <1>6, <2>1 DEF Sent
  <2>3. NullsIn(docQueue) = {}
    BY <2>1, EmptySequence, SequenceShape DEF NullsIn
  <2>4. Cardinality(Ended) = Cardinality(Tasks)
    BY <1>0, <2>2, <2>3, FS_EmptySet DEF StopInv
  <2>5. Ended = Tasks
    BY <1>0, <2>4, FS_Subset DEF Ended
  <2>6. Count'
    BY <1>1, <2>1, <2>2 DEF StopInv
  <2>7. Gone'
    BY <1>1, <2>1, <2>5 DEF Tasks
  <2> QED
    BY <1>4, <1>6, <2>6, <2>7
<1>7. ASSUME ~ Joined, ~ Joined', Sent' = Sent, ~ StopTask, clientPc' = "joinTasks" => clientPc = "joinTasks"
      PROVE  StopInv'
  <2>1. ASSUME clientPc = "joinTasks" PROVE UNCHANGED <<docQueue, taskMsg>>
    BY <2>1, QueueClosed DEF StopInv
  <2>2. Gone'
    BY <1>1, <1>7, <2>1 DEF StopInv, Tasks
  <2>3. ASSUME Ended' = Ended,
               docQueue' = docQueue \/ \E m \in DocMessages : m # Null /\ docQueue' = Append(docQueue, m)
        PROVE  Count'
    <3>1. Cardinality(NullsIn(docQueue')) = Cardinality(NullsIn(docQueue))
      <4>1. CASE docQueue' = docQueue
        BY <4>1
      <4>2. ASSUME NEW m \in DocMessages, m # Null, docQueue' = Append(docQueue, m)
            PROVE  Cardinality(NullsIn(docQueue')) = Cardinality(NullsIn(docQueue))
        <5>1. Cardinality(NullsIn(Append(docQueue, m))) = Cardinality(NullsIn(docQueue)) + 0
          BY <1>0, <4>2, NullsCount
        <5> QED
          BY <1>0, <4>2, <5>1
      <4> QED
        BY <2>3, <4>1, <4>2
    <3> QED
      BY <1>7, <2>3, <3>1 DEF StopInv
  <2>4. ASSUME NEW i \in Tasks \ Ended, docQueue # <<>>, docQueue' = Tail(docQueue),
               Ended' = IF Head(docQueue) = Null THEN Ended \cup {i} ELSE Ended
        PROVE  Count'
    <3> DEFINE k == IF Head(docQueue) = Null THEN 1 ELSE 0
    <3>1. Cardinality(NullsIn(docQueue)) = Cardinality(NullsIn(docQueue')) + k
      BY <1>0, <2>4, NullsCount
    <3>2. Cardinality(Ended') = Cardinality(Ended) + k
      <4>1. CASE Head(docQueue) = Null
        <5>1. Cardinality(Ended \cup {i}) = Cardinality(Ended) + 1
          BY <1>0, FS_AddElement
        <5> QED
          BY <2>4, <4>1, <5>1
      <4>2. CASE Head(docQueue) # Null
        BY <1>0, <2>4, <4>2
      <4> QED
        BY <4>1, <4>2
    <3>3. Cardinality(NullsIn(docQueue')) \in Nat /\ k \in Nat
      <4>1. IsSequence(docQueue')
        BY <1>0, <2>4, TailSequence
      <4> QED
        BY <4>1, NullsCount
    <3> QED
      BY <1>0, <1>7, <3>1, <3>2, <3>3 DEF StopInv
  <2>5. Count'
    BY <1>7, <2>3, <2>4, EndedStep
  <2> QED
    BY <1>4, <1>7, <2>2, <2>5
<1>8. ASSUME ~ Joined, ~ Joined', ~ StopTask, JoinUpdater PROVE StopInv'
  <2>1. clientPc = "joinUpdater" /\ clientPc' = "stopTasks" /\ turn' = turn /\ turn = 1
    BY <1>8 DEF JoinUpdater, ClientGoto, ShapeInv, ClientShape
  <2>2. Sent = 0 /\ Sent' = 0
    BY <1>8, <2>1 DEF Sent
  <2> QED
    BY <1>7, <1>8, <2>1, <2>2
<1>9. ASSUME ~ Joined, ~ Joined', ~ StopTask, clientPc' = clientPc, turn' = turn PROVE StopInv'
  <2>1. Sent' = Sent
    BY <1>9 DEF Sent
  <2> QED
    BY <1>7, <1>9, <2>1
<1>10. ASSUME ~ Joined, ~ Joined', ~ StopTask,
              clientPc \notin {"stopTasks", "stopWait", "joinTasks"},
              clientPc' \notin {"stopTasks", "stopWait", "joinTasks", "closed"}
       PROVE  StopInv'
  <2>1. Sent = 0 /\ Sent' = 0
    BY <1>10 DEF Sent
  <2> QED
    BY <1>7, <1>10, <2>1
<1> QED
  BY <1>2, <1>3, <1>5, <1>6, <1>8, <1>9, <1>10, BeforeJoin

-----------------------------------------------------------------------------
(* The barrels, while no commit() interferes                               *)

\* Barrels, tasks and lists stay as they are.
ListsStay == UNCHANGED <<batch, taskHand, clientHand, commitQueue, inCommit, onDisk, commitMap>>
Still == UNCHANGED <<barrels, writer>> /\ \A i \in Tasks : Live(i)' <=> Live(i)

BarrelStep ==
    \/ \E i \in Tasks : SealFull(i) \/ SealLast(i) \/ TaskHandOff(i) \/ Renew(i) \/ AddStep(i)
    \/ CommitThreadStep
    \/ (clientPc = "flushAgain" /\ Flush) \/ (clientPc = "flushAgainHandOff" /\ ClientHandOff)
    \/ Still /\ ListsStay

LEMMA BarrelSteps ==
  ASSUME ShapeInv, UpdaterInv, StopInv, [Next]_vars, commits' = 0
  PROVE  commits = 0 /\ BarrelStep
<1> USE DEF ShapeInv
<1>1. commits = 0
  <2>1. CASE ClientStep
    <3>1. CASE WaitUpdates \/ ForceTask \/ WaitDocs \/ ForceSeal \/ Flush \/ ClientHandOff \/ WaitCommit \/ ForceRenew
      BY <3>1 DEF WaitUpdates, ForceTask, WaitDocs, ForceSeal, Flush, ClientHandOff, WaitCommit, ForceRenew, ClientGoto
    <3>2. CASE Reset \/ JoinUpdater \/ StopTask \/ StopWait \/ JoinTasks \/ CloseScheduler
      BY <3>2 DEF Reset, JoinUpdater, StopTask, StopWait, JoinTasks, CloseScheduler, ClientGoto
    <3> QED
      BY <2>1, <3>1, <3>2 DEF ClientStep
  <2>2. ~ Commit
    BY DEF Commit, ClientShape
  <2>3. CASE Stop \/ (\E d \in Docs : Consume(d)) \/ \E key \in Range(Key) : Delete(key)
    BY <2>3 DEF Stop, Consume, Delete, clientVars
  <2>4. CASE UNCHANGED <<clientVars, history>>
    BY <2>4 DEF clientVars
  <2> QED
    BY <2>1, <2>2, <2>3, <2>4, OthersLeaveClient
<1>2. clientPc \notin CommitPlaces
  BY <1>1 DEF ClientShape
<1>3. ASSUME NEW i \in Tasks, TaskStep(i) PROVE BarrelStep
  <2>1. taskPc \in [Tasks -> TaskPlaces]
    BY DEF TaskShape
  <2>2. CASE SealFull(i) \/ SealLast(i) \/ TaskHandOff(i) \/ Renew(i)
    BY <2>2 DEF BarrelStep
  <2>3. CASE ProcessAdd(i)
    <3>1. AddStep(i)
      BY <2>3, MessageDocs DEF AddStep, ProcessAdd, TaskShape
    <3> QED
      BY <3>1 DEF BarrelStep
  <2>4. ASSUME UNCHANGED <<barrels, writer>>, ListsStay, Live(i),
               taskPc' = taskPc \/ \E pc \in {"loop", "full", "process", "pass", "last"} : taskPc' = [taskPc EXCEPT ![i] = pc]
        PROVE  BarrelStep
    <3>1. \A j \in Tasks : Live(j)' <=> Live(j)
      BY <2>1, <2>4 DEF Live
    <3> QED
      BY <2>4, <3>1 DEF BarrelStep, Still
  <2>5. CASE NotFull(i)
    BY <2>4, <2>5 DEF NotFull, TaskGoto, Live, ListsStay, keeperVars, clientVars
  <2>6. CASE TaskTake(i)
    BY <2>4, <2>6 DEF TaskTake, TaskGoto, Live, ListsStay, keeperVars, clientVars
  <2>7. CASE ProcessDelete(i)
    BY <2>4, <2>7 DEF ProcessDelete, DeleteInMemory, Processed, TaskGoto, Live, ListsStay, clientVars
  <2>8. CASE ProcessElsewhere(i)
    BY <2>4, <2>8 DEF ProcessElsewhere, Processed, TaskGoto, Live, ListsStay, keeperVars, clientVars
  <2>9. CASE Pass(i)
    BY <2>4, <2>9 DEF Pass, Processed, TaskGoto, Live, ListsStay, keeperVars, clientVars
  <2> QED
    BY <1>3, <2>2, <2>3, <2>5, <2>6, <2>7, <2>8, <2>9 DEF TaskStep
<1>4. ASSUME UNCHANGED <<taskVars, barrels, clientHand>>,
             UNCHANGED <<batch, commitQueue, inCommit, onDisk, commitMap>>
      PROVE  BarrelStep
  BY <1>4 DEF taskVars, BarrelStep, Still, ListsStay, Live
<1>5. ASSUME UpdaterStep PROVE BarrelStep
  <2>1. CASE UpdaterTake \/ UpdaterMiss \/ UpdaterPass
    BY <1>4, <2>1 DEF UpdaterTake, UpdaterMiss, UpdaterPass, keeperVars, clientVars
  <2>2. ASSUME NEW d \in Docs, UpdaterDelete(d) \/ UpdaterSpin(d) PROVE BarrelStep
    BY <1>4, <2>2 DEF UpdaterDelete, UpdaterSpin, DeleteOnDisk, keeperVars, clientVars
  <2> QED
    BY <1>5, <2>1, <2>2 DEF UpdaterStep
<1>6. ASSUME CommitThreadStep PROVE BarrelStep
  BY <1>6 DEF BarrelStep
<1>7. ASSUME ClientStep PROVE BarrelStep
  <2>1. ~ WaitUpdates /\ ~ ForceTask /\ ~ WaitDocs /\ ~ ForceSeal /\ ~ ForceRenew
    BY <1>2 DEF CommitPlaces, ForcePlaces, WaitUpdates, ForceTask, WaitDocs, ForceSeal, ForceRenew
  <2>2. CASE Flush
    BY <1>2, <2>2 DEF Flush, CommitPlaces, BarrelStep
  <2>3. CASE ClientHandOff
    BY <1>2, <2>3 DEF ClientHandOff, CommitPlaces, ForcePlaces, BarrelStep
  <2>4. CASE Reset
    <3>1. Joined
      BY <1>1, <2>4 DEF Reset, UpdaterInv, Joined, WaitPlaces
    <3>2. batch = <<>>
      BY <2>4, <3>1 DEF Reset, StopInv
    <3> QED
      BY <1>4, <2>4, <3>2 DEF Reset, ResetMerger, ClientGoto
  <2>5. CASE WaitCommit \/ JoinUpdater \/ StopTask \/ StopWait \/ JoinTasks \/ CloseScheduler
    BY <1>4, <2>5 DEF WaitCommit, JoinUpdater, StopTask, StopWait, JoinTasks, CloseScheduler, ClientGoto, keeperVars
  <2> QED
    BY <1>7, <2>1, <2>2, <2>3, <2>4, <2>5 DEF ClientStep
<1>8. ASSUME \/ UpdaterSpinning \/ Commit \/ Stop \/ Closed \/ UNCHANGED vars
             \/ \E d \in Docs : Consume(d)
             \/ \E key \in Range(Key) : Delete(key)
      PROVE  BarrelStep
  BY <1>4, <1>8 DEF UpdaterSpinning, Commit, Stop, Closed, vars, Consume, Delete, keeperVars, clientVars
<1> QED
  BY <1>1, <1>3, <1>5, <1>6, <1>7, <1>8 DEF Next

LEMMA SealStep ==
  ASSUME ShapeInv, OwnBarrels, SealInv, ChainInv, commits = 0, BarrelStep
  PROVE  SealInv'
<1> USE DEF ShapeInv
<1> DEFINE Fits(b) == IF barrels[b].sealed THEN barrels[b].described = Range(barrels[b].docs)
                      ELSE /\ barrels[b].described = {}
                           /\ barrels[b].uncommitted <=> barrels[b].docs # <<>>
           Owned(b) == ~barrels[b].sealed => \E i \in Tasks : Live(i) /\ writer[i] = b
           Writes(i) == Live(i) => ~barrels[writer[i]].sealed
           Goal == (\A i \in Tasks : Writes(i)') /\ (\A b \in BarrelIds' : Owned(b)' /\ Fits(b)')
<1> SUFFICES Goal
  BY DEF SealInv, Tasks
<1>0. /\ \A i \in Tasks : Writes(i) /\ writer[i] \in BarrelIds
      /\ \A b \in BarrelIds : Owned(b) /\ Fits(b) /\ barrels[b] \in Barrels
  <2>1. \A b \in BarrelIds : barrels[b] \in Barrels
    BY ElementOfSeq DEF KeeperShape, BarrelIds
  <2> QED
    BY <2>1 DEF SealInv, TaskShape
<1>00. taskPc \in [Tasks -> TaskPlaces] /\ writer \in [Tasks -> BarrelIds]
  BY DEF TaskShape
<1>1. ASSUME Still PROVE Goal
  <2>1. BarrelIds' = BarrelIds
    BY <1>1 DEF Still, BarrelIds
  <2> QED
    BY <1>0, <1>1, <2>1 DEF Still, BarrelIds
<1>2. ASSUME NEW i \in Tasks, SealFull(i) \/ SealLast(i) PROVE Goal
  <2> DEFINE b == writer[i]
  <2>1. /\ Live(i) /\ SealBarrel(b) /\ writer' = writer
        /\ \E pc \in {"handOff", "renew", "exited"} : taskPc' = [taskPc EXCEPT ![i] = pc]
    BY <1>2 DEF SealFull, SealLast, TaskSeal, TaskGoto, Live
  <2>2. b \in BarrelIds /\ ~barrels[b].sealed /\ Fits(b) /\ KeeperShape
    BY <1>0, <2>1
  <2>3. \A j \in Tasks : Live(j)' <=> Live(j) /\ j # i
    BY <1>00, <2>1 DEF Live
  <2>4. \A j \in Tasks : j # i => writer[j] # b
    BY DEF OwnBarrels
  <2>5. /\ BarrelIds' = BarrelIds /\ \A c \in BarrelIds : c # b => barrels'[c] = barrels[c]
    BY <2>1, <2>2, SealBarrelEffect DEF BarrelIds
  <2>6. barrels'[b].sealed /\ barrels'[b].described = Range(barrels'[b].docs)
    <3>1. barrels'[b] = [docs |-> barrels[b].docs, sealed |-> TRUE,
                         described |-> IF barrels[b].uncommitted THEN Range(barrels[b].docs) ELSE barrels[b].described,
                         uncommitted |-> barrels[b].uncommitted]
      BY <2>1, <2>2, SealBarrelEffect
    <3>2. /\ barrels'[b].sealed = TRUE /\ barrels'[b].docs = barrels[b].docs
          /\ barrels'[b].described = IF barrels[b].uncommitted THEN Range(barrels[b].docs) ELSE barrels[b].described
      BY <3>1
    <3>3. ~barrels[b].uncommitted => Range(barrels[b].docs) = {} /\ barrels[b].described = {}
      BY <2>2, EmptySequence
    <3> QED
      BY <3>2, <3>3
  <2> HIDE DEF b
  <2>7. \A j \in Tasks : Writes(j)'
    BY <1>0, <2>1, <2>3, <2>4, <2>5
  <2>8. ASSUME NEW c \in BarrelIds PROVE Owned(c)' /\ Fits(c)'
    <3>1. CASE c = b
      BY <2>6, <3>1
    <3>2. CASE c # b
      <4>1. barrels'[c] = barrels[c] /\ Fits(c) /\ Owned(c)
        BY <1>0, <2>5, <3>2
      <4>2. ASSUME NEW j \in Tasks, Live(j), writer[j] = c PROVE Live(j)' /\ writer'[j] = c
        BY <2>1, <2>3, <3>2, <4>2 DEF b
      <4> QED
        BY <4>1, <4>2
    <3> QED
      BY <3>1, <3>2
  <2> QED
    BY <2>5, <2>7, <2>8
<1>3. ASSUME NEW i \in Tasks, TaskHandOff(i) PROVE Goal
  <2>1. /\ ~Live(i) /\ UNCHANGED <<barrels, writer>>
        /\ \E pc \in {"exited", "renew"} : taskPc' = [taskPc EXCEPT ![i] = pc]
    BY <1>3 DEF TaskHandOff, Submit, TaskGoto, Live
  <2>2. Still
    BY <1>00, <2>1 DEF Still, Live
  <2> QED
    BY <1>1, <2>2
<1>4. ASSUME NEW i \in Tasks, Renew(i) PROVE Goal
  <2> DEFINE n == Len(barrels')
  <2>1. /\ ~Live(i) /\ CreateBarrelWriter /\ writer' = [writer EXCEPT ![i] = n] /\ taskPc' = [taskPc EXCEPT ![i] = "loop"]
    BY <1>4 DEF Renew, TaskGoto, Live
  <2>2. /\ BarrelIds' = BarrelIds \cup {n} /\ n \notin BarrelIds
        /\ \A b \in BarrelIds : barrels'[b] = barrels[b]
        /\ barrels'[n] = EmptyBarrel
    BY <2>1, CreateEffect
  <2>3. ~EmptyBarrel.sealed /\ EmptyBarrel.described = {} /\ EmptyBarrel.docs = <<>> /\ ~EmptyBarrel.uncommitted
    BY DEF EmptyBarrel
  <2> HIDE DEF n
  <2>4. \A j \in Tasks : writer'[j] = IF j = i THEN n ELSE writer[j]
    BY <1>00, <2>1
  <2>5. \A j \in Tasks : Live(j)' <=> Live(j) \/ j = i
    BY <1>00, <2>1 DEF Live
  <2>6. \A j \in Tasks : Writes(j)'
    BY <1>0, <2>2, <2>3, <2>4, <2>5
  <2>7. ASSUME NEW c \in BarrelIds PROVE Owned(c)' /\ Fits(c)'
    <3>1. barrels'[c] = barrels[c] /\ Fits(c) /\ Owned(c)
      BY <1>0, <2>2
    <3>2. ASSUME NEW j \in Tasks, Live(j), writer[j] = c PROVE Live(j)' /\ writer'[j] = c
      BY <2>1, <2>4, <2>5, <3>2
    <3> QED
      BY <3>1, <3>2
  <2>8. ASSUME NEW c \in BarrelIds' \ BarrelIds PROVE Owned(c)' /\ Fits(c)'
    <3>1. c = n /\ barrels'[c] = EmptyBarrel /\ Live(i)' /\ writer'[i] = c
      BY <2>2, <2>4, <2>5
    <3> QED
      BY <2>3, <3>1
  <2> QED
    BY <2>2, <2>6, <2>7, <2>8
<1>5. ASSUME NEW i \in Tasks, AddStep(i) PROVE Goal
  <2> DEFINE b == writer[i]
             d == taskMsg[i].doc
  <2>1. /\ Live(i) /\ AddDocument(b, d) /\ writer' = writer /\ d \in Added
        /\ \E pc \in {"loop", "full"} : taskPc' = [taskPc EXCEPT ![i] = pc]
    BY <1>5 DEF AddStep, ProcessAdd, Processed, TaskGoto, Live
  <2>2. b \in BarrelIds /\ ~barrels[b].sealed /\ Fits(b) /\ KeeperShape /\ barrels[b] \in Barrels
    BY <1>0, <2>1
  <2>3. \A j \in Tasks : Live(j)' <=> Live(j)
    BY <1>00, <2>1 DEF Live
  <2>4. /\ BarrelIds' = BarrelIds /\ \A c \in BarrelIds : c # b => barrels'[c] = barrels[c]
    BY <2>1, <2>2, AddDocumentEffect DEF BarrelIds
  <2>5. /\ ~barrels'[b].sealed /\ barrels'[b].described = {} /\ barrels'[b].uncommitted = TRUE
        /\ barrels'[b].docs # <<>>
    <3>1. barrels'[b] = [docs |-> Append(barrels[b].docs, d), sealed |-> barrels[b].sealed,
                         described |-> barrels[b].described, uncommitted |-> TRUE]
      BY <2>1, <2>2, AddDocumentEffect
    <3>2. /\ barrels'[b].docs = Append(barrels[b].docs, d) /\ barrels'[b].sealed = barrels[b].sealed
          /\ barrels'[b].described = barrels[b].described /\ barrels'[b].uncommitted = TRUE
      BY <3>1
    <3>3. Append(barrels[b].docs, d) # <<>>
      <4>1. IsSequence(barrels[b].docs)
        BY <2>2, SequenceOf DEF Barrels
      <4>2. Len(Append(barrels[b].docs, d)) = Len(barrels[b].docs) + 1 /\ Len(barrels[b].docs) \in Nat
        BY <4>1, AppendSequence, SequenceShape
      <4> QED
        BY <4>1, <4>2, AppendSequence, SequenceShape
    <3> QED
      BY <2>2, <3>2, <3>3
  <2> HIDE DEF b, d
  <2>6. \A j \in Tasks : Writes(j)'
    BY <1>0, <2>1, <2>3, <2>4, <2>5
  <2>7. ASSUME NEW c \in BarrelIds PROVE Owned(c)' /\ Fits(c)'
    <3>1. CASE c = b
      BY <2>1, <2>3, <2>5, <3>1 DEF b
    <3>2. CASE c # b
      BY <1>0, <2>1, <2>3, <2>4, <3>2
    <3> QED
      BY <3>1, <3>2
  <2> QED
    BY <2>4, <2>6, <2>7
<1>6. ASSUME CommitBatch, UNCHANGED taskVars PROVE Goal
  <2>1. UNCHANGED <<taskPc, writer>> /\ inCommit # <<>>
    BY <1>6 DEF taskVars, CommitBatch
  <2>2. \A j \in Tasks : Live(j)' <=> Live(j)
    BY <2>1 DEF Live
  <2>3. /\ BarrelIds' = BarrelIds
        /\ \A c \in BarrelIds :
              barrels'[c] = IF Len(inCommit) = 1 /\ c = inCommit[1]
                            THEN [docs |-> barrels[c].docs, sealed |-> barrels[c].sealed,
                                  described |-> barrels[c].described, uncommitted |-> FALSE]
                            ELSE barrels[c]
    BY <1>6, CommitBatchEffect DEF BarrelIds
  <2>4. ASSUME NEW c \in BarrelIds
        PROVE  /\ barrels'[c].docs = barrels[c].docs /\ barrels'[c].sealed = barrels[c].sealed
               /\ barrels'[c].described = barrels[c].described
               /\ ~barrels[c].sealed => barrels'[c].uncommitted = barrels[c].uncommitted
    <3>1. CASE Len(inCommit) = 1 /\ c = inCommit[1]
      <4>1. barrels'[c] = [docs |-> barrels[c].docs, sealed |-> barrels[c].sealed,
                           described |-> barrels[c].described, uncommitted |-> FALSE]
        BY <2>3, <3>1
      <4>2. 1 \in DOMAIN inCommit
        BY <2>1, TailSequence, SequenceOf DEF KeeperShape
      <4>3. At(c, "commit", 0, 1)
        BY <3>1, <4>2 DEF At
      <4>4. OnItsWay(c)
        BY <4>3 DEF OnItsWay, Kinds
      <4>5. barrels[c].sealed
        BY <4>4 DEF ChainInv
      <4> QED
        BY <4>1, <4>5
    <3>2. CASE ~ (Len(inCommit) = 1 /\ c = inCommit[1])
      BY <2>3, <3>2
    <3> QED
      BY <3>1, <3>2
  <2>5. \A j \in Tasks : Writes(j)'
    BY <1>0, <2>1, <2>2, <2>4
  <2>6. ASSUME NEW c \in BarrelIds PROVE Owned(c)' /\ Fits(c)'
    BY <1>0, <2>1, <2>2, <2>4
  <2> QED
    BY <2>3, <2>5, <2>6
<1>7. ASSUME CommitThreadStep \/ Flush \/ ClientHandOff PROVE Goal
  <2>1. CASE CommitTake /\ UNCHANGED taskVars
    BY <1>1, <2>1 DEF CommitTake, Still, taskVars, Live
  <2>2. CASE Flush
    BY <1>1, <2>2 DEF Flush, ResetMerger, Still, taskVars, Live
  <2>3. CASE ClientHandOff
    BY <1>1, <2>3 DEF ClientHandOff, Submit, Still, taskVars, Live
  <2> QED
    BY <1>6, <1>7, <2>1, <2>2, <2>3 DEF CommitThreadStep
<1> QED
  BY <1>1, <1>2, <1>3, <1>4, <1>5, <1>7 DEF BarrelStep

\* A list goes behind what there is of another.
Moved(b, from, fn, to, tn, off) ==
    \A kind \in Kinds, n, k \in Nat :
        At(b, kind, n, k)' <=>
            IF kind = to /\ n = tn /\ k > off THEN At(b, from, fn, k - off)
            ELSE ~ (kind = from /\ n = fn) /\ At(b, kind, n, k)

LEMMA MovedChain ==
  ASSUME NEW b, Once(b), NEW from \in Kinds, NEW fn \in Nat, NEW to \in Kinds, NEW tn \in Nat, NEW off \in Nat,
         Moved(b, from, fn, to, tn, off), from # to,
         \A k \in Nat : k > off => ~ At(b, to, tn, k),
         \A k \in Nat : At(b, from, fn, k) => k > 0
  PROVE  Once(b)' /\ (OnItsWay(b)' <=> OnItsWay(b))
<1>1. ASSUME NEW kind \in Kinds, NEW n \in Nat, NEW k \in Nat, At(b, kind, n, k)'
      PROVE  \/ kind = to /\ n = tn /\ k > off /\ k - off \in Nat /\ At(b, from, fn, k - off)
             \/ ~ (kind = to /\ n = tn /\ k > off) /\ ~ (kind = from /\ n = fn) /\ At(b, kind, n, k)
  BY <1>1 DEF Moved
<1>2. OnItsWay(b)' => OnItsWay(b)
  BY <1>1 DEF OnItsWay
<1>3. ASSUME NEW kind \in Kinds, NEW n \in Nat, NEW k \in Nat, At(b, kind, n, k)
      PROVE  OnItsWay(b)'
  <2>1. CASE kind = from /\ n = fn
    <3>1. k + off \in Nat /\ k + off > off /\ (k + off) - off = k
      BY <1>3, <2>1
    <3>2. At(b, to, tn, k + off)'
      BY <1>3, <2>1, <3>1 DEF Moved
    <3> QED
      BY <3>1, <3>2 DEF OnItsWay
  <2>2. CASE ~ (kind = from /\ n = fn)
    <3>1. At(b, kind, n, k)'
      BY <1>3, <2>2 DEF Moved
    <3> QED
      BY <3>1 DEF OnItsWay
  <2> QED
    BY <2>1, <2>2
<1>4. Once(b)'
  <2> SUFFICES ASSUME NEW kind \in Kinds, NEW other \in Kinds, NEW n \in Nat, NEW m \in Nat, NEW k \in Nat, NEW l \in Nat,
                      At(b, kind, n, k)', At(b, other, m, l)'
               PROVE  kind = other /\ n = m /\ k = l
    BY DEF Once
  <2>1. CASE (kind = to /\ n = tn /\ k > off) /\ (other = to /\ m = tn /\ l > off)
    <3>1. k - off \in Nat /\ l - off \in Nat /\ At(b, from, fn, k - off) /\ At(b, from, fn, l - off)
      BY <1>1, <2>1
    <3>2. k - off = l - off
      BY <3>1 DEF Once
    <3> QED
      BY <2>1, <3>2
  <2>2. CASE (kind = to /\ n = tn /\ k > off) /\ ~ (other = to /\ m = tn /\ l > off)
    <3>1. k - off \in Nat /\ At(b, from, fn, k - off) /\ At(b, other, m, l) /\ ~ (other = from /\ m = fn)
      BY <1>1, <2>2
    <3> QED
      BY <3>1 DEF Once
  <2>3. CASE ~ (kind = to /\ n = tn /\ k > off) /\ (other = to /\ m = tn /\ l > off)
    <3>1. l - off \in Nat /\ At(b, from, fn, l - off) /\ At(b, kind, n, k) /\ ~ (kind = from /\ n = fn)
      BY <1>1, <2>3
    <3> QED
      BY <3>1 DEF Once
  <2>4. CASE ~ (kind = to /\ n = tn /\ k > off) /\ ~ (other = to /\ m = tn /\ l > off)
    <3>1. At(b, kind, n, k) /\ At(b, other, m, l)
      BY <1>1, <2>4
    <3> QED
      BY <3>1 DEF Once
  <2> QED
    BY <2>1, <2>2, <2>3, <2>4
<1> QED
  BY <1>2, <1>3, <1>4 DEF OnItsWay

\* What is in a list is a barrel, and has a number.
LEMMA Listed ==
  ASSUME ShapeInv, NEW b, NEW kind, NEW n, NEW k, At(b, kind, n, k)
  PROVE  b \in BarrelIds /\ kind \in Kinds /\ n \in Nat /\ k \in Nat \ {0}
<1>1. /\ batch \in Seq(BarrelIds) /\ clientHand \in Seq(BarrelIds) /\ inCommit \in Seq(BarrelIds)
      /\ onDisk \in Seq(BarrelIds) /\ commitQueue \in Seq(Seq(BarrelIds))
      /\ \A i \in Tasks : taskHand[i] \in Seq(BarrelIds)
  BY DEF ShapeInv, KeeperShape, TaskShape, ClientShape
<1>2. ASSUME NEW s \in Seq(BarrelIds), k \in DOMAIN s, s[k] = b PROVE b \in BarrelIds /\ k \in Nat \ {0}
  BY <1>2
<1>3. ASSUME n \in DOMAIN commitQueue PROVE commitQueue[n] \in Seq(BarrelIds) /\ n \in Nat
  BY <1>1, <1>3
<1>4. Tasks \subseteq Nat
  BY BuildThreadAssumption DEF Tasks
<1>5. ASSUME NEW s \in {batch, clientHand, inCommit, onDisk}, n = 0, k \in DOMAIN s, s[k] = b, kind \in Kinds
      PROVE  b \in BarrelIds /\ kind \in Kinds /\ n \in Nat /\ k \in Nat \ {0}
  <2>1. s \in Seq(BarrelIds)
    BY <1>1
  <2> QED
    BY <1>2, <1>5, <2>1
<1>6. ASSUME kind = "task", n \in Tasks, k \in DOMAIN taskHand[n], taskHand[n][k] = b
      PROVE  b \in BarrelIds /\ kind \in Kinds /\ n \in Nat /\ k \in Nat \ {0}
  BY <1>1, <1>2, <1>4, <1>6 DEF Kinds
<1>7. ASSUME kind = "queue", n \in DOMAIN commitQueue, k \in DOMAIN commitQueue[n], commitQueue[n][k] = b
      PROVE  b \in BarrelIds /\ kind \in Kinds /\ n \in Nat /\ k \in Nat \ {0}
  BY <1>2, <1>3, <1>7 DEF Kinds
<1> QED
  BY <1>5, <1>6, <1>7 DEF At, Kinds

LEMMA SubmitMoves ==
  ASSUME ShapeInv, NEW b, NEW from \in {"task", "client"}, NEW fn \in Nat, NEW taken,
         Submit(taken),
         \/ from = "client" /\ fn = 0 /\ taken = clientHand /\ clientHand' = <<>> /\ taskHand' = taskHand
         \/ from = "task" /\ fn \in Tasks /\ taken = taskHand[fn] /\ clientHand' = clientHand
            /\ taskHand' = [taskHand EXCEPT ![fn] = <<>>]
  PROVE  Moved(b, from, fn, "queue", Len(commitQueue) + 1, 0) /\ Len(commitQueue) \in Nat
         /\ \A k : ~ At(b, "queue", Len(commitQueue) + 1, k)
<1> DEFINE q == Len(commitQueue) + 1
<1>1. IsSequence(commitQueue) /\ commitQueue' = Append(commitQueue, taken)
      /\ UNCHANGED <<batch, inCommit, onDisk>>
  BY SequenceOf DEF ShapeInv, KeeperShape, Submit
<1>2. /\ Len(commitQueue) \in Nat /\ DOMAIN commitQueue = 1..Len(commitQueue)
      /\ DOMAIN commitQueue' = 1..q /\ commitQueue'[q] = taken
      /\ \A m \in 1..Len(commitQueue) : commitQueue'[m] = commitQueue[m]
  BY <1>1, AppendSequence, SequenceShape
<1>3. \A k : ~ At(b, "queue", q, k)
  BY <1>2 DEF At
<1>4. DOMAIN <<>> = {}
  BY EmptySequence, SequenceShape
<1>5. \A j \in Tasks : taskHand'[j] = IF from = "task" /\ j = fn THEN <<>> ELSE taskHand[j]
  BY DEF ShapeInv, TaskShape
<1>6. ASSUME NEW kind \in Kinds, NEW n \in Nat, NEW k \in Nat
      PROVE  At(b, kind, n, k)' <=> IF kind = "queue" /\ n = q /\ k > 0 THEN At(b, from, fn, k - 0)
                                    ELSE ~ (kind = from /\ n = fn) /\ At(b, kind, n, k)
  <2>0. Tasks' = Tasks
    BY DEF Tasks
  <2>1. CASE kind = "queue" /\ n = q
    <3>1. At(b, kind, n, k)' <=> k \in DOMAIN taken /\ taken[k] = b
      BY <1>2, <2>1 DEF At
    <3>2. At(b, from, fn, k) <=> k \in DOMAIN taken /\ taken[k] = b
      BY DEF At
    <3>3. ~ At(b, kind, n, k)
      BY <1>3, <2>1
    <3>4. At(b, from, fn, k) => k > 0
      BY Listed
    <3> QED
      BY <2>1, <3>1, <3>2, <3>3, <3>4
  <2>2. CASE kind = "queue" /\ n # q
    BY <1>2, <2>2 DEF At
  <2>3. CASE kind = "task"
    BY <1>4, <1>5, <2>0, <2>3 DEF At
  <2>4. CASE kind = "client"
    BY <1>4, <2>4 DEF At
  <2>5. CASE kind \in {"batch", "commit", "disk"}
    BY <1>1, <2>5 DEF At
  <2> QED
    BY <2>1, <2>2, <2>3, <2>4, <2>5 DEF Kinds
<1> QED
  BY <1>2, <1>3, <1>6 DEF Moved

\* The commit thread.
LEMMA TakeChain ==
  ASSUME ShapeInv, NEW b, Once(b), CommitTake, UNCHANGED <<taskHand, clientHand>>
  PROVE  Once(b)' /\ (OnItsWay(b)' <=> OnItsWay(b))
<1>1. IsSequence(commitQueue) /\ commitQueue # <<>> /\ commitQueue' = Tail(commitQueue)
      /\ inCommit = <<>> /\ inCommit' = Head(commitQueue) /\ UNCHANGED <<batch, onDisk>>
  BY SequenceOf DEF ShapeInv, KeeperShape, CommitTake
<1>2. /\ Len(commitQueue) \in Nat /\ DOMAIN commitQueue = 1..Len(commitQueue) /\ 1 \in DOMAIN commitQueue
      /\ DOMAIN commitQueue' = 1..(Len(commitQueue) - 1) /\ inCommit' = commitQueue[1]
      /\ \A m \in 1..(Len(commitQueue) - 1) : commitQueue'[m] = commitQueue[m + 1]
      /\ DOMAIN inCommit = {}
  BY <1>1, TailSequence, SequenceShape, EmptySequence
<1>3. Tasks' = Tasks
  BY DEF Tasks
<1>4. ASSUME NEW kind \in Kinds, NEW n \in Nat, NEW k \in Nat
      PROVE  At(b, kind, n, k)' <=>
                CASE kind = "commit" -> n = 0 /\ At(b, "queue", 1, k)
                  [] kind = "queue" -> n > 0 /\ At(b, "queue", n + 1, k)
                  [] OTHER -> At(b, kind, n, k)
  <2>1. CASE kind = "commit"
    BY <1>2, <2>1 DEF At
  <2>2. CASE kind = "queue"
    <3>1. n \in DOMAIN commitQueue' <=> n > 0 /\ n + 1 \in DOMAIN commitQueue
      BY <1>2
    <3>2. n \in DOMAIN commitQueue' => commitQueue'[n] = commitQueue[n + 1]
      BY <1>2
    <3> QED
      BY <2>2, <3>1, <3>2 DEF At
  <2>3. CASE kind \notin {"commit", "queue"}
    BY <1>1, <1>3, <2>3 DEF At
  <2> QED
    BY <2>1, <2>2, <2>3
<1>5. OnItsWay(b)' => OnItsWay(b)
  BY <1>4 DEF OnItsWay, Kinds
<1>6. ASSUME NEW kind \in Kinds, NEW n \in Nat, NEW k \in Nat, At(b, kind, n, k) PROVE OnItsWay(b)'
  <2>1. CASE kind = "queue"
    <3>1. n \in 1..Len(commitQueue)
      BY <1>2, <1>6, <2>1 DEF At
    <3>2. CASE n = 1
      <4>1. At(b, "commit", 0, k)'
        BY <1>4, <1>6, <2>1, <3>2 DEF Kinds
      <4> QED
        BY <4>1 DEF OnItsWay, Kinds
    <3>3. CASE n # 1
      <4>1. n - 1 \in Nat /\ n - 1 > 0 /\ (n - 1) + 1 = n
        BY <3>1, <3>3
      <4>2. At(b, "queue", n - 1, k)'
        BY <1>4, <1>6, <2>1, <4>1
      <4> QED
        BY <4>1, <4>2 DEF OnItsWay, Kinds
    <3> QED
      BY <3>2, <3>3
  <2>2. CASE kind # "queue"
    <3>1. kind # "commit"
      BY <1>2, <1>6 DEF At
    <3>2. At(b, kind, n, k)'
      BY <1>4, <1>6, <2>2, <3>1
    <3> QED
      BY <3>2 DEF OnItsWay
  <2> QED
    BY <2>1, <2>2
<1>7. Once(b)'
  <2> DEFINE Old(kind, n, k) == /\ kind = "commit" => n = 0 /\ At(b, "queue", 1, k)
                                /\ kind = "queue" => n > 0 /\ n + 1 \in Nat /\ At(b, "queue", n + 1, k)
                                /\ kind \notin {"commit", "queue"} => At(b, kind, n, k)
  <2> SUFFICES ASSUME NEW kind \in Kinds, NEW other \in Kinds, NEW n \in Nat, NEW m \in Nat, NEW k \in Nat, NEW l \in Nat,
                      At(b, kind, n, k)', At(b, other, m, l)'
               PROVE  kind = other /\ n = m /\ k = l
    BY DEF Once
  <2>1. Old(kind, n, k) /\ Old(other, m, l)
    BY <1>4
  <2>2. "queue" \in Kinds /\ 1 \in Nat
    BY DEF Kinds
  <2> QED
    BY <2>1, <2>2 DEF Once
<1> QED
  BY <1>5, <1>6, <1>7 DEF OnItsWay

LEMMA CommitMoves ==
  ASSUME ShapeInv, NEW b, CommitBatch, UNCHANGED <<taskHand, clientHand>>
  PROVE  /\ Moved(b, "commit", 0, "disk", 0, Len(onDisk)) /\ Len(onDisk) \in Nat
         /\ \A k \in Nat : k > Len(onDisk) => ~ At(b, "disk", 0, k)
<1>1. IsSequence(onDisk) /\ IsSequence(inCommit) /\ onDisk' = onDisk \o inCommit /\ inCommit' = <<>>
      /\ UNCHANGED <<batch, commitQueue>>
  BY SequenceOf DEF ShapeInv, KeeperShape, CommitBatch
<1> DEFINE n1 == Len(onDisk)
           n2 == Len(inCommit)
<1>2. IsSequence(onDisk') /\ Len(onDisk') = n1 + n2
  BY <1>1, ConcatSequence
<1>3. /\ n1 \in Nat /\ n2 \in Nat /\ DOMAIN onDisk = 1..n1 /\ DOMAIN inCommit = 1..n2 /\ DOMAIN onDisk' = 1..(n1 + n2)
      /\ DOMAIN <<>> = {}
  BY <1>1, <1>2, SequenceShape, EmptySequence
<1>4. /\ \A k \in 1..n1 : onDisk'[k] = onDisk[k]
      /\ \A k \in 1..n2 : onDisk'[n1 + k] = inCommit[k]
  BY <1>1, ConcatSequence
<1>5. \A k \in Nat : k > n1 => ~ At(b, "disk", 0, k)
  BY <1>3 DEF At
<1> HIDE DEF n1, n2
<1>6. ASSUME NEW kind \in Kinds, NEW n \in Nat, NEW k \in Nat
      PROVE  At(b, kind, n, k)' <=> IF kind = "disk" /\ n = 0 /\ k > n1 THEN At(b, "commit", 0, k - n1)
                                    ELSE ~ (kind = "commit" /\ n = 0) /\ At(b, kind, n, k)
  <2>0. Tasks' = Tasks
    BY DEF Tasks
  <2>1. CASE kind = "disk" /\ n = 0 /\ k > n1
    <3>1. k - n1 \in Nat /\ n1 + (k - n1) = k /\ (k \in 1..(n1 + n2) <=> k - n1 \in 1..n2)
      BY <1>3, <2>1
    <3>2. At(b, kind, n, k)' <=> k \in 1..(n1 + n2) /\ onDisk'[k] = b
      BY <1>3, <2>1 DEF At
    <3>3. At(b, "commit", 0, k - n1) <=> k - n1 \in 1..n2 /\ inCommit[k - n1] = b
      BY <1>3 DEF At
    <3>4. k - n1 \in 1..n2 => onDisk'[n1 + (k - n1)] = inCommit[k - n1]
      BY <1>4
    <3> QED
      BY <2>1, <3>1, <3>2, <3>3, <3>4
  <2>2. CASE kind = "disk" /\ n = 0 /\ ~ (k > n1)
    <3>1. k \in 1..n1 <=> k \in 1..(n1 + n2)
      BY <1>3, <2>2
    <3> QED
      BY <1>3, <1>4, <2>2, <3>1 DEF At
  <2>3. CASE kind = "disk" /\ n # 0
    BY <2>3 DEF At
  <2>4. CASE kind = "commit"
    BY <1>1, <1>3, <2>4 DEF At
  <2>5. CASE kind \notin {"disk", "commit"}
    BY <1>1, <2>0, <2>5 DEF At
  <2> QED
    BY <2>1, <2>2, <2>3, <2>4, <2>5
<1> QED
  BY <1>3, <1>5, <1>6 DEF Moved, n1

LEMMA FlushMoves ==
  ASSUME ShapeInv, NEW b, Flush
  PROVE  /\ Moved(b, "batch", 0, "client", 0, 0)
         /\ \A k \in Nat : k > 0 => ~ At(b, "client", 0, k)
<1>1. /\ clientHand = <<>> /\ clientHand' = batch /\ batch' = <<>> /\ DOMAIN <<>> = {}
      /\ UNCHANGED <<commitQueue, inCommit, onDisk, taskHand>>
  BY EmptySequence, SequenceShape DEF Flush, ResetMerger, ShapeInv, ClientShape, HandOffPlaces, taskVars
<1>2. ASSUME NEW kind \in Kinds, NEW n \in Nat, NEW k \in Nat
      PROVE  At(b, kind, n, k)' <=> IF kind = "client" /\ n = 0 /\ k > 0 THEN At(b, "batch", 0, k - 0)
                                    ELSE ~ (kind = "batch" /\ n = 0) /\ At(b, kind, n, k)
  <2>0. Tasks' = Tasks
    BY DEF Tasks
  <2>1. CASE kind = "client"
    <3>1. At(b, "batch", 0, k) => k > 0
      BY Listed
    <3> QED
      BY <1>1, <2>1, <3>1 DEF At
  <2>2. CASE kind = "batch"
    BY <1>1, <2>2 DEF At
  <2>3. CASE kind \notin {"client", "batch"}
    BY <1>1, <2>0, <2>3 DEF At
  <2> QED
    BY <2>1, <2>2, <2>3
<1> QED
  BY <1>1, <1>2 DEF Moved, At

\* A barrel that is sealed joins the batch, which a task takes if it is full.
LEMMA SealMoves ==
  ASSUME ShapeInv, NEW i \in Tasks, SealFull(i) \/ SealLast(i), NEW w, w = writer[i], ~ OnItsWay(w)
  PROVE  /\ \A b : b # w /\ Once(b) => Once(b)' /\ (OnItsWay(b)' <=> OnItsWay(b))
         /\ Once(w)'
         /\ Counts(w) => OnItsWay(w)'
<1> DEFINE g == Append(batch, w)
           n1 == Len(batch)
<1>1. /\ taskHand[i] = <<>> /\ SealBarrel(w) /\ taskHand' = [taskHand EXCEPT ![i] = SealedBatch(w)]
      /\ taskHand \in [Tasks -> Seq(BarrelIds)] /\ UNCHANGED clientHand /\ Tasks \subseteq Nat
  <2>1. taskPc[i] # "handOff" /\ TaskState(taskPc[i], taskMsg[i], taskHand[i])
    BY DEF SealFull, SealLast, ShapeInv, TaskShape
  <2>2. Tasks \subseteq Nat
    BY BuildThreadAssumption DEF Tasks
  <2> QED
    BY <2>1, <2>2 DEF SealFull, SealLast, TaskSeal, TaskState, ShapeInv, TaskShape, clientVars
<1>2. /\ batch' = IF SealedBatch(w) # <<>> THEN <<>> ELSE Gathered(w)
      /\ UNCHANGED <<commitQueue, inCommit, onDisk>>
  BY <1>1 DEF SealBarrel
<1>3. /\ IsSequence(batch) /\ n1 \in Nat /\ DOMAIN batch = 1..n1 /\ DOMAIN g = 1..(n1 + 1) /\ g # <<>>
      /\ g[n1 + 1] = w /\ \A k \in 1..n1 : g[k] = batch[k]
      /\ DOMAIN <<>> = {}
  <2>1. IsSequence(batch)
    BY SequenceOf DEF ShapeInv, KeeperShape
  <2>2. IsSequence(g) /\ Len(g) = n1 + 1 /\ n1 \in Nat
    BY <2>1, AppendSequence, SequenceShape
  <2> HIDE DEF g
  <2>3. g # <<>>
    BY <2>2, SequenceShape
  <2>4. DOMAIN g = 1..(n1 + 1) /\ DOMAIN batch = 1..n1 /\ DOMAIN <<>> = {}
    BY <2>1, <2>2, SequenceShape, EmptySequence
  <2>5. g[n1 + 1] = w /\ \A k \in 1..n1 : g[k] = batch[k]
    BY <2>1, AppendSequence DEF g
  <2> QED
    BY <2>1, <2>2, <2>3, <2>4, <2>5
<1>4. /\ \A j \in Tasks : taskHand'[j] = IF j = i THEN SealedBatch(w) ELSE taskHand[j]
      /\ SealedBatch(w) \in {<<>>, g} /\ (SealedBatch(w) # <<>> => Counts(w))
      /\ Gathered(w) = IF Counts(w) THEN g ELSE batch
  BY <1>1 DEF SealedBatch, Gathered
<1>5. Tasks' = Tasks
  BY DEF Tasks
<1>6. ASSUME NEW k \in Nat, NEW b PROVE ~ At(b, "task", i, k) /\ ~ At(b, "batch", 0, n1 + 1)
  BY <1>1, <1>3, <1>6 DEF At
<1> HIDE DEF g, n1
<1>7. CASE SealedBatch(w) # <<>>
  <2>1. SealedBatch(w) = g /\ batch' = <<>> /\ Counts(w) /\ taskHand'[i] = g
    BY <1>2, <1>4, <1>7
  <2>2. ASSUME NEW b, NEW kind \in Kinds, NEW n \in Nat, NEW k \in Nat
        PROVE  At(b, kind, n, k)' <=>
                  IF kind = "task" /\ n = i THEN k \in 1..(n1 + 1) /\ g[k] = b
                  ELSE kind # "batch" /\ At(b, kind, n, k)
    <3>1. CASE kind = "task"
      BY <1>3, <1>4, <1>5, <2>1, <3>1 DEF At
    <3>2. CASE kind = "batch"
      BY <1>3, <2>1, <3>2 DEF At
    <3>3. CASE kind \notin {"task", "batch"}
      BY <1>1, <1>2, <3>3 DEF At
    <3> QED
      BY <3>1, <3>2, <3>3
  <2>3. ASSUME NEW b, b # w PROVE Moved(b, "batch", 0, "task", i, 0)
    <3>1. ASSUME NEW k \in Nat PROVE k \in 1..(n1 + 1) /\ g[k] = b <=> At(b, "batch", 0, k)
      <4>1. k \in 1..(n1 + 1) /\ g[k] = b <=> k \in 1..n1 /\ batch[k] = b
        BY <1>3, <2>3
      <4> QED
        BY <1>3, <4>1 DEF At
    <3>2. ASSUME NEW kind \in Kinds, NEW n \in Nat, NEW k \in Nat
          PROVE  At(b, kind, n, k)' <=> IF kind = "task" /\ n = i /\ k > 0 THEN At(b, "batch", 0, k - 0)
                                        ELSE ~ (kind = "batch" /\ n = 0) /\ At(b, kind, n, k)
      <4>1. CASE kind = "task" /\ n = i
        <5>1. At(b, "batch", 0, k) => k > 0
          BY Listed
        <5>2. ~ At(b, kind, n, k)
          BY <1>6, <4>1
        <5> QED
          BY <2>2, <3>1, <4>1, <5>1, <5>2
      <4>2. CASE kind = "batch"
        <5>1. At(b, kind, n, k) => n = 0
          BY <4>2 DEF At
        <5> QED
          BY <2>2, <4>2, <5>1
      <4>3. CASE kind # "batch" /\ ~ (kind = "task" /\ n = i)
        BY <2>2, <4>3
      <4> QED
        BY <4>1, <4>2, <4>3
    <3> QED
      BY <3>2 DEF Moved
  <2>4. ASSUME NEW b, b # w, Once(b) PROVE Once(b)' /\ (OnItsWay(b)' <=> OnItsWay(b))
    <3>1. /\ \A k \in Nat : k > 0 => ~ At(b, "task", i, k)
          /\ \A k \in Nat : At(b, "batch", 0, k) => k > 0
      BY <1>6, Listed
    <3>2. {"task", "batch"} \subseteq Kinds /\ i \in Nat
      BY <1>1 DEF Kinds
    <3> QED
      BY <2>3, <2>4, <3>1, <3>2, MovedChain
  <2>5. ASSUME NEW kind \in Kinds, NEW n \in Nat, NEW k \in Nat
        PROVE  At(w, kind, n, k)' <=> kind = "task" /\ n = i /\ k = n1 + 1
    <3>1. ~ At(w, kind, n, k) /\ ~ At(w, "batch", 0, k)
      BY DEF OnItsWay, Kinds
    <3>2. ~ (k \in 1..n1 /\ batch[k] = w)
      BY <1>3, <3>1 DEF At
    <3>3. k \in 1..(n1 + 1) /\ g[k] = w <=> k = n1 + 1
      BY <1>3, <3>2
    <3> QED
      BY <2>2, <3>1, <3>3
  <2>6. Once(w)'
    BY <2>5 DEF Once
  <2>7. OnItsWay(w)'
    <3>1. n1 + 1 \in Nat /\ i \in Nat /\ "task" \in Kinds
      BY <1>1, <1>3 DEF Kinds
    <3>2. \E p \in Nat : p = n1 + 1 /\ At(w, "task", i, p)'
      BY <2>5, <3>1
    <3> QED
      BY <3>1, <3>2 DEF OnItsWay
  <2> QED
    BY <2>4, <2>6, <2>7
<1>8. CASE SealedBatch(w) = <<>> /\ Counts(w)
  <2>1. batch' = g /\ taskHand' = taskHand
    BY <1>1, <1>2, <1>4, <1>8
  <2>2. ASSUME NEW b, NEW kind \in Kinds, NEW n \in Nat, NEW k \in Nat
        PROVE  At(b, kind, n, k)' <=> At(b, kind, n, k) \/ (b = w /\ kind = "batch" /\ n = 0 /\ k = n1 + 1)
    <3>1. CASE kind = "batch"
      <4>1. k \in 1..(n1 + 1) /\ g[k] = b <=> (k \in 1..n1 /\ batch[k] = b) \/ (k = n1 + 1 /\ b = w)
        BY <1>3
      <4> QED
        BY <1>3, <2>1, <3>1, <4>1 DEF At
    <3>2. CASE kind # "batch"
      BY <1>1, <1>2, <1>5, <2>1, <3>2 DEF At
    <3> QED
      BY <3>1, <3>2
  <2>3. ASSUME NEW b, b # w, Once(b) PROVE Once(b)' /\ (OnItsWay(b)' <=> OnItsWay(b))
    BY <2>2, <2>3 DEF Once, OnItsWay
  <2>4. ASSUME NEW kind \in Kinds, NEW n \in Nat, NEW k \in Nat PROVE ~ At(w, kind, n, k)
    BY DEF OnItsWay
  <2>5. Once(w)'
    BY <2>2, <2>4 DEF Once
  <2>6. OnItsWay(w)'
    <3>1. n1 + 1 \in Nat /\ "batch" \in Kinds
      BY <1>3 DEF Kinds
    <3>2. \E p \in Nat : p = n1 + 1 /\ At(w, "batch", 0, p)'
      BY <2>2, <3>1
    <3> QED
      BY <3>1, <3>2 DEF OnItsWay
  <2> QED
    BY <2>3, <2>5, <2>6
<1>9. CASE SealedBatch(w) = <<>> /\ ~ Counts(w)
  <2>1. batch' = batch /\ taskHand' = taskHand
    BY <1>1, <1>2, <1>4, <1>9
  <2>2. ASSUME NEW b, NEW kind, NEW n, NEW k PROVE At(b, kind, n, k)' <=> At(b, kind, n, k)
    BY <1>1, <1>2, <1>5, <2>1 DEF At
  <2>3. ASSUME NEW b PROVE (Once(b)' <=> Once(b)) /\ (OnItsWay(b)' <=> OnItsWay(b))
    BY <2>2 DEF Once, OnItsWay
  <2>4. Once(w)
    BY DEF OnItsWay, Once
  <2> QED
    BY <1>9, <2>3, <2>4
<1> QED
  BY <1>7, <1>8, <1>9

LEMMA ChainStep ==
  ASSUME ShapeInv, OwnBarrels, SealInv, ChainInv, commits = 0, BarrelStep
  PROVE  ChainInv'
<1> USE DEF ShapeInv
<1> DEFINE Chained(b) == /\ Once(b)
                         /\ OnItsWay(b) => barrels[b].sealed
                         /\ barrels[b].described # {} => OnItsWay(b)
<1> SUFFICES ASSUME NEW b \in BarrelIds' PROVE Chained(b)'
  BY DEF ChainInv
<1>0. b \in BarrelIds => Chained(b)
  BY DEF ChainInv
<1>1. ASSUME b \in BarrelIds, barrels[b].sealed => barrels'[b].sealed,
             barrels'[b].described # {} => barrels[b].described # {},
             Once(b)' /\ (OnItsWay(b)' <=> OnItsWay(b))
      PROVE  Chained(b)'
  BY <1>0, <1>1
<1>2. Tasks' = Tasks
  BY DEF Tasks
<1>3. ASSUME ListsStay PROVE (Once(b)' <=> Once(b)) /\ (OnItsWay(b)' <=> OnItsWay(b))
  <2>1. ASSUME NEW kind, NEW n, NEW k PROVE At(b, kind, n, k)' <=> At(b, kind, n, k)
    BY <1>2, <1>3 DEF ListsStay, At
  <2> QED
    BY <2>1 DEF Once, OnItsWay
<1>4. ASSUME barrels' = barrels PROVE b \in BarrelIds
  BY <1>4 DEF BarrelIds
<1>5. ASSUME Still, ListsStay PROVE Chained(b)'
  BY <1>0, <1>1, <1>3, <1>4, <1>5 DEF Still
<1>6. ASSUME NEW i \in Tasks, SealFull(i) \/ SealLast(i) PROVE Chained(b)'
  <2>0. PICK w : w = writer[i]
    OBVIOUS
  <2>1. w \in BarrelIds /\ SealBarrel(w) /\ Live(i)
    BY <1>6, <2>0 DEF SealFull, SealLast, TaskSeal, TaskShape, Live
  <2>2. ~ barrels[w].sealed
    BY <2>0, <2>1 DEF SealInv
  <2>3. ~ OnItsWay(w)
    BY <2>1, <2>2 DEF ChainInv
  <2>4. /\ \A c : c # w /\ Once(c) => Once(c)' /\ (OnItsWay(c)' <=> OnItsWay(c))
        /\ Once(w)' /\ (Counts(w) => OnItsWay(w)')
    BY <1>6, <2>0, <2>3, SealMoves
  <2>5. b \in BarrelIds
    BY <2>1, SealBarrelEffect DEF BarrelIds
  <2>6. CASE b = w
    <3>1. barrels'[b] = [docs |-> barrels[b].docs, sealed |-> TRUE,
                         described |-> IF barrels[b].uncommitted THEN Range(barrels[b].docs) ELSE barrels[b].described,
                         uncommitted |-> barrels[b].uncommitted]
      BY <2>1, <2>6, SealBarrelEffect
    <3>2. /\ barrels'[b].sealed = TRUE
          /\ barrels'[b].described = IF barrels[b].uncommitted THEN Range(barrels[b].docs) ELSE barrels[b].described
      BY <3>1
    <3>3. barrels[b].described = {}
      BY <2>2, <2>5, <2>6 DEF SealInv
    <3>4. barrels[b].uncommitted => Counts(w)
      BY <2>6 DEF Counts
    <3> QED
      BY <2>4, <2>6, <3>2, <3>3, <3>4
  <2>7. CASE b # w
    <3>1. barrels'[b] = barrels[b]
      BY <2>1, <2>5, <2>7, SealBarrelEffect
    <3>2. Once(b)' /\ (OnItsWay(b)' <=> OnItsWay(b))
      BY <1>0, <2>4, <2>5, <2>7
    <3> QED
      BY <1>1, <2>5, <3>1, <3>2
  <2> QED
    BY <2>6, <2>7
<1>7. ASSUME NEW i \in Tasks, TaskHandOff(i) PROVE Chained(b)'
  <2>1. /\ Submit(taskHand[i]) /\ taskHand' = [taskHand EXCEPT ![i] = <<>>] /\ clientHand' = clientHand
        /\ barrels' = barrels /\ i \in Nat
    BY <1>7, BuildThreadAssumption DEF TaskHandOff, Submit, clientVars, Tasks
  <2>2. /\ Moved(b, "task", i, "queue", Len(commitQueue) + 1, 0) /\ Len(commitQueue) \in Nat
        /\ \A k : ~ At(b, "queue", Len(commitQueue) + 1, k)
    BY <2>1, SubmitMoves
  <2>3. Once(b)' /\ (OnItsWay(b)' <=> OnItsWay(b))
    <3>1. {"task", "queue"} \subseteq Kinds /\ (\A k \in Nat : At(b, "task", i, k) => k > 0) /\ Len(commitQueue) + 1 \in Nat
      BY <2>2, Listed DEF Kinds
    <3> QED
      BY <1>0, <1>4, <2>1, <2>2, <3>1, MovedChain
  <2> QED
    BY <1>1, <1>4, <2>1, <2>3
<1>8. ASSUME NEW i \in Tasks, Renew(i) PROVE Chained(b)'
  <2>1. CreateBarrelWriter /\ ListsStay
    BY <1>8 DEF Renew, CreateBarrelWriter, ListsStay, clientVars
  <2>2. /\ BarrelIds' = BarrelIds \cup {Len(barrels')} /\ barrels'[Len(barrels')] = EmptyBarrel
        /\ \A c \in BarrelIds : barrels'[c] = barrels[c]
    BY <2>1, CreateEffect
  <2>3. CASE b \in BarrelIds
    BY <1>0, <1>1, <1>3, <2>1, <2>2, <2>3
  <2>4. CASE b \notin BarrelIds
    <3>1. barrels'[b].described = {}
      BY <2>2, <2>4 DEF EmptyBarrel
    <3>2. ~ OnItsWay(b)
      BY <2>4, Listed DEF OnItsWay
    <3>3. Once(b)
      BY <3>2 DEF OnItsWay, Once
    <3> QED
      BY <1>3, <2>1, <3>1, <3>2, <3>3
  <2> QED
    BY <2>3, <2>4
<1>9. ASSUME NEW i \in Tasks, AddStep(i) PROVE Chained(b)'
  <2>1. /\ ListsStay /\ writer[i] \in BarrelIds /\ taskMsg[i].doc \in Added
        /\ AddDocument(writer[i], taskMsg[i].doc)
    BY <1>9 DEF AddStep, ProcessAdd, AddDocument, ListsStay, clientVars
  <2>2. b \in BarrelIds /\ (b # writer[i] => barrels'[b] = barrels[b])
    BY <2>1, AddDocumentEffect DEF BarrelIds
  <2>3. barrels'[b].sealed = barrels[b].sealed /\ barrels'[b].described = barrels[b].described
    <3>1. CASE b = writer[i]
      <4>1. \E docs : barrels'[b] = [docs |-> docs, sealed |-> barrels[b].sealed,
                                    described |-> barrels[b].described, uncommitted |-> TRUE]
        BY <2>1, <3>1, AddDocumentEffect
      <4> QED
        BY <4>1
    <3> QED
      BY <2>2, <3>1
  <2> QED
    BY <1>0, <1>1, <1>3, <2>1, <2>2, <2>3
<1>10. ASSUME CommitThreadStep PROVE Chained(b)'
  <2>1. UNCHANGED <<taskHand, clientHand>>
    BY <1>10 DEF CommitThreadStep, taskVars, clientVars
  <2>2. CASE CommitTake
    <3>1. barrels' = barrels
      BY <2>2 DEF CommitTake
    <3> QED
      BY <1>0, <1>1, <1>4, <2>1, <2>2, <3>1, TakeChain
  <2>3. CASE CommitBatch
    <3>1. b \in BarrelIds
      BY <2>3, CommitBatchEffect DEF BarrelIds
    <3>2. barrels'[b].sealed = barrels[b].sealed /\ barrels'[b].described = barrels[b].described
      <4> DEFINE new == [docs |-> barrels[b].docs, sealed |-> barrels[b].sealed,
                         described |-> barrels[b].described, uncommitted |-> FALSE]
      <4>1. barrels'[b] = new \/ barrels'[b] = barrels[b]
        BY <2>3, <3>1, CommitBatchEffect
      <4>2. new.sealed = barrels[b].sealed /\ new.described = barrels[b].described
        OBVIOUS
      <4> QED
        BY <4>1, <4>2
    <3>3. /\ Moved(b, "commit", 0, "disk", 0, Len(onDisk)) /\ Len(onDisk) \in Nat
          /\ \A k \in Nat : k > Len(onDisk) => ~ At(b, "disk", 0, k)
      BY <2>1, <2>3, CommitMoves
    <3>4. {"commit", "disk"} \subseteq Kinds /\ \A k \in Nat : At(b, "commit", 0, k) => k > 0
      BY Listed DEF Kinds
    <3>5. Once(b)' /\ (OnItsWay(b)' <=> OnItsWay(b))
      BY <1>0, <3>1, <3>3, <3>4, MovedChain
    <3> QED
      BY <1>1, <3>1, <3>2, <3>5
  <2> QED
    BY <1>10, <2>2, <2>3 DEF CommitThreadStep
<1>11. ASSUME Flush PROVE Chained(b)'
  <2>1. barrels' = barrels
    BY <1>11 DEF Flush, ResetMerger
  <2>2. /\ Moved(b, "batch", 0, "client", 0, 0)
        /\ \A k \in Nat : k > 0 => ~ At(b, "client", 0, k)
    BY <1>11, FlushMoves
  <2>3. {"batch", "client"} \subseteq Kinds /\ \A k \in Nat : At(b, "batch", 0, k) => k > 0
    BY Listed DEF Kinds
  <2>4. Once(b)' /\ (OnItsWay(b)' <=> OnItsWay(b))
    BY <1>0, <1>4, <2>1, <2>2, <2>3, MovedChain
  <2> QED
    BY <1>1, <1>4, <2>1, <2>4
<1>12. ASSUME ClientHandOff PROVE Chained(b)'
  <2>1. /\ Submit(clientHand) /\ clientHand' = <<>> /\ taskHand' = taskHand /\ barrels' = barrels
    BY <1>12 DEF ClientHandOff, Submit, taskVars
  <2>2. /\ Moved(b, "client", 0, "queue", Len(commitQueue) + 1, 0) /\ Len(commitQueue) \in Nat
        /\ \A k : ~ At(b, "queue", Len(commitQueue) + 1, k)
    BY <2>1, SubmitMoves
  <2>3. Once(b)' /\ (OnItsWay(b)' <=> OnItsWay(b))
    <3>1. {"client", "queue"} \subseteq Kinds /\ (\A k \in Nat : At(b, "client", 0, k) => k > 0) /\ Len(commitQueue) + 1 \in Nat
      BY <2>2, Listed DEF Kinds
    <3> QED
      BY <1>0, <1>4, <2>1, <2>2, <3>1, MovedChain
  <2> QED
    BY <1>1, <1>4, <2>1, <2>3
<1> QED
  BY <1>5, <1>6, <1>7, <1>8, <1>9, <1>10, <1>11, <1>12 DEF BarrelStep

-----------------------------------------------------------------------------
(* What the barrels and the end of the tasks come to                       *)

LEMMA InitSeal == Init => SealInv /\ ChainInv
<1> SUFFICES ASSUME Init PROVE SealInv /\ ChainInv
  OBVIOUS
<1>1. BarrelIds = Tasks /\ \A b \in Tasks : barrels[b] = EmptyBarrel
  <2>1. barrels = [b \in 1..BuildThreadCount |-> EmptyBarrel] /\ BuildThreadCount \in Nat
    BY BuildThreadAssumption DEF Init, KeeperInit
  <2> QED
    BY <2>1 DEF BarrelIds, Tasks
<1>2. \A i \in Tasks : Live(i) /\ writer[i] = i
  BY DEF Init, Live
<1>3. Range(<<>>) = {} /\ DOMAIN <<>> = {}
  BY EmptySequence, SequenceShape
<1>4. \A i \in Tasks : taskHand[i] = <<>>
  BY DEF Init
<1>5. ~ EmptyBarrel.sealed /\ EmptyBarrel.described = {} /\ EmptyBarrel.docs = <<>> /\ ~ EmptyBarrel.uncommitted
  BY DEF EmptyBarrel
<1>6. SealInv
  BY <1>1, <1>2, <1>5 DEF SealInv
<1>7. ASSUME NEW b, NEW kind, NEW n, NEW k PROVE ~ At(b, kind, n, k)
  BY <1>3, <1>4 DEF At, Init, KeeperInit
<1>8. ChainInv
  BY <1>1, <1>5, <1>7 DEF ChainInv, Once, OnItsWay
<1> QED
  BY <1>6, <1>8

BarrelInv == ShapeInv /\ UpdaterInv /\ HomeInv /\ OrderInv /\ StopInv /\ SealInv /\ ChainInv

LEMMA BarrelInvariant == Spec => []BarrelInv
<1>1. Init => BarrelInv
  BY InitShape, InitUpdater, InitHome, InitOrder, InitStop, InitSeal DEF BarrelInv
<1>2. BarrelInv /\ [Next]_vars => BarrelInv'
  <2> SUFFICES ASSUME BarrelInv, [Next]_vars PROVE BarrelInv'
    OBVIOUS
  <2> USE DEF BarrelInv
  <2>1. ShapeInv' /\ BarrelIds \subseteq BarrelIds'
    BY ShapeStep
  <2>2. UpdaterInv' /\ StopInv'
    BY UpdaterStepInv, StopStep
  <2>3. HomeInv' /\ OrderInv'
    BY <2>1, DocumentSteps, HomeStep, OrderStep
  <2>4. CASE commits' = 0
    <3>1. commits = 0 /\ BarrelStep
      BY <2>4, BarrelSteps
    <3>2. OwnBarrels
      BY DEF OrderInv
    <3>3. SealInv' /\ ChainInv'
      BY <3>1, <3>2, SealStep, ChainStep
    <3> QED
      BY <2>1, <2>2, <2>3, <3>3
  <2>5. CASE commits' # 0
    <3>1. SealInv' /\ ChainInv'
      BY <2>5 DEF SealInv, ChainInv
    <3> QED
      BY <2>1, <2>2, <2>3, <3>1
  <2> QED
    BY <2>4, <2>5
<1> QED
  BY <1>1, <1>2, PTL DEF Spec

\* A document that was added is neither lost nor doubled on its way into a barrel.
THEOREM EachHasOneHome == Spec => []OneHome
<1>1. BarrelInv => OneHome
  <2> SUFFICES ASSUME BarrelInv, commits = 0, NEW d \in Docs \ Updates
               PROVE  Cardinality(Homes(d)) = IF d \in Range(consumed) THEN 1 ELSE 0
    BY DEF OneHome
  <2> USE DEF BarrelInv, HomeInv
  <2> DEFINE Q == {p \in DOMAIN docQueue : docQueue[p].doc = d}
             T == {i \in Tasks : taskMsg[i].doc = d}
             B == {b \in BarrelIds : d \in Range(barrels[b].docs)}
  <2>1. \A b \in BarrelIds :
            (d \in IF barrels[b].sealed THEN barrels[b].described ELSE Range(barrels[b].docs)) <=> d \in Range(barrels[b].docs)
    BY DEF SealInv
  <2>2. Homes(d) = {<<"queue", p>> : p \in Q} \cup {<<"task", i>> : i \in T} \cup {<<"barrel", b>> : b \in B}
    <3>1. {b \in BarrelIds : d \in IF barrels[b].sealed THEN barrels[b].described ELSE Range(barrels[b].docs)} = B
      BY <2>1
    <3> QED
      BY <3>1 DEF Homes
  <2>3. d \in Added
    BY DEF Added
  <2>4. /\ InQueue(d) <=> Q # {}
        /\ InTask(d) <=> T # {}
        /\ InBarrel(d) <=> B # {}
    BY DEF InQueue, InTask, InBarrel
  <2>5. /\ \A p, q \in Q : p = q
        /\ \A i, j \in T : i = j
        /\ \A b, c \in B : b = c
    BY <2>3 DEF QueueOnce, TaskOnce, BarrelOnce
  <2> HIDE DEF Q, T, B
  <2>6. CASE d \notin Range(consumed)
    <3>1. Q = {} /\ T = {} /\ B = {}
      BY <2>3, <2>4, <2>6 DEF Somewhere
    <3>2. Homes(d) = {}
      BY <2>2, <3>1
    <3> QED
      BY <2>6, <3>2, FS_EmptySet
  <2>7. CASE d \in Range(consumed)
    <3>1. \/ Q # {} /\ T = {} /\ B = {}
          \/ Q = {} /\ T # {} /\ B = {}
          \/ Q = {} /\ T = {} /\ B # {}
      BY <2>3, <2>4, <2>7 DEF Somewhere, OneKind
    <3>2. \E x : Homes(d) = {x}
      <4>1. CASE Q # {} /\ T = {} /\ B = {}
        <5>1. PICK p \in Q : Q = {p}
          BY <2>5, <4>1
        <5>2. Homes(d) = {<<"queue", p>>}
          BY <2>2, <4>1, <5>1
        <5> QED
          BY <5>2
      <4>2. CASE Q = {} /\ T # {} /\ B = {}
        <5>1. PICK i \in T : T = {i}
          BY <2>5, <4>2
        <5>2. Homes(d) = {<<"task", i>>}
          BY <2>2, <4>2, <5>1
        <5> QED
          BY <5>2
      <4>3. CASE Q = {} /\ T = {} /\ B # {}
        <5>1. PICK b \in B : B = {b}
          BY <2>5, <4>3
        <5>2. Homes(d) = {<<"barrel", b>>}
          BY <2>2, <4>3, <5>1
        <5> QED
          BY <5>2
      <4> QED
        BY <3>1, <4>1, <4>2, <4>3
    <3> QED
      BY <2>7, <3>2, FS_Singleton
  <2> QED
    BY <2>6, <2>7
<1> QED
  BY <1>1, BarrelInvariant, PTL

\* The places of SealedOnce are those of the invariant.
LEMMA Occurs ==
  ASSUME ShapeInv, NEW b
  PROVE  /\ \A x \in Occurrences(b) :
               \E kind \in Kinds, n, k \in Nat : x = <<<<kind, n>>, k>> /\ At(b, kind, n, k)
         /\ \A kind, n, k : At(b, kind, n, k) => <<<<kind, n>>, k>> \in Occurrences(b)
<1>1. ASSUME NEW kind, NEW n, NEW k
      PROVE  At(b, kind, n, k) <=> <<kind, n>> \in Places /\ k \in Positions(ListAt(<<kind, n>>), b)
  <2> DEFINE place == <<kind, n>>
  <2>1. place[1] = kind /\ place[2] = n
    OBVIOUS
  <2>2. place \in Places <=> \/ kind \in {"batch", "client", "commit", "disk"} /\ n = 0
                             \/ kind = "task" /\ n \in Tasks
                             \/ kind = "queue" /\ n \in DOMAIN commitQueue
    BY DEF Places
  <2>3. /\ kind = "batch" => ListAt(place) = batch
        /\ kind = "client" => ListAt(place) = clientHand
        /\ kind = "task" => ListAt(place) = taskHand[n]
        /\ kind = "queue" => ListAt(place) = commitQueue[n]
        /\ kind = "commit" => ListAt(place) = inCommit
        /\ kind = "disk" => ListAt(place) = onDisk
    BY <2>1 DEF ListAt
  <2> HIDE DEF place
  <2>4. k \in Positions(ListAt(place), b) <=> k \in DOMAIN ListAt(place) /\ ListAt(place)[k] = b
    BY DEF Positions
  <2>5. At(b, kind, n, k) <=> place \in Places /\ k \in Positions(ListAt(place), b)
    <3>1. CASE kind = "batch"
      BY <2>2, <2>3, <2>4, <3>1 DEF At
    <3>2. CASE kind = "client"
      BY <2>2, <2>3, <2>4, <3>2 DEF At
    <3>3. CASE kind = "task"
      BY <2>2, <2>3, <2>4, <3>3 DEF At
    <3>4. CASE kind = "queue"
      BY <2>2, <2>3, <2>4, <3>4 DEF At
    <3>5. CASE kind = "commit"
      BY <2>2, <2>3, <2>4, <3>5 DEF At
    <3>6. CASE kind = "disk"
      BY <2>2, <2>3, <2>4, <3>6 DEF At
    <3>7. CASE kind \notin Kinds
      BY <2>2, <3>7 DEF At, Kinds
    <3> QED
      BY <3>1, <3>2, <3>3, <3>4, <3>5, <3>6, <3>7 DEF Kinds
  <2> QED
    BY <2>5 DEF place
<1>2. ASSUME NEW kind, NEW n, NEW k, At(b, kind, n, k) PROVE <<<<kind, n>>, k>> \in Occurrences(b)
  <2>1. <<kind, n>> \in Places /\ k \in Positions(ListAt(<<kind, n>>), b)
    BY <1>1, <1>2
  <2> QED
    BY <2>1 DEF Occurrences
<1>3. ASSUME NEW x \in Occurrences(b)
      PROVE  \E kind \in Kinds, n, k \in Nat : x = <<<<kind, n>>, k>> /\ At(b, kind, n, k)
  <2>1. PICK place \in Places : x \in {place} \X Positions(ListAt(place), b)
    BY DEF Occurrences
  <2>2. PICK k \in Positions(ListAt(place), b) : x = <<place, k>>
    BY <2>1
  <2>3. PICK kind, n : place = <<kind, n>>
    BY DEF Places
  <2>4. At(b, kind, n, k)
    BY <1>1, <2>2, <2>3
  <2>5. kind \in Kinds /\ n \in Nat /\ k \in Nat
    BY <2>4, Listed
  <2> QED
    BY <2>2, <2>3, <2>4, <2>5
<1> QED
  BY <1>2, <1>3

\* A barrel goes to the commit thread once, however sealing, handing over and the
\* commit thread interleave, and one with documents is on its way from its sealing on.
THEOREM BarrelsAreSealedOnce == Spec => []SealedOnce
<1>1. BarrelInv => SealedOnce
  <2> SUFFICES ASSUME BarrelInv, commits = 0, NEW b \in BarrelIds
               PROVE  /\ Cardinality(Occurrences(b)) <= 1
                      /\ barrels[b].described # {} => Cardinality(Occurrences(b)) = 1
    BY DEF SealedOnce
  <2>1. Once(b) /\ (barrels[b].described # {} => OnItsWay(b)) /\ ShapeInv
    BY DEF BarrelInv, ChainInv
  <2>2. ASSUME NEW x \in Occurrences(b), NEW y \in Occurrences(b) PROVE x = y
    <3>1. PICK kind \in Kinds, n \in Nat, k \in Nat : x = <<<<kind, n>>, k>> /\ At(b, kind, n, k)
      BY <2>1, Occurs
    <3>2. PICK other \in Kinds, m \in Nat, l \in Nat : y = <<<<other, m>>, l>> /\ At(b, other, m, l)
      BY <2>1, Occurs
    <3> QED
      BY <2>1, <3>1, <3>2 DEF Once
  <2>3. OnItsWay(b) => Occurrences(b) # {}
    BY <2>1, Occurs DEF OnItsWay
  <2>4. CASE Occurrences(b) = {}
    BY <2>1, <2>3, <2>4, FS_EmptySet
  <2>5. CASE Occurrences(b) # {}
    <3>1. PICK x : Occurrences(b) = {x}
      BY <2>2, <2>5
    <3> QED
      BY <3>1, FS_Singleton
  <2> QED
    BY <2>4, <2>5
<1> QED
  BY <1>1, BarrelInvariant, PTL

\* close() leaves nothing behind, in whatever state of the threads it is called.
THEOREM NothingIsLeftBehind == Spec => []CloseKeepsAll
<1>1. BarrelInv => CloseKeepsAll
  <2> SUFFICES ASSUME BarrelInv, clientPc = "closed"
               PROVE  /\ commits = 0 => Range(consumed) \ Updates \subseteq DocsOnDisk
                      /\ docQueue = <<>> /\ updateQueue = <<>> /\ batch = <<>>
    BY DEF CloseKeepsAll
  <2> USE DEF BarrelInv
  <2>1. updaterPc = "exited" /\ updateQueue = <<>>
    BY DEF UpdaterInv
  <2>2. Joined
    BY <2>1 DEF Joined
  <2>3. /\ docQueue = <<>> /\ Ended = Tasks /\ batch = <<>> /\ commitQueue = <<>> /\ inCommit = <<>>
        /\ \A i \in Tasks : taskPc[i] = "exited"
    BY <2>2 DEF StopInv
  <2>4. ASSUME commits = 0, NEW d \in Range(consumed) \ Updates PROVE d \in DocsOnDisk
    <3>1. d \in Added
      <4>1. Range(consumed) \subseteq Docs
        BY SequenceOf DEF ShapeInv, ClientShape
      <4> QED
        BY <4>1 DEF Added
    <3>2. DOMAIN <<>> = {}
      BY EmptySequence, SequenceShape
    <3>3. ~ InQueue(d)
      BY <2>3, <3>2 DEF InQueue
    <3>4. ~ InTask(d)
      BY <2>3, <3>1, DummyAndNull DEF InTask, Ended, Added
    <3>5. PICK b \in BarrelIds : d \in Range(barrels[b].docs)
      BY <3>1, <3>3, <3>4 DEF HomeInv, Somewhere, InBarrel
    <3>6. barrels[b].sealed
      BY <2>3, <2>4 DEF SealInv, Live
    <3>7. d \in barrels[b].described
      BY <2>4, <3>5, <3>6 DEF SealInv
    <3>8. OnItsWay(b)
      BY <2>4, <3>7 DEF ChainInv
    <3>9. clientHand = <<>> /\ \A i \in Tasks : taskHand[i] = <<>>
      BY <2>3 DEF ShapeInv, ClientShape, HandOffPlaces, TaskShape, TaskState
    <3>10. \E k \in DOMAIN onDisk : onDisk[k] = b
      BY <2>3, <3>2, <3>8, <3>9 DEF OnItsWay, At
    <3>11. b \in Range(onDisk)
      BY <3>10 DEF Range
    <3> QED
      BY <3>7, <3>11 DEF DocsOnDisk
  <2> QED
    BY <2>1, <2>3, <2>4
<1> QED
  BY <1>1, BarrelInvariant, PTL

-----------------------------------------------------------------------------
(* One building thread                                                     *)

LEMMA SingleAppend ==
  ASSUME NEW x
  PROVE  Append(<<>>, x) # <<>> /\ Len(Append(<<>>, x)) = 1 /\ Append(<<>>, x)[1] = x
<1>1. PICK e : e = <<>> /\ IsSequence(e) /\ Len(e) = 0
  BY EmptySequence
<1>2. IsSequence(Append(e, x)) /\ Len(Append(e, x)) = Len(e) + 1 /\ Append(e, x)[Len(e) + 1] = x
  BY <1>1, AppendSequence
<1>3. Len(Append(e, x)) = 1 /\ Append(e, x)[1] = x
  BY <1>1, <1>2
<1>4. Append(e, x) # e
  BY <1>1, <1>3
<1> QED
  BY <1>1, <1>3, <1>4

LEMMA LineStep ==
  ASSUME ShapeInv, LineInv, BuildThreadCount = 1, commits = 0, BarrelStep
  PROVE  LineInv'
<1> USE DEF ShapeInv
<1> DEFINE disk == Len(onDisk)
           taken == disk + Len(inCommit)
           queued == taken + Len(commitQueue)
           hand == taskHand[1]
           OnDisk == \A k \in 1..disk : onDisk[k] = commitMap[k]
           InCommit == Len(inCommit) <= 1 /\ (inCommit # <<>> => inCommit[1] = commitMap[disk + 1])
           Queued == \A n \in 1..Len(commitQueue) : Len(commitQueue[n]) = 1 /\ commitQueue[n][1] = commitMap[taken + n]
           Handed == Len(hand) <= 1 /\ (hand # <<>> => hand[1] = commitMap[queued + 1])
           Sealed == Len(commitMap) = queued + Len(hand)
           Free == batch = <<>> /\ clientHand = <<>>
           Line == Free /\ OnDisk /\ InCommit /\ Queued /\ Handed /\ Sealed
<1>1. /\ IsSequence(onDisk) /\ IsSequence(inCommit) /\ IsSequence(commitQueue) /\ IsSequence(commitMap)
      /\ Tasks = {1} /\ IsSequence(hand)
      /\ taskHand \in [Tasks -> Seq(BarrelIds)]
  <2>1. Tasks = {1}
    BY DEF Tasks
  <2> QED
    BY <2>1, SequenceOf DEF KeeperShape, TaskShape
<1>2. /\ Len(onDisk) \in Nat /\ Len(inCommit) \in Nat /\ Len(commitQueue) \in Nat /\ Len(commitMap) \in Nat /\ Len(hand) \in Nat
      /\ DOMAIN commitQueue = 1..Len(commitQueue)
      /\ inCommit = <<>> <=> Len(inCommit) = 0
      /\ hand = <<>> <=> Len(hand) = 0
  BY <1>1, SequenceShape
<1>3. Line
  BY <1>2 DEF LineInv
<1>4. DOMAIN commitQueue' = 1..Len(commitQueue') /\ Line' => LineInv'
  BY DEF LineInv
<1>5. ASSUME ListsStay PROVE LineInv'
  BY <1>2, <1>3, <1>4, <1>5 DEF ListsStay
<1> HIDE DEF OnDisk, InCommit, Queued, Handed, Sealed, Free
<1>A. /\ Free /\ OnDisk /\ InCommit /\ Queued /\ Handed /\ Sealed
      /\ inCommit # <<>> => Len(inCommit) = 1
      /\ hand # <<>> => Len(hand) = 1
  <2>1. Free /\ OnDisk /\ InCommit /\ Queued /\ Handed /\ Sealed
    BY <1>3
  <2>2. inCommit # <<>> => Len(inCommit) = 1
    <3>1. Len(inCommit) <= 1
      BY <2>1 DEF InCommit
    <3> QED
      BY SMTT(60), <1>2, <3>1
  <2>3. hand # <<>> => Len(hand) = 1
    <3>1. Len(hand) <= 1
      BY <2>1 DEF Handed
    <3>2. Len(hand) \in Nat /\ (hand = <<>> <=> Len(hand) = 0)
      BY <1>2
    <3>3. PICK n \in Nat : n = Len(hand)
      BY <3>2
    <3> HIDE DEF hand
    <3>4. n <= 1
      BY <3>1, <3>3
    <3>5. n = 0 \/ n = 1
      BY <3>4
    <3> QED
      BY <3>2, <3>3, <3>5
  <2> QED
    BY <2>1, <2>2, <2>3
<1>6. ASSUME NEW i \in Tasks, SealFull(i) \/ SealLast(i) PROVE LineInv'
  <2> DEFINE w == writer[1]
  <2>1. /\ i = 1 /\ SealBarrel(w) /\ taskHand' = [taskHand EXCEPT ![1] = SealedBatch(w)] /\ UNCHANGED clientHand
        /\ hand = <<>>
    <3>1. i = 1
      BY <1>1
    <3>2. taskPc[i] # "handOff" /\ TaskState(taskPc[i], taskMsg[i], taskHand[i])
      BY <1>6 DEF SealFull, SealLast, TaskShape
    <3> QED
      BY <1>6, <3>1, <3>2 DEF SealFull, SealLast, TaskSeal, TaskState, clientVars
  <2>2. /\ commitMap' = IF Counts(w) THEN Append(commitMap, w) ELSE commitMap
        /\ batch' = IF SealedBatch(w) # <<>> THEN <<>> ELSE Gathered(w)
        /\ UNCHANGED <<commitQueue, inCommit, onDisk>> /\ hand' = SealedBatch(w)
    BY <1>1, <2>1 DEF SealBarrel
  <2>3. CASE Counts(w)
    <3> DEFINE one == Append(<<>>, w)
    <3>1. Len(one) = 1 /\ one[1] = w /\ one # <<>>
      BY SingleAppend
    <3>2. SealedBatch(w) = one
      BY <1>A, <2>3, <3>1 DEF SealedBatch, Gathered, Free
    <3>3. /\ Len(commitMap') = Len(commitMap) + 1 /\ commitMap'[Len(commitMap) + 1] = w
          /\ \A k \in 1..Len(commitMap) : commitMap'[k] = commitMap[k]
      BY <1>1, <2>2, <2>3, AppendSequence
    <3>4. Len(commitMap) = queued
      BY <1>A, <1>2, <2>1 DEF Sealed
    <3> HIDE DEF one, w
    <3>5. Free' /\ OnDisk' /\ InCommit' /\ Queued'
      <4>1. Free'
        BY <1>A, <2>1, <2>2, <3>1, <3>2 DEF Free
      <4>2. OnDisk'
        <5> SUFFICES ASSUME NEW k \in 1..disk PROVE onDisk[k] = commitMap'[k]
          BY <2>2 DEF OnDisk
        <5>1. k \in 1..Len(commitMap)
          BY <1>2, <3>4
        <5> QED
          BY <1>A, <3>3, <5>1 DEF OnDisk
      <4>3. InCommit'
        <5>1. inCommit # <<>> => disk + 1 \in 1..Len(commitMap)
          BY <1>A, <1>2, <3>4
        <5> QED
          BY <1>A, <2>2, <3>3, <5>1 DEF InCommit
      <4>4. Queued'
        <5> SUFFICES ASSUME NEW n \in 1..Len(commitQueue) PROVE Len(commitQueue[n]) = 1 /\ commitQueue[n][1] = commitMap'[taken + n]
          BY <2>2 DEF Queued
        <5>1. taken + n \in 1..Len(commitMap)
          BY <1>2, <3>4
        <5> QED
          BY <1>A, <3>3, <5>1 DEF Queued
      <4> QED
        BY <4>1, <4>2, <4>3, <4>4
    <3>6. Handed' /\ Sealed'
      <4>1. hand' = one /\ queued' = queued
        BY <2>2, <3>2
      <4>2. Len(commitMap') = queued + 1 /\ commitMap'[queued + 1] = w
        BY <3>3, <3>4
      <4>3. Len(one) = 1 /\ one[1] = w
        BY <3>1
      <4>4. Handed'
        BY <4>1, <4>2, <4>3 DEF Handed
      <4>5. Sealed'
        BY <4>1, <4>2, <4>3 DEF Sealed
      <4> QED
        BY <4>4, <4>5
    <3> QED
      BY <1>2, <1>4, <2>2, <3>5, <3>6
  <2>4. CASE ~ Counts(w)
    <3>1. SealedBatch(w) = <<>> /\ Gathered(w) = <<>>
      BY <1>A, <2>4 DEF SealedBatch, Gathered, Free
    <3>2. UNCHANGED <<commitMap, batch, clientHand, commitQueue, inCommit, onDisk>> /\ hand' = hand
      BY <1>A, <2>1, <2>2, <2>4, <3>1 DEF Free
    <3> QED
      BY <1>2, <1>3, <1>4, <3>2 DEF Free, OnDisk, InCommit, Queued, Handed, Sealed
  <2> QED
    BY <2>3, <2>4
<1>7. ASSUME NEW i \in Tasks, TaskHandOff(i) PROVE LineInv'
  <2>1. /\ i = 1 /\ taskPc[1] = "handOff" /\ Submit(hand) /\ taskHand' = [taskHand EXCEPT ![1] = <<>>]
        /\ UNCHANGED clientHand
    BY <1>1, <1>7 DEF TaskHandOff, clientVars
  <2>2. hand # <<>> /\ Len(hand) = 1
    <3>1. hand # <<>>
      BY <1>1, <2>1 DEF TaskShape, TaskState
    <3> QED
      BY <1>A, <3>1
  <2>3. /\ IsSequence(commitQueue') /\ Len(commitQueue') = Len(commitQueue) + 1
        /\ commitQueue'[Len(commitQueue) + 1] = hand
        /\ \A n \in 1..Len(commitQueue) : commitQueue'[n] = commitQueue[n]
        /\ UNCHANGED <<commitMap, batch, inCommit, onDisk>> /\ hand' = <<>>
    BY <1>1, <2>1, AppendSequence DEF Submit
  <2>4. Queued'
    <3> SUFFICES ASSUME NEW n \in 1..(Len(commitQueue) + 1)
                 PROVE  Len(commitQueue'[n]) = 1 /\ commitQueue'[n][1] = commitMap[taken + n]
      BY <2>3 DEF Queued
    <3>1. CASE n = Len(commitQueue) + 1
      <4>1. taken + n = queued + 1
        BY <1>2, <3>1
      <4> QED
        BY <1>A, <2>2, <2>3, <3>1, <4>1 DEF Handed
    <3>2. CASE n \in 1..Len(commitQueue)
      BY <1>A, <2>3, <3>2 DEF Queued
    <3> QED
      BY <1>2, <3>1, <3>2
  <2>5. Free' /\ OnDisk' /\ InCommit'
    BY <1>A, <2>1, <2>3 DEF Free, OnDisk, InCommit
  <2>6. Handed' /\ Sealed'
    BY <1>A, <1>2, <2>2, <2>3, EmptySequence DEF Handed, Sealed
  <2>7. DOMAIN commitQueue' = 1..Len(commitQueue')
    BY <2>3, SequenceShape
  <2> QED
    BY <1>4, <2>4, <2>5, <2>6, <2>7
<1>8. ASSUME CommitTake, UNCHANGED <<taskHand, clientHand>> PROVE LineInv'
  <2>1. /\ inCommit = <<>> /\ commitQueue # <<>> /\ inCommit' = Head(commitQueue) /\ commitQueue' = Tail(commitQueue)
        /\ UNCHANGED <<commitMap, batch, onDisk>>
    BY <1>8 DEF CommitTake
  <2>2. /\ IsSequence(commitQueue') /\ Len(commitQueue') = Len(commitQueue) - 1 /\ inCommit' = commitQueue[1]
        /\ 1 \in 1..Len(commitQueue)
        /\ \A n \in 1..(Len(commitQueue) - 1) : commitQueue'[n] = commitQueue[n + 1] /\ n + 1 \in 1..Len(commitQueue)
    BY <1>1, <1>2, <2>1, TailSequence
  <2>3. Len(inCommit') = 1 /\ inCommit'[1] = commitMap[disk + 1] /\ taken = disk
    <3>1. taken = disk
      BY <1>2, <2>1
    <3>2. Len(commitQueue[1]) = 1 /\ commitQueue[1][1] = commitMap[taken + 1]
      BY <1>A, <2>2 DEF Queued
    <3> QED
      BY <2>2, <3>1, <3>2
  <2>4. Queued'
    <3> SUFFICES ASSUME NEW n \in 1..(Len(commitQueue) - 1)
                 PROVE  Len(commitQueue'[n]) = 1 /\ commitQueue'[n][1] = commitMap[(disk + 1) + n]
      BY <2>1, <2>2, <2>3 DEF Queued
    <3>1. (disk + 1) + n = taken + (n + 1)
      BY SMTT(60), <1>2, <2>3
    <3> QED
      BY <1>A, <2>2, <3>1 DEF Queued
  <2>5. Free' /\ OnDisk' /\ InCommit'
    BY <1>A, <1>8, <2>1, <2>3 DEF Free, OnDisk, InCommit
  <2>6. Handed' /\ Sealed'
    <3>1. queued' = queued
      <4>1. Len(inCommit) = 0 /\ Len(onDisk') = Len(onDisk)
        BY <1>2, <2>1
      <4> QED
        BY <1>2, <2>2, <2>3, <4>1
    <3>2. UNCHANGED <<hand, commitMap>>
      BY <1>8, <2>1
    <3> HIDE DEF queued, hand
    <3> QED
      BY <1>A, <3>1, <3>2 DEF Handed, Sealed
  <2>7. DOMAIN commitQueue' = 1..Len(commitQueue')
    BY <2>2, SequenceShape
  <2> QED
    BY <1>4, <2>4, <2>5, <2>6, <2>7
<1>9. ASSUME CommitBatch, UNCHANGED <<taskHand, clientHand>> PROVE LineInv'
  <2>1. /\ inCommit # <<>> /\ inCommit' = <<>> /\ onDisk' = onDisk \o inCommit
        /\ UNCHANGED <<commitMap, batch, commitQueue>>
    BY <1>9 DEF CommitBatch
  <2>2. Len(inCommit) = 1
    BY <1>A, <2>1
  <2>3. /\ Len(onDisk') = disk + 1 /\ onDisk'[disk + 1] = inCommit[1]
        /\ \A k \in 1..disk : onDisk'[k] = onDisk[k]
    <3>1. Len(onDisk \o inCommit) = Len(onDisk) + Len(inCommit)
      BY <1>1, ConcatSequence
    <3>2. \A k \in 1..Len(onDisk) : (onDisk \o inCommit)[k] = onDisk[k]
      BY <1>1, ConcatSequence
    <3>3. \A k \in 1..Len(inCommit) : (onDisk \o inCommit)[Len(onDisk) + k] = inCommit[k]
      BY <1>1, ConcatSequence
    <3>4. (onDisk \o inCommit)[Len(onDisk) + 1] = inCommit[1]
      BY <2>2, <3>3
    <3> QED
      BY <2>1, <2>2, <3>1, <3>2, <3>4
  <2>4. taken' = taken /\ queued' = queued /\ Len(inCommit') = 0
    BY <1>2, <2>1, <2>2, <2>3, EmptySequence
  <2>5. OnDisk'
    <3> SUFFICES ASSUME NEW k \in 1..(disk + 1) PROVE onDisk'[k] = commitMap[k]
      BY <2>1, <2>3 DEF OnDisk
    <3>1. CASE k = disk + 1
      BY <1>A, <2>1, <2>3, <3>1 DEF InCommit
    <3>2. CASE k \in 1..disk
      BY <1>A, <2>3, <3>2 DEF OnDisk
    <3> QED
      BY <1>2, <3>1, <3>2
  <2>6. Free' /\ InCommit' /\ Queued' /\ Handed' /\ Sealed'
    <3>1. UNCHANGED <<hand, commitMap, commitQueue, batch, clientHand>>
      BY <1>9, <2>1
    <3>2. Free' /\ InCommit'
      BY <1>A, <2>1, <2>4, <3>1 DEF Free, InCommit
    <3> HIDE DEF taken, queued, hand
    <3>3. Queued' /\ Handed' /\ Sealed'
      BY <1>A, <2>4, <3>1 DEF Queued, Handed, Sealed
    <3> QED
      BY <3>2, <3>3
  <2>7. DOMAIN commitQueue' = 1..Len(commitQueue')
    BY <1>2, <2>1
  <2> QED
    BY <1>4, <2>5, <2>6, <2>7
<1>10. ASSUME Flush PROVE LineInv'
  <2>1. UNCHANGED <<commitMap, batch, clientHand, commitQueue, inCommit, onDisk, taskHand>>
    BY <1>A, <1>10 DEF Flush, ResetMerger, taskVars, Free
  <2> QED
    BY <1>5, <2>1 DEF ListsStay
<1>11. ~ ClientHandOff
  BY <1>A DEF ClientHandOff, ClientShape, HandOffPlaces, Free
<1>12. ASSUME NEW i \in Tasks, Renew(i) \/ AddStep(i) PROVE LineInv'
  BY <1>5, <1>12 DEF Renew, AddStep, ProcessAdd, CreateBarrelWriter, AddDocument, ListsStay, clientVars
<1>13. ASSUME CommitThreadStep PROVE LineInv'
  BY <1>8, <1>9, <1>13 DEF CommitThreadStep, taskVars, clientVars
<1> QED
  BY <1>5, <1>6, <1>7, <1>10, <1>11, <1>12, <1>13 DEF BarrelStep

\* With one building thread, barrels reach the disk in the order in which they were
\* sealed, which is that of the document ids they were given.
THEOREM OneThreadCommitsInOrder == Spec => []CommittedInSealOrder
<1> DEFINE Inv == BarrelInv /\ LineInv
<1>1. Init => LineInv
  <2> SUFFICES ASSUME Init, BuildThreadCount = 1 PROVE LineInv
    BY DEF LineInv
  <2>1. taskHand[1] = <<>>
    BY DEF Init, Tasks
  <2>2. DOMAIN <<>> = {} /\ Len(<<>>) = 0
    BY EmptySequence, SequenceShape
  <2> QED
    BY <2>1, <2>2 DEF Init, KeeperInit, LineInv
<1>2. BarrelInv /\ LineInv /\ [Next]_vars => LineInv'
  <2> SUFFICES ASSUME BarrelInv, LineInv, [Next]_vars, BuildThreadCount = 1, commits' = 0 PROVE LineInv'
    BY DEF LineInv
  <2>1. commits = 0 /\ BarrelStep
    BY BarrelSteps DEF BarrelInv
  <2> QED
    BY <2>1, LineStep DEF BarrelInv
<1>3. BarrelInv /\ LineInv => CommittedInSealOrder
  <2> SUFFICES ASSUME ShapeInv, LineInv, BuildThreadCount = 1, commits = 0
               PROVE  onDisk = SubSeq(commitMap, 1, Len(onDisk))
    BY DEF CommittedInSealOrder, BarrelInv
  <2> DEFINE n == Len(onDisk)
  <2>1. onDisk \in Seq(BarrelIds) /\ commitMap \in Seq(BarrelIds) /\ n \in Nat
    BY DEF ShapeInv, KeeperShape
  <2>2. \A k \in 1..n : onDisk[k] = commitMap[k]
    BY DEF LineInv
  <2>3. n <= Len(commitMap)
    <3>1. Len(inCommit) \in Nat /\ Len(commitQueue) \in Nat /\ Len(taskHand[1]) \in Nat
      BY DEF ShapeInv, KeeperShape, TaskShape, Tasks
    <3>2. Len(commitMap) = ((n + Len(inCommit)) + Len(commitQueue)) + Len(taskHand[1])
      BY DEF LineInv
    <3>3. PICK p \in Nat, q \in Nat, r \in Nat : p = Len(inCommit) /\ q = Len(commitQueue) /\ r = Len(taskHand[1])
      BY <3>1
    <3>4. Len(commitMap) = ((n + p) + q) + r
      BY <3>2, <3>3
    <3> HIDE DEF n
    <3> QED
      BY <2>1, <3>4
  <2> QED
    BY <2>1, <2>2, <2>3, SubSeqProperties, SeqEqual
<1> QED
  BY <1>1, <1>2, <1>3, BarrelInvariant, PTL DEF Spec

-----------------------------------------------------------------------------
(* The first commit(), called while nothing else is going on               *)

\* the client's steps that only wait for a queue
Advance ==
    \/ clientPc' = clientPc
    \/ clientPc = "waitUpdates" /\ clientPc' = "force"
    \/ clientPc = "force" /\ clientPc' = "waitDocs"
    \/ clientPc = "waitDocs" /\ clientPc' = "seal"
    \/ clientPc = "waitCommit" /\ clientPc' = "reset" /\ commitQueue = <<>>

LEMMA OnlyDummies ==
  ASSUME NEW s, IsSequence(s), Range(s) \subseteq {Dummy}
  PROVE  /\ s # <<>> => Head(s) = Dummy /\ Range(Tail(s)) \subseteq {Dummy}
         /\ Range(Append(s, Dummy)) \subseteq {Dummy}
<1>1. CASE s # <<>>
  <2>1. Head(s) \in Range(s)
    BY <1>1, TailSequence, SequenceShape DEF Range
  <2> QED
    BY <1>1, <2>1, TailSequence, AppendSequence
<1> QED
  BY <1>1, AppendSequence

LEMMA CalmSteps ==
  ASSUME ShapeInv, UpdaterInv, CalmInv, [Next]_vars, CalmCommit', ~ Commit
  PROVE  /\ CalmCommit /\ Quiet' /\ promised' = promised
         /\ \/ UNCHANGED <<keeperVars, writer, clientHand, turn>> /\ Advance
            \/ CommitThreadStep \/ ForceSeal \/ ForceRenew \/ Flush \/ ClientHandOff
<1>1. IsSequence(docQueue) /\ IsSequence(updateQueue)
  BY SequenceOf DEF ShapeInv, QueueShape
<1>2. updaterPc # "exited"
  <2>1. updaterPc = "exited" => ~ UpdaterStep
    BY DEF UpdaterStep, UpdaterTake, UpdaterMiss, UpdaterPass, UpdaterDelete, UpdaterSpin
  <2>2. UpdaterStep \/ updaterPc' = updaterPc
    BY OthersLeaveUpdater DEF updaterVars
  <2> QED
    BY <2>1, <2>2 DEF CalmCommit
<1>3. clientPc' \notin {"idle", "drain", "closed"} \cup StopPlaces
  BY DEF CalmCommit, CommitPlaces, ForcePlaces, WaitPlaces, StopPlaces
<1> DEFINE Waits == WaitUpdates \/ ForceTask \/ WaitDocs \/ WaitCommit
           Works == ForceSeal \/ ForceRenew \/ Flush \/ ClientHandOff
<1>4. Waits \/ Works \/ UNCHANGED <<clientVars, history>>
  <2>1. ASSUME NEW d \in Docs, Consume(d) PROVE FALSE
    BY <1>3, <2>1 DEF Consume, MayCall, clientVars
  <2>2. ASSUME NEW key \in Range(Key), Delete(key) PROVE FALSE
    BY <1>3, <2>2 DEF Delete, MayCall
  <2>3. ~ Stop
    BY <1>3 DEF Stop, StopPlaces
  <2>4. ~ JoinTasks
    BY <1>2 DEF JoinTasks, UpdaterInv
  <2>5. ~ Reset /\ ~ JoinUpdater /\ ~ StopTask /\ ~ StopWait /\ ~ CloseScheduler
    <3>1. ~ Reset
      BY <1>3 DEF Reset, ClientGoto
    <3>2. ~ JoinUpdater /\ ~ StopTask /\ ~ StopWait /\ ~ CloseScheduler
      BY <1>3 DEF JoinUpdater, StopTask, StopWait, CloseScheduler, ClientGoto, StopPlaces
    <3> QED
      BY <3>1, <3>2
  <2> QED
    BY <2>1, <2>2, <2>3, <2>4, <2>5, OthersLeaveClient DEF ClientStep
<1>5. CalmCommit /\ promised' = promised
  <2>1. CASE UNCHANGED <<clientVars, history>>
    BY <1>2, <2>1 DEF CalmCommit, clientVars, history
  <2>2. CASE Waits
    <3>1. UNCHANGED <<commits, calm, promised>>
      BY <2>2 DEF WaitUpdates, ForceTask, WaitDocs, WaitCommit, ClientGoto, history
    <3>2. clientPc \in CommitPlaces \cup WaitPlaces
      BY <2>2 DEF WaitUpdates, ForceTask, WaitDocs, WaitCommit, CommitPlaces, ForcePlaces, WaitPlaces
    <3> QED
      BY <1>2, <3>1, <3>2 DEF CalmCommit
  <2>3. CASE Works
    <3>1. UNCHANGED <<commits, calm, promised>>
      BY <2>3 DEF ForceSeal, ForceRenew, Flush, ClientHandOff, history
    <3>2. clientPc \in CommitPlaces \cup WaitPlaces
      BY <2>3 DEF ForceSeal, ForceRenew, Flush, ClientHandOff, CommitPlaces, ForcePlaces, WaitPlaces
    <3> QED
      BY <1>2, <3>1, <3>2 DEF CalmCommit
  <2> QED
    BY <1>4, <2>1, <2>2, <2>3
<1>6. Quiet
  BY <1>5 DEF CalmInv
<1>7. Range(docQueue) \subseteq {Dummy} /\ Range(updateQueue) \subseteq {Dummy}
  BY <1>6 DEF Quiet
<1>8. ASSUME Range(docQueue') \subseteq {Dummy}, Range(updateQueue') \subseteq {Dummy},
             UNCHANGED <<updaterPc, taskPc>>
      PROVE  Quiet'
  <2>1. Tasks' = Tasks
    BY DEF Tasks
  <2> QED
    BY <1>6, <1>8, <2>1 DEF Quiet
<1> DEFINE Goal == /\ Quiet'
                   /\ \/ UNCHANGED <<keeperVars, writer, clientHand, turn>> /\ Advance
                      \/ CommitThreadStep \/ ForceSeal \/ ForceRenew \/ Flush \/ ClientHandOff
<1> SUFFICES Goal
  BY <1>5
<1>9. CASE Waits
  <2>1. UNCHANGED <<keeperVars, taskVars, updaterVars, clientHand, turn>> /\ Advance
    BY <1>9 DEF WaitUpdates, ForceTask, WaitDocs, WaitCommit, ClientGoto, Advance
  <2>2. (UNCHANGED queues) \/ (docQueue' = Append(docQueue, Dummy) /\ updateQueue' = updateQueue)
    BY <1>9 DEF WaitUpdates, ForceTask, WaitDocs, WaitCommit, EnqueueDoc
  <2>3. Range(docQueue') \subseteq {Dummy} /\ Range(updateQueue') \subseteq {Dummy}
    BY <1>1, <1>7, <2>2, OnlyDummies DEF queues
  <2> QED
    BY <1>8, <2>1, <2>3 DEF taskVars, updaterVars
<1>10. CASE Works
  <2>1. UNCHANGED <<queues, taskPc, updaterPc>>
    BY <1>10 DEF ForceSeal, ForceRenew, Flush, ClientHandOff, taskVars, updaterVars
  <2> QED
    BY <1>7, <1>8, <1>10, <2>1 DEF queues
<1>11. CASE UNCHANGED <<clientVars, history>> /\ ~ Waits /\ ~ Works
  <2>0. clientPc' = clientPc /\ UNCHANGED <<clientHand, turn>> /\ Advance
    BY <1>11 DEF clientVars, Advance
  <2>1. ASSUME NEW i \in Tasks, TaskStep(i) PROVE Goal
    <3>1. TaskTake(i)
      BY <1>6, <2>1 DEF Quiet, TaskStep, SealFull, NotFull, TaskHandOff, Renew, SealLast, ProcessAdd,
                        ProcessDelete, ProcessElsewhere, Pass
    <3>2. Head(docQueue) = Dummy /\ Range(Tail(docQueue)) \subseteq {Dummy}
      BY <1>1, <1>7, <3>1, OnlyDummies DEF TaskTake
    <3>3. /\ docQueue' = Tail(docQueue) /\ UNCHANGED <<taskPc, updateQueue, updaterVars>>
          /\ UNCHANGED <<keeperVars, writer>>
      BY <3>1, <3>2 DEF TaskTake
    <3> QED
      BY <1>7, <1>8, <2>0, <3>2, <3>3 DEF updaterVars
  <2>2. ASSUME UpdaterStep PROVE Goal
    <3>1. UpdaterTake
      BY <1>6, <2>2 DEF Quiet, UpdaterStep, UpdaterMiss, UpdaterPass, UpdaterDelete, UpdaterSpin
    <3>2. Head(updateQueue) = Dummy /\ Range(Tail(updateQueue)) \subseteq {Dummy}
      BY <1>1, <1>7, <3>1, OnlyDummies DEF UpdaterTake
    <3>3. /\ updateQueue' = Tail(updateQueue) /\ UNCHANGED <<docQueue, updaterVars, taskVars, keeperVars>>
      BY <3>1, <3>2 DEF UpdaterTake
    <3> QED
      BY <1>7, <1>8, <2>0, <3>2, <3>3 DEF updaterVars, taskVars
  <2>3. CASE CommitThreadStep
    <3>1. UNCHANGED <<queues, taskVars, updaterVars>>
      BY <2>3 DEF CommitThreadStep
    <3> QED
      BY <1>7, <1>8, <2>3, <3>1 DEF queues, taskVars, updaterVars
  <2>4. CASE UpdaterSpinning \/ Closed \/ UNCHANGED vars
    <3>1. UNCHANGED <<keeperVars, queues, taskVars, updaterVars>>
      BY <2>4 DEF UpdaterSpinning, Closed, vars
    <3> QED
      BY <1>7, <1>8, <2>0, <3>1 DEF queues, taskVars, updaterVars
  <2>5. ASSUME NEW d \in Docs, Consume(d) PROVE FALSE
    BY <1>3, <2>5 DEF Consume, MayCall, clientVars
  <2>6. ASSUME NEW key \in Range(Key), Delete(key) PROVE FALSE
    BY <1>3, <2>6 DEF Delete, MayCall
  <2>7. ~ Stop
    BY <1>3 DEF Stop, StopPlaces
  <2>8. ~ ClientStep
    <3>1. ~ Reset /\ ~ JoinUpdater /\ ~ StopTask /\ ~ StopWait /\ ~ CloseScheduler /\ ~ JoinTasks
      <4>1. clientPc \notin {"joinUpdater", "stopTasks", "stopWait", "joinTasks", "drain"}
        BY <1>3, <2>0 DEF StopPlaces
      <4>2. ~ Reset
        BY <1>3, <2>0 DEF Reset, ClientGoto
      <4> QED
        BY <4>1, <4>2 DEF JoinUpdater, StopTask, StopWait, CloseScheduler, JoinTasks
    <3> QED
      BY <1>11, <3>1 DEF ClientStep
  <2> QED
    BY <2>1, <2>2, <2>3, <2>4, <2>5, <2>6, <2>7, <2>8 DEF Next
<1> QED
  BY <1>4, <1>9, <1>10, <1>11

\* Each step keeps every document where it can still be sealed or is on its way.
LEMMA KeptAdvance ==
  ASSUME Kept, promised' = promised, UNCHANGED <<keeperVars, writer, clientHand, turn>>, Advance
  PROVE  Kept'
<1>1. UNCHANGED <<barrels, batch, commitQueue, inCommit, onDisk>>
  BY DEF keeperVars
<1>2. \A b : Carried(b)' <=> Carried(b)
  BY <1>1 DEF Carried
<1>3. BarrelIds' = BarrelIds /\ Tasks' = Tasks
  BY <1>1 DEF BarrelIds, Tasks
<1>4. ASSUME NEW i, ToSeal(i) PROVE ToSeal(i)'
  BY <1>4 DEF ToSeal, Advance
<1>5. ASSUME NEW d, NEW b, KeptOpen(d, b) PROVE KeptOpen(d, b)'
  <2>1. PICK i \in Tasks : writer[i] = b /\ ToSeal(i)
    BY <1>5 DEF KeptOpen
  <2>2. ToSeal(i)' /\ writer'[i] = b
    BY <1>4, <2>1
  <2> QED
    BY <1>1, <1>3, <1>5, <2>2 DEF KeptOpen
<1>6. ASSUME NEW d, NEW b, KeptSealed(d, b) PROVE KeptSealed(d, b)'
  <2>1. clientPc \in CommitPlaces \cup {"flushAgain"} => clientPc' \in CommitPlaces \cup {"flushAgain"}
    BY DEF Advance, CommitPlaces, ForcePlaces
  <2>2. clientPc # "reset" => clientPc' # "reset" \/ DOMAIN commitQueue = {}
    BY EmptySequence, SequenceShape DEF Advance
  <2> QED
    BY <1>1, <1>6, <2>1, <2>2 DEF KeptSealed
<1> QED
  BY <1>1, <1>2, <1>3, <1>5, <1>6 DEF Kept

LEMMA KeptCommitThread ==
  ASSUME KeeperShape, Kept, CommitThreadStep
  PROVE  Kept'
<1>1. IsSequence(commitQueue) /\ IsSequence(inCommit) /\ IsSequence(onDisk)
  BY SequenceOf DEF KeeperShape
<1>2. UNCHANGED <<batch, writer, clientPc, turn, clientHand, promised>>
  BY DEF CommitThreadStep, CommitTake, CommitBatch, taskVars, clientVars, history
<1>3. CASE CommitTake
  <2>1. UNCHANGED <<barrels, onDisk>> /\ inCommit = <<>> /\ inCommit' = Head(commitQueue)
        /\ commitQueue # <<>> /\ commitQueue' = Tail(commitQueue)
    BY <1>3 DEF CommitTake
  <2>2. /\ inCommit' = commitQueue[1] /\ 1 \in DOMAIN commitQueue
        /\ DOMAIN commitQueue' = 1..(Len(commitQueue) - 1) /\ DOMAIN commitQueue = 1..Len(commitQueue)
        /\ \A n \in DOMAIN commitQueue' : commitQueue'[n] = commitQueue[n + 1] /\ n + 1 \in DOMAIN commitQueue
    BY <1>1, <2>1, TailSequence, SequenceShape
  <2>3. Range(inCommit) = {} /\ Len(commitQueue) \in Nat
    BY <1>1, <2>1, EmptySequence, SequenceShape
  <2>4. BarrelIds' = BarrelIds /\ Tasks' = Tasks
    BY <2>1 DEF BarrelIds, Tasks
  <2>5. ASSUME NEW b, Carried(b)' PROVE Carried(b)
    BY <1>2, <2>2, <2>5 DEF Carried
  <2>6. ASSUME NEW d, NEW b, KeptOpen(d, b) PROVE KeptOpen(d, b)'
    BY <1>2, <2>1, <2>4, <2>6 DEF KeptOpen, ToSeal
  <2>7. ASSUME NEW d, NEW b, KeptSealed(d, b) PROVE KeptSealed(d, b)'
    <3>1. ASSUME NEW n \in DOMAIN commitQueue, b \in Range(commitQueue[n])
          PROVE  b \in Range(inCommit') \/ \E m \in DOMAIN commitQueue' : b \in Range(commitQueue'[m])
      <4>1. CASE n = 1
        BY <2>2, <3>1, <4>1
      <4>2. CASE n # 1
        <5>1. n - 1 \in DOMAIN commitQueue' /\ (n - 1) + 1 = n
          BY <2>2, <2>3, <4>2
        <5> QED
          BY <2>2, <3>1, <5>1
      <4> QED
        BY <4>1, <4>2
    <3> QED
      BY <1>2, <2>1, <2>3, <2>7, <3>1 DEF KeptSealed
  <2> QED
    BY <1>2, <2>1, <2>4, <2>5, <2>6, <2>7 DEF Kept
<1>4. CASE CommitBatch
  <2>1. UNCHANGED commitQueue /\ onDisk' = onDisk \o inCommit /\ inCommit' = <<>>
    BY <1>4 DEF CommitBatch
  <2>2. Range(onDisk') = Range(onDisk) \cup Range(inCommit) /\ Range(inCommit') = {}
    BY <1>1, <2>1, ConcatSequence, EmptySequence
  <2>3. /\ Len(barrels') = Len(barrels)
        /\ \A c \in BarrelIds : /\ barrels'[c].docs = barrels[c].docs
                                /\ barrels'[c].sealed = barrels[c].sealed
                                /\ barrels'[c].described = barrels[c].described
                                /\ c \notin Range(inCommit) => barrels'[c] = barrels[c]
    <3>1. Len(inCommit) = 1 => inCommit[1] \in Range(inCommit)
      BY <1>1, SequenceShape
    <3>2. /\ Len(barrels') = Len(barrels)
          /\ \A c \in BarrelIds :
                barrels'[c] = IF Len(inCommit) = 1 /\ c = inCommit[1]
                              THEN [docs |-> barrels[c].docs, sealed |-> barrels[c].sealed,
                                    described |-> barrels[c].described, uncommitted |-> FALSE]
                              ELSE barrels[c]
      BY <1>4, CommitBatchEffect
    <3>3. ASSUME NEW c \in BarrelIds
          PROVE  /\ barrels'[c].docs = barrels[c].docs
                 /\ barrels'[c].sealed = barrels[c].sealed
                 /\ barrels'[c].described = barrels[c].described
                 /\ c \notin Range(inCommit) => barrels'[c] = barrels[c]
      <4>1. CASE Len(inCommit) = 1 /\ c = inCommit[1]
        <5>1. c \in Range(inCommit)
          BY <3>1, <4>1
        <5>2. barrels'[c] = [docs |-> barrels[c].docs, sealed |-> barrels[c].sealed,
                             described |-> barrels[c].described, uncommitted |-> FALSE]
          BY <3>2, <4>1
        <5> QED
          BY <5>1, <5>2
      <4>2. CASE ~ (Len(inCommit) = 1 /\ c = inCommit[1])
        BY <3>2, <4>2
      <4> QED
        BY <4>1, <4>2
    <3> QED
      BY <3>2, <3>3
  <2>4. BarrelIds' = BarrelIds /\ Tasks' = Tasks
    BY <2>3 DEF BarrelIds, Tasks
  <2>5. ASSUME NEW b, Carried(b)' PROVE Carried(b)
    BY <1>2, <2>1, <2>2, <2>5 DEF Carried
  <2>6. ASSUME NEW d, NEW b \in BarrelIds, KeptOpen(d, b) PROVE KeptOpen(d, b)'
    <3>1. b \notin Range(inCommit)
      BY <2>6 DEF Kept, Carried, KeptOpen
    <3> QED
      BY <1>2, <2>3, <2>4, <2>6, <3>1 DEF KeptOpen, ToSeal
  <2>7. ASSUME NEW d, NEW b \in BarrelIds, KeptSealed(d, b) PROVE KeptSealed(d, b)'
    BY <1>2, <2>1, <2>2, <2>3, <2>7 DEF KeptSealed
  <2> QED
    BY <1>2, <2>3, <2>4, <2>5, <2>6, <2>7 DEF Kept
<1> QED
  BY <1>3, <1>4 DEF CommitThreadStep

LEMMA KeptSeal ==
  ASSUME ShapeInv, OwnBarrels, Kept, promised' = promised, ForceSeal
  PROVE  Kept'
<1> DEFINE w == writer[turn]
<1>1. turn \in Tasks /\ w \in BarrelIds /\ clientHand = <<>> /\ turn \in Nat
  BY DEF ForceSeal, ShapeInv, ClientShape, TaskShape, ForcePlaces, HandOffPlaces
<1>2. /\ SealBarrel(w) /\ clientHand' = SealedBatch(w)
      /\ clientPc = "seal" /\ clientPc' \in {"sealHandOff", "renew"}
      /\ UNCHANGED <<turn, writer>>
  BY DEF ForceSeal, taskVars
<1>3. KeeperShape
  BY DEF ShapeInv
<1>4. /\ Len(barrels') = Len(barrels)
      /\ \A c \in BarrelIds : c # w => barrels'[c] = barrels[c]
      /\ barrels'[w].docs = barrels[w].docs /\ barrels'[w].sealed
      /\ barrels[w].described \subseteq barrels'[w].described
      /\ barrels[w].uncommitted => barrels'[w].described = Range(barrels[w].docs)
  <2>1. barrels'[w] = [docs |-> barrels[w].docs, sealed |-> TRUE,
                       described |-> IF barrels[w].uncommitted THEN Range(barrels[w].docs)
                                     ELSE barrels[w].described,
                       uncommitted |-> barrels[w].uncommitted]
        /\ Len(barrels') = Len(barrels) /\ \A c \in BarrelIds : c # w => barrels'[c] = barrels[c]
    BY <1>1, <1>2, <1>3, SealBarrelEffect
  <2>2. barrels[w].described \subseteq Range(barrels[w].docs)
    BY <1>1, <1>3 DEF KeeperShape
  <2> HIDE DEF w
  <2> QED
    BY <2>1, <2>2
<1>5. UNCHANGED <<commitQueue, inCommit, onDisk>>
  BY <1>2 DEF SealBarrel
<1>6. /\ Range(batch') \cup Range(clientHand') = Range(Gathered(w))
      /\ Range(batch) \subseteq Range(Gathered(w)) /\ Range(Gathered(w)) \subseteq Range(batch) \cup {w}
      /\ barrels[w].uncommitted => w \in Range(Gathered(w))
  <2>1. IsSequence(batch) /\ Range(<<>>) = {}
    BY <1>3, SequenceOf, EmptySequence DEF KeeperShape
  <2>2. batch' = IF SealedBatch(w) # <<>> THEN <<>> ELSE Gathered(w)
    BY <1>2 DEF SealBarrel
  <2>3. SealedBatch(w) \in {Gathered(w), <<>>}
    BY DEF SealedBatch
  <2>4. Range(batch') \cup Range(clientHand') = Range(Gathered(w))
    BY <1>2, <2>1, <2>2, <2>3
  <2>5. Range(Append(batch, w)) = Range(batch) \cup {w}
    BY <2>1, AppendSequence
  <2>6. Gathered(w) = IF Counts(w) THEN Append(batch, w) ELSE batch
    BY DEF Gathered
  <2>7. barrels[w].uncommitted => Counts(w)
    BY DEF Counts
  <2> HIDE DEF w
  <2> QED
    BY <2>4, <2>5, <2>6, <2>7
<1>7. BarrelIds' = BarrelIds /\ Tasks' = Tasks
  BY <1>4 DEF BarrelIds, Tasks
<1> HIDE DEF w
<1>8. ASSUME NEW b \in BarrelIds, Carried(b)' PROVE barrels'[b].sealed
  <2>1. b = w \/ Carried(b)
    BY <1>5, <1>6, <1>8 DEF Carried
  <2> QED
    BY <1>4, <2>1 DEF Kept
<1>9. clientPc' \in CommitPlaces
  BY <1>2 DEF CommitPlaces, ForcePlaces
<1>10. ASSUME NEW d, NEW b \in BarrelIds, d \in barrels'[b].described, b \in Range(Gathered(w))
       PROVE  KeptSealed(d, b)'
  BY <1>6, <1>9, <1>10 DEF KeptSealed
<1>11. ASSUME NEW d, NEW b \in BarrelIds, KeptSealed(d, b) PROVE KeptSealed(d, b)'
  <2>1. d \in barrels'[b].described
    BY <1>4, <1>11 DEF KeptSealed
  <2>2. b \notin Range(clientHand)
    BY <1>1, EmptySequence
  <2> QED
    BY <1>2, <1>5, <1>6, <1>10, <1>11, <2>1, <2>2 DEF KeptSealed
<1>12. ASSUME NEW d, NEW b \in BarrelIds, KeptOpen(d, b) PROVE KeptOpen(d, b)' \/ KeptSealed(d, b)'
  <2>1. PICK i \in Tasks : writer[i] = b /\ ToSeal(i)
    BY <1>12 DEF KeptOpen
  <2>2. i \in Nat /\ i >= turn
    BY <1>2, <2>1 DEF ToSeal, Tasks
  <2>3. CASE i = turn
    BY <1>4, <1>6, <1>10, <1>12, <2>1, <2>3 DEF KeptOpen, w
  <2>4. CASE i # turn
    <3>1. b # w
      BY <1>1, <2>1, <2>4 DEF OwnBarrels, w
    <3>2. barrels'[b] = barrels[b]
      BY <1>4, <3>1
    <3>3. ToSeal(i)'
      BY <1>1, <1>2, <2>2, <2>4 DEF ToSeal
    <3> QED
      BY <1>2, <1>7, <1>12, <2>1, <3>2, <3>3 DEF KeptOpen
  <2> QED
    BY <2>3, <2>4
<1> QED
  BY <1>7, <1>8, <1>11, <1>12 DEF Kept

LEMMA KeptRenew ==
  ASSUME ShapeInv, Kept, promised' = promised, ForceRenew
  PROVE  Kept'
<1>1. /\ turn \in Tasks /\ writer \in [Tasks -> BarrelIds] /\ BuildThreadCount \in Nat
      /\ IsSequence(barrels) /\ Len(barrels) \in Nat
  BY SMTT(60), SequenceOf, BuildThreadAssumption
     DEF ForceRenew, ShapeInv, ClientShape, TaskShape, KeeperShape, ForcePlaces, BarrelIds
<1>2. /\ UNCHANGED <<batch, commitQueue, inCommit, onDisk, clientHand>>
      /\ barrels' = Append(barrels, EmptyBarrel)
      /\ clientPc = "renew" /\ turn' = turn + 1
      /\ clientPc' = IF turn < BuildThreadCount THEN "force" ELSE "flush"
  BY DEF ForceRenew, CreateBarrelWriter
<1>3. /\ BarrelIds' = 1..(Len(barrels) + 1) /\ BarrelIds \subseteq BarrelIds'
      /\ \A b \in BarrelIds : barrels'[b] = barrels[b]
  BY <1>1, <1>2, AppendSequence DEF BarrelIds
<1>4. ASSUME NEW i \in Tasks, i # turn PROVE writer'[i] = writer[i]
  BY <1>1, <1>4 DEF ForceRenew
<1>5. Tasks' = Tasks
  BY DEF Tasks
<1>6. ASSUME NEW b, Carried(b)' PROVE b \in BarrelIds /\ Carried(b)
  <2>1. Carried(b)
    BY <1>2, <1>6 DEF Carried
  <2>2. Range(batch) \subseteq BarrelIds /\ Range(inCommit) \subseteq BarrelIds
        /\ Range(clientHand) \subseteq BarrelIds
    BY SequenceOf DEF ShapeInv, KeeperShape, ClientShape
  <2>3. ASSUME NEW n \in DOMAIN commitQueue PROVE Range(commitQueue[n]) \subseteq BarrelIds
    <3>1. commitQueue[n] \in Seq(BarrelIds)
      BY <2>3, ElementOfSeq DEF ShapeInv, KeeperShape
    <3> QED
      BY <3>1, SequenceOf
  <2> QED
    BY <2>1, <2>2, <2>3 DEF Carried
<1>7. ASSUME NEW d, NEW b \in BarrelIds, KeptOpen(d, b) PROVE KeptOpen(d, b)'
  <2>1. PICK i \in Tasks : writer[i] = b /\ ToSeal(i)
    BY <1>7 DEF KeptOpen
  <2>2. i > turn /\ i \in Nat /\ turn \in Nat /\ i <= BuildThreadCount
    BY <1>1, <1>2, <2>1 DEF ToSeal, Tasks
  <2>3. ToSeal(i)'
    BY <1>1, <1>2, <2>2 DEF ToSeal
  <2>4. writer'[i] = b
    BY <1>4, <2>1, <2>2
  <2> QED
    BY <1>3, <1>5, <1>7, <2>3, <2>4 DEF KeptOpen
<1>8. ASSUME NEW d, NEW b \in BarrelIds, KeptSealed(d, b) PROVE KeptSealed(d, b)'
  <2>1. clientPc' \in CommitPlaces /\ clientPc' # "reset"
    BY <1>2 DEF CommitPlaces, ForcePlaces
  <2> QED
    BY <1>2, <1>3, <1>8, <2>1 DEF KeptSealed
<1> QED
  BY <1>3, <1>6, <1>7, <1>8 DEF Kept

LEMMA KeptFlush ==
  ASSUME ShapeInv, Kept, promised' = promised, Flush
  PROVE  Kept'
<1>1. /\ clientHand = <<>> /\ clientHand' = batch /\ batch' = <<>> /\ Range(<<>>) = {}
      /\ UNCHANGED <<barrels, commitQueue, inCommit, onDisk>>
  BY EmptySequence DEF Flush, ResetMerger, ShapeInv, ClientShape, HandOffPlaces
<1>2. BarrelIds' = BarrelIds
  BY <1>1 DEF BarrelIds
<1>3. \A b : Carried(b)' => Carried(b)
  BY <1>1 DEF Carried
<1>4. \A d, b : ~ KeptOpen(d, b)
  BY DEF Flush, KeptOpen, ToSeal
<1>5. ASSUME NEW d, NEW b, KeptSealed(d, b) PROVE KeptSealed(d, b)'
  <2>1. clientPc' # "reset"
    BY DEF Flush
  <2> QED
    BY <1>1, <1>5, <2>1 DEF KeptSealed
<1> QED
  BY <1>1, <1>2, <1>3, <1>4, <1>5 DEF Kept

LEMMA KeptHandOff ==
  ASSUME ShapeInv, Kept, promised' = promised, ClientHandOff
  PROVE  Kept'
<1>1. /\ commitQueue' = Append(commitQueue, clientHand) /\ clientHand' = <<>> /\ Range(<<>>) = {}
      /\ UNCHANGED <<barrels, batch, inCommit, onDisk, writer, turn>>
  BY EmptySequence DEF ClientHandOff, Submit, taskVars
<1>2. BarrelIds' = BarrelIds /\ Tasks' = Tasks
  BY <1>1 DEF BarrelIds, Tasks
<1>3. /\ DOMAIN commitQueue = 1..Len(commitQueue) /\ DOMAIN commitQueue' = 1..(Len(commitQueue) + 1)
      /\ \A n \in DOMAIN commitQueue : commitQueue'[n] = commitQueue[n]
      /\ commitQueue'[Len(commitQueue) + 1] = clientHand
      /\ Len(commitQueue) \in Nat
  <2>1. IsSequence(commitQueue)
    BY SequenceOf DEF ShapeInv, KeeperShape
  <2>2. IsSequence(commitQueue') /\ Len(commitQueue') = Len(commitQueue) + 1
    BY <1>1, <2>1, AppendSequence
  <2> QED
    BY <1>1, <2>1, <2>2, AppendSequence, SequenceShape
<1>4. ASSUME NEW b
      PROVE  (\E n \in DOMAIN commitQueue' : b \in Range(commitQueue'[n]))
                <=> (\E n \in DOMAIN commitQueue : b \in Range(commitQueue[n])) \/ b \in Range(clientHand)
  <2>1. ASSUME NEW n \in DOMAIN commitQueue', b \in Range(commitQueue'[n])
        PROVE  (\E m \in DOMAIN commitQueue : b \in Range(commitQueue[m])) \/ b \in Range(clientHand)
    <3>1. n \in DOMAIN commitQueue \/ n = Len(commitQueue) + 1
      BY <1>3
    <3> QED
      BY <1>3, <2>1, <3>1
  <2>2. DOMAIN commitQueue \subseteq DOMAIN commitQueue' /\ Len(commitQueue) + 1 \in DOMAIN commitQueue'
    BY <1>3
  <2> QED
    BY <1>3, <2>1, <2>2
<1>5. ASSUME NEW b, Carried(b)' PROVE Carried(b)
  BY <1>1, <1>4, <1>5 DEF Carried
<1>6. /\ clientPc' \in {"renew", "flushAgain", "waitCommit"}
      /\ clientPc = "sealHandOff" => clientPc' = "renew"
      /\ clientPc \in CommitPlaces \cup {"flushAgain"} => clientPc' \in CommitPlaces \cup {"flushAgain"}
  BY DEF ClientHandOff, CommitPlaces, ForcePlaces
<1>7. ASSUME NEW d, NEW b, KeptOpen(d, b) PROVE KeptOpen(d, b)'
  <2>1. clientPc = "sealHandOff" /\ clientPc' = "renew"
    BY <1>6, <1>7 DEF ClientHandOff, KeptOpen, ToSeal
  <2> QED
    BY <1>1, <1>2, <1>7, <2>1 DEF KeptOpen, ToSeal
<1>8. ASSUME NEW d, NEW b, KeptSealed(d, b) PROVE KeptSealed(d, b)'
  BY <1>1, <1>4, <1>6, <1>8 DEF KeptSealed
<1> QED
  BY <1>1, <1>2, <1>5, <1>7, <1>8 DEF Kept

\* When commit() is called: nothing is in a queue or in a task's hands, so every document
\* is in a barrel, and a sealed one is in the batch or on disk.
LEMMA KeptCommit ==
  ASSUME BarrelInv, Commit, commits = 0, calm'
  PROVE  Quiet' /\ Kept'
<1> USE DEF BarrelInv
<1>0. calm' = Calm
  BY DEF Commit
<1>1. /\ Calm /\ clientPc = "idle" /\ clientPc' = "waitUpdates" /\ turn' = 1
      /\ UNCHANGED <<keeperVars, taskVars, updaterVars, clientHand, consumed, docQueue>>
      /\ updateQueue' = Append(updateQueue, Dummy) /\ promised' = Range(consumed) \ Updates
  <2>1. Calm
    BY <1>0, Zenon
  <2>2. /\ clientPc = "idle" /\ clientPc' = "waitUpdates" /\ turn' = 1
        /\ UNCHANGED <<keeperVars, taskVars, updaterVars, clientHand, consumed, docQueue>>
        /\ updateQueue' = Append(updateQueue, Dummy) /\ promised' = Range(consumed) \ Updates
    BY DEF Commit, EnqueueUpdate, MayCall
  <2> QED
    BY <2>1, <2>2
<1>2. /\ docQueue = <<>> /\ updateQueue = <<>> /\ updaterPc = "loop" /\ (\A i \in Tasks : taskPc[i] = "loop")
      /\ commitQueue = <<>> /\ inCommit = <<>> /\ clientHand = <<>>
  BY <1>1 DEF Calm, ShapeInv, ClientShape, HandOffPlaces
<1>3. Range(<<>>) = {} /\ DOMAIN <<>> = {} /\ IsSequence(<<>>)
  BY EmptySequence, SequenceShape
<1>4. UNCHANGED <<barrels, batch, commitQueue, inCommit, onDisk, writer, taskPc, updaterPc>>
  BY <1>1 DEF keeperVars, taskVars, updaterVars
<1>5. BarrelIds' = BarrelIds /\ Tasks' = Tasks
  BY <1>4 DEF BarrelIds, Tasks
<1>6. Quiet'
  <2>1. \A s : s = <<>> => Range(Append(s, Dummy)) \subseteq {Dummy}
    BY <1>3, OnlyDummies
  <2>2. Range(updateQueue') \subseteq {Dummy} /\ Range(docQueue') \subseteq {Dummy}
    BY <1>1, <1>2, <1>3, <2>1
  <2> QED
    BY <1>2, <1>4, <1>5, <2>2 DEF Quiet
<1>7. ASSUME NEW b \in BarrelIds, Carried(b)' PROVE barrels'[b].sealed
  <2>1. b \in Range(batch)
    BY <1>1, <1>2, <1>3, <1>4, <1>7 DEF Carried
  <2>2. PICK k \in DOMAIN batch : batch[k] = b
    BY <2>1 DEF Range
  <2>3. At(b, "batch", 0, k)
    BY <2>2 DEF At
  <2>4. OnItsWay(b)
    BY <2>3, Listed DEF OnItsWay
  <2> QED
    BY <1>4, <2>4 DEF ChainInv
<1>8. ASSUME NEW d \in promised' PROVE \E b \in BarrelIds' : KeptOpen(d, b)' \/ KeptSealed(d, b)'
  <2>1. d \in Added /\ d \in Range(consumed)
    <3>1. Range(consumed) \subseteq Docs
      BY SequenceOf DEF ShapeInv, ClientShape
    <3> QED
      BY <1>1, <3>1 DEF Added
  <2>2. ~ InQueue(d)
    BY <1>2, <1>3 DEF InQueue
  <2>3. ~ InTask(d)
    <3>1. \A i \in Tasks : taskMsg[i] = Dummy
      BY <1>2 DEF ShapeInv, TaskShape, TaskState
    <3> QED
      BY <2>1, <3>1, DummyAndNull DEF InTask, Added
  <2>4. PICK b \in BarrelIds : d \in Range(barrels[b].docs)
    BY <2>1, <2>2, <2>3 DEF HomeInv, Somewhere, InBarrel
  <2>5. CASE barrels[b].sealed
    <3>1. d \in barrels[b].described
      BY <2>4, <2>5 DEF SealInv
    <3>2. PICK kind \in Kinds, n \in Nat, k \in Nat : At(b, kind, n, k)
      BY <3>1 DEF ChainInv, OnItsWay
    <3>3. \A i \in Tasks : taskHand[i] = <<>>
      BY <1>2 DEF ShapeInv, TaskShape, TaskState
    <3>4. b \in Range(batch) \cup Range(onDisk)
      BY <1>2, <1>3, <3>2, <3>3 DEF At, Range
    <3>5. KeptSealed(d, b)'
      BY <1>1, <1>4, <3>1, <3>4 DEF KeptSealed, CommitPlaces
    <3> QED
      BY <1>5, <3>5
  <2>6. CASE ~ barrels[b].sealed
    <3>1. PICK i \in Tasks : writer[i] = b
      BY <2>6 DEF SealInv
    <3>2. barrels[b].docs # <<>>
      BY <1>3, <2>4
    <3>3. barrels[b].uncommitted
      BY <2>6, <3>2 DEF SealInv
    <3>4. ToSeal(i)'
      BY <1>1 DEF ToSeal, Tasks
    <3>5. KeptOpen(d, b)'
      BY <1>4, <1>5, <2>4, <2>6, <3>1, <3>3, <3>4 DEF KeptOpen
    <3> QED
      BY <1>5, <3>5
  <2> QED
    BY <2>5, <2>6
<1> QED
  BY <1>4, <1>5, <1>6, <1>7, <1>8 DEF Kept

LEMMA CalmInvariant == Spec => []CalmInv
<1>1. Init => CalmInv
  BY DEF Init, CalmInv, CalmCommit
<1>2. BarrelInv /\ CalmInv /\ [Next]_vars => CalmInv'
  <2> SUFFICES ASSUME BarrelInv, CalmInv, [Next]_vars, CalmCommit' PROVE Quiet' /\ Kept'
    BY DEF CalmInv
  <2> USE DEF BarrelInv
  <2>1. CASE Commit
    <3>1. commits' = 1 /\ calm' /\ commits' = commits + 1 /\ commits \in Nat
      BY <2>1 DEF Commit, CalmCommit, ShapeInv, ClientShape
    <3>2. commits = 0
      BY <3>1
    <3> QED
      BY <2>1, <3>1, <3>2, KeptCommit
  <2>2. CASE ~ Commit
    <3>1. /\ CalmCommit /\ Quiet' /\ promised' = promised
          /\ \/ UNCHANGED <<keeperVars, writer, clientHand, turn>> /\ Advance
             \/ CommitThreadStep \/ ForceSeal \/ ForceRenew \/ Flush \/ ClientHandOff
      BY <2>2, CalmSteps
    <3>2. Kept
      BY <3>1 DEF CalmInv
    <3>3. KeeperShape /\ OwnBarrels
      BY DEF ShapeInv, OrderInv
    <3> QED
      BY <3>1, <3>2, <3>3, KeptAdvance, KeptCommitThread, KeptSeal, KeptRenew, KeptFlush, KeptHandOff
  <2> QED
    BY <2>1, <2>2
<1> QED
  BY <1>1, <1>2, BarrelInvariant, PTL DEF Spec

\* The first commit(), called while the other threads are idle, brings every document
\* consumed before it to the disk, or into the batch that the commit thread has: the
\* client seals each thread's barrel, flushes what is gathered, and waits.
THEOREM CalmCommitsCommit == Spec => CalmCommitCommits
<1> DEFINE Step == CommitReturns /\ calm /\ commits = 1 =>
                      promised \subseteq DocsOnDisk \cup UNION {barrels[b].described : b \in Range(inCommit)}
<1>1. ShapeInv /\ CalmInv /\ [Next]_vars => [Step]_vars
  <2> SUFFICES ASSUME ShapeInv, CalmInv, [Next]_vars, CommitReturns, calm, commits = 1, NEW d \in promised
               PROVE  d \in DocsOnDisk \cup UNION {barrels[b].described : b \in Range(inCommit)}
    OBVIOUS
  <2>1. clientPc = "reset" /\ clientPc' = "idle"
    BY DEF CommitReturns
  <2>2. updaterPc # "exited"
    <3>1. ClientStep
      BY <2>1, OthersLeaveClient DEF Commit, Stop, Consume, Delete, MayCall, clientVars
    <3>2. Reset
      BY <2>1, <3>1 DEF ClientStep, WaitUpdates, ForceTask, WaitDocs, ForceSeal, ForceRenew, Flush, ClientHandOff,
                        WaitCommit, JoinUpdater, StopTask, StopWait, JoinTasks, CloseScheduler
    <3> QED
      BY <2>1, <3>2 DEF Reset, ClientGoto, Closing
  <2>3. CalmCommit
    BY <2>1, <2>2 DEF CalmCommit, WaitPlaces
  <2>4. PICK b \in BarrelIds : KeptOpen(d, b) \/ KeptSealed(d, b)
    BY <2>3 DEF CalmInv, Kept
  <2>5. ~ KeptOpen(d, b)
    BY <2>1 DEF KeptOpen, ToSeal
  <2>6. Range(clientHand) = {}
    BY <2>1, EmptySequence DEF ShapeInv, ClientShape, HandOffPlaces
  <2>7. d \in barrels[b].described /\ b \in Range(inCommit) \cup Range(onDisk)
    BY <2>1, <2>4, <2>5, <2>6 DEF KeptSealed, CommitPlaces, ForcePlaces
  <2> QED
    BY <2>7 DEF DocsOnDisk
<1>2. BarrelInv => ShapeInv
  BY DEF BarrelInv
<1> QED
  BY <1>1, <1>2, BarrelInvariant, CalmInvariant, PTL DEF Spec, CalmCommitCommits

=============================================================================
