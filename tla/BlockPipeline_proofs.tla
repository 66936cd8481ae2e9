----------------------- MODULE BlockPipeline_proofs -------------------------
(***************************************************************************)
(* Proofs about BlockPipeline for every chain length, confirmation depth,  *)
(* number of failures, reorganisations and crashes.                        *)
(***************************************************************************)
EXTENDS BlockPipeline, TLAPS

\* An element of a sequence with one more element is an old one or the new one.
LEMMA AppendElement ==
    ASSUME NEW S, NEW s \in Seq(S), NEW e \in S, NEW i \in DOMAIN Append(s, e)
    PROVE  Append(s, e)[i] = e \/ (i \in DOMAIN s /\ Append(s, e)[i] = s[i])
OBVIOUS

\* A sequence with one more element is one longer, so it is not empty.
LEMMA AppendLonger ==
    ASSUME NEW S, NEW s \in Seq(S), NEW e \in S
    PROVE  Len(Append(s, e)) = Len(s) + 1 /\ Append(s, e) # <<>>
<1>1. Len(Append(s, e)) = Len(s) + 1 /\ Len(s) \in Nat
  OBVIOUS
<1>2. Len(<<>>) = 0
  OBVIOUS
<1> QED
  BY <1>1, <1>2

\* The blocks that the actions build have their type.
LEMMA BlockType ==
    /\ NoBlock \in Block
    /\ \A v \in 0..MaxReorgs, b \in BOOLEAN : [ver |-> v, pool |-> b] \in Block
BY ChainAssumption DEF NoBlock, Block

\* The heights that occur in the actions are numbers within the chain.
LEMMA HeightType == /\ Heights \subseteq Nat
                    /\ \A h \in Heights : h >= 1 /\ h <= MaxHeight
                    /\ 0..MaxHeight \subseteq Nat
                    /\ Heights \subseteq 0..MaxHeight
                    /\ MaxHeight \in Nat /\ ConfirmDepth \in Nat
BY ChainAssumption, ScannerAssumption DEF Heights

\* Finish keeps the types of the scanner's variables.
LEMMA FinishType ==
    ASSUME NEW p \in Goroutines, NEW rest \in SUBSET Heights,
           ScannerTypeOK, Finish(p, rest)
    PROVE  /\ pc' \in [Goroutines -> PC]
           /\ cur' \in [Goroutines -> 0..MaxHeight]
           /\ batch' \in [Goroutines -> SUBSET Heights]
           /\ job' \in [Goroutines -> 0..MaxHeight]
           /\ blk' \in [Goroutines -> Block]
           /\ \A q \in Goroutines : pc'[q] \in Processing => job'[q] \in Heights
BY BlockType, ChainAssumption DEF Finish, Goto, ScannerTypeOK, PC, Processing, Goroutines

\* Return keeps the types of the scanner's variables.
LEMMA ReturnType ==
    ASSUME NEW p \in Goroutines, ScannerTypeOK, Return(p), UNCHANGED pending
    PROVE  ScannerTypeOK'
BY BlockType, ChainAssumption DEF Return, Goto, ScannerTypeOK, PC, Processing, Goroutines

\* A call that fails is counted within the bound.
LEMMA FailsType ==
    ASSUME NEW kind, StoreTypeOK, Fails(kind)
    PROVE  faults' \in 0..MaxFaults
BY StoreAssumption DEF StoreTypeOK, Fails

\* Every step of the scanner keeps the types.
LEMMA ScannerType ==
    ASSUME NEW p \in Goroutines, TypeOK, ScannerStep(p), UNCHANGED chainVars
    PROVE  ScannerTypeOK' /\ StoreTypeOK'
<1> USE DEF TypeOK
<1>1. CASE QueryUnprocessed(p)
  BY <1>1, ReturnType, FailsType DEF QueryUnprocessed, Unprocessed, ScannerTypeOK, StoreTypeOK,
     storeVars, Succeeds, Goto, PC, Processing
<1>2. CASE AddRecovered(p)
  BY <1>2 DEF AddRecovered, ScannerTypeOK, StoreTypeOK, storeVars, Succeeds, Goto, PC, Processing
<1>3. CASE FetchTip(p)
  BY <1>3, ReturnType, FailsType DEF FetchTip, ScannerTypeOK, StoreTypeOK, storeVars, Succeeds, Goto,
     PC, Processing, LastHeader, ChainTypeOK
<1>4. CASE CheckConfirmations(p)
  <2>1. Confirmed(cur[p]) \in SUBSET Heights
    BY DEF Confirmed, ScannerTypeOK
  <2> QED
    BY <1>4, <2>1, FinishType DEF CheckConfirmations, ScannerTypeOK, StoreTypeOK, storeVars, Succeeds
<1>5. CASE CheckExists(p)
  <2> DEFINE Step(h) ==
        \/ /\ row[h] # "none"
           /\ Succeeds
           /\ Goto(p, "fetch")
           /\ batch' = [batch EXCEPT ![p] = batch[p] \ {h}]
           /\ job' = [job EXCEPT ![p] = h]
           /\ UNCHANGED <<pending, cur, blk>>
        \/ row[h] = "none" /\ Succeeds /\ Done(p, batch[p] \ {h})
        \/ Fails("db") /\ Retry(p, h, batch[p] \ {h})
  <2>1. PICK h \in batch[p] : Step(h)
    BY <1>5 DEF CheckExists
  <2>2. h \in Heights /\ batch[p] \ {h} \in SUBSET Heights
    BY DEF ScannerTypeOK
  <2>3. CASE Finish(p, batch[p] \ {h})
    BY <1>5, <2>1, <2>2, <2>3, FinishType, FailsType
    DEF CheckExists, Done, Retry, Goto, ScannerTypeOK, StoreTypeOK, storeVars, Succeeds
  <2>4. CASE Goto(p, "fetch") /\ Succeeds /\ UNCHANGED <<pending, cur, blk>>
             /\ batch' = [batch EXCEPT ![p] = batch[p] \ {h}]
             /\ job' = [job EXCEPT ![p] = h]
    BY <1>5, <2>2, <2>4, HeightType
    DEF CheckExists, Goto, ScannerTypeOK, StoreTypeOK, storeVars, Succeeds, PC, Processing
  <2> QED
    BY <2>1, <2>3, <2>4 DEF Done, Retry
<1>6. CASE FetchBlock(p)
  <2>1. CASE Finish(p, batch[p])
    BY <1>6, <2>1, FinishType, FailsType
    DEF FetchBlock, Done, Retry, Goto, ScannerTypeOK, StoreTypeOK, storeVars, Succeeds,
        Processing
  <2>2. CASE Goto(p, "backfill") /\ Succeeds /\ UNCHANGED <<pending, cur, batch, job>>
             /\ blk' = [blk EXCEPT ![p] = chain[job[p]]]
    BY <1>6, <2>2
    DEF FetchBlock, Goto, ScannerTypeOK, StoreTypeOK, ChainTypeOK, storeVars, Succeeds,
        PC, Processing
  <2> QED
    BY <1>6, <2>1, <2>2 DEF FetchBlock, Done, Retry, GetBlock
<1>7. CASE Backfill(p)
  BY ZenonT(60), <1>7, FailsType
  DEF Backfill, FillRow, Goto, ScannerTypeOK, StoreTypeOK, storeVars, Succeeds, PC, Processing
<1>8. CASE ExtractPayments(p)
  <2>1. CASE Finish(p, batch[p])
    BY <1>8, <2>1, FinishType, FailsType
    DEF ExtractPayments, Done, Retry, Goto, ScannerTypeOK, StoreTypeOK, storeVars,
        Succeeds, Processing
  <2>2. CASE Goto(p, "record") /\ Succeeds /\ UNCHANGED <<pending, cur, batch, job, blk>>
    BY <1>8, <2>2
    DEF ExtractPayments, Goto, ScannerTypeOK, StoreTypeOK, storeVars, Succeeds, PC,
        Processing
  <2> QED
    BY <1>8, <2>1, <2>2 DEF ExtractPayments, Done, Retry
<1>9. CASE RecordPayments(p)
  <2>1. /\ Finish(p, batch[p])
        /\ pending' \in SUBSET Heights
    BY <1>9 DEF RecordPayments, Done, Retry, ScannerTypeOK, Processing
  <2>2. ScannerTypeOK'
    BY <2>1, FinishType DEF ScannerTypeOK
  <2>3. faults' \in 0..MaxFaults
    BY <1>9, FailsType DEF RecordPayments, Succeeds, StoreTypeOK
  <2>4. UNCHANGED storeVars \/ InsertPayments(job[p], blk[p])
    BY <1>9 DEF RecordPayments
  <2>5. payments' \in [Heights -> Seq(Block)]
    <3>1. job[p] \in Heights /\ blk[p] \in Block /\ payments[job[p]] \in Seq(Block)
      BY <1>9 DEF RecordPayments, StoreTypeOK, ScannerTypeOK, Processing
    <3>2. Append(payments[job[p]], blk[p]) \in Seq(Block)
      BY <3>1
    <3> QED
      BY <2>4, <3>1, <3>2 DEF InsertPayments, StoreTypeOK, storeVars
  <2>6. row' = row /\ rowBlock' = rowBlock
    BY <2>4 DEF InsertPayments, storeVars
  <2> QED
    BY <2>2, <2>3, <2>5, <2>6 DEF StoreTypeOK
<1> QED
  BY <1>1, <1>2, <1>3, <1>4, <1>5, <1>6, <1>7, <1>8, <1>9 DEF ScannerStep

-----------------------------------------------------------------------------
\* The initial state is type correct.
LEMMA InitType == Init => TypeOK
BY BlockType, ChainAssumption, StoreAssumption, ListenerAssumption, PipelineAssumption
DEF Init, TypeOK, ChainInit, ChainTypeOK, StoreInit, StoreTypeOK, IndexerInit,
    IndexerTypeOK, ScannerInit, ScannerTypeOK, ListenerInit, ListenerTypeOK, Heights,
    StartPC, PC, Processing, Goroutines

\* A publication, kept or lost, leaves the listener in its types.
LEMMA PublishType ==
    ASSUME ListenerTypeOK, NEW first \in Heights, NEW n \in Heights, Publish(first, n)
    PROVE  ListenerTypeOK'
<1> DEFINE Message == [first: Heights, n: Heights]
<1>1. [first |-> first, n |-> n] \in Message
  OBVIOUS
<1>2. zmq \in Seq(Message)
  BY DEF ListenerTypeOK
<1> HIDE DEF Message
<1>3. Append(zmq, [first |-> first, n |-> n]) \in Seq(Message)
  BY <1>1, <1>2
<1>4. zmq' \in Seq(Message)
  BY <1>2, <1>3 DEF Publish
<1> QED
  BY <1>4 DEF Publish, ListenerTypeOK, Message

\* So does a new block, alone or by a reorganisation.
LEMMA NewBlockType ==
    ASSUME TypeOK, NewBlock
    PROVE  ChainTypeOK' /\ ListenerTypeOK'
<1> USE DEF TypeOK
<1>1. ASSUME NEW byPool \in BOOLEAN, Mine(byPool), Publish(tip + 1, 1)
      PROVE  ChainTypeOK' /\ ListenerTypeOK'
  <2>1. ChainTypeOK'
    BY <1>1, BlockType, ChainAssumption DEF Mine, ChainTypeOK, Heights
  <2>2. tip + 1 \in Heights /\ 1 \in Heights
    BY <1>1, ChainAssumption DEF Mine, ChainTypeOK, Heights
  <2> QED
    BY <1>1, <2>1, <2>2, PublishType
<1>2. ASSUME NEW d \in 1..MaxReorgDepth, Reorg(d), Publish(tip - d + 1, d + 1)
      PROVE  ChainTypeOK' /\ ListenerTypeOK'
  <2>1. ChainTypeOK'
    <3>1. /\ reorgs + 1 \in 0..MaxReorgs
          /\ tip + 1 \in 0..MaxHeight
      BY <1>2, ChainAssumption DEF Reorg, ChainTypeOK
    <3>2. [ver |-> reorgs + 1, pool |-> FALSE] \in Block
      BY <3>1, BlockType
    <3>3. chain' \in [Heights -> Block]
      BY <1>2, <3>2 DEF Reorg, ChainTypeOK
    <3> QED
      BY <1>2, <3>1, <3>3 DEF Reorg, ChainTypeOK
  <2>2. tip - d + 1 \in Heights /\ d + 1 \in Heights
    BY <1>2, ChainAssumption DEF Reorg, ChainTypeOK, Heights
  <2> QED
    BY <1>2, <2>1, <2>2, PublishType
<1> QED
  BY <1>1, <1>2 DEF NewBlock

\* The indexer's steps keep the types of its variables and of the store.
LEMMA IndexerType ==
    ASSUME TypeOK, IndexerStep
    PROVE  IndexerTypeOK' /\ StoreTypeOK'
<1> USE DEF TypeOK
<1>1. CASE FetchStats /\ UNCHANGED <<storeVars, faults>>
  BY <1>1 DEF FetchStats, IndexerTypeOK, StoreTypeOK, ChainTypeOK, storeVars
<1>2. CASE InsertFound
  BY <1>2, FailsType, ChainAssumption
  DEF InsertFound, InsertRow, IndexerTypeOK, StoreTypeOK, storeVars, Succeeds
<1> QED
  BY <1>1, <1>2 DEF IndexerStep

\* The listener's steps keep its types and those of the pending set.
LEMMA ListenerType ==
    ASSUME TypeOK, AnnouncedInv, ListenerStep \/ ConnectionLost
    PROVE  ListenerTypeOK' /\ ScannerTypeOK' /\ faults' \in 0..MaxFaults
<1> USE DEF TypeOK
<1>1. CASE StartListener /\ UNCHANGED <<faults, scannerVars>>
  BY <1>1 DEF StartListener, ListenerTypeOK, ScannerTypeOK, StoreTypeOK, scannerVars
<1>2. CASE ZmqRecv /\ UNCHANGED <<faults, scannerVars>> 
  <2> DEFINE Message == [first: Heights, n: Heights]
  <2>1. zmq \in Seq(Message) /\ zmq # <<>>
    BY <1>2 DEF ZmqRecv, ListenerTypeOK
  <2> HIDE DEF Message
  <2>2. Head(zmq) \in Message /\ Tail(zmq) \in Seq(Message)
        /\ 1 \in DOMAIN zmq /\ Head(zmq) = zmq[1]
    BY <2>1
  <2>3. /\ Head(zmq).first \in Heights /\ Head(zmq).n \in Heights
        /\ Head(zmq).first + Head(zmq).n <= tip + 1
    BY <2>2 DEF AnnouncedInv, Message
  <2>4. fireNext' \in 1..(MaxHeight + 1) /\ fireLast' \in 0..MaxHeight
    <3> DEFINE first == Head(zmq).first
               n == Head(zmq).n
    <3>1. /\ first \in 1..MaxHeight /\ n \in 1..MaxHeight /\ first + n <= tip + 1
          /\ tip \in 0..MaxHeight
      BY <2>3 DEF ChainTypeOK, Heights
    <3>2. fireNext' = first /\ fireLast' = first + n - 1
      BY <1>2 DEF ZmqRecv
    <3> HIDE DEF first, n
    <3> QED
      BY <3>1, <3>2, ChainAssumption
  <2>5. ListenerTypeOK'
    <3>1. zmq' \in Seq(Message)
      BY <1>2, <2>2 DEF ZmqRecv
    <3>2. mode' = mode /\ attempt' = attempt /\ lastHeight' = lastHeight
      BY <1>2 DEF ZmqRecv
    <3> QED
      BY <2>4, <3>1, <3>2 DEF ListenerTypeOK, Message
  <2>6. ScannerTypeOK' /\ faults' \in 0..MaxFaults
    BY <1>2 DEF ScannerTypeOK, StoreTypeOK, scannerVars
  <2> QED
    BY <2>5, <2>6
<1>3. CASE PollTick /\ UNCHANGED <<faults, scannerVars>>
  BY <1>3, ChainAssumption
  DEF PollTick, LastHeader, ListenerTypeOK, ScannerTypeOK, StoreTypeOK, ChainTypeOK,
      scannerVars
<1>4. CASE PollInit /\ UNCHANGED scannerVars
  BY <1>4, FailsType
  DEF PollInit, LastHeader, ListenerTypeOK, ScannerTypeOK, StoreTypeOK, ChainTypeOK,
      scannerVars, Succeeds
<1>5. CASE FireHandlers /\ UNCHANGED faults
  <2>1. fireNext \in Heights
    BY <1>5, ChainAssumption DEF FireHandlers, ListenerTypeOK, Heights
  <2>2. ListenerTypeOK'
    BY <1>5, ChainAssumption DEF FireHandlers, ListenerTypeOK
  <2>3. ScannerTypeOK'
    BY <1>5, <2>1, HeightType
    DEF FireHandlers, HandleNewBlock, Goto, ScannerTypeOK, Goroutines, PC, Processing
  <2> QED
    BY <1>5, <2>2, <2>3 DEF StoreTypeOK
<1>6. CASE ConnectionLost
  BY <1>6, ListenerAssumption
  DEF ConnectionLost, ZmqFail, ListenerTypeOK, ScannerTypeOK, StoreTypeOK, scannerVars
<1> QED
  BY <1>1, <1>2, <1>3, <1>4, <1>5, <1>6 DEF ListenerStep

\* A crash puts every variable in memory back into its type.
LEMMA CrashType ==
    ASSUME TypeOK, Crash
    PROVE  IndexerTypeOK' /\ ScannerTypeOK' /\ ListenerTypeOK' /\ crashes' \in 0..MaxCrashes
BY BlockType, ChainAssumption, ListenerAssumption, PipelineAssumption
DEF Crash, IndexerRestart, ScannerRestart, ListenerRestart, TypeOK, IndexerTypeOK,
    ScannerTypeOK, ListenerTypeOK, StartPC, PC, Processing, Goroutines

\* The recovery ticker starts its goroutine at a label of the scanner.
LEMMA TickType ==
    ASSUME TypeOK, RecoveryTick
    PROVE  ScannerTypeOK'
BY DEF RecoveryTick, Goto, TypeOK, ScannerTypeOK, PC, Processing, Goroutines

\* The other components' types in a step that does not touch their variables.
LEMMA UnchangedType ==
    /\ ChainTypeOK /\ UNCHANGED chainVars => ChainTypeOK'
    /\ StoreTypeOK /\ UNCHANGED <<storeVars, faults>> => StoreTypeOK'
    /\ StoreTypeOK /\ UNCHANGED storeVars /\ faults' \in 0..MaxFaults => StoreTypeOK'
    /\ IndexerTypeOK /\ UNCHANGED indexerVars => IndexerTypeOK'
    /\ ScannerTypeOK /\ UNCHANGED scannerVars => ScannerTypeOK'
    /\ ListenerTypeOK /\ UNCHANGED listenerVars => ListenerTypeOK'
BY DEF chainVars, ChainTypeOK, storeVars, StoreTypeOK, indexerVars, IndexerTypeOK,
       scannerVars, ScannerTypeOK, listenerVars, ListenerTypeOK

\* Every step keeps the types, given that nothing above the tip was announced.
LEMMA TypeStep == TypeOK /\ AnnouncedInv /\ [Next]_vars => TypeOK'
<1> SUFFICES ASSUME TypeOK, AnnouncedInv, [Next]_vars PROVE TypeOK'
  OBVIOUS
<1>0. CountRecalls => recalls' \in [Heights -> Nat]
  BY DEF TypeOK, CountRecalls
<1> USE DEF historyVars
<1>1. CASE NewBlock
  BY <1>1, NewBlockType, UnchangedType DEF TypeOK, NewBlock
<1>2. CASE IndexerStep
  BY <1>2, IndexerType, UnchangedType DEF TypeOK, IndexerStep
<1>3. CASE ListenerStep
  BY <1>0, <1>3, ListenerType, UnchangedType DEF TypeOK, ListenerStep
<1>4. CASE ConnectionLost
  BY <1>4, ListenerType, UnchangedType DEF TypeOK, ConnectionLost
<1>5. ASSUME NEW p \in Goroutines, Process(p) PROVE TypeOK'
  <2>1. unattributed' \subseteq Heights
    BY <1>5 DEF Process, FindsNoPayments, TypeOK, ScannerTypeOK, Processing
  <2> QED
    BY <1>0, <1>5, <2>1, ScannerType, UnchangedType DEF TypeOK, Process
<1>6. CASE RecoveryTick
  BY <1>6, TickType, UnchangedType DEF TypeOK, RecoveryTick
<1>7. CASE Crash
  BY <1>7, CrashType, UnchangedType DEF TypeOK, Crash
<1>8. CASE UNCHANGED vars
  BY <1>8, UnchangedType DEF TypeOK, vars
<1> QED
  BY <1>1, <1>2, <1>3, <1>4, <1>5, <1>6, <1>7, <1>8 DEF Next

-----------------------------------------------------------------------------
\* The tip never goes back, and a settled block is never replaced: the only
\* step that could is a reorganisation, which is not deeper than ConfirmDepth.
LEMMA SettledStable ==
    ASSUME TypeOK, [Next]_vars, NEW h \in Heights, Settled(h)
    PROVE  Settled(h)' /\ chain'[h] = chain[h]
<1>1. ASSUME NEW byPool \in BOOLEAN, Mine(byPool)
      PROVE  Settled(h)' /\ chain'[h] = chain[h]
  BY <1>1, ChainAssumption, ScannerAssumption
  DEF Mine, Settled, TypeOK, ChainTypeOK, Heights
<1>2. ASSUME NEW d \in 1..MaxReorgDepth, Reorg(d)
      PROVE  Settled(h)' /\ chain'[h] = chain[h]
  BY <1>2, ChainAssumption, ScannerAssumption, DepthAssumption
  DEF Reorg, Settled, TypeOK, ChainTypeOK, Heights
<1>3. CASE UNCHANGED chainVars
  BY <1>3 DEF chainVars, Settled
<1> QED
  BY <1>1, <1>2, <1>3
  DEF Next, vars, NewBlock, IndexerStep, ListenerStep, ConnectionLost, Process,
      RecoveryTick, Crash

\* The tip never goes back.
LEMMA TipGrows ==
    ASSUME TypeOK, [Next]_vars
    PROVE  tip' \in Nat /\ tip <= tip'
<1>1. CASE NewBlock
  <2>1. tip' = tip + 1
    BY <1>1 DEF NewBlock, Mine, Reorg
  <2> QED
    BY <2>1, ChainAssumption DEF TypeOK, ChainTypeOK
<1>2. CASE UNCHANGED chainVars
  BY <1>2, ChainAssumption DEF chainVars, TypeOK, ChainTypeOK
<1> QED
  BY <1>1, <1>2
  DEF Next, vars, IndexerStep, ListenerStep, ConnectionLost, Process, RecoveryTick, Crash

\* The first publication, and each that follows it, is a range of heights.
LEMMA ZmqElement ==
    ASSUME TypeOK, NEW i \in DOMAIN zmq
    PROVE  zmq[i].first \in Heights /\ zmq[i].n \in Heights
<1> DEFINE Message == [first: Heights, n: Heights]
<1>1. zmq \in Seq(Message)
  BY DEF TypeOK, ListenerTypeOK
<1>2. \A m \in Message : m.first \in Heights /\ m.n \in Heights
  OBVIOUS
<1> HIDE DEF Message
<1>3. zmq[i] \in Message
  BY <1>1
<1> QED
  BY <1>2, <1>3

\* The announced heights only grow by what the chain publishes.
LEMMA AnnouncedStep ==
    ASSUME TypeOK, AnnouncedInv, [Next]_vars
    PROVE  AnnouncedInv'
<1> USE TipGrows, ChainAssumption DEF AnnouncedInv
<1>0. /\ tip \in 0..MaxHeight /\ lastHeight \in 0..MaxHeight /\ fireLast \in 0..MaxHeight
      /\ cur \in [Goroutines -> 0..MaxHeight]
  BY DEF TypeOK, ChainTypeOK, ListenerTypeOK, ScannerTypeOK
<1>1. CASE NewBlock
  <2>1. PICK first, n \in Heights : Publish(first, n) /\ first + n <= tip' + 1
    <3>1. ASSUME NEW byPool \in BOOLEAN, Mine(byPool), Publish(tip + 1, 1)
          PROVE  \E first, n \in Heights : Publish(first, n) /\ first + n <= tip' + 1
      <4>1. tip + 1 \in Heights /\ 1 \in Heights /\ tip' = tip + 1
        BY <1>0, <3>1 DEF Mine, Heights
      <4> QED
        BY <1>0, <3>1, <4>1
    <3>2. ASSUME NEW d \in 1..MaxReorgDepth, Reorg(d), Publish(tip - d + 1, d + 1)
          PROVE  \E first, n \in Heights : Publish(first, n) /\ first + n <= tip' + 1
      <4>1. tip - d + 1 \in Heights /\ d + 1 \in Heights /\ tip' = tip + 1
        BY <1>0, <3>2 DEF Reorg, Heights
      <4>2. (tip - d + 1) + (d + 1) <= tip' + 1
        BY <1>0, <4>1
      <4> QED
        BY <3>2, <4>1, <4>2
    <3> QED
      BY <1>1, <3>1, <3>2 DEF NewBlock
  <2>2. \A i \in DOMAIN zmq' : zmq'[i].first + zmq'[i].n <= tip' + 1
    <3>1. \A i \in DOMAIN zmq : zmq[i].first + zmq[i].n <= tip' + 1
      <4>1. \A i \in DOMAIN zmq : zmq[i].first + zmq[i].n \in Nat
        BY ZmqElement DEF Heights
      <4> QED
        BY <1>0, <4>1
    <3>2. CASE zmq' = Append(zmq, [first |-> first, n |-> n])
      <4> DEFINE m == [first |-> first, n |-> n]
      <4>1. /\ zmq \in Seq([first: Heights, n: Heights])
            /\ m \in [first: Heights, n: Heights]
        BY DEF TypeOK, ListenerTypeOK
      <4>2. m.first + m.n <= tip' + 1
        BY <2>1
      <4> HIDE DEF m
      <4>3. \A i \in DOMAIN zmq' : zmq'[i] = m \/ (i \in DOMAIN zmq /\ zmq'[i] = zmq[i])
        BY <3>2, <4>1, AppendElement DEF m
      <4> QED
        BY <3>1, <4>2, <4>3
    <3> QED
      BY <2>1, <3>1, <3>2 DEF Publish
  <2> QED
    BY <1>0, <1>1, <2>1, <2>2 DEF NewBlock, Publish, scannerVars
<1>2. CASE ListenerStep
  <2>0. UNCHANGED chainVars
    BY <1>2 DEF ListenerStep
  <2>1. CASE ZmqRecv /\ UNCHANGED scannerVars
    <3>1. zmq \in Seq([first: Heights, n: Heights]) /\ zmq # <<>>
      BY <2>1 DEF ZmqRecv, TypeOK, ListenerTypeOK
    <3>2. /\ 1 \in DOMAIN zmq /\ Head(zmq) = zmq[1]
          /\ \A i \in DOMAIN Tail(zmq) : i + 1 \in DOMAIN zmq /\ Tail(zmq)[i] = zmq[i + 1]
      BY <3>1
    <3>3. zmq[1].first \in Heights /\ zmq[1].n \in Heights
      BY <3>2, ZmqElement
    <3>4. fireLast' <= tip
      BY <1>0, <2>1, <3>2, <3>3 DEF ZmqRecv, Heights
    <3> QED
      BY <2>0, <2>1, <3>2, <3>4 DEF ZmqRecv, chainVars, scannerVars
  <2>2. CASE PollTick /\ UNCHANGED scannerVars
    BY <1>0, <2>0, <2>2 DEF PollTick, LastHeader, chainVars, scannerVars
  <2>3. CASE PollInit /\ UNCHANGED scannerVars
    BY <1>0, <2>0, <2>3 DEF PollInit, LastHeader, chainVars, scannerVars
  <2>4. CASE FireHandlers
    <3>1. fireNext \in Nat /\ fireNext <= tip
      BY <1>0, <2>4 DEF FireHandlers, TypeOK, ListenerTypeOK
    <3> QED
      BY <1>0, <2>0, <2>4, <3>1 DEF FireHandlers, HandleNewBlock, chainVars, Goroutines
  <2>5. CASE StartListener /\ UNCHANGED scannerVars
    BY <2>0, <2>5 DEF StartListener, chainVars, scannerVars
  <2> QED
    BY <1>2, <2>1, <2>2, <2>3, <2>4, <2>5 DEF ListenerStep
<1>3. CASE ConnectionLost
  BY <1>3 DEF ConnectionLost, ZmqFail, chainVars, scannerVars
<1>4. ASSUME NEW p \in Goroutines, Process(p) PROVE AnnouncedInv'
  <2>1. cur' = cur \/ cur' = [cur EXCEPT ![p] = 0] \/ cur' = [cur EXCEPT ![p] = tip]
    BY <1>4 DEF Process, ScannerStep, QueryUnprocessed, AddRecovered, FetchTip,
       CheckConfirmations, CheckExists, FetchBlock, Backfill, ExtractPayments,
       RecordPayments, Return, Done, Retry, Finish, LastHeader
  <2> QED
    BY <1>0, <1>4, <2>1 DEF Process, chainVars, listenerVars, Goroutines
<1>5. CASE Crash
  BY <1>0, <1>5 DEF Crash, ListenerRestart, ScannerRestart, chainVars
<1>6. CASE UNCHANGED <<tip, zmq, lastHeight, fireLast, cur>>
  BY <1>6
<1> QED
  BY <1>1, <1>2, <1>3, <1>4, <1>5, <1>6
  DEF Next, vars, IndexerStep, RecoveryTick, chainVars, listenerVars, scannerVars

-----------------------------------------------------------------------------
\* A filled row is never written again.
LEMMA FilledStable ==
    ASSUME TypeOK, [Next]_vars, NEW h \in Heights, row[h] = "filled"
    PROVE  row'[h] = "filled" /\ rowBlock'[h] = rowBlock[h]
<1>1. CASE UNCHANGED storeVars
  BY <1>1 DEF storeVars
<1>2. CASE \E g \in Heights, b \in Block : FillRow(g, b) \/ InsertPayments(g, b)
  BY <1>2 DEF FillRow, InsertPayments, TypeOK, StoreTypeOK
<1>3. CASE InsertRow(stats)
  BY <1>3 DEF InsertRow, TypeOK, StoreTypeOK
<1>4. ASSUME NEW p \in Goroutines, Backfill(p) \/ RecordPayments(p)
      PROVE  \/ UNCHANGED storeVars
             \/ \E g \in Heights, b \in Block : FillRow(g, b) \/ InsertPayments(g, b)
  <2>1. job[p] \in Heights /\ blk[p] \in Block
    BY <1>4 DEF Backfill, RecordPayments, TypeOK, ScannerTypeOK, Processing
  <2> QED
    BY <1>4, <2>1 DEF Backfill, RecordPayments
<1>5. ASSUME NEW p \in Goroutines, ScannerStep(p), ~(Backfill(p) \/ RecordPayments(p))
      PROVE  UNCHANGED storeVars
  BY <1>5 DEF ScannerStep, QueryUnprocessed, AddRecovered, FetchTip, CheckConfirmations,
     CheckExists, FetchBlock, ExtractPayments
<1> QED
  BY <1>1, <1>2, <1>3, <1>4, <1>5
  DEF Next, vars, NewBlock, IndexerStep, InsertFound, ListenerStep, ConnectionLost,
      Process, RecoveryTick, Crash

\* A goroutine that does not move keeps what it relies on.
LEMMA GoroutineFrame ==
    ASSUME TypeOK, [Next]_vars, NEW q \in Goroutines, GoroutineOK(q),
           pc'[q] = pc[q], batch'[q] = batch[q], job'[q] = job[q], blk'[q] = blk[q]
    PROVE  GoroutineOK(q)'
<1>1. batch[q] \subseteq Heights
  BY DEF TypeOK, ScannerTypeOK
<1>2. \A h \in batch[q] : Settled(h) => Settled(h)'
  BY <1>1, SettledStable
<1>3. pc[q] \in Processing =>
        /\ Settled(job[q])'
        /\ chain'[job[q]] = chain[job[q]]
        /\ row[job[q]] = "filled" => row'[job[q]] = "filled"
  BY SettledStable, FilledStable DEF TypeOK, ScannerTypeOK, GoroutineOK
<1> QED
  BY <1>2, <1>3 DEF GoroutineOK, Processing, Settled

\* A goroutine that goes on with its batch relies only on what it did before.
LEMMA FinishGoroutine ==
    ASSUME TypeOK, [Next]_vars, NEW p \in Goroutines, NEW rest \in SUBSET Heights,
           Finish(p, rest), \A h \in rest : Settled(h)
    PROVE  GoroutineOK(p)'
<1>1. pc'[p] \in {"idle", "loop"} /\ batch'[p] = rest
  BY DEF Finish, Goto, TypeOK, ScannerTypeOK
<1>2. \A h \in rest : Settled(h)'
  BY SettledStable
<1> QED
  BY <1>1, <1>2 DEF GoroutineOK, Processing, Settled

\* Each step of a goroutine establishes what its next step relies on.
LEMMA ProcessGoroutine ==
    ASSUME TypeOK, AnnouncedInv, [Next]_vars, NEW p \in Goroutines, GoroutineOK(p), Process(p)
    PROVE  GoroutineOK(p)'
<1> USE DEF TypeOK, ScannerTypeOK
<1>1. CASE QueryUnprocessed(p)
  BY <1>1 DEF QueryUnprocessed, Return, Goto, GoroutineOK, Processing
<1>2. CASE AddRecovered(p)
  BY <1>2 DEF AddRecovered, Goto, GoroutineOK, Processing
<1>3. CASE FetchTip(p)
  <2>1. pc'[p] \in {"check", "idle"} /\ (batch'[p] = batch[p] \/ batch'[p] = {})
    BY <1>3 DEF FetchTip, Return, Goto
  <2>2. \A h \in batch[p] : Settled(h) => Settled(h)'
    BY SettledStable
  <2> QED
    BY <1>3, <2>1, <2>2 DEF FetchTip, GoroutineOK, Processing
<1>4. CASE CheckConfirmations(p)
  <2>1. \A h \in Confirmed(cur[p]) : h \in Heights /\ Settled(h)
    BY HeightType, ChainAssumption
    DEF Confirmed, Settled, AnnouncedInv, ChainTypeOK, Heights
  <2> QED
    BY <1>4, <2>1, FinishGoroutine DEF CheckConfirmations
<1>5. CASE CheckExists(p)
  <2>1. \A h \in batch[p] : h \in Heights /\ Settled(h)
    BY <1>5 DEF CheckExists, GoroutineOK
  <2>2. ASSUME NEW h \in batch[p], Finish(p, batch[p] \ {h})
        PROVE  GoroutineOK(p)'
    BY <2>1, <2>2, FinishGoroutine
  <2>3. ASSUME NEW h \in batch[p], Goto(p, "fetch"), UNCHANGED blk,
               batch' = [batch EXCEPT ![p] = batch[p] \ {h}],
               job' = [job EXCEPT ![p] = h]
        PROVE  GoroutineOK(p)'
    <3>1. \A g \in batch[p] : Settled(g)'
      BY <2>1, SettledStable
    <3> QED
      BY <2>3, <3>1 DEF Goto, GoroutineOK, Settled, Processing
  <2> QED
    BY <1>5, <2>2, <2>3 DEF CheckExists, Done, Retry
<1>6. CASE FetchBlock(p)
  <2>1. /\ job[p] \in Heights /\ Settled(job[p]) /\ chain' = chain /\ tip' = tip
        /\ \A h \in batch[p] : Settled(h)
    BY <1>6 DEF FetchBlock, GoroutineOK, Process, chainVars, Processing
  <2>2. CASE Finish(p, batch[p])
    BY <2>1, <2>2, FinishGoroutine
  <2>3. CASE /\ Goto(p, "backfill")
             /\ blk' = [blk EXCEPT ![p] = chain[job[p]]]
             /\ UNCHANGED <<batch, job>>
    BY <2>1, <2>3 DEF Goto, GoroutineOK, Settled, Processing
  <2> QED
    BY <1>6, <2>2, <2>3 DEF FetchBlock, Done, Retry, GetBlock
<1>7. CASE Backfill(p)
  BY <1>7 DEF Backfill, Goto, GoroutineOK, Process, chainVars, Processing, Settled
<1>8. CASE ExtractPayments(p)
  <2>1. /\ Settled(job[p]) /\ chain' = chain /\ tip' = tip /\ row' = row
        /\ blk[p] = chain[job[p]]
        /\ \A h \in batch[p] : Settled(h)
    BY <1>8 DEF ExtractPayments, GoroutineOK, Process, chainVars, storeVars, Processing
  <2>2. CASE Finish(p, batch[p])
    BY <2>1, <2>2, FinishGoroutine
  <2>3. CASE /\ Goto(p, "record")
             /\ row[job[p]] = "filled"
             /\ UNCHANGED <<batch, job, blk>>
    BY <2>1, <2>3 DEF Goto, GoroutineOK, Settled
  <2> QED
    BY <1>8, <2>2, <2>3 DEF ExtractPayments, Done, Retry
<1>9. CASE RecordPayments(p)
  <2>1. \A h \in batch[p] : Settled(h)
    BY <1>9 DEF RecordPayments, GoroutineOK
  <2> QED
    BY <1>9, <2>1, FinishGoroutine DEF RecordPayments, Done, Retry
<1> QED
  BY <1>1, <1>2, <1>3, <1>4, <1>5, <1>6, <1>7, <1>8, <1>9 DEF Process, ScannerStep

\* What the goroutines rely on survives every step of the system.
LEMMA GoroutineStep ==
    ASSUME TypeOK, AnnouncedInv, GoroutineInv, [Next]_vars
    PROVE  GoroutineInv'
<1> SUFFICES ASSUME NEW q \in Goroutines PROVE GoroutineOK(q)'
  BY DEF GoroutineInv
<1> USE DEF GoroutineInv
<1>1. ASSUME NEW p \in Goroutines, Process(p) PROVE GoroutineOK(q)'
  <2>1. CASE p = q
    BY <1>1, <2>1, ProcessGoroutine
  <2>2. CASE p # q
    <3>1. /\ pc'[q] = pc[q] /\ batch'[q] = batch[q]
          /\ job'[q] = job[q] /\ blk'[q] = blk[q]
      BY <1>1, <2>2
      DEF Process, ScannerStep, QueryUnprocessed, AddRecovered, FetchTip,
          CheckConfirmations, CheckExists, FetchBlock, Backfill, ExtractPayments,
          RecordPayments, Return, Done, Retry, Finish, Goto, TypeOK, ScannerTypeOK
    <3> QED
      BY <3>1, GoroutineFrame
  <2> QED
    BY <2>1, <2>2
<1>2. CASE FireHandlers \/ RecoveryTick
  <2>1. CASE pc'[q] = pc[q] /\ batch'[q] = batch[q] /\ job'[q] = job[q] /\ blk'[q] = blk[q]
    BY <2>1, GoroutineFrame
  <2>2. CASE pc[q] = "idle" /\ pc'[q] \in {"check", "query"} /\ batch'[q] = batch[q]
    <3>1. \A h \in batch[q] : Settled(h) => Settled(h)'
      BY SettledStable DEF TypeOK, ScannerTypeOK
    <3> QED
      BY <2>2, <3>1 DEF GoroutineOK, Processing
  <2> QED
    BY <1>2, <2>1, <2>2
    DEF FireHandlers, HandleNewBlock, RecoveryTick, Goto, TypeOK, ScannerTypeOK
<1>3. CASE Crash
  <2>1. pc'[q] \in {"idle", "query"} /\ batch'[q] = {}
    BY <1>3 DEF Crash, ScannerRestart, StartPC
  <2> QED
    BY <2>1 DEF GoroutineOK, Processing
<1>4. CASE UNCHANGED scannerVars
  BY <1>4, GoroutineFrame DEF scannerVars
<1> QED
  BY <1>1, <1>2, <1>3, <1>4
  DEF Next, vars, NewBlock, IndexerStep, ListenerStep, ConnectionLost

-----------------------------------------------------------------------------
\* A row is filled, and a payment recorded, with the settled block of its height.
LEMMA StoreStep ==
    ASSUME TypeOK, GoroutineInv, StoreInv, [Next]_vars
    PROVE  StoreInv'
<1> SUFFICES ASSUME NEW h \in Heights PROVE RowOK(h)'
  BY DEF StoreInv
<1>1. RowOK(h)
  BY DEF StoreInv
<1>2. row[h] = "filled" =>
        Settled(h)' /\ chain'[h] = chain[h] /\ row'[h] = "filled" /\ rowBlock'[h] = rowBlock[h]
  BY <1>1, SettledStable, FilledStable DEF RowOK
<1>3. CASE UNCHANGED storeVars
  BY <1>1, <1>2, <1>3 DEF RowOK, storeVars, Settled
<1>4. CASE InsertFound /\ InsertRow(stats)
  BY <1>1, <1>2, <1>4 DEF InsertRow, RowOK, TypeOK, StoreTypeOK, Settled
<1>5. ASSUME NEW p \in Goroutines, Process(p), Backfill(p), FillRow(job[p], blk[p])
      PROVE  RowOK(h)'
  <2>1. /\ job[p] \in Heights /\ job' = job
        /\ Settled(job[p])' /\ blk[p] = chain'[job[p]]
    BY <1>5, SettledStable
    DEF Backfill, GoroutineInv, GoroutineOK, Processing, TypeOK, ScannerTypeOK
  <2>2. CASE job[p] = h /\ row[h] = "unfilled"
    <3>1. row'[h] = "filled" /\ rowBlock'[h] = chain'[h] /\ payments' = payments
      BY <1>5, <2>1, <2>2 DEF FillRow, TypeOK, StoreTypeOK
    <3>2. DOMAIN payments[h] = {}
      BY <1>1, <2>2 DEF RowOK
    <3>3. \A i \in DOMAIN payments'[h] : FALSE
      BY <3>1, <3>2
    <3>4. Settled(h)'
      BY <2>1, <2>2 DEF Settled
    <3> QED
      BY <3>1, <3>3, <3>4 DEF RowOK
  <2>3. CASE ~(job[p] = h /\ row[h] = "unfilled")
    <3>1. row'[h] = row[h] /\ rowBlock'[h] = rowBlock[h] /\ payments'[h] = payments[h]
      BY <1>5, <2>3 DEF FillRow, TypeOK, StoreTypeOK
    <3> QED
      BY <1>1, <1>2, <3>1 DEF RowOK, Settled
  <2> QED
    BY <2>2, <2>3
<1>6. ASSUME NEW p \in Goroutines, Process(p), RecordPayments(p), InsertPayments(job[p], blk[p])
      PROVE  RowOK(h)'
  <2>1. /\ job[p] \in Heights /\ blk[p] \in Block /\ blk[p] = chain[job[p]]
        /\ row[job[p]] = "filled"
    BY <1>6 DEF RecordPayments, GoroutineInv, GoroutineOK, Processing, TypeOK, ScannerTypeOK
  <2>2. CASE job[p] = h
    <3>1. payments'[h] = Append(payments[h], chain[h]) /\ row' = row /\ rowBlock' = rowBlock
      BY <1>6, <2>1, <2>2 DEF InsertPayments, TypeOK, StoreTypeOK
    <3>2. payments[h] \in Seq(Block) /\ chain[h] \in Block
      BY DEF TypeOK, StoreTypeOK, ChainTypeOK
    <3>3. \A i \in DOMAIN payments'[h] : payments'[h][i] = chain[h]
      BY <1>1, <3>1, <3>2, AppendElement DEF RowOK
    <3> QED
      BY <1>1, <1>2, <2>1, <2>2, <3>1, <3>3 DEF RowOK, Settled
  <2>3. CASE job[p] # h
    <3>1. payments'[h] = payments[h] /\ row' = row /\ rowBlock' = rowBlock
      BY <1>6, <2>3 DEF InsertPayments, TypeOK, StoreTypeOK
    <3> QED
      BY <1>1, <1>2, <3>1 DEF RowOK, Settled
  <2> QED
    BY <2>2, <2>3
<1>7. ASSUME NEW p \in Goroutines, Process(p)
      PROVE  \/ UNCHANGED storeVars
             \/ Backfill(p) /\ FillRow(job[p], blk[p])
             \/ RecordPayments(p) /\ InsertPayments(job[p], blk[p])
  BY <1>7 DEF Process, ScannerStep, QueryUnprocessed, AddRecovered, FetchTip,
     CheckConfirmations, CheckExists, FetchBlock, Backfill, ExtractPayments, RecordPayments
<1> QED
  BY <1>3, <1>4, <1>5, <1>6, <1>7
  DEF Next, vars, NewBlock, IndexerStep, InsertFound, ListenerStep, ConnectionLost,
      RecoveryTick, Crash

-----------------------------------------------------------------------------
\* The inductive invariant holds at the start,
LEMMA InitInv == Init => IInv
<1> SUFFICES ASSUME Init PROVE IInv
  OBVIOUS
<1>1. TypeOK
  BY InitType
<1>2. AnnouncedInv
  BY ChainAssumption DEF Init, AnnouncedInv, ChainInit, ListenerInit, ScannerInit
<1>3. GoroutineInv
  BY DEF Init, GoroutineInv, GoroutineOK, ScannerInit, StartPC, Processing
<1>4. StoreInv
  BY DEF Init, StoreInv, RowOK, StoreInit
<1> QED
  BY <1>1, <1>2, <1>3, <1>4 DEF IInv

\* ... and is preserved by every step.
LEMMA StepInv == IInv /\ [Next]_vars => IInv'
BY TypeStep, AnnouncedStep, GoroutineStep, StoreStep DEF IInv

\* So it holds of every behaviour: the pipeline never leaves IInv.
THEOREM Invariance == Spec => []IInv
BY InitInv, StepInv, PTL DEF Spec

\* Type correctness of the whole pipeline, whatever the chain length and the
\* number of failures and crashes.
THEOREM TypeCorrect == Spec => []TypeOK
<1>1. IInv => TypeOK
  BY DEF IInv
<1> QED
  BY <1>1, Invariance, PTL

\* The confirmation depth buffer works: as long as no reorganisation is deeper
\* than ConfirmDepth, a payment that scanner.go recorded is for the block that
\* stays at its height.
THEOREM PaymentsAreFinal == Spec => []PaymentsFinal
<1>1. IInv => PaymentsFinal
  BY DEF IInv, StoreInv, RowOK, PaymentsFinal, Settled
<1> QED
  BY <1>1, Invariance, PTL

\* Payments and p2pool_blocks agree on the block although processBlock writes
\* them in two statements that another goroutine may come between.
THEOREM LedgerAgrees == Spec => []LedgerAgreesWithBlocks
<1>1. IInv => LedgerAgreesWithBlocks
  BY DEF IInv, TypeOK, StoreInv, RowOK, LedgerAgreesWithBlocks
<1> QED
  BY <1>1, Invariance, PTL

-----------------------------------------------------------------------------
(* A backfilled block is in some goroutine's care until it is paid.        *)

\* A step of one goroutine leaves the other, and all other components, alone.
LEMMA ProcessFrame ==
    ASSUME TypeOK, NEW p \in Goroutines, Process(p)
    PROVE  /\ pc[p] # "idle"
           /\ UNCHANGED <<tip, chain, mode, zmq, lastHeight, fireNext, fireLast, crashes>>
           /\ \A q \in Goroutines : q # p => /\ pc'[q] = pc[q] /\ cur'[q] = cur[q]
                                            /\ batch'[q] = batch[q] /\ job'[q] = job[q]
BY DEF Process, ScannerStep, QueryUnprocessed, AddRecovered, FetchTip, CheckConfirmations,
       CheckExists, FetchBlock, Backfill, ExtractPayments, RecordPayments, Return, Done,
       Retry, Finish, Goto, TypeOK, ScannerTypeOK, chainVars, listenerVars

\* What a goroutine that moves on to the rest of its batch holds.
LEMMA FinishHands ==
    ASSUME TypeOK, NEW p \in Goroutines, NEW rest, Finish(p, rest)
    PROVE  /\ pc'[p] = IF rest = {} THEN "idle" ELSE "loop"
           /\ batch'[p] = rest /\ job'[p] = 0 /\ cur'[p] = 0
BY DEF Finish, Goto, TypeOK, ScannerTypeOK

\* What a goroutine that returns holds.
LEMMA ReturnHands ==
    ASSUME TypeOK, NEW p \in Goroutines, Return(p)
    PROVE  pc'[p] = "idle" /\ batch'[p] = {} /\ job'[p] = 0 /\ cur'[p] = 0
BY DEF Return, Goto, TypeOK, ScannerTypeOK

\* At the start the goroutines hold nothing.
LEMMA HandsInitial == Init => HandsInv
BY DEF Init, HandsInv, ScannerInit, StartPC, Processing

\* What a goroutine does not use stays empty.
LEMMA HandsStep ==
    ASSUME TypeOK, HandsInv, [Next]_vars
    PROVE  HandsInv'
<1> DEFINE Hands(p) == /\ pc[p] # "check" => cur[p] = 0
                       /\ pc[p] \notin {"found", "loop"} \cup Processing => batch[p] = {}
                       /\ pc[p] \notin Processing => job[p] = 0
<1>0. \A p \in Goroutines : Hands(p)
  BY DEF HandsInv
<1>1. ASSUME NEW p \in Goroutines, Process(p) PROVE HandsInv'
  <2> USE DEF TypeOK, ScannerTypeOK
  <2>1. ASSUME NEW rest, Finish(p, rest) PROVE Hands(p)'
    BY <2>1, FinishHands DEF Processing
  <2>2. CASE Return(p)
    BY <2>2, ReturnHands, <1>0, <1>1, ProcessFrame DEF Processing, HandsInv
  <2>3. CASE QueryUnprocessed(p) /\ ~Return(p)
    <3>1. Hands(p)'
      BY <1>0, <2>3 DEF QueryUnprocessed, Goto, Processing
    <3> QED
      BY <3>1, <1>0, <1>1, ProcessFrame DEF HandsInv
  <2>4. CASE AddRecovered(p) \/ (FetchTip(p) /\ ~Return(p))
    <3>1. Hands(p)'
      BY <1>0, <2>4 DEF AddRecovered, FetchTip, Goto, Processing
    <3> QED
      BY <3>1, <1>0, <1>1, ProcessFrame DEF HandsInv
  <2>5. CASE CheckConfirmations(p) \/ RecordPayments(p)
    <3>1. Hands(p)'
      BY <2>1, <2>5 DEF CheckConfirmations, RecordPayments, Done, Retry
    <3> QED
      BY <3>1, <1>0, <1>1, ProcessFrame DEF HandsInv
  <2>6. CASE CheckExists(p) \/ FetchBlock(p) \/ Backfill(p) \/ ExtractPayments(p)
    <3>1. Hands(p)'
      <4>1. CASE \E rest : Finish(p, rest)
        BY <4>1, <2>1
      <4>2. CASE pc'[p] \in Processing /\ cur'[p] = 0
        BY <4>2 DEF Processing
      <4> QED
        BY <1>0, <2>6, <4>1, <4>2
        DEF CheckExists, FetchBlock, Backfill, ExtractPayments, Goto, Done, Retry, Processing
    <3> QED
      BY <3>1, <1>0, <1>1, ProcessFrame DEF HandsInv
  <2> QED
    BY <1>1, <2>2, <2>3, <2>4, <2>5, <2>6 DEF Process, ScannerStep
<1>2. CASE FireHandlers
  <2>1. \A q \in Goroutines : Hands(q)'
    BY <1>0, <1>2 DEF FireHandlers, HandleNewBlock, Goto, TypeOK, ScannerTypeOK, Processing
  <2> QED
    BY <2>1 DEF HandsInv
<1>3. CASE RecoveryTick
  <2>1. \A q \in Goroutines : Hands(q)'
    BY <1>0, <1>3 DEF RecoveryTick, Goto, TypeOK, ScannerTypeOK, Processing
  <2> QED
    BY <2>1 DEF HandsInv
<1>4. CASE Crash
  BY <1>4 DEF Crash, ScannerRestart, StartPC, HandsInv, Processing
<1>5. CASE UNCHANGED scannerVars
  BY <1>5 DEF scannerVars, HandsInv
<1> QED
  BY <1>1, <1>2, <1>3, <1>4, <1>5
  DEF Next, vars, NewBlock, IndexerStep, ListenerStep, ConnectionLost

\* A height is in care: waiting in the pending set, or in a goroutine's hands.
InCare(h) == h \in pending \/ \E p \in Goroutines : h \in batch[p] \cup {job[p]}

\* A step that does not pay a backfilled height, crash, or find that it pays
\* nobody, keeps it in care.
LEMMA CareStep ==
    ASSUME TypeOK, HandsInv, [Next]_vars,
           NEW h \in Heights, InCare(h), row[h] = "filled"
    PROVE  payments'[h] # <<>> \/ crashes' > 0 \/ h \in unattributed' \/ InCare(h)'
<1>1. ASSUME NEW p \in Goroutines, Process(p), h \in batch[p] \cup {job[p]}
      PROVE  payments'[h] # <<>> \/ h \in unattributed' \/ InCare(h)'
  <2> USE DEF TypeOK, ScannerTypeOK
  <2>0. h # 0 /\ batch[p] \subseteq Heights
    BY HeightType
  <2>1. CASE QueryUnprocessed(p) \/ FetchTip(p) \/ CheckConfirmations(p)
    BY <2>1, <1>1, <2>0
    DEF QueryUnprocessed, FetchTip, CheckConfirmations, HandsInv, Processing
  <2>2. CASE AddRecovered(p)
    BY <2>2, <1>1, <2>0 DEF AddRecovered, HandsInv, Processing, InCare
  <2>3. CASE CheckExists(p)
    <3>0. h \in batch[p]
      BY <2>3, <1>1, <2>0 DEF CheckExists, HandsInv, Processing
    <3>1. PICK g \in batch[p] :
             \/ batch' = [batch EXCEPT ![p] = batch[p] \ {g}] /\ job' = [job EXCEPT ![p] = g]
             \/ row[g] = "none" /\ Finish(p, batch[p] \ {g})
             \/ Finish(p, batch[p] \ {g}) /\ g \in pending'
      BY <2>3 DEF CheckExists, Done, Retry
    <3>2. h \in batch'[p] \cup {job'[p]} \/ h \in pending'
      BY <3>0, <3>1, FinishHands
    <3> QED
      BY <3>2 DEF InCare
  <2>4. CASE FetchBlock(p) \/ ExtractPayments(p)
    <3>1. \/ batch' = batch /\ job' = job
          \/ Finish(p, batch[p]) /\ job[p] \in pending'
          \/ Finish(p, batch[p]) /\ ExtractPayments(p) /\ Succeeds
      BY <2>4 DEF FetchBlock, ExtractPayments, Done, Retry, GetBlock
    <3>2. CASE Finish(p, batch[p]) /\ ExtractPayments(p) /\ Succeeds /\ h = job[p]
      <4>1. FindsNoPayments(p)
        BY <3>2, FinishHands DEF ExtractPayments, FindsNoPayments
      <4> QED
        BY <1>1, <3>2, <4>1 DEF Process
    <3>3. CASE ~(Finish(p, batch[p]) /\ ExtractPayments(p) /\ Succeeds /\ h = job[p])
      <4>1. h \in batch'[p] \cup {job'[p]} \/ h \in pending'
        BY <1>1, <3>1, <3>3, FinishHands
      <4> QED
        BY <4>1 DEF InCare
    <3> QED
      BY <3>2, <3>3
  <2>5. CASE Backfill(p)
    <3>1. batch' = batch /\ job' = job
      BY <2>5 DEF Backfill
    <3> QED
      BY <1>1, <3>1 DEF InCare
  <2>6. CASE RecordPayments(p)
    <3>1. /\ Finish(p, batch[p])
          /\ job[p] \in pending' \/ InsertPayments(job[p], blk[p])
      BY <2>6 DEF RecordPayments, Done, Retry
    <3>2. CASE h \in batch[p]
      BY <3>1, <3>2, FinishHands DEF InCare
    <3>3. CASE h = job[p] /\ InsertPayments(job[p], blk[p])
      <4>1. payments'[h] = Append(payments[h], blk[p])
        BY <3>3 DEF InsertPayments, StoreTypeOK
      <4>2. payments[h] \in Seq(Block) /\ blk[p] \in Block
        BY DEF StoreTypeOK
      <4> QED
        BY <4>1, <4>2, AppendLonger
    <3> QED
      BY <1>1, <3>1, <3>2, <3>3 DEF InCare
  <2> QED
    BY <1>1, <2>1, <2>2, <2>3, <2>4, <2>5, <2>6 DEF Process, ScannerStep
<1>2. ASSUME NEW p \in Goroutines, Process(p), h \in pending
      PROVE  InCare(h)'
  <2>1. CASE CheckConfirmations(p)
    <3>1. h \in pending' \/ h \in batch'[p]
      BY <1>2, <2>1, FinishHands DEF CheckConfirmations
    <3> QED
      BY <3>1 DEF InCare
  <2>2. CASE ~CheckConfirmations(p)
    <3>1. pending \subseteq pending'
      BY <1>2, <2>2
      DEF Process, ScannerStep, QueryUnprocessed, AddRecovered, FetchTip, CheckExists,
          FetchBlock, Backfill, ExtractPayments, RecordPayments, Done, Retry
    <3> QED
      BY <1>2, <3>1 DEF InCare
  <2> QED
    BY <2>1, <2>2
<1>3. ASSUME NEW p \in Goroutines, Process(p), NEW q \in Goroutines, q # p,
             h \in batch[q] \cup {job[q]}
      PROVE  InCare(h)'
  BY <1>3, ProcessFrame DEF InCare
<1>4. CASE Crash
  BY <1>4, PipelineAssumption DEF Crash, TypeOK
<1>5. CASE pending \subseteq pending' /\ batch' = batch /\ job' = job
  BY <1>5 DEF InCare
<1>6. ASSUME NEW p \in Goroutines, Process(p)
      PROVE  payments'[h] # <<>> \/ h \in unattributed' \/ InCare(h)'
  BY <1>1, <1>2, <1>3, <1>6 DEF InCare
<1> QED
  BY <1>4, <1>5, <1>6
  DEF Next, vars, NewBlock, IndexerStep, ListenerStep, FireHandlers, HandleNewBlock,
      ConnectionLost, RecoveryTick, scannerVars

\* The invariant: who is backfilled and not paid is in care, until a crash.
OwnedInv == OwnedUntilPaid /\ HandsInv

LEMMA OwnedStep == IInv /\ OwnedInv /\ [Next]_vars => OwnedInv'
<1> SUFFICES ASSUME IInv, OwnedInv, [Next]_vars PROVE OwnedInv'
  OBVIOUS
<1>0. TypeOK /\ HandsInv
  BY DEF IInv, OwnedInv
<1> SUFFICES ASSUME NEW h \in Heights, row'[h] = "filled"
             PROVE  \/ payments'[h] # <<>> \/ crashes' > 0
                    \/ h \in unattributed' \/ InCare(h)'
  BY <1>0, HandsStep DEF OwnedInv, OwnedUntilPaid, InCare
<1>1. CASE row[h] # "filled"
  <2>1. PICK p \in Goroutines : Backfill(p) /\ job[p] = h
    <3>1. ~(row'[h] = row[h])
      BY <1>1
    <3>2. ~(InsertFound /\ InsertRow(stats))
      BY <1>0, <1>1 DEF InsertRow, TypeOK, StoreTypeOK
    <3>3. UNCHANGED row \/ (InsertFound /\ InsertRow(stats)) \/ \E p \in Goroutines : Backfill(p)
      BY DEF Next, vars, NewBlock, IndexerStep, InsertFound, ListenerStep, ConnectionLost,
         Process, ScannerStep, QueryUnprocessed, AddRecovered, FetchTip, CheckConfirmations,
         CheckExists, FetchBlock, ExtractPayments, RecordPayments, InsertPayments,
         RecoveryTick, Crash, storeVars
    <3>4. ASSUME NEW p \in Goroutines, Backfill(p) PROVE job[p] = h
      BY <1>0, <3>1, <3>4 DEF Backfill, FillRow, storeVars, TypeOK, StoreTypeOK
    <3> QED
      BY <3>1, <3>2, <3>3, <3>4
  <2> QED
    BY <2>1 DEF Backfill, InCare
<1>2. CASE row[h] = "filled" /\ payments[h] # <<>>
  <2>1. payments'[h] # <<>>
    <3>1. CASE UNCHANGED payments
      BY <1>2, <3>1
    <3>2. ASSUME NEW p \in Goroutines, RecordPayments(p), InsertPayments(job[p], blk[p])
          PROVE  payments'[h] # <<>>
      <4>1. /\ blk[p] \in Block /\ payments \in [Heights -> Seq(Block)]
        BY <1>0 DEF TypeOK, StoreTypeOK, ScannerTypeOK
      <4>2. payments'[h] = payments[h] \/ payments'[h] = Append(payments[h], blk[p])
        BY <3>2, <4>1 DEF InsertPayments
      <4>3. payments[h] \in Seq(Block)
        BY <4>1
      <4> QED
        BY <1>2, <4>1, <4>2, <4>3, AppendLonger
    <3>3. \/ UNCHANGED payments
          \/ \E p \in Goroutines : RecordPayments(p) /\ InsertPayments(job[p], blk[p])
      BY DEF Next, vars, NewBlock, IndexerStep, InsertFound, InsertRow, ListenerStep,
         ConnectionLost, Process, ScannerStep, QueryUnprocessed, AddRecovered, FetchTip,
         CheckConfirmations, CheckExists, FetchBlock, Backfill, FillRow, ExtractPayments,
         RecordPayments, RecoveryTick, Crash, storeVars
    <3> QED
      BY <3>1, <3>2, <3>3
  <2> QED
    BY <2>1
<1>3. CASE row[h] = "filled" /\ crashes > 0
  <2>1. crashes \in Nat /\ (crashes' = crashes \/ crashes' = crashes + 1)
    BY <1>0, PipelineAssumption
    DEF TypeOK, Next, vars, NewBlock, IndexerStep, ListenerStep, ConnectionLost, Process,
        RecoveryTick, Crash
  <2> QED
    BY <1>3, <2>1
<1>4. CASE row[h] = "filled" /\ InCare(h)
  BY <1>0, <1>4, CareStep
<1>5. CASE h \in unattributed
  <2>1. unattributed \subseteq unattributed'
    BY DEF Next, vars, historyVars, NewBlock, IndexerStep, ListenerStep, ConnectionLost,
       Process, RecoveryTick, Crash
  <2> QED
    BY <1>5, <2>1
<1> QED
  BY <1>1, <1>2, <1>3, <1>4, <1>5 DEF OwnedInv, OwnedUntilPaid, InCare

\* RecoverUnprocessed's query no longer sees a row that is backfilled, so the
\* pending set and the goroutines are all that remember to pay it.  They do, through
\* every failed call, interleaving of the goroutines and reorganisation: only a
\* crash, or an extraction that found no payments, makes them forget.
THEOREM OwnedIsPaid == Spec => []OwnedUntilPaid
<1>1. Init => OwnedInv
  BY HandsInitial DEF Init, OwnedInv, OwnedUntilPaid, StoreInit
<1>2. IInv /\ OwnedInv /\ [Next]_vars => OwnedInv'
  BY OwnedStep
<1>3. OwnedInv => OwnedUntilPaid
  BY DEF OwnedInv
<1> QED
  BY <1>1, <1>2, <1>3, Invariance, PTL DEF Spec

-----------------------------------------------------------------------------
(* The payments of a height are recorded once each time it is handed out.  *)

\* What a goroutine's step does to its own hands: it drops heights, takes what it
\* removes from the pending set, or pays the height of its processBlock.
LEMMA ProcessHands ==
    ASSUME TypeOK, HandsInv, NEW p \in Goroutines, Process(p), job[p] \notin batch[p]
    PROVE  /\ job'[p] \notin batch'[p]
           /\ \/ /\ UNCHANGED payments
                 /\ InHand(p)' \subseteq InHand(p) \cup (pending \ pending')
              \/ /\ job[p] \in Heights /\ job[p] \in InHand(p)
                 /\ payments' = [payments EXCEPT ![job[p]] = Append(payments[job[p]], blk[p])]
                 /\ InHand(p)' \subseteq InHand(p) \ {job[p]}
<1>0. /\ batch[p] \subseteq Heights /\ pending \subseteq Heights /\ 0 \notin Heights
      /\ job \in [Goroutines -> 0..MaxHeight] /\ batch \in [Goroutines -> SUBSET Heights]
      /\ pc \in [Goroutines -> PC]
  BY HeightType DEF TypeOK, ScannerTypeOK
<1>1. ASSUME batch'[p] = {}, job'[p] = 0
      PROVE  job'[p] \notin batch'[p] /\ InHand(p)' = {}
  BY <1>1 DEF InHand
<1>2. ASSUME NEW rest \in SUBSET batch[p], Finish(p, rest), pc[p] # "found"
      PROVE  job'[p] \notin batch'[p] /\ InHand(p)' = rest /\ rest \subseteq InHand(p)
  <2>1. pc'[p] # "found" /\ batch'[p] = rest /\ job'[p] = 0
    BY <1>2, FinishHands
  <2> QED
    BY <1>0, <1>2, <2>1 DEF InHand
<1>3. CASE QueryUnprocessed(p)
  <2>1. UNCHANGED payments
    BY <1>3 DEF QueryUnprocessed, storeVars
  <2>2. CASE Return(p)
    BY <1>1, <2>1, <2>2, ReturnHands
  <2>3. CASE Goto(p, "found") /\ batch' = [batch EXCEPT ![p] = Unprocessed] /\ UNCHANGED job
    <3>1. pc'[p] = "found" /\ batch'[p] = Unprocessed /\ job'[p] = 0
      BY <1>0, <1>3, <2>3 DEF QueryUnprocessed, Goto, HandsInv, Processing
    <3>2. 0 \notin Unprocessed
      BY <1>0 DEF Unprocessed
    <3> QED
      BY <2>1, <3>1, <3>2 DEF InHand
  <2> QED
    BY <1>3, <2>2, <2>3 DEF QueryUnprocessed
<1>4. CASE AddRecovered(p) \/ FetchTip(p)
  <2>1. batch'[p] = {} /\ job'[p] = 0 /\ UNCHANGED payments
    BY <1>0, <1>4, ReturnHands DEF AddRecovered, FetchTip, storeVars, HandsInv, Processing
  <2> QED
    BY <1>1, <2>1
<1>5. CASE CheckConfirmations(p)
  <2>1. /\ pending' = pending \ Confirmed(cur[p]) /\ UNCHANGED payments
        /\ pc'[p] # "found" /\ batch'[p] = Confirmed(cur[p]) /\ job'[p] = 0
    BY <1>0, <1>5, FinishHands DEF CheckConfirmations, storeVars
  <2>2. Confirmed(cur[p]) \subseteq pending
    BY DEF Confirmed
  <2> QED
    BY <1>0, <2>1, <2>2 DEF InHand
<1>6. CASE CheckExists(p)
  <2>1. pc[p] = "loop" /\ UNCHANGED payments
    BY <1>6 DEF CheckExists, storeVars
  <2>2. PICK g \in batch[p] :
           \/ /\ Goto(p, "fetch")
              /\ batch' = [batch EXCEPT ![p] = batch[p] \ {g}]
              /\ job' = [job EXCEPT ![p] = g]
           \/ Finish(p, batch[p] \ {g})
    BY <1>6 DEF CheckExists, Done, Retry
  <2>3. CASE Finish(p, batch[p] \ {g})
    BY <1>2, <2>1, <2>3
  <2>4. CASE /\ Goto(p, "fetch")
             /\ batch' = [batch EXCEPT ![p] = batch[p] \ {g}]
             /\ job' = [job EXCEPT ![p] = g]
    <3>1. pc'[p] = "fetch" /\ batch'[p] = batch[p] \ {g} /\ job'[p] = g
      BY <1>0, <2>4 DEF Goto
    <3> QED
      BY <2>1, <3>1 DEF InHand
  <2> QED
    BY <2>2, <2>3, <2>4
<1>7. CASE FetchBlock(p) \/ Backfill(p) \/ ExtractPayments(p)
  <2>1. pc[p] # "found" /\ UNCHANGED payments
    BY <1>7 DEF FetchBlock, Backfill, FillRow, ExtractPayments, storeVars
  <2>2. Finish(p, batch[p]) \/ (pc'[p] # "found" /\ UNCHANGED <<batch, job>>)
    BY <1>0, <1>7 DEF FetchBlock, Backfill, ExtractPayments, Done, Retry, Goto
  <2>3. CASE Finish(p, batch[p])
    BY <1>2, <2>1, <2>3
  <2>4. CASE pc'[p] # "found" /\ UNCHANGED <<batch, job>>
    BY <2>1, <2>4 DEF InHand
  <2> QED
    BY <2>2, <2>3, <2>4
<1>8. CASE RecordPayments(p)
  <2>1. pc[p] # "found" /\ job[p] \in Heights
    BY <1>0, <1>8 DEF RecordPayments, Processing, TypeOK, ScannerTypeOK
  <2>2. Finish(p, batch[p]) /\ (UNCHANGED payments \/ InsertPayments(job[p], blk[p]))
    BY <1>8 DEF RecordPayments, Done, Retry, storeVars
  <2>3. job'[p] \notin batch'[p] /\ InHand(p)' = batch[p] /\ batch[p] \subseteq InHand(p)
    BY <1>2, <2>1, <2>2
  <2>4. job[p] \in InHand(p)
    BY <1>0, <2>1 DEF InHand
  <2> QED
    BY <2>1, <2>2, <2>3, <2>4 DEF InsertPayments
<1> QED
  BY <1>3, <1>4, <1>5, <1>6, <1>7, <1>8 DEF Process, ScannerStep

\* Claims are numbers.
LEMMA ClaimsType ==
    ASSUME TypeOK, NEW h \in Heights
    PROVE  Len(payments[h]) \in Nat /\ recalls[h] \in Nat
<1>1. payments[h] \in Seq(Block)
  BY DEF TypeOK, StoreTypeOK
<1> QED
  BY <1>1 DEF TypeOK

LEMMA SumIsNat ==
    ASSUME NEW x \in Nat, NEW y \in Nat
    PROVE  x + y \in Nat
OBVIOUS

\* What a count is.
LEMMA Counts ==
    ASSUME NEW h, NEW heights
    PROVE  /\ Count(h, heights) \in Nat /\ Count(h, heights) <= 1
           /\ h \in heights => Count(h, heights) = 1
           /\ h \notin heights => Count(h, heights) = 0
BY DEF Count

\* One goroutine turns at most what left the pending set into new claims, and a
\* height that enters the set without being handed out again has no other claim.
LEMMA ClaimsOfStep ==
    ASSUME TypeOK, TypeOK', ClaimsInv, CountRecalls, NEW p \in Goroutines, NEW h \in Heights,
           \A q \in Goroutines : q # p => InHand(q)' = InHand(q),
           Len(payments'[h]) + Count(h, InHand(p)') <=
               Len(payments[h]) + Count(h, InHand(p)) + Count(h, pending \ pending')
    PROVE  Claims(h)' <= 1 + recalls'[h]
<1>0. /\ Len(payments[h]) \in Nat /\ recalls[h] \in Nat
      /\ Len(payments'[h]) \in Nat /\ recalls'[h] \in Nat
  <2>1. /\ payments[h] \in Seq(Block) /\ payments'[h] \in Seq(Block)
        /\ recalls[h] \in Nat /\ recalls'[h] \in Nat
    BY DEF TypeOK, StoreTypeOK
  <2> QED
    BY <2>1
<1>1. recalls'[h] = IF h \in Recalled THEN recalls[h] + 1 ELSE recalls[h]
  BY DEF CountRecalls
<1>2. Claims(h) <= 1 + recalls[h]
  BY DEF ClaimsInv
<1>3. CASE h \in pending' /\ h \notin pending /\ h \notin Recalled
  <2>1. payments'[h] = <<>> /\ \A q \in Goroutines : h \notin InHand(q)'
    BY <1>3 DEF Recalled
  <2>2. Len(payments'[h]) = 0
    BY <2>1
  <2>3. h \notin InHand("listener")' /\ h \notin InHand("recovery")'
    BY <2>1 DEF Goroutines
  <2>4. Count(h, pending') <= 1 /\ Count(h, pending') \in Nat
        /\ Count(h, InHand("listener")') = 0 /\ Count(h, InHand("recovery")') = 0
    BY <2>3, Counts
  <2> QED
    BY <1>0, <2>2, <2>4 DEF Claims
<1>4. CASE ~(h \in pending' /\ h \notin pending /\ h \notin Recalled)
  <2>0. DEFINE other == IF p = "listener" THEN "recovery" ELSE "listener"
  <2>1. other \in Goroutines /\ other # p /\ p \in {"listener", "recovery"}
    BY DEF Goroutines
  <2>2. InHand(other)' = InHand(other)
    BY <2>1
  <2>3. /\ Claims(h) = Len(payments[h]) + Count(h, pending)
                       + Count(h, InHand(p)) + Count(h, InHand(other))
        /\ Claims(h)' = Len(payments'[h]) + Count(h, pending')
                       + Count(h, InHand(p)') + Count(h, InHand(other)')
    <3>1. /\ Count(h, InHand("listener")) \in Nat /\ Count(h, InHand("recovery")) \in Nat
          /\ Count(h, InHand("listener")') \in Nat /\ Count(h, InHand("recovery")') \in Nat
          /\ Count(h, pending) \in Nat /\ Count(h, pending') \in Nat
      BY Counts
    <3> DEFINE left == InHand("listener")
               right == InHand("recovery")
    <3>2. /\ Claims(h) = Len(payments[h]) + Count(h, pending) + Count(h, left) + Count(h, right)
          /\ Claims(h)' = Len(payments'[h]) + Count(h, pending') + Count(h, left') + Count(h, right')
      BY DEF Claims
    <3>3. CASE p = "listener"
      BY <3>2, <3>3 DEF other
    <3>4. CASE p = "recovery"
      <4>1. InHand(p) = right /\ InHand(other) = left
        BY <3>4
      <4>2. InHand(p)' = right' /\ InHand(other)' = left'
        BY <3>4
      <4>3. /\ Len(payments[h]) + Count(h, pending) + Count(h, left) + Count(h, right)
               = Len(payments[h]) + Count(h, pending) + Count(h, right) + Count(h, left)
            /\ Len(payments'[h]) + Count(h, pending') + Count(h, left') + Count(h, right')
               = Len(payments'[h]) + Count(h, pending') + Count(h, right') + Count(h, left')
        <5> DEFINE a == Len(payments[h]) + Count(h, pending)
                   a1 == Len(payments'[h]) + Count(h, pending')
                   c == Count(h, left)
                   c1 == Count(h, left')
                   d == Count(h, right)
                   d1 == Count(h, right')
        <5>1. /\ a \in Nat /\ a1 \in Nat /\ c \in Nat /\ c1 \in Nat /\ d \in Nat /\ d1 \in Nat
          <6>1. c \in Nat /\ c1 \in Nat /\ d \in Nat /\ d1 \in Nat
            BY <3>1
          <6>2. a \in Nat
            BY <1>0, <3>1, SumIsNat
          <6>3. a1 \in Nat
            BY <1>0, <3>1, SumIsNat
          <6> HIDE DEF a, a1, c, c1, d, d1
          <6> QED
            BY <6>1, <6>2, <6>3
        <5> HIDE DEF a, a1, c, c1, d, d1
        <5>2. a + c + d = a + d + c /\ a1 + c1 + d1 = a1 + d1 + c1
          BY <5>1
        <5> QED
          BY <5>2 DEF a, a1, c, c1, d, d1
      <4> HIDE DEF left, right, other
      <4> QED
        BY <3>2, <4>1, <4>2, <4>3
    <3> QED
      BY <2>1, <3>3, <3>4
  <2> HIDE DEF other
  <2>4. /\ Count(h, pending') + Count(h, pending \ pending') + recalls[h]
             <= Count(h, pending) + recalls'[h]
        /\ \A t \in {pending, pending', pending \ pending', InHand(p), InHand(p)', InHand(other)} :
              Count(h, t) \in Nat
    <3>1. \A t : Count(h, t) \in Nat
      BY Counts
    <3>2. CASE h \in pending \/ h \notin pending'
      <4>1. Count(h, pending') + Count(h, pending \ pending') <= Count(h, pending)
        <5>1. CASE h \in pending' /\ h \in pending
          <6>1. /\ Count(h, pending') = 1 /\ Count(h, pending) = 1
                /\ Count(h, pending \ pending') = 0
            BY <5>1, Counts
          <6> QED
            BY <6>1
        <5>2. CASE h \notin pending' /\ h \in pending
          <6>1. /\ Count(h, pending') = 0 /\ Count(h, pending) = 1
                /\ Count(h, pending \ pending') = 1
            BY <5>2, Counts
          <6> QED
            BY <6>1
        <5>3. CASE h \notin pending' /\ h \notin pending
          <6>1. /\ Count(h, pending') = 0 /\ Count(h, pending) = 0
                /\ Count(h, pending \ pending') = 0
            BY <5>3, Counts
          <6> QED
            BY <6>1
        <5> QED
          BY <3>2, <5>1, <5>2, <5>3
      <4>2. recalls[h] <= recalls'[h]
        BY <1>0, <1>1
      <4> QED
        BY SMTT(30), <1>0, <3>1, <4>1, <4>2
    <3>3. CASE h \in pending' /\ h \notin pending
      <4>1. recalls'[h] = recalls[h] + 1
        BY <1>1, <1>4, <3>3
      <4>2. Count(h, pending') = 1 /\ Count(h, pending \ pending') = 0 /\ Count(h, pending) = 0
        BY <3>3, Counts
      <4> QED
        BY <1>0, <3>1, <4>1, <4>2
    <3> QED
      BY <3>2, <3>3
  <2>5. \A t : Count(h, t) \in Nat
    BY Counts
  <2>6. Len(payments'[h]) + Count(h, InHand(p)')
          <= Len(payments[h]) + Count(h, InHand(p)) + Count(h, pending \ pending')
    OBVIOUS
  <2>7. Len(payments'[h]) + Count(h, pending') + Count(h, InHand(p)') + Count(h, InHand(other))
          <= 1 + recalls'[h]
    <3>1. Len(payments[h]) + Count(h, pending) + Count(h, InHand(p)) + Count(h, InHand(other))
            <= 1 + recalls[h]
      BY <1>2, <2>3
    <3> DEFINE a == Len(payments[h])
               a1 == Len(payments'[h])
               b == Count(h, pending)
               b1 == Count(h, pending')
               c == Count(h, InHand(p))
               c1 == Count(h, InHand(p)')
               d == Count(h, InHand(other))
               e == Count(h, pending \ pending')
               x == recalls[h]
               x1 == recalls'[h]
    <3>2. /\ a \in Nat /\ a1 \in Nat /\ b \in Nat /\ b1 \in Nat /\ c \in Nat /\ c1 \in Nat
          /\ d \in Nat /\ e \in Nat /\ x \in Nat /\ x1 \in Nat
      BY <1>0, <2>5
    <3>3. a + b + c + d <= 1 + x /\ a1 + c1 <= a + c + e /\ b1 + e + x <= b + x1
      BY <2>4, <2>6, <3>1
    <3> HIDE DEF a, a1, b, b1, c, c1, d, e, x, x1
    <3>4. a1 + b1 + c1 + d <= 1 + x1
      BY <3>2, <3>3
    <3> QED
      BY <3>4 DEF a, a1, b, b1, c, c1, d, e, x, x1
  <2> QED
    BY <2>2, <2>3, <2>7
<1> QED
  BY <1>3, <1>4

\* A goroutine's step makes no claim without need.
LEMMA ProcessClaims ==
    ASSUME TypeOK, TypeOK', HandsInv, ClaimsInv, NEW p \in Goroutines, Process(p)
    PROVE  ClaimsInv'
<1>1. /\ \A q \in Goroutines : q # p => /\ pc'[q] = pc[q] /\ batch'[q] = batch[q]
                                        /\ job'[q] = job[q]
  BY ProcessFrame
<1>2. \A q \in Goroutines : q # p => InHand(q)' = InHand(q)
  BY <1>1 DEF InHand
<1>3. job[p] \notin batch[p] /\ CountRecalls
  BY DEF ClaimsInv, Process
<1>4. \A q \in Goroutines : job'[q] \notin batch'[q]
  BY <1>1, <1>3, ProcessHands DEF ClaimsInv
<1>5. ASSUME NEW h \in Heights
      PROVE  Len(payments'[h]) + Count(h, InHand(p)') <=
               Len(payments[h]) + Count(h, InHand(p)) + Count(h, pending \ pending')
  <2>0. /\ Len(payments[h]) \in Nat
        /\ \A t : Count(h, t) \in Nat /\ Count(h, t) <= 1
    BY ClaimsType, Counts
  <2>1. CASE UNCHANGED payments /\ InHand(p)' \subseteq InHand(p) \cup (pending \ pending')
    <3>1. Count(h, InHand(p)') <= Count(h, InHand(p)) + Count(h, pending \ pending')
      <4>1. CASE h \in InHand(p)'
        <5>1. h \in InHand(p) \/ h \in pending \ pending'
          BY <2>1, <4>1
        <5> QED
          BY <2>0, <4>1, <5>1, Counts
      <4>2. CASE h \notin InHand(p)'
        BY <2>0, <4>2, Counts
      <4> QED
        BY <4>1, <4>2
    <3>2. payments' = payments
      BY <2>1
    <3> QED
      BY <2>0, <3>1, <3>2
  <2>2. CASE /\ job[p] \in Heights /\ job[p] \in InHand(p)
             /\ payments' = [payments EXCEPT ![job[p]] = Append(payments[job[p]], blk[p])]
             /\ InHand(p)' \subseteq InHand(p) \ {job[p]}
    <3>1. payments \in [Heights -> Seq(Block)] /\ blk[p] \in Block
      BY DEF TypeOK, StoreTypeOK, ScannerTypeOK
    <3>2. CASE h = job[p]
      <4>1. Len(payments'[h]) = Len(payments[h]) + 1
        BY <2>2, <3>1, <3>2, AppendLonger
      <4>2. Count(h, InHand(p)) = 1 /\ Count(h, InHand(p)') = 0
        BY <2>2, <3>2, Counts
      <4> QED
        BY <2>0, <4>1, <4>2
    <3>3. CASE h # job[p]
      <4>1. payments'[h] = payments[h]
        BY <2>2, <3>1, <3>3
      <4>2. Count(h, InHand(p)') <= Count(h, InHand(p))
        <5>1. CASE h \in InHand(p)'
          <6>1. h \in InHand(p)
            BY <2>2, <5>1
          <6> QED
            BY <5>1, <6>1, Counts
        <5>2. CASE h \notin InHand(p)'
          BY <2>0, <5>2, Counts
        <5> QED
          BY <5>1, <5>2
      <4> QED
        BY <2>0, <4>1, <4>2
    <3> QED
      BY <3>2, <3>3
  <2> QED
    BY <1>3, <2>1, <2>2, ProcessHands
<1>6. \A h \in Heights : Claims(h)' <= 1 + recalls'[h]
  BY <1>2, <1>3, <1>5, ClaimsOfStep
<1> QED
  BY <1>4, <1>6 DEF ClaimsInv

\* So does no other step.
LEMMA ClaimsStep ==
    ASSUME TypeOK, TypeOK', HandsInv, ClaimsInv, [Next]_vars
    PROVE  ClaimsInv'
<1> USE DEF TypeOK, ScannerTypeOK
<1>1. ASSUME NEW p \in Goroutines, Process(p) PROVE ClaimsInv'
  BY <1>1, ProcessClaims
<1>2. ASSUME UNCHANGED <<payments, recalls>>, pending' \subseteq pending,
             \A q \in Goroutines : InHand(q)' \subseteq InHand(q) /\ job'[q] \notin batch'[q]
      PROVE  ClaimsInv'
  <2>1. ASSUME NEW h \in Heights PROVE Claims(h)' <= 1 + recalls'[h]
    <3>1. /\ InHand("listener")' \subseteq InHand("listener")
          /\ InHand("recovery")' \subseteq InHand("recovery")
      BY <1>2 DEF Goroutines
    <3>2. Claims(h) <= 1 + recalls[h] /\ Len(payments[h]) \in Nat /\ recalls[h] \in Nat
      BY ClaimsType DEF ClaimsInv
    <3>3. ASSUME NEW s, NEW t, s \subseteq t
          PROVE  Count(h, s) \in Nat /\ Count(h, t) \in Nat /\ Count(h, s) <= Count(h, t)
      <4>1. CASE h \in s
        BY <3>3, <4>1, Counts
      <4>2. CASE h \notin s
        BY <4>2, Counts
      <4> QED
        BY <4>1, <4>2
    <3>4. /\ Count(h, pending') <= Count(h, pending)
          /\ Count(h, InHand("listener")') <= Count(h, InHand("listener"))
          /\ Count(h, InHand("recovery")') <= Count(h, InHand("recovery"))
      BY <1>2, <3>1, <3>3
    <3>5. \A t : Count(h, t) \in Nat
      BY Counts
    <3>6. payments'[h] = payments[h] /\ recalls'[h] = recalls[h]
      BY <1>2
    <3>7. Len(payments'[h]) + Count(h, pending') + Count(h, InHand("listener")')
            + Count(h, InHand("recovery")') <=
          Len(payments[h]) + Count(h, pending) + Count(h, InHand("listener"))
            + Count(h, InHand("recovery"))
      <4> DEFINE a == Len(payments[h])
                 b == Count(h, pending)
                 c == Count(h, InHand("listener"))
                 d == Count(h, InHand("recovery"))
                 b1 == Count(h, pending')
                 c1 == Count(h, InHand("listener")')
                 d1 == Count(h, InHand("recovery")')
      <4>1. /\ a \in Nat /\ b \in Nat /\ c \in Nat /\ d \in Nat
            /\ b1 \in Nat /\ c1 \in Nat /\ d1 \in Nat
            /\ b1 <= b /\ c1 <= c /\ d1 <= d
        BY <3>2, <3>4, <3>5
      <4>2. Len(payments'[h]) = a
        BY <3>6
      <4> HIDE DEF a, b, c, d, b1, c1, d1
      <4>3. a + b1 + c1 + d1 <= a + b + c + d
        BY <4>1
      <4> QED
        BY <4>2, <4>3 DEF a, b, c, d, b1, c1, d1
    <3>8. /\ Claims(h)' = Len(payments'[h]) + Count(h, pending')
                            + Count(h, InHand("listener")') + Count(h, InHand("recovery")')
          /\ Claims(h) = Len(payments[h]) + Count(h, pending)
                            + Count(h, InHand("listener")) + Count(h, InHand("recovery"))
      BY DEF Claims
    <3>9. /\ Len(payments'[h]) + Count(h, pending') + Count(h, InHand("listener")')
               + Count(h, InHand("recovery")') \in Nat
          /\ Len(payments[h]) + Count(h, pending) + Count(h, InHand("listener"))
               + Count(h, InHand("recovery")) \in Nat
      <4>1. \A a, b, c, d \in Nat : a + b + c + d \in Nat
        OBVIOUS
      <4>2. Len(payments'[h]) \in Nat
        BY <3>2, <3>6
      <4> QED
        BY <3>2, <3>5, <4>1, <4>2
    <3>10. Claims(h)' \in Nat /\ Claims(h) \in Nat /\ Claims(h)' <= Claims(h)
      BY <3>7, <3>8, <3>9
    <3> QED
      BY <3>2, <3>6, <3>10
  <2> QED
    BY <1>2, <2>1 DEF ClaimsInv
<1>3. CASE UNCHANGED <<scannerVars, payments>> /\ (UNCHANGED recalls \/ CountRecalls)
  <2>1. UNCHANGED recalls
    <3>1. CASE CountRecalls
      <4>1. Recalled = {}
        BY <1>3 DEF Recalled, scannerVars
      <4>2. recalls' = [h \in Heights |-> recalls[h]]
        BY <3>1, <4>1 DEF CountRecalls
      <4> QED
        BY <4>2
    <3> QED
      BY <1>3, <3>1
  <2> QED
    BY <1>2, <1>3, <2>1 DEF scannerVars, InHand, ClaimsInv
<1>4. CASE FireHandlers /\ UNCHANGED storeVars /\ CountRecalls
  <2>1. /\ pc["listener"] = "idle" /\ pc'["listener"] = "check" /\ UNCHANGED <<batch, job>>
        /\ \A q \in Goroutines : q # "listener" => pc'[q] = pc[q]
        /\ pending \subseteq pending' /\ UNCHANGED payments
    BY <1>4 DEF FireHandlers, HandleNewBlock, Goto, Goroutines, storeVars
  <2>2. \A q \in Goroutines : InHand(q)' = InHand(q)
    <3>1. \A q \in Goroutines : (pc'[q] = "found") <=> (pc[q] = "found")
      BY <2>1
    <3> QED
      BY <2>1, <3>1 DEF InHand
  <2>3. ASSUME NEW h \in Heights PROVE Claims(h)' <= 1 + recalls'[h]
    <3>1. "listener" \in Goroutines
      BY DEF Goroutines
    <3>2. Len(payments'[h]) + Count(h, InHand("listener")') <=
             Len(payments[h]) + Count(h, InHand("listener"))
             + Count(h, pending \ pending')
      <4>1. Len(payments[h]) \in Nat /\ \A t : Count(h, t) \in Nat
        BY ClaimsType, Counts
      <4>2. payments'[h] = payments[h] /\ InHand("listener")' = InHand("listener")
        BY <2>1, <2>2, <3>1
      <4> QED
        BY <4>1, <4>2
    <3> QED
      BY <1>4, <2>2, <3>1, <3>2, ClaimsOfStep
  <2> QED
    BY <2>1, <2>3 DEF ClaimsInv
<1>5. CASE Crash
  <2>1. /\ UNCHANGED <<payments, recalls>> /\ pending' = {}
        /\ \A q \in Goroutines : pc'[q] # "found" /\ batch'[q] = {} /\ job'[q] = 0
    BY <1>5 DEF Crash, ScannerRestart, StartPC, storeVars, historyVars
  <2> QED
    BY <1>2, <2>1 DEF InHand
<1>6. CASE RecoveryTick
  <2>1. UNCHANGED <<pending, batch, job, payments, recalls>>
    BY <1>6 DEF RecoveryTick, storeVars, historyVars
  <2>2. \A q \in Goroutines : pc[q] = "found" => pc'[q] = "found"
    BY <1>6 DEF RecoveryTick, Goto
  <2> QED
    BY <1>2, <2>1, <2>2 DEF InHand, ClaimsInv
<1> QED
  BY <1>1, <1>3, <1>4, <1>5, <1>6
  DEF Next, vars, NewBlock, IndexerStep, FetchStats, InsertFound, InsertRow, ListenerStep,
      ConnectionLost, storeVars, historyVars

\* At the start no height is claimed.
LEMMA ClaimsInitial == Init => ClaimsInv
<1> SUFFICES ASSUME Init PROVE ClaimsInv
  OBVIOUS
<1> USE DEF Init, StoreInit, ScannerInit
<1>1. \A p \in Goroutines : InHand(p) = {} /\ job[p] \notin batch[p]
  BY DEF InHand
<1>2. ASSUME NEW h \in Heights PROVE Claims(h) <= 1 + recalls[h]
  <2>1. h \notin InHand("listener") /\ h \notin InHand("recovery")
    BY <1>1 DEF Goroutines
  <2>2. payments[h] = <<>> /\ pending = {} /\ recalls[h] = 0 /\ Len(<<>>) = 0
    OBVIOUS
  <2>3. /\ Count(h, pending) = 0
        /\ Count(h, InHand("listener")) = 0 /\ Count(h, InHand("recovery")) = 0
    BY <2>1, <2>2, Counts
  <2>4. Len(payments[h]) = 0
    BY <2>2
  <2> QED
    BY <2>2, <2>3, <2>4 DEF Claims
<1> QED
  BY <1>1, <1>2 DEF ClaimsInv

THEOREM ClaimsInvariance == Spec => [](IInv /\ HandsInv /\ ClaimsInv)
<1>1. Init => HandsInv /\ ClaimsInv
  BY HandsInitial, ClaimsInitial
<1>2. /\ IInv /\ IInv' /\ HandsInv /\ ClaimsInv /\ [Next]_vars
      => HandsInv' /\ ClaimsInv'
  BY HandsStep, ClaimsStep DEF IInv
<1> QED
  BY <1>1, <1>2, Invariance, PTL DEF Spec

\* Whatever the configuration, the ticker's goroutine, lost answers, failing calls,
\* reorganisations and crashes do: a height is paid once each time it is handed
\* out.  A second payment needs the height back in the pending set while it is
\* paid, or is in a goroutine's hands.
THEOREM BlocksPaidOnce == Spec => []OncePerHandout
<1>1. TypeOK /\ ClaimsInv => OncePerHandout
  <2> SUFFICES ASSUME TypeOK, ClaimsInv, NEW h \in Heights
               PROVE  Len(payments[h]) <= 1 + recalls[h]
    BY DEF OncePerHandout
  <2>1. Claims(h) <= 1 + recalls[h] /\ Len(payments[h]) \in Nat /\ recalls[h] \in Nat
    BY ClaimsType DEF ClaimsInv
  <2>2. \A t : Count(h, t) \in Nat
    BY Counts
  <2> QED
    BY <2>1, <2>2 DEF Claims
<1> QED
  BY <1>1, ClaimsInvariance, PTL DEF IInv

-----------------------------------------------------------------------------
(* The pipeline implements the ledger.                                     *)

\* The ledger's view of the pipeline.
Found == {h \in Heights : row[h] # "none"}
SettledTip == IF tip < ConfirmDepth THEN 0 ELSE tip - ConfirmDepth
Paid == [h \in Heights |-> Len(payments[h])]

\* What AnnouncedInOrder relates are numbers.
LEMMA AnnouncedType ==
    ASSUME TypeOK
    PROVE  /\ tip \in Nat /\ fireNext \in Nat /\ fireNext >= 1 /\ fireLast \in Nat
           /\ lastHeight \in Nat /\ ConfirmDepth \in Nat
           /\ \A p \in Goroutines : cur[p] \in Nat
           /\ zmq \in Seq([first: Heights, n: Heights])
           /\ \A i \in DOMAIN zmq : /\ i \in Nat
                                    /\ zmq[i].first \in Nat /\ zmq[i].first >= 1
                                    /\ zmq[i].n \in Nat
<1>1. zmq \in Seq([first: Heights, n: Heights])
  BY DEF TypeOK, ListenerTypeOK
<1>2. \A i \in DOMAIN zmq : i \in Nat
  BY <1>1
<1>3. \A i \in DOMAIN zmq : /\ zmq[i].first \in Nat /\ zmq[i].first >= 1 /\ zmq[i].n \in Nat
  BY ZmqElement DEF Heights
<1> QED
  BY <1>1, <1>2, <1>3, ChainAssumption, ScannerAssumption
  DEF TypeOK, ChainTypeOK, ListenerTypeOK, ScannerTypeOK

\* A height with a recorded payment is settled, and its row filled.
LEMMA PaidIsSettled ==
    ASSUME TypeOK, StoreInv, NEW h \in Heights, payments[h] # <<>>
    PROVE  row[h] = "filled" /\ Settled(h)
<1>1. payments[h] \in Seq(Block)
  BY DEF TypeOK, StoreTypeOK
<1>2. 1 \in DOMAIN payments[h]
  BY <1>1
<1> QED
  BY <1>2 DEF StoreInv, RowOK

\* The heights in hand are settled.
LEMMA InHandIsSettled ==
    ASSUME TypeOK, HandsInv, GoroutineInv, NEW p \in Goroutines, NEW h \in InHand(p)
    PROVE  h \in Heights /\ Settled(h)
<1>1. CASE pc[p] # "found" /\ h \in batch[p]
  BY <1>1 DEF GoroutineInv, GoroutineOK, TypeOK, ScannerTypeOK
<1>2. CASE h = job[p] /\ job[p] # 0
  BY <1>2 DEF GoroutineInv, GoroutineOK, TypeOK, ScannerTypeOK, HandsInv
<1> QED
  BY <1>1, <1>2 DEF InHand

\* The ledger is empty at the start.
LEMMA LedgerInitStep == Init => Ledger!Init
BY ScannerAssumption
DEF Init, ChainInit, StoreInit, Ledger!Init

\* A new block settles at most one more height.
LEMMA NewBlockSettles ==
    ASSUME TypeOK, NewBlock
    PROVE  /\ SettledTip' \in {SettledTip, SettledTip + 1}
           /\ UNCHANGED <<Found, Paid>>
<1>1. tip' = tip + 1 /\ tip \in Nat /\ ConfirmDepth \in Nat
  BY AnnouncedType DEF NewBlock, Mine, Reorg
<1>2. UNCHANGED <<row, payments>>
  BY DEF NewBlock, storeVars
<1> QED
  BY <1>1, <1>2 DEF SettledTip, Found, Paid

\* A settled height is one of the ledger's settled heights.
LEMMA SettledHeight ==
    ASSUME TypeOK, NEW h \in Heights, Settled(h)
    PROVE  h <= SettledTip
<1>1. tip \in Nat /\ ConfirmDepth \in Nat /\ h \in Nat /\ h >= 1
  BY AnnouncedType, HeightType
<1> QED
  BY <1>1 DEF Settled, SettledTip

\* Recording the payments of a block is the ledger's Pay.
LEMMA RecordPays ==
    ASSUME IInv, HandsInv, ClaimsInv, NEW p \in Goroutines, Process(p), RecordPayments(p),
           InsertPayments(job[p], blk[p])
    PROVE  /\ job[p] \in Found /\ job[p] <= SettledTip /\ Paid[job[p]] <= recalls[job[p]]
           /\ Paid' = [Paid EXCEPT ![job[p]] = Paid[job[p]] + 1]
           /\ UNCHANGED <<Found, SettledTip>>
<1>0. TypeOK /\ GoroutineInv
  BY DEF IInv
<1>1. /\ job[p] \in Heights /\ Settled(job[p]) /\ row[job[p]] = "filled"
      /\ blk[p] \in Block /\ payments \in [Heights -> Seq(Block)]
  BY <1>0
  DEF RecordPayments, GoroutineInv, GoroutineOK, Processing, TypeOK, ScannerTypeOK, StoreTypeOK
<1>2. Len(payments[job[p]]) <= recalls[job[p]]
  <2>1. job[p] \in InHand(p) /\ p \in {"listener", "recovery"}
    BY <1>1, HeightType DEF InHand, Goroutines
  <2>2. Claims(job[p]) <= 1 + recalls[job[p]]
    BY <1>1 DEF ClaimsInv
  <2>3. Len(payments[job[p]]) \in Nat /\ recalls[job[p]] \in Nat
    BY <1>0, <1>1, ClaimsType
  <2>4. Claims(job[p]) >= Len(payments[job[p]]) + 1
    <3>0. Count(job[p], InHand(p)) = 1 /\ \A t : Count(job[p], t) \in Nat
      BY <2>1, Counts
    <3>1. CASE p = "listener"
      BY <2>3, <3>0, <3>1 DEF Claims
    <3>2. CASE p = "recovery"
      BY <2>3, <3>0, <3>2 DEF Claims
    <3> QED
      BY <2>1, <3>1, <3>2
  <2>5. Claims(job[p]) \in Nat
    BY <2>3, Counts DEF Claims
  <2> HIDE DEF Claims
  <2> QED
    BY <2>2, <2>3, <2>4, <2>5
<1>3. /\ payments' = [payments EXCEPT ![job[p]] = Append(payments[job[p]], blk[p])]
      /\ row' = row /\ tip' = tip
  BY <1>0, ProcessFrame DEF InsertPayments
<1>4. Len(payments'[job[p]]) = Len(payments[job[p]]) + 1
  BY <1>1, <1>3, AppendLonger
<1>5. Paid' = [Paid EXCEPT ![job[p]] = Paid[job[p]] + 1]
  <2>1. \A h \in Heights : h # job[p] => payments'[h] = payments[h]
    BY <1>1, <1>3
  <2> QED
    BY <1>1, <1>4, <2>1 DEF Paid
<1> QED
  BY <1>0, <1>1, <1>2, <1>3, <1>5, SettledHeight DEF Found, Paid, SettledTip

\* Only settled heights are handed out again, and the ledger counts them too.
LEMMA RecallStep ==
    ASSUME TypeOK, IInv', HandsInv', CountRecalls, tip' = tip
    PROVE  Ledger!Recall
<1>1. ASSUME NEW h \in Recalled PROVE h \in Heights /\ h <= SettledTip
  <2>1. TypeOK' /\ StoreInv' /\ GoroutineInv'
    BY DEF IInv
  <2>2. h \in Heights
    BY <2>1 DEF Recalled, TypeOK, ScannerTypeOK
  <2>3. Settled(h)'
    <3>1. CASE payments'[h] # <<>>
      BY <2>1, <2>2, <3>1 DEF StoreInv, RowOK, TypeOK, StoreTypeOK
    <3>2. CASE \E q \in Goroutines : h \in InHand(q)'
      BY <2>1, <2>2, <3>2
      DEF InHand, GoroutineInv, GoroutineOK, TypeOK, ScannerTypeOK, HandsInv
    <3> QED
      BY <3>1, <3>2 DEF Recalled
  <2>4. Settled(h)
    BY <2>3 DEF Settled
  <2> QED
    BY <2>2, <2>4, SettledHeight
<1>2. Recalled \in SUBSET {h \in Heights : h <= SettledTip}
  BY <1>1
<1>3. \E again \in SUBSET {h \in Heights : h <= SettledTip} :
         recalls' = [h \in Heights |-> IF h \in again THEN recalls[h] + 1 ELSE recalls[h]]
  BY <1>2 DEF CountRecalls
<1> QED
  BY <1>3 DEF Ledger!Recall, SettledTip

\* A step that hands out nothing again hands out the empty set.
LEMMA NothingRecalled ==
    ASSUME TypeOK, UNCHANGED recalls
    PROVE  Ledger!Recall
<1>1. {} \in SUBSET {h \in Heights : h <= SettledTip}
  OBVIOUS
<1>2. recalls' = [h \in Heights |-> IF h \in {} THEN recalls[h] + 1 ELSE recalls[h]]
  BY DEF TypeOK
<1>3. \E again \in SUBSET {h \in Heights : h <= SettledTip} :
         recalls' = [h \in Heights |-> IF h \in again THEN recalls[h] + 1 ELSE recalls[h]]
  BY <1>1, <1>2
<1> QED
  BY <1>3 DEF Ledger!Recall, SettledTip

\* Every step of the pipeline is a step of the ledger, or none.
LEMMA LedgerStep ==
    ASSUME IInv, IInv', HandsInv, HandsInv', ClaimsInv, [Next]_vars
    PROVE  [Ledger!Next]_(Ledger!ledger)
<1>0. TypeOK
  BY DEF IInv
<1>1. Ledger!Recall
  <2>1. CASE UNCHANGED recalls
    BY <1>0, <2>1, NothingRecalled
  <2>2. CASE CountRecalls /\ tip' = tip
    BY <1>0, <2>2, RecallStep
  <2> QED
    BY <2>1, <2>2
    DEF Next, vars, historyVars, NewBlock, IndexerStep, ListenerStep, ConnectionLost, Process,
        RecoveryTick, Crash, chainVars
<1> SUFFICES \/ UNCHANGED <<Found, SettledTip, Paid>>
             \/ /\ SettledTip' = SettledTip + 1
                /\ UNCHANGED <<Found, Paid>>
             \/ \E h \in Heights : /\ Found' = Found \cup {h}
                                   /\ UNCHANGED <<SettledTip, Paid>>
             \/ \E h \in Heights : /\ h \in Found /\ h <= SettledTip /\ Paid[h] <= recalls[h]
                                   /\ Paid' = [Paid EXCEPT ![h] = Paid[h] + 1]
                                   /\ UNCHANGED <<Found, SettledTip>>
  BY <1>1 DEF Found, SettledTip, Paid, Ledger!Next, Ledger!Settle, Ledger!Find, Ledger!Pay
<1>2. CASE NewBlock
  BY <1>0, <1>2, NewBlockSettles
<1>3. CASE IndexerStep
  <2>1. tip' = tip
    BY <1>3 DEF IndexerStep, chainVars
  <2>2. CASE UNCHANGED storeVars
    BY <2>1, <2>2 DEF storeVars, Found, SettledTip, Paid
  <2>3. CASE stats > 0 /\ InsertRow(stats)
    <3>1. stats \in Heights
      BY <1>0, <2>3, ChainAssumption DEF TypeOK, IndexerTypeOK, Heights
    <3>2. Found' = Found \cup {stats}
      BY <1>0, <2>3, <3>1 DEF InsertRow, Found, TypeOK, StoreTypeOK
    <3> QED
      BY <2>1, <2>3, <3>1, <3>2 DEF InsertRow, SettledTip, Paid
  <2> QED
    BY <1>3, <2>2, <2>3 DEF IndexerStep, InsertFound
<1>4. ASSUME NEW p \in Goroutines, Process(p)
      PROVE  \/ UNCHANGED <<Found, SettledTip, Paid>>
             \/ \E h \in Heights : /\ h \in Found /\ h <= SettledTip /\ Paid[h] <= recalls[h]
                                   /\ Paid' = [Paid EXCEPT ![h] = Paid[h] + 1]
                                   /\ UNCHANGED <<Found, SettledTip>>
  <2>1. tip' = tip
    BY <1>0, <1>4, ProcessFrame
  <2>2. CASE UNCHANGED storeVars
    BY <2>1, <2>2 DEF storeVars, Found, SettledTip, Paid
  <2>3. CASE Backfill(p) /\ FillRow(job[p], blk[p])
    <3>1. Found' = Found
      BY <1>0, <2>3 DEF FillRow, Found, TypeOK, StoreTypeOK
    <3> QED
      BY <2>1, <2>3, <3>1 DEF FillRow, SettledTip, Paid
  <2>4. CASE RecordPayments(p) /\ InsertPayments(job[p], blk[p])
    <3>1. job[p] \in Heights
      BY <1>0, <2>4 DEF RecordPayments, Processing, TypeOK, ScannerTypeOK
    <3> QED
      BY <1>4, <2>4, <3>1, RecordPays
  <2> QED
    BY <1>4, <2>2, <2>3, <2>4
    DEF Process, ScannerStep, QueryUnprocessed, AddRecovered, FetchTip, CheckConfirmations,
        CheckExists, FetchBlock, Backfill, ExtractPayments, RecordPayments
<1>5. CASE UNCHANGED <<chainVars, storeVars>>
  BY <1>5 DEF chainVars, storeVars, Found, SettledTip, Paid
<1> QED
  BY <1>2, <1>3, <1>4, <1>5 DEF Next, vars, ListenerStep, ConnectionLost, RecoveryTick, Crash

\* The manager keeps the ledger in every configuration: a payment is recorded for
\* a block that is known and on the settled part of the chain, and once each time
\* that the height is handed out.
THEOREM LedgerIsKept == Spec => LedgerSpec
<1>1. /\ IInv /\ HandsInv /\ ClaimsInv /\ (IInv /\ HandsInv /\ ClaimsInv)' /\ [Next]_vars
      => [Ledger!Next]_(Ledger!ledger)
  BY LedgerStep
<1> QED
  BY <1>1, ClaimsInvariance, LedgerInitStep, PTL DEF Spec, LedgerSpec, Ledger!Spec

-----------------------------------------------------------------------------
(* Each block is paid once while the recovery ticker does not fire next to *)
(* the listener and only database statements and block requests fail.      *)

LEMMA LedgerInitial == Init => OneAtATime /\ AnnouncedInOrder /\ OnceInv
<1> SUFFICES ASSUME Init PROVE OneAtATime /\ AnnouncedInOrder /\ OnceInv
  OBVIOUS
<1> USE DEF Init, ChainInit, StoreInit, ScannerInit, ListenerInit
<1>1. OneAtATime
  BY DEF OneAtATime, StartPC, Goroutines
<1>2. AnnouncedInOrder
  BY DEF AnnouncedInOrder
<1>3. OnceInv
  BY DEF OnceInv, InHand, Heights
<1> QED
  BY <1>1, <1>2, <1>3

\* When a goroutine moves, the other is idle and holds nothing.
LEMMA OtherIsIdle ==
    ASSUME TypeOK, HandsInv, OneAtATime, NEW p \in Goroutines, pc[p] # "idle",
           NEW q \in Goroutines, q # p
    PROVE  pc[q] = "idle" /\ batch[q] = {} /\ job[q] = 0
BY DEF OneAtATime, HandsInv, Goroutines, Processing

\* The listener starts after the recovery, which does not start again.
LEMMA OneAtATimeStep ==
    ASSUME ~PeriodicRecovery, TypeOK, OneAtATime, [Next]_vars
    PROVE  OneAtATime'
<1> USE DEF TypeOK, ScannerTypeOK
<1>1. CASE NewBlock
  BY <1>1 DEF NewBlock, Publish, OneAtATime, scannerVars
<1>2. CASE IndexerStep \/ UNCHANGED vars
  BY <1>2 DEF IndexerStep, OneAtATime, scannerVars, listenerVars, vars
<1>3. CASE ListenerStep
  <2>1. CASE FireHandlers
    BY <2>1, ChainAssumption
    DEF FireHandlers, HandleNewBlock, Goto, OneAtATime, Goroutines, ListenerTypeOK
  <2>2. CASE (StartListener \/ ZmqRecv \/ PollTick \/ PollInit) /\ UNCHANGED scannerVars
    BY <2>2 DEF StartListener, ZmqRecv, PollTick, PollInit, OneAtATime, scannerVars
  <2> QED
    BY <1>3, <2>1, <2>2 DEF ListenerStep
<1>4. CASE ConnectionLost
  BY <1>4 DEF ConnectionLost, ZmqFail, OneAtATime, scannerVars
<1>5. ASSUME NEW p \in Goroutines, Process(p) PROVE OneAtATime'
  <2>1. pc[p] # "idle" /\ UNCHANGED <<mode, zmq, fireNext, fireLast>>
    BY <1>5, ProcessFrame
  <2>2. CASE p = "listener"
    <3>1. pc[p] \notin {"query", "found", "header"}
      BY <2>2 DEF OneAtATime
    <3>2. pc'[p] \notin {"query", "found", "header"}
      BY <1>5, <3>1
      DEF Process, ScannerStep, QueryUnprocessed, AddRecovered, FetchTip, CheckConfirmations,
          CheckExists, FetchBlock, Backfill, ExtractPayments, RecordPayments, Done, Retry,
          Finish, Goto
    <3>3. pc'["recovery"] = pc["recovery"]
      BY <1>5, <2>2, ProcessFrame DEF Goroutines
    <3> QED
      BY <2>1, <2>2, <3>2, <3>3 DEF OneAtATime
  <2>3. CASE p = "recovery"
    <3>1. pc'["listener"] = pc["listener"]
      BY <1>5, <2>3, ProcessFrame DEF Goroutines
    <3> QED
      BY <2>1, <2>3, <3>1 DEF OneAtATime
  <2> QED
    BY <2>2, <2>3 DEF Goroutines
<1>6. CASE Crash
  BY <1>6 DEF Crash, ScannerRestart, ListenerRestart, StartPC, OneAtATime, Goroutines
<1> QED
  BY <1>1, <1>2, <1>3, <1>4, <1>5, <1>6 DEF Next, RecoveryTick

\* A new publication starts above all that was buried before it.
LEMMA PublishedAbove ==
    ASSUME TypeOK, NewBlock
    PROVE  \/ UNCHANGED zmq
           \/ \E m \in [first: Heights, n: Heights] :
                 zmq' = Append(zmq, m) /\ tip < m.first + ConfirmDepth
<1> USE ChainAssumption, ScannerAssumption, DepthAssumption DEF TypeOK, ChainTypeOK
<1>1. ASSUME NEW byPool \in BOOLEAN, Mine(byPool), Publish(tip + 1, 1), ~UNCHANGED zmq
      PROVE  \E m \in [first: Heights, n: Heights] :
                zmq' = Append(zmq, m) /\ tip < m.first + ConfirmDepth
  <2>1. tip + 1 \in Heights /\ 1 \in Heights /\ tip < tip + 1 + ConfirmDepth
    BY <1>1 DEF Mine, Heights
  <2>2. zmq' = Append(zmq, [first |-> tip + 1, n |-> 1])
    BY <1>1 DEF Publish
  <2> QED
    BY <2>1, <2>2
<1>2. ASSUME NEW d \in 1..MaxReorgDepth, Reorg(d), Publish(tip - d + 1, d + 1), ~UNCHANGED zmq
      PROVE  \E m \in [first: Heights, n: Heights] :
                zmq' = Append(zmq, m) /\ tip < m.first + ConfirmDepth
  <2>1. /\ tip - d + 1 \in Heights /\ d + 1 \in Heights
        /\ tip < tip - d + 1 + ConfirmDepth
    BY <1>2 DEF Reorg, Heights
  <2>2. zmq' = Append(zmq, [first |-> tip - d + 1, n |-> d + 1])
    BY <1>2 DEF Publish
  <2> QED
    BY <2>1, <2>2
<1> QED
  BY <1>1, <1>2 DEF NewBlock

\* The positions of a sequence with one more element.
LEMMA AppendPosition ==
    ASSUME NEW S, NEW s \in Seq(S), NEW e \in S, NEW i \in DOMAIN Append(s, e)
    PROVE  \/ i = Len(s) + 1 /\ Append(s, e)[i] = e
           \/ i \in DOMAIN s /\ i <= Len(s) /\ Append(s, e)[i] = s[i]
OBVIOUS

\* The positions of a sequence that has lost its head.
LEMMA TailPosition ==
    ASSUME NEW S, NEW s \in Seq(S), s # <<>>
    PROVE  /\ 1 \in DOMAIN s /\ Head(s) = s[1]
           /\ \A i \in DOMAIN Tail(s) : /\ i \in Nat /\ i >= 1
                                        /\ i + 1 \in DOMAIN s /\ Tail(s)[i] = s[i + 1]
OBVIOUS

\* No step announces anything out of order, given that the first request for the
\* tip does not fail.
LEMMA OrderStep ==
    ASSUME FaultKinds \subseteq {"db", "block"}, TypeOK, AnnouncedInv, HandsInv,
           OneAtATime, AnnouncedInOrder, [Next]_vars
    PROVE  AnnouncedInOrder'
<1> USE AnnouncedType DEF AnnouncedInOrder
<1>0. "listener" \in Goroutines
  BY DEF Goroutines
<1>a. fireLast <= tip /\ cur["listener"] <= tip
  BY <1>0 DEF AnnouncedInv
<1>1. CASE NewBlock
  <2>1. UNCHANGED <<mode, lastHeight, fireNext, fireLast, cur>>
    BY <1>1 DEF NewBlock, Publish, scannerVars
  <2>2. CASE UNCHANGED zmq
    BY <2>1, <2>2
  <2>3. ASSUME NEW m \in [first: Heights, n: Heights],
               zmq' = Append(zmq, m), tip < m.first + ConfirmDepth
        PROVE  AnnouncedInOrder'
    <3>1. \A i \in DOMAIN zmq' : \/ i = Len(zmq) + 1 /\ zmq'[i] = m
                                 \/ i \in DOMAIN zmq /\ i <= Len(zmq) /\ zmq'[i] = zmq[i]
      BY <2>3, AppendPosition
    <3>2. m.first \in Nat /\ Len(zmq) \in Nat
      BY DEF Heights
    <3>3. \A i \in DOMAIN zmq : zmq[i].first + zmq[i].n <= m.first + ConfirmDepth
      BY SMTT(30), <2>3, <3>2 DEF AnnouncedInv
    <3>4. fireLast < m.first + ConfirmDepth /\ cur["listener"] < m.first + ConfirmDepth
      BY <1>0, <1>a, <2>3, <3>2
    <3>5. \A i \in DOMAIN zmq' : /\ fireLast' < zmq'[i].first + ConfirmDepth
                                 /\ cur'["listener"] < zmq'[i].first + ConfirmDepth
      BY <2>1, <3>1, <3>4
    <3>6. \A i, j \in DOMAIN zmq' :
             i < j => zmq'[i].first + zmq'[i].n <= zmq'[j].first + ConfirmDepth
      BY SMTT(30), <3>1, <3>2, <3>3
    <3> QED
      BY <2>1, <3>5, <3>6
  <2> QED
    BY <1>1, <2>2, <2>3, PublishedAbove
<1>2. CASE ZmqRecv /\ UNCHANGED scannerVars
  <2>1. zmq # <<>> /\ pc["listener"] = "idle" /\ cur["listener"] = 0
    BY <1>0, <1>2 DEF ZmqRecv, Reading, HandsInv
  <2>2. /\ 1 \in DOMAIN zmq /\ Head(zmq) = zmq[1]
        /\ \A i \in DOMAIN Tail(zmq) : /\ i \in Nat /\ i >= 1
                                       /\ i + 1 \in DOMAIN zmq /\ Tail(zmq)[i] = zmq[i + 1]
    BY <2>1, TailPosition
  <2>3. /\ fireNext' = zmq[1].first /\ fireLast' = zmq[1].first + zmq[1].n - 1
        /\ zmq' = Tail(zmq) /\ mode' = "zmq" /\ cur' = cur
    BY <1>2, <2>2 DEF ZmqRecv, scannerVars
  <2>4. \A i \in DOMAIN zmq' : zmq[1].first + zmq[1].n <= zmq'[i].first + ConfirmDepth
    BY <2>2, <2>3
  <2>5. ASSUME NEW i \in DOMAIN zmq'
        PROVE  /\ fireLast' < zmq'[i].first + ConfirmDepth
               /\ cur'["listener"] < zmq'[i].first + ConfirmDepth
    <3>1. zmq'[i] = zmq[i + 1] /\ i + 1 \in DOMAIN zmq
      BY <2>2, <2>3
    <3>2. zmq'[i].first \in Nat /\ zmq'[i].first >= 1
      BY <3>1
    <3>3. zmq[1].first \in Nat /\ zmq[1].n \in Nat
      BY <2>2
    <3>4. zmq[1].first + zmq[1].n <= zmq'[i].first + ConfirmDepth
      BY <2>4
    <3>5. fireLast' < zmq'[i].first + ConfirmDepth
      <4>1. \A a, b, c, d \in Nat : a + b <= c + d => a + b - 1 < c + d
        OBVIOUS
      <4> QED
        BY <2>3, <3>2, <3>3, <3>4, <4>1
    <3>6. cur'["listener"] = 0 /\ ConfirmDepth \in Nat
      BY <2>1, <2>3
    <3> QED
      BY <3>2, <3>5, <3>6
  <2>6. \A i, j \in DOMAIN zmq' :
           i < j => zmq'[i].first + zmq'[i].n <= zmq'[j].first + ConfirmDepth
    <3> SUFFICES ASSUME NEW i \in DOMAIN zmq', NEW j \in DOMAIN zmq', i < j
                 PROVE  zmq'[i].first + zmq'[i].n <= zmq'[j].first + ConfirmDepth
      OBVIOUS
    <3>1. /\ i + 1 \in DOMAIN zmq /\ zmq'[i] = zmq[i + 1]
          /\ j + 1 \in DOMAIN zmq /\ zmq'[j] = zmq[j + 1]
      BY <2>2, <2>3
    <3>2. i + 1 < j + 1
      <4>1. i \in Nat /\ j \in Nat
        BY <2>2, <2>3
      <4> QED
        BY <4>1
    <3> QED
      BY <3>1, <3>2 DEF AnnouncedInOrder
  <2> QED
    BY <2>1, <2>2, <2>3, <2>5, <2>6
<1>3. CASE PollTick /\ UNCHANGED scannerVars
  <2>1. mode = "polling" /\ cur["listener"] = 0
    BY <1>0, <1>3 DEF PollTick, Reading, HandsInv
  <2>2. /\ fireNext' = lastHeight + 1 /\ fireLast' = tip /\ lastHeight' = tip
        /\ zmq' = zmq /\ cur' = cur
    BY <1>3 DEF PollTick, LastHeader, scannerVars
  <2>3. zmq = <<>>
    BY <2>1 DEF OneAtATime
  <2> QED
    BY <1>a, <2>1, <2>2, <2>3
<1>4. CASE PollInit /\ UNCHANGED scannerVars
  <2>1. lastHeight' = tip /\ UNCHANGED <<zmq, fireNext, fireLast, cur>>
    BY <1>4 DEF PollInit, Fails, LastHeader, scannerVars
  <2> QED
    BY <1>a, <2>1
<1>5. CASE FireHandlers
  <2>1. cur'["listener"] = fireNext /\ UNCHANGED <<zmq, mode, lastHeight>>
    BY <1>0, <1>5 DEF FireHandlers, HandleNewBlock, TypeOK, ScannerTypeOK
  <2>2. \/ fireNext < fireLast /\ fireNext' = fireNext + 1 /\ fireLast' = fireLast
        \/ fireNext' = 1 /\ fireLast' = 0
    BY <1>5 DEF FireHandlers
  <2> QED
    BY <1>5, <2>1, <2>2 DEF FireHandlers
<1>6. CASE StartListener /\ UNCHANGED scannerVars
  BY <1>6 DEF StartListener, scannerVars
<1>7. CASE ConnectionLost
  BY <1>7 DEF ConnectionLost, ZmqFail, scannerVars
<1>8. ASSUME NEW p \in Goroutines, Process(p) PROVE AnnouncedInOrder'
  <2>1. CASE cur'["listener"] = 0 \/ cur'["listener"] = cur["listener"]
    BY SMTT(30), <1>0, <1>8, <2>1, ProcessFrame
  <2>2. ~(p = "listener" /\ FetchTip(p))
    BY DEF OneAtATime, FetchTip
  <2>3. CASE p # "listener"
    BY <1>0, <1>8, <2>1, <2>3, ProcessFrame
  <2>4. CASE p = "listener" /\ ~FetchTip(p)
    BY <1>0, <1>8, <2>1, <2>4
    DEF Process, ScannerStep, QueryUnprocessed, AddRecovered, CheckConfirmations, CheckExists,
        FetchBlock, Backfill, ExtractPayments, RecordPayments, Return, Done, Retry, Finish,
        TypeOK, ScannerTypeOK
  <2> QED
    BY <2>2, <2>3, <2>4
<1>9. CASE Crash
  BY <1>0, <1>9 DEF Crash, ScannerRestart, ListenerRestart
<1>10. CASE UNCHANGED <<listenerVars, cur>>
  BY <1>10 DEF listenerVars
<1> QED
  BY <1>1, <1>2, <1>3, <1>4, <1>5, <1>6, <1>7, <1>8, <1>9, <1>10
  DEF Next, vars, IndexerStep, ListenerStep, RecoveryTick, scannerVars

\* A settled height that the listener has passed is never announced again.
LEMMA PassedStep ==
    ASSUME FaultKinds \subseteq {"db", "block"}, TypeOK, HandsInv, OneAtATime,
           [Next]_vars, NEW h \in Heights, Settled(h), Passed(h)
    PROVE  Passed(h)'
<1> USE AnnouncedType DEF Passed
<1>0. h \in Nat /\ h >= 1 /\ h <= tip /\ h + ConfirmDepth <= tip
  BY HeightType DEF Settled
<1>1. CASE NewBlock
  <2>1. UNCHANGED <<mode, lastHeight, fireNext, fireLast>>
    BY <1>1 DEF NewBlock, Publish
  <2>2. CASE UNCHANGED zmq
    BY <2>1, <2>2
  <2>3. ASSUME NEW m \in [first: Heights, n: Heights],
               zmq' = Append(zmq, m), tip < m.first + ConfirmDepth
        PROVE  Passed(h)'
    <3>1. \A i \in DOMAIN zmq' : zmq'[i] = m \/ (i \in DOMAIN zmq /\ zmq'[i] = zmq[i])
      BY <2>3, AppendElement
    <3>2. h < m.first
      BY <1>0, <2>3 DEF Heights
    <3> QED
      BY <2>1, <3>1, <3>2
  <2> QED
    BY <1>1, <2>2, <2>3, PublishedAbove
<1>2. CASE ZmqRecv
  <2>1. zmq # <<>>
    BY <1>2 DEF ZmqRecv
  <2>2. /\ 1 \in DOMAIN zmq /\ Head(zmq) = zmq[1]
        /\ \A i \in DOMAIN Tail(zmq) : i + 1 \in DOMAIN zmq /\ Tail(zmq)[i] = zmq[i + 1]
    BY <2>1, TailPosition
  <2>3. fireNext' = zmq[1].first /\ zmq' = Tail(zmq) /\ mode' = mode /\ mode = "zmq"
    BY <1>2, <2>2 DEF ZmqRecv
  <2> QED
    BY <2>2, <2>3
<1>3. CASE PollTick
  BY <1>0, <1>3 DEF PollTick, LastHeader
<1>4. CASE PollInit
  <2>1. lastHeight' = tip /\ UNCHANGED <<zmq, fireNext, fireLast>>
    BY <1>4 DEF PollInit, Fails, LastHeader
  <2> QED
    BY <1>0, <2>1
<1>5. CASE FireHandlers
  BY <1>0, <1>5 DEF FireHandlers
<1>6. CASE StartListener \/ ConnectionLost
  BY <1>6 DEF StartListener, ConnectionLost, ZmqFail
<1>7. CASE Crash
  BY <1>7 DEF Crash, ListenerRestart
<1>8. CASE UNCHANGED listenerVars
  BY <1>8 DEF listenerVars
<1> QED
  BY <1>1, <1>2, <1>3, <1>4, <1>5, <1>6, <1>7, <1>8
  DEF Next, vars, IndexerStep, ListenerStep, RecoveryTick, Process

\* checkConfirmations takes only heights that the listener has passed: its own
\* announcements by their order, and before it starts there are none.
LEMMA ConfirmedIsPassed ==
    ASSUME TypeOK, HandsInv, OneAtATime, AnnouncedInOrder,
           NEW p \in Goroutines, pc[p] = "check", NEW h \in Confirmed(cur[p])
    PROVE  h \in Heights /\ Passed(h)
<1> USE AnnouncedType
<1>1. h \in Heights /\ h \in Nat /\ cur[p] \in Nat /\ h + ConfirmDepth <= cur[p]
  <2>1. h \in Heights /\ cur[p] - h >= ConfirmDepth
    BY DEF Confirmed, TypeOK, ScannerTypeOK
  <2>2. h \in Nat /\ cur[p] \in Nat /\ ConfirmDepth \in Nat
    BY <2>1, HeightType
  <2> QED
    BY <2>1, <2>2
<1>2. CASE p = "listener"
  <2>1. \A i \in DOMAIN zmq : h < zmq[i].first
    BY <1>1, <1>2 DEF AnnouncedInOrder
  <2>2. fireNext <= fireLast => h < fireNext
    BY <1>1, <1>2 DEF AnnouncedInOrder
  <2>3. mode = "polling" => h <= lastHeight
    BY <1>1, <1>2 DEF AnnouncedInOrder
  <2> QED
    BY <1>1, <2>1, <2>2, <2>3 DEF Passed
<1>3. CASE p = "recovery"
  <2>1. mode = "off" /\ zmq = <<>> /\ fireNext > fireLast
    BY <1>3 DEF OneAtATime
  <2> QED
    BY <1>1, <2>1 DEF Passed
<1> QED
  BY <1>2, <1>3 DEF Goroutines

\* A goroutine's step that pays nothing keeps the heights apart if it does so for
\* its own hands, for the other's are empty.
LEMMA MoveStep ==
    ASSUME TypeOK, HandsInv, OneAtATime, OnceInv,
           NEW p \in Goroutines, Process(p), UNCHANGED payments,
           \A h \in pending' : payments[h] = <<>>,
           \A h \in InHand(p)' : Passed(h) /\ h \notin pending' /\ payments[h] = <<>>,
           pc'[p] = "found" => \A h \in batch'[p] : payments[h] = <<>>,
           job'[p] \notin batch'[p]
    PROVE  OnceInv'
<1>1. /\ pc[p] # "idle" /\ UNCHANGED <<mode, zmq, lastHeight, fireNext, fireLast>>
      /\ \A q \in Goroutines : q # p => /\ pc'[q] = pc[q] /\ batch'[q] = batch[q]
                                       /\ job'[q] = job[q]
  BY ProcessFrame
<1>2. \A h : Passed(h)' <=> Passed(h)
  BY <1>1 DEF Passed
<1>3. ASSUME NEW q \in Goroutines, q # p
      PROVE  pc'[q] = "idle" /\ batch'[q] = {} /\ job'[q] = 0
  BY <1>1, <1>3, OtherIsIdle
<1>4. ASSUME NEW q \in Goroutines, q # p
      PROVE  InHand(q)' = {}
  BY <1>3, <1>4 DEF InHand
<1>5. \A h \in Heights : payments'[h] # <<>> =>
         Passed(h)' /\ h \notin pending' /\ Len(payments'[h]) = 1
  BY <1>2 DEF OnceInv
<1>6. ASSUME NEW q \in Goroutines
      PROVE  /\ \A h \in InHand(q)' : Passed(h)' /\ h \notin pending' /\ payments'[h] = <<>>
             /\ pc'[q] = "found" => \A h \in batch'[q] : payments'[h] = <<>>
             /\ job'[q] \notin batch'[q]
  <2>1. CASE q = p
    BY <1>2, <2>1
  <2>2. CASE q # p
    BY <1>3, <1>4, <2>2
  <2> QED
    BY <2>1, <2>2
<1> QED
  BY <1>5, <1>6 DEF OnceInv

\* Every step of a goroutine keeps the heights apart.
LEMMA ProcessOnce ==
    ASSUME FaultKinds \subseteq {"db", "block"}, IInv, HandsInv, OneAtATime,
           AnnouncedInOrder, OnceInv, [Next]_vars, NEW p \in Goroutines, Process(p)
    PROVE  OnceInv'
<1> DEFINE Clear(h) == Passed(h) /\ h \notin pending /\ payments[h] = <<>>
<1>0. /\ TypeOK /\ StoreInv /\ GoroutineInv
      /\ batch[p] \subseteq Heights /\ pending \subseteq Heights /\ 0 \notin Heights
      /\ job \in [Goroutines -> 0..MaxHeight] /\ batch \in [Goroutines -> SUBSET Heights]
      /\ pc \in [Goroutines -> PC]
  BY HeightType DEF IInv, TypeOK, ScannerTypeOK
<1>1. /\ \A h \in InHand(p) : Clear(h)
      /\ \A h \in pending : payments[h] = <<>>
      /\ job[p] \notin batch[p]
  BY <1>0 DEF OnceInv
\* What is dropped from the hands, or given back to the pending set.
<1>2. ASSUME NEW rest \in SUBSET batch[p], pc[p] \in {"loop"} \cup Processing, Finish(p, rest),
             UNCHANGED payments,
             \/ pending' = pending
             \/ \E h \in InHand(p) \ rest : pending' = pending \cup {h}
      PROVE  OnceInv'
  <2>1. pc'[p] # "found" /\ batch'[p] = rest /\ job'[p] = 0
    BY <1>0, <1>2, FinishHands
  <2>2. InHand(p)' = rest
    BY <2>1 DEF InHand
  <2>3. rest \subseteq InHand(p)
    BY <1>2 DEF InHand, Processing
  <2>4. \A h \in pending' : payments[h] = <<>>
    BY <1>1, <1>2
  <2>5. \A h \in rest : Passed(h) /\ h \notin pending' /\ payments[h] = <<>>
    BY <1>1, <1>2, <2>3
  <2> QED
    BY <1>0, <1>2, <2>1, <2>2, <2>4, <2>5, MoveStep
\* A goroutine that empties its hands, or keeps what is in them.
<1>3. ASSUME batch'[p] = {}, job'[p] = 0, UNCHANGED payments,
             \A h \in pending' : payments[h] = <<>>
      PROVE  OnceInv'
  <2>1. InHand(p)' = {}
    BY <1>3 DEF InHand
  <2> QED
    BY <1>0, <1>3, <2>1, MoveStep
<1>4. ASSUME UNCHANGED <<pending, payments, batch, job>>,
             pc[p] \in Processing, pc'[p] \in Processing
      PROVE  OnceInv'
  <2>1. InHand(p)' = InHand(p) /\ pc'[p] # "found"
    BY <1>4 DEF InHand, Processing
  <2> QED
    BY <1>0, <1>1, <1>4, <2>1, MoveStep
<1>5. CASE QueryUnprocessed(p)
  <2>1. UNCHANGED <<pending, payments>> /\ pc[p] = "query"
    BY <1>5 DEF QueryUnprocessed, storeVars
  <2>2. CASE Return(p)
    BY <1>0, <1>1, <1>3, <2>1, <2>2, ReturnHands
  <2>3. CASE Goto(p, "found") /\ batch' = [batch EXCEPT ![p] = Unprocessed] /\ UNCHANGED job
    <3>1. pc'[p] = "found" /\ batch'[p] = Unprocessed /\ job'[p] = 0
      BY <1>0, <2>1, <2>3 DEF Goto, HandsInv, Processing
    <3>2. InHand(p)' = {}
      BY <3>1 DEF InHand
    <3>3. \A h \in Unprocessed : payments[h] = <<>>
      BY <1>0, PaidIsSettled DEF Unprocessed
    <3>4. 0 \notin Unprocessed
      BY <1>0 DEF Unprocessed
    <3> QED
      BY <1>0, <1>1, <2>1, <3>1, <3>2, <3>3, <3>4, MoveStep
  <2> QED
    BY <1>5, <2>2, <2>3 DEF QueryUnprocessed
<1>6. CASE AddRecovered(p)
  <2>1. /\ batch'[p] = {} /\ job'[p] = 0 /\ UNCHANGED payments
        /\ pending' = pending \cup batch[p]
    BY <1>0, <1>6 DEF AddRecovered, storeVars, HandsInv, Processing
  <2>2. \A h \in batch[p] : payments[h] = <<>>
    BY <1>6 DEF AddRecovered, OnceInv
  <2> QED
    BY <1>1, <1>3, <2>1, <2>2
<1>7. CASE FetchTip(p)
  <2>1. batch'[p] = {} /\ job'[p] = 0 /\ UNCHANGED <<pending, payments>>
    BY <1>0, <1>7, ReturnHands DEF FetchTip, storeVars, HandsInv, Processing
  <2> QED
    BY <1>1, <1>3, <2>1
<1>8. CASE CheckConfirmations(p)
  <2>1. /\ pc[p] = "check" /\ UNCHANGED payments
        /\ pending' = pending \ Confirmed(cur[p])
        /\ pc'[p] # "found" /\ batch'[p] = Confirmed(cur[p]) /\ job'[p] = 0
    BY <1>0, <1>8, FinishHands DEF CheckConfirmations, storeVars
  <2>2. InHand(p)' = Confirmed(cur[p]) /\ Confirmed(cur[p]) \subseteq pending
    BY <2>1 DEF InHand, Confirmed
  <2>3. \A h \in Confirmed(cur[p]) : h \in Heights /\ Passed(h)
    BY <1>0, <2>1, ConfirmedIsPassed
  <2>4. /\ \A h \in pending' : payments[h] = <<>>
        /\ \A h \in InHand(p)' : Passed(h) /\ h \notin pending' /\ payments[h] = <<>>
        /\ job'[p] \notin batch'[p]
    BY <1>0, <1>1, <2>1, <2>2, <2>3
  <2> QED
    BY <1>0, <2>1, <2>4, MoveStep
<1>9. CASE CheckExists(p)
  <2>1. pc[p] = "loop" /\ UNCHANGED payments
    BY <1>9 DEF CheckExists, storeVars
  <2>2. PICK g \in batch[p] :
           \/ /\ Goto(p, "fetch")
              /\ batch' = [batch EXCEPT ![p] = batch[p] \ {g}]
              /\ job' = [job EXCEPT ![p] = g]
              /\ UNCHANGED pending
           \/ Finish(p, batch[p] \ {g}) /\ UNCHANGED pending
           \/ Finish(p, batch[p] \ {g}) /\ pending' = pending \cup {g}
    BY <1>9 DEF CheckExists, Done, Retry
  <2>3. g \in InHand(p) \ (batch[p] \ {g})
    BY <2>1 DEF InHand
  <2>4. CASE Finish(p, batch[p] \ {g})
    BY <1>2, <2>1, <2>2, <2>3, <2>4
  <2>5. CASE /\ Goto(p, "fetch") /\ UNCHANGED pending
             /\ batch' = [batch EXCEPT ![p] = batch[p] \ {g}]
             /\ job' = [job EXCEPT ![p] = g]
    <3>1. pc'[p] = "fetch" /\ batch'[p] = batch[p] \ {g} /\ job'[p] = g
      BY <1>0, <2>5 DEF Goto
    <3>2. InHand(p)' \subseteq InHand(p)
      BY <2>1, <3>1 DEF InHand
    <3> QED
      BY <1>0, <1>1, <2>1, <2>5, <3>1, <3>2, MoveStep
  <2> QED
    BY <2>2, <2>4, <2>5
<1>10. CASE FetchBlock(p) \/ Backfill(p) \/ ExtractPayments(p)
  <2>1. pc[p] \in Processing /\ UNCHANGED payments /\ job[p] # 0
    BY <1>0, <1>10, HeightType
    DEF FetchBlock, Backfill, FillRow, ExtractPayments, storeVars, Processing, TypeOK,
        ScannerTypeOK
  <2>2. job[p] \in InHand(p) \ batch[p]
    BY <1>1, <2>1 DEF InHand
  <2>3. CASE /\ Finish(p, batch[p])
             /\ pending' = pending \/ pending' = pending \cup {job[p]}
    BY <1>2, <2>1, <2>2, <2>3
  <2>4. CASE pc'[p] \in Processing /\ UNCHANGED <<pending, batch, job>>
    BY <1>4, <2>1, <2>4
  <2> QED
    BY <1>0, <1>10, <2>3, <2>4
    DEF FetchBlock, Backfill, ExtractPayments, Done, Retry, Goto, Processing
<1>11. CASE RecordPayments(p)
  <2>1. pc[p] \in Processing /\ job[p] \in Heights /\ job[p] # 0
    BY <1>0, <1>11, HeightType DEF RecordPayments, Processing, TypeOK, ScannerTypeOK
  <2>2. job[p] \in InHand(p) \ batch[p]
    BY <1>1, <2>1 DEF InHand
  <2>3. CASE UNCHANGED storeVars /\ Retry(p, job[p], batch[p])
    BY <1>2, <2>1, <2>2, <2>3 DEF Retry, storeVars
  <2>4. CASE InsertPayments(job[p], blk[p]) /\ Done(p, batch[p])
    <3>1. /\ payments' = [payments EXCEPT ![job[p]] = Append(payments[job[p]], blk[p])]
          /\ payments \in [Heights -> Seq(Block)] /\ blk[p] \in Block
      BY <1>0, <2>4 DEF InsertPayments, TypeOK, StoreTypeOK, ScannerTypeOK
    <3>2. payments[job[p]] = <<>>
      BY <1>1, <2>2
    <3>3. <<>> \in Seq(Block) /\ Len(<<>>) = 0
      OBVIOUS
    <3>4. Len(payments'[job[p]]) = 1
      BY <2>1, <3>1, <3>2, <3>3, AppendLonger
    <3>5. /\ pc'[p] # "found" /\ batch'[p] = batch[p] /\ job'[p] = 0 /\ pending' = pending
      BY <1>0, <2>4, FinishHands DEF Done
    <3>6. /\ pc[p] # "idle" /\ UNCHANGED <<mode, zmq, lastHeight, fireNext, fireLast>>
          /\ \A q \in Goroutines : q # p => /\ pc'[q] = pc[q] /\ batch'[q] = batch[q]
                                           /\ job'[q] = job[q]
      BY <1>0, ProcessFrame
    <3>7. \A h : Passed(h)' <=> Passed(h)
      BY <3>6 DEF Passed
    <3>8. \A h \in Heights : payments'[h] # <<>> =>
             Passed(h)' /\ h \notin pending' /\ Len(payments'[h]) = 1
      <4> SUFFICES ASSUME NEW h \in Heights, payments'[h] # <<>>
                   PROVE  Passed(h) /\ h \notin pending /\ Len(payments'[h]) = 1
        BY <3>5, <3>7
      <4>1. CASE h = job[p]
        BY <1>1, <2>2, <3>4, <4>1
      <4>2. CASE h # job[p]
        BY <3>1, <4>2 DEF OnceInv
      <4> QED
        BY <4>1, <4>2
    <3>9. ASSUME NEW q \in Goroutines
          PROVE  /\ \A h \in InHand(q)' : Passed(h)' /\ h \notin pending' /\ payments'[h] = <<>>
                 /\ pc'[q] = "found" => \A h \in batch'[q] : payments'[h] = <<>>
                 /\ job'[q] \notin batch'[q]
      <4>1. CASE q = p
        <5>1. InHand(p)' = batch[p]
          BY <3>5 DEF InHand
        <5>2. batch[p] \subseteq InHand(p)
          BY <2>1 DEF InHand, Processing
        <5>3. \A h \in batch[p] : payments'[h] = payments[h]
          BY <1>0, <2>2, <3>1
        <5> QED
          BY <1>0, <1>1, <3>5, <3>7, <4>1, <5>1, <5>2, <5>3
      <4>2. CASE q # p
        <5>1. pc'[q] = "idle" /\ batch'[q] = {} /\ job'[q] = 0
          BY <1>0, <3>6, <4>2, OtherIsIdle
        <5> QED
          BY <5>1 DEF InHand
      <4> QED
        BY <4>1, <4>2
    <3> QED
      BY <3>8, <3>9 DEF OnceInv
  <2> QED
    BY <1>11, <2>3, <2>4 DEF RecordPayments, Fails
<1> QED
  BY <1>5, <1>6, <1>7, <1>8, <1>9, <1>10, <1>11 DEF Process, ScannerStep

\* So does every other step.
LEMMA OnceStep ==
    ASSUME FaultKinds \subseteq {"db", "block"}, IInv, HandsInv, OneAtATime,
           AnnouncedInOrder, OnceInv, [Next]_vars
    PROVE  OnceInv'
<1>0. TypeOK /\ GoroutineInv /\ StoreInv
  BY DEF IInv
<1>1. ASSUME NEW h \in Heights, payments[h] # <<>> PROVE Passed(h)'
  BY <1>0, <1>1, PaidIsSettled, PassedStep DEF OnceInv
<1>2. ASSUME NEW p \in Goroutines, NEW h \in InHand(p) PROVE Passed(h)'
  BY <1>0, <1>2, InHandIsSettled, PassedStep DEF OnceInv
<1>3. ASSUME NEW p \in Goroutines, Process(p) PROVE OnceInv'
  BY <1>3, ProcessOnce
<1>4. CASE UNCHANGED <<scannerVars, payments>>
  <2>1. UNCHANGED <<pending, pc, batch, job, payments>>
    BY <1>4 DEF scannerVars
  <2>2. \A p \in Goroutines : InHand(p)' = InHand(p)
    BY <2>1 DEF InHand
  <2> QED
    BY <1>1, <1>2, <2>1, <2>2 DEF OnceInv
<1>5. CASE FireHandlers /\ UNCHANGED payments
  <2>1. /\ fireNext <= fireLast /\ pc["listener"] = "idle" /\ pc'["listener"] = "check"
        /\ pending' = pending \cup {fireNext} /\ UNCHANGED <<batch, job>>
        /\ \A q \in Goroutines : q # "listener" => pc'[q] = pc[q]
    BY <1>0, <1>5
    DEF FireHandlers, HandleNewBlock, Goto, TypeOK, ScannerTypeOK, Goroutines
  <2>2. pc["recovery"] = "idle"
    BY <1>0, <2>1, AnnouncedType DEF OneAtATime
  <2>3. \A q \in Goroutines : pc[q] = "idle" /\ batch'[q] = {} /\ job'[q] = 0
    BY <2>1, <2>2 DEF HandsInv, Goroutines, Processing
  <2>4. \A q \in Goroutines : InHand(q)' = {} /\ pc'[q] # "found"
    BY <2>1, <2>3 DEF InHand
  <2>5. \A h \in Heights : payments[h] # <<>> => h # fireNext
    BY <1>0, <2>1, AnnouncedType, HeightType DEF OnceInv, Passed
  <2> QED
    BY <1>1, <1>5, <2>1, <2>3, <2>4, <2>5 DEF OnceInv
<1>6. CASE Crash
  <2>1. /\ UNCHANGED payments /\ pending' = {}
        /\ \A q \in Goroutines : pc'[q] # "found" /\ batch'[q] = {} /\ job'[q] = 0
    BY <1>6 DEF Crash, ScannerRestart, StartPC, storeVars
  <2>2. \A q \in Goroutines : InHand(q)' = {}
    BY <2>1 DEF InHand
  <2> QED
    BY <1>1, <2>1, <2>2 DEF OnceInv
<1>7. CASE RecoveryTick
  <2>1. UNCHANGED <<pending, batch, job, payments>>
    BY <1>7 DEF RecoveryTick, storeVars
  <2>2. \A q \in Goroutines : pc'[q] # "found" \/ pc[q] = "found"
    BY <1>0, <1>7 DEF RecoveryTick, Goto, TypeOK, ScannerTypeOK
  <2>3. \A q \in Goroutines : InHand(q)' \subseteq InHand(q)
    <3>1. \A q \in Goroutines : pc[q] = "found" => pc'[q] = "found"
      BY <1>0, <1>7 DEF RecoveryTick, Goto, TypeOK, ScannerTypeOK
    <3> QED
      BY <2>1, <3>1 DEF InHand
  <2> QED
    BY <1>1, <1>2, <2>1, <2>2, <2>3 DEF OnceInv
<1> QED
  BY <1>3, <1>4, <1>5, <1>6, <1>7
  DEF Next, vars, NewBlock, IndexerStep, FetchStats, InsertFound, InsertRow, ListenerStep,
      ConnectionLost, storeVars

\* A setting in which that is so, which main does not run: the 5 minute ticker does
\* not fire, no COMMIT is lost, and the first poll of the tip is answered.
SafeSetting == ~PeriodicRecovery /\ FaultKinds \subseteq {"db", "block"}

LEMMA LedgerInvariance ==
    ASSUME SafeSetting
    PROVE  Spec => []LedgerInv
<1>1. Init => LedgerInv
  BY InitInv, HandsInitial, LedgerInitial DEF LedgerInv
<1>2. LedgerInv /\ [Next]_vars => LedgerInv'
  <2> SUFFICES ASSUME LedgerInv, [Next]_vars PROVE LedgerInv'
    OBVIOUS
  <2>1. TypeOK /\ AnnouncedInv
    BY DEF LedgerInv, IInv
  <2>2. IInv' /\ HandsInv'
    BY <2>1, StepInv, HandsStep DEF LedgerInv
  <2>3. OneAtATime' /\ AnnouncedInOrder'
    BY <2>1, OneAtATimeStep, OrderStep DEF LedgerInv, SafeSetting
  <2>4. OnceInv'
    BY OnceStep DEF LedgerInv, SafeSetting
  <2> QED
    BY <2>2, <2>3, <2>4 DEF LedgerInv
<1> QED
  BY <1>1, <1>2, PTL DEF Spec

\* In such a setting no height is handed out again, whatever goroutine, retry,
\* reorganisation, poll or restart brings it back, so the ledger pays it once.
THEOREM SafeSettingHandsOutOnce ==
    ASSUME SafeSetting
    PROVE  Spec => []NeverRecalled
<1>1. Init => NeverRecalled
  BY DEF Init, NeverRecalled
<1>2. LedgerInv' /\ TypeOK /\ NeverRecalled /\ [Next]_vars => NeverRecalled'
  <2> SUFFICES ASSUME LedgerInv', TypeOK, NeverRecalled, CountRecalls, NEW h \in Heights
               PROVE  recalls'[h] = 0
    BY DEF Next, vars, historyVars, NewBlock, IndexerStep, ListenerStep, ConnectionLost,
       Process, RecoveryTick, Crash, NeverRecalled
  <2>1. h \notin Recalled
    BY DEF LedgerInv, OnceInv, Recalled
  <2> QED
    BY <2>1 DEF CountRecalls, NeverRecalled
<1>3. LedgerInv => TypeOK
  BY DEF LedgerInv, IInv
<1> QED
  BY <1>1, <1>2, <1>3, LedgerInvariance, PTL DEF Spec

-----------------------------------------------------------------------------
(* Which blocks are paid that P2Pool did not find.                         *)

\* Before the first block nothing was found.
LEMMA FindsInitial == Init => FindsAreReplaced
BY HeightType DEF Init, FindsAreReplaced, ChainInit, StoreInit, IndexerInit

\* A block of P2Pool is its find, and what replaces one is of a later branch.
LEMMA NewBlockFinds ==
    ASSUME TypeOK, FindsAreReplaced, NewBlock
    PROVE  FindsAreReplaced'
<1>1. tip' = tip + 1 /\ UNCHANGED <<row, stats>>
  BY DEF NewBlock, Mine, Reorg, storeVars, indexerVars
<1>2. \A h \in Heights : chain'[h] = chain[h] \/ h = tip + 1 \/ chain'[h].ver > 0
  <2>1. CASE \E byPool \in BOOLEAN : Mine(byPool)
    BY <2>1 DEF Mine, TypeOK, ChainTypeOK
  <2>2. CASE \E d \in 1..MaxReorgDepth : Reorg(d)
    <3>1. reorgs + 1 > 0
      BY ChainAssumption DEF TypeOK, ChainTypeOK
    <3> QED
      BY <2>2, <3>1 DEF Reorg
  <2> QED
    BY <2>1, <2>2 DEF NewBlock
<1>3. \/ lastFound' = lastFound
      \/ lastFound' = tip + 1 /\ (tip + 1 \in Heights => chain'[tip + 1].pool)
  <2>1. ASSUME NEW byPool \in BOOLEAN, Mine(byPool), byPool
        PROVE  lastFound' = tip + 1 /\ (tip + 1 \in Heights => chain'[tip + 1].pool)
    <3>1. chain \in [Heights -> Block]
      BY DEF TypeOK, ChainTypeOK
    <3> QED
      BY <2>1, <3>1 DEF Mine
  <2>2. ASSUME NEW byPool \in BOOLEAN, Mine(byPool), ~byPool
        PROVE  lastFound' = lastFound
    BY <2>2 DEF Mine
  <2>3. ASSUME NEW d \in 1..MaxReorgDepth, Reorg(d)
        PROVE  lastFound' = lastFound
    BY <2>3 DEF Reorg
  <2> QED
    BY <2>1, <2>2, <2>3 DEF NewBlock
<1>4. tip \in Nat /\ Heights \subseteq Nat
  BY ChainAssumption, HeightType DEF TypeOK, ChainTypeOK
<1>5. \A h \in Heights : row[h] # "none" \/ h \in {lastFound, stats} =>
          h <= tip' /\ (chain'[h].pool \/ chain'[h].ver > 0)
  <2> SUFFICES ASSUME NEW h \in Heights, row[h] # "none" \/ h \in {lastFound, stats}
               PROVE  h <= tip' /\ (chain'[h].pool \/ chain'[h].ver > 0)
    OBVIOUS
  <2>1. h <= tip /\ (chain[h].pool \/ chain[h].ver > 0)
    BY DEF FindsAreReplaced
  <2>2. h <= tip' /\ h # tip + 1
    BY <1>1, <1>4, <2>1
  <2> QED
    BY <1>2, <2>1, <2>2
<1>6. \A h \in Heights : h = tip + 1 => h <= tip'
  BY <1>1, <1>4
<1> QED
  BY <1>1, <1>3, <1>5, <1>6 DEF FindsAreReplaced

\* Every step keeps it: rows are inserted for what was reported only.
LEMMA FindsStep == TypeOK /\ FindsAreReplaced /\ [Next]_vars => FindsAreReplaced'
<1> SUFFICES ASSUME TypeOK, FindsAreReplaced, [Next]_vars PROVE FindsAreReplaced'
  OBVIOUS
<1>1. CASE NewBlock
  BY <1>1, NewBlockFinds
<1>2. ASSUME UNCHANGED chainVars,
             \A h \in Heights : row'[h] # "none" => row[h] # "none" \/ h = stats,
             stats' \in {stats, lastFound, 0}
      PROVE  FindsAreReplaced'
  BY <1>2, HeightType DEF FindsAreReplaced, chainVars
<1>3. CASE IndexerStep
  BY <1>2, <1>3 DEF IndexerStep, FetchStats, InsertFound, InsertRow, storeVars, TypeOK, StoreTypeOK
<1>4. ASSUME NEW p \in Goroutines, Process(p) PROVE FindsAreReplaced'
  <2>1. \A h \in Heights : row'[h] # "none" => row[h] # "none" \/ h = stats
    BY <1>4 DEF Process, ScannerStep, QueryUnprocessed, AddRecovered, FetchTip,
       CheckConfirmations, CheckExists, FetchBlock, Backfill, FillRow, ExtractPayments,
       RecordPayments, InsertPayments, storeVars, TypeOK, StoreTypeOK
  <2> QED
    BY <1>2, <1>4, <2>1 DEF Process, indexerVars
<1>5. CASE ListenerStep \/ ConnectionLost \/ RecoveryTick \/ Crash \/ UNCHANGED vars
  BY <1>2, <1>5 DEF ListenerStep, ConnectionLost, RecoveryTick, Crash, IndexerRestart, storeVars,
     indexerVars, vars
<1> QED
  BY <1>1, <1>3, <1>4, <1>5 DEF Next

\* A block that is not P2Pool's is only paid in place of a find that a
\* reorganisation replaced: processBlock goes by the height alone.
THEOREM OnlyOrphansArePaid == Spec => []OnlyOrphansMispaid
<1>1. IInv /\ FindsAreReplaced => OnlyOrphansMispaid
  BY DEF IInv, StoreInv, RowOK, FindsAreReplaced, OnlyOrphansMispaid
<1>2. Init => FindsAreReplaced
  BY FindsInitial
<1>3. IInv /\ FindsAreReplaced /\ [Next]_vars => FindsAreReplaced'
  BY FindsStep DEF IInv
<1> QED
  BY <1>1, <1>2, <1>3, Invariance, PTL DEF Spec
=============================================================================
