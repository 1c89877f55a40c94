------------------------ MODULE IngressPipelineProofs ------------------------
(***************************************************************************)
(* For any deliveries, requests, attempts and faults: the pipeline keeps   *)
(* its types and uses the lock as the lock demands, so the attempts of a   *)
(* conversation exclude each other and start in the order of their entry;  *)
(* it loses nothing that the faults do not excuse, handles nothing twice   *)
(* while the queue answers, and dead-letters once per exhausted job.       *)
(***************************************************************************)
EXTENDS IngressPipeline, FiniteSetTheorems, TLAPS

-------------------------------------------------------------------------------
(* The lock of a conversation: for any keys and any number of runs, the runs of one key exclude each other, start *)
(* in the order of their calls, and leave no entry in the map.                                                   *)

\* The runs that have not settled stand in the line of their key, and nowhere else.
Queued ==
    /\ \A k \in Keys : \A i \in 1..Len(line[k]) :
          keyOf[line[k][i]] = k /\ stage[line[k][i]] \in Unsettled
    /\ \A r \in Runs : stage[r] \in Unsettled =>
          keyOf[r] \in Keys /\ \E i \in 1..Len(line[keyOf[r]]) : line[keyOf[r]][i] = r

\* Each run in a line but the first is chained to the one before it.
Chained ==
    \A k \in Keys : \A i \in 2..Len(line[k]) :
       stage[line[k][i]] = "chained" /\ prev[line[k][i]] = line[k][i - 1]

\* The map holds the last of the line, or a run that has settled and not cleaned up.
TailOwned ==
    \A k \in Keys :
       /\ line[k] # <<>> => tails[k] = line[k][Len(line[k])]
       /\ tails[k] # None => keyOf[tails[k]] = k
       /\ line[k] = <<>> /\ tails[k] # None => stage[tails[k]] = "settled"

\* A run that is settled knows its key, one that is idle has none.
Keyed == \A r \in Runs : (stage[r] = "idle") <=> (keyOf[r] = None)

\* The inductive invariant: the chain of promises spells the line, so only its first run has a
\* predecessor that settled.
LockInv == LockTypeOK /\ Queued /\ Chained /\ TailOwned /\ Keyed

LEMMA LockInitInv == LockInit => LockInv
  BY LockAssumption DEF LockInit, LockInv, LockTypeOK, Stages, Unsettled, Queued, Chained,
     TailOwned, Keyed

LEMMA LockResetInv == LockReset => LockInv'
  BY LockAssumption DEF LockReset, LockInv, LockTypeOK, Stages, Unsettled, Queued, Chained,
     TailOwned, Keyed

\* A run that may start, or runs, is the first of its line.
LEMMA FirstOfLine ==
  ASSUME LockInv, NEW r \in Runs,
         \/ stage[r] = "running"
         \/ stage[r] = "chained" /\ (prev[r] # None => stage[prev[r]] \notin Unsettled)
  PROVE  /\ keyOf[r] \in Keys /\ line[keyOf[r]] # <<>> /\ Head(line[keyOf[r]]) = r
         /\ \A k \in Keys : \A i \in 2..Len(line[k]) : line[k][i] # r
  <1> USE DEF LockInv
  <1>1. \A k \in Keys : line[k] \in Seq(Runs)
    BY DEF LockTypeOK
  <1>2. \A k \in Keys : \A i \in 2..Len(line[k]) : line[k][i] # r
    <2> SUFFICES ASSUME NEW k \in Keys, NEW i \in 2..Len(line[k]), line[k][i] = r PROVE FALSE
      OBVIOUS
    <2>1. stage[r] = "chained" /\ prev[r] = line[k][i - 1]
      BY DEF Chained
    <2>2. i - 1 \in 1..Len(line[k]) /\ line[k][i - 1] \in Runs
      BY <1>1
    <2>3. stage[line[k][i - 1]] \in Unsettled
      BY <2>2 DEF Queued
    <2> QED BY <2>1, <2>2, <2>3, LockAssumption
  <1>3. keyOf[r] \in Keys /\ \E i \in 1..Len(line[keyOf[r]]) : line[keyOf[r]][i] = r
    BY DEF Queued, Unsettled
  <1>4. Len(line[keyOf[r]]) >= 1 /\ line[keyOf[r]][1] = r
    BY <1>1, <1>2, <1>3
  <1> QED BY <1>1, <1>2, <1>3, <1>4

\* A call joins the end of the line of its key and becomes the tail.
LEMMA LockCallInv == ASSUME LockInv, NEW r \in Runs, NEW k \in Keys, LockCall(r, k) PROVE LockInv'
  <1> USE DEF LockInv, LockCall
  <1>1. \A m \in Keys : line[m] \in Seq(Runs) /\ Len(line[m]) \in Nat
    BY DEF LockTypeOK
  <1>2. LockTypeOK'
    BY <1>1, LockAssumption DEF LockTypeOK, Stages
  <1>3. \A m \in Keys : \A i \in 1..Len(line[m]) : line[m][i] # r /\ line[m][i] \in Runs
    BY <1>1 DEF Queued, Unsettled
  <1>4. /\ Len(line'[k]) = Len(line[k]) + 1 /\ line'[k][Len(line[k]) + 1] = r
        /\ \A i \in 1..Len(line[k]) : line'[k][i] = line[k][i]
        /\ \A m \in Keys : m # k => line'[m] = line[m]
    BY <1>1 DEF LockTypeOK
  <1>5. /\ stage'[r] = "chained" /\ keyOf'[r] = k /\ prev'[r] = tails[k]
        /\ \A q \in Runs : q # r => stage'[q] = stage[q] /\ keyOf'[q] = keyOf[q] /\ prev'[q] = prev[q]
    BY DEF LockTypeOK
  <1>6. Queued'
    <2>1. ASSUME NEW m \in Keys, NEW i \in 1..Len(line'[m])
          PROVE  keyOf'[line'[m][i]] = m /\ stage'[line'[m][i]] \in Unsettled
      <3>1. CASE m = k /\ i = Len(line[k]) + 1
        BY <1>4, <1>5, <3>1 DEF Unsettled
      <3>2. CASE m # k \/ i # Len(line[k]) + 1
        <4>1. i \in 1..Len(line[m]) /\ line'[m][i] = line[m][i]
          BY <1>1, <1>4, <3>2
        <4> QED BY <1>3, <1>5, <4>1 DEF Queued
      <3> QED BY <3>1, <3>2
    <2>2. ASSUME NEW q \in Runs, stage'[q] \in Unsettled
          PROVE  keyOf'[q] \in Keys /\ \E i \in 1..Len(line'[keyOf'[q]]) : line'[keyOf'[q]][i] = q
      <3>1. CASE q = r
        BY <1>1, <1>4, <1>5, <3>1
      <3>2. CASE q # r
        <4>1. keyOf[q] \in Keys /\ keyOf'[q] = keyOf[q]
          BY <1>5, <2>2, <3>2 DEF Queued
        <4>2. PICK i \in 1..Len(line[keyOf[q]]) : line[keyOf[q]][i] = q
          BY <1>5, <2>2, <3>2 DEF Queued
        <4>3. i \in 1..Len(line'[keyOf[q]]) /\ line'[keyOf[q]][i] = q
          BY <1>1, <1>4, <4>1, <4>2
        <4> QED BY <4>1, <4>3
      <3> QED BY <3>1, <3>2
    <2> QED BY <2>1, <2>2 DEF Queued
  <1>7. Chained'
    <2> SUFFICES ASSUME NEW m \in Keys, NEW i \in 2..Len(line'[m])
                 PROVE  stage'[line'[m][i]] = "chained" /\ prev'[line'[m][i]] = line'[m][i - 1]
      BY DEF Chained
    <2>1. CASE m = k /\ i = Len(line[k]) + 1
      <3>1. Len(line[k]) >= 1 /\ i - 1 = Len(line[k])
        BY <1>1, <2>1
      <3>2. tails[k] = line[k][Len(line[k])]
        BY <1>1, <3>1 DEF TailOwned
      <3>3. line'[m][i - 1] = line[k][Len(line[k])]
        BY <1>1, <1>4, <2>1, <3>1
      <3> QED BY <1>4, <1>5, <2>1, <3>2, <3>3
    <2>2. CASE m # k \/ i # Len(line[k]) + 1
      <3>1. i \in 2..Len(line[m]) /\ line'[m][i] = line[m][i] /\ line'[m][i - 1] = line[m][i - 1]
        BY <1>1, <1>4, <2>2
      <3> QED BY <1>3, <1>5, <3>1 DEF Chained
    <2> QED BY <2>1, <2>2
  <1>8. TailOwned'
    <2> SUFFICES ASSUME NEW m \in Keys
                 PROVE  /\ line'[m] # <<>> => tails'[m] = line'[m][Len(line'[m])]
                        /\ tails'[m] # None => keyOf'[tails'[m]] = m
                        /\ line'[m] = <<>> /\ tails'[m] # None => stage'[tails'[m]] = "settled"
      BY DEF TailOwned
    <2>1. CASE m = k
      <3>1. tails'[k] = r /\ keyOf'[r] = k
        BY <1>5 DEF LockTypeOK
      <3>2. line'[k][Len(line'[k])] = r
        BY <1>4
      <3>3. line'[k] # <<>>
        <4>1. Len(line'[k]) # 0
          BY ONLY <1>1, <1>4
        <4> QED BY <4>1
      <3> QED BY <2>1, <3>1, <3>2, <3>3
    <2>2. CASE m # k
      <3>1. tails'[m] = tails[m] /\ line'[m] = line[m]
        BY <1>4, <2>2 DEF LockTypeOK
      <3>2. tails[m] # None => tails[m] \in Runs /\ tails[m] # r
        BY LockAssumption DEF LockTypeOK, TailOwned, Keyed
      <3> QED BY <1>5, <3>1, <3>2 DEF TailOwned
    <2> QED BY <2>1, <2>2
  <1>9. Keyed'
    BY <1>5, LockAssumption DEF Keyed
  <1> QED BY <1>2, <1>6, <1>7, <1>8, <1>9

\* Starting the first of a line changes no chain.
LEMMA LockStartInv == ASSUME LockInv, NEW r \in Runs, LockStart(r) PROVE LockInv'
  <1> USE DEF LockInv, LockStart
  <1>1. \A k \in Keys : \A i \in 2..Len(line[k]) : line[k][i] # r
    BY FirstOfLine
  <1>2. \A k \in Keys : line[k] \in Seq(Runs)
    BY DEF LockTypeOK
  <1>3. LockTypeOK'
    BY DEF LockTypeOK, Stages
  <1>4. Queued'
    <2>1. stage' = [stage EXCEPT ![r] = "running"] /\ stage \in [Runs -> Stages] /\ UNCHANGED <<keyOf, line>>
      BY DEF LockTypeOK
    <2>2. \A q \in Runs : stage'[q] \in Unsettled <=> stage[q] \in Unsettled
      BY <2>1 DEF Unsettled
    <2>3. \A k \in Keys : \A i \in 1..Len(line[k]) : line[k][i] \in Runs
      BY <1>2
    <2> QED BY <2>1, <2>2, <2>3 DEF Queued
  <1>5. Chained'
    <2> SUFFICES ASSUME NEW m \in Keys, NEW i \in 2..Len(line[m])
                 PROVE  stage'[line[m][i]] = "chained" /\ prev'[line[m][i]] = line[m][i - 1]
      BY DEF Chained
    <2>1. line[m][i] \in Runs /\ line[m][i] # r
      BY <1>1, <1>2
    <2>2. stage[line[m][i]] = "chained" /\ prev[line[m][i]] = line[m][i - 1]
      BY DEF Chained
    <2> QED BY <2>1, <2>2 DEF LockTypeOK
  <1>6. TailOwned'
    BY DEF TailOwned, LockTypeOK
  <1>7. Keyed'
    BY DEF Keyed, LockTypeOK
  <1> QED BY <1>3, <1>4, <1>5, <1>6, <1>7

\* The run that settles is the first of its line, which moves up.
LEMMA LockSettleInv == ASSUME LockInv, NEW r \in Runs, LockSettle(r) PROVE LockInv'
  <1> USE DEF LockInv, LockSettle
  <1> DEFINE k == keyOf[r]
  <1>1. /\ k \in Keys /\ line[k] # <<>> /\ Head(line[k]) = r
        /\ \A m \in Keys : \A i \in 2..Len(line[m]) : line[m][i] # r
    BY FirstOfLine
  <1>2. \A m \in Keys : line[m] \in Seq(Runs) /\ Len(line[m]) \in Nat
    BY DEF LockTypeOK
  <1>3. /\ line[k][1] = r /\ line'[k] \in Seq(Runs) /\ Len(line[k]) >= 1
        /\ Len(line'[k]) = Len(line[k]) - 1
        /\ \A i \in 1..Len(line'[k]) : line'[k][i] = line[k][i + 1]
        /\ \A m \in Keys : m # k => line'[m] = line[m]
    BY <1>1, <1>2 DEF LockTypeOK
  <1>4. /\ stage'[r] = "settled"
        /\ \A q \in Runs : q # r => stage'[q] = stage[q]
    BY DEF LockTypeOK
  <1>5. LockTypeOK'
    BY <1>1, <1>3 DEF LockTypeOK, Stages
  <1>6. \A m \in Keys : m # k => \A i \in 1..Len(line[m]) : line[m][i] # r
    BY DEF Queued
  <1>7. Queued'
    <2>1. ASSUME NEW m \in Keys, NEW i \in 1..Len(line'[m])
          PROVE  keyOf[line'[m][i]] = m /\ stage'[line'[m][i]] \in Unsettled
      <3>1. CASE m = k
        <4>1. i + 1 \in 2..Len(line[k]) /\ line'[k][i] = line[k][i + 1]
          BY <1>2, <1>3, <3>1
        <4>2. line[k][i + 1] \in Runs /\ line[k][i + 1] # r
          BY <1>1, <1>2, <4>1
        <4>3. i + 1 \in 1..Len(line[k])
          BY <4>1
        <4> QED BY <1>1, <1>4, <3>1, <4>1, <4>2, <4>3 DEF Queued
      <3>2. CASE m # k
        <4>1. line'[m][i] = line[m][i] /\ i \in 1..Len(line[m]) /\ line[m][i] \in Runs
          BY <1>2, <1>3, <3>2
        <4> QED BY <1>4, <1>6, <3>2, <4>1 DEF Queued
      <3> QED BY <3>1, <3>2
    <2>2. ASSUME NEW q \in Runs, stage'[q] \in Unsettled
          PROVE  keyOf[q] \in Keys /\ \E i \in 1..Len(line'[keyOf[q]]) : line'[keyOf[q]][i] = q
      <3>1. q # r /\ stage[q] \in Unsettled
        BY <1>4, <2>2 DEF Unsettled
      <3>2. keyOf[q] \in Keys
        BY <3>1 DEF Queued
      <3>3. PICK i \in 1..Len(line[keyOf[q]]) : line[keyOf[q]][i] = q
        BY <3>1 DEF Queued
      <3>4. CASE keyOf[q] = k
        <4>1. i - 1 \in 1..Len(line'[k]) /\ line'[k][i - 1] = q
          BY <1>2, <1>3, <3>1, <3>3, <3>4
        <4> QED BY <3>2, <3>4, <4>1
      <3>5. CASE keyOf[q] # k
        BY <1>3, <3>2, <3>3, <3>5
      <3> QED BY <3>4, <3>5
    <2> QED BY <2>1, <2>2 DEF Queued
  <1>8. Chained'
    <2> SUFFICES ASSUME NEW m \in Keys, NEW i \in 2..Len(line'[m])
                 PROVE  stage'[line'[m][i]] = "chained" /\ prev[line'[m][i]] = line'[m][i - 1]
      BY DEF Chained
    <2>1. CASE m = k
      <3>1. /\ i + 1 \in 2..Len(line[k]) /\ line'[k][i] = line[k][i + 1]
            /\ i - 1 \in 1..Len(line'[k]) /\ line'[k][i - 1] = line[k][(i + 1) - 1]
        BY <1>2, <1>3, <2>1
      <3>2. line[k][i + 1] \in Runs /\ line[k][i + 1] # r
        BY <1>1, <1>2, <3>1
      <3> QED BY <1>1, <1>4, <2>1, <3>1, <3>2 DEF Chained
    <2>2. CASE m # k
      <3>1. line'[m] = line[m] /\ line[m][i] \in Runs /\ i \in 2..Len(line[m])
        BY <1>2, <1>3, <2>2
      <3> QED BY <1>1, <1>4, <3>1 DEF Chained
    <2> QED BY <2>1, <2>2
  <1>9. TailOwned'
    <2> SUFFICES ASSUME NEW m \in Keys
                 PROVE  /\ line'[m] # <<>> => tails[m] = line'[m][Len(line'[m])]
                        /\ tails[m] # None => keyOf[tails[m]] = m
                        /\ line'[m] = <<>> /\ tails[m] # None => stage'[tails[m]] = "settled"
      BY DEF TailOwned
    <2>1. CASE m = k
      <3>1. line[k] # <<>> /\ tails[k] = line[k][Len(line[k])]
        BY <1>1 DEF TailOwned
      <3>2. CASE line'[k] = <<>>
        <4>1. Len(line[k]) # 1 => Len(line'[k]) # 0
          BY <1>1, <1>2, <1>3
        <4>2. Len(line[k]) = 1
          BY <3>2, <4>1
        <4> QED BY <1>3, <1>4, <2>1, <3>1, <3>2, <4>2 DEF TailOwned
      <3>3. CASE line'[k] # <<>>
        <4>1. Len(line'[k]) \in 1..Len(line'[k]) /\ Len(line'[k]) + 1 = Len(line[k])
          BY <1>2, <1>3, <3>3
        <4> QED BY <1>3, <2>1, <3>1, <3>3, <4>1 DEF TailOwned
      <3> QED BY <3>2, <3>3
    <2>2. CASE m # k
      <3>1. line'[m] = line[m]
        BY <1>3, <2>2
      <3> QED BY <1>4, <3>1 DEF TailOwned, LockTypeOK
    <2> QED BY <2>1, <2>2
  <1>10. Keyed'
    BY <1>4 DEF Keyed
  <1> QED BY <1>5, <1>7, <1>8, <1>9, <1>10

\* A run that cleans up removes the entry of its key only if nobody was chained after it.
LEMMA LockCleanupInv == ASSUME LockInv, NEW r \in Runs, LockCleanup(r) PROVE LockInv'
  <1> USE DEF LockInv, LockCleanup
  <1>1. \A k \in Keys : line[k] \in Seq(Runs) /\ Len(line[k]) \in Nat
    BY DEF LockTypeOK
  <1>2. \A k \in Keys : \A i \in 1..Len(line[k]) : line[k][i] \in Runs /\ line[k][i] # r
    BY <1>1 DEF Queued, Unsettled
  <1>3. \A q \in Runs : q # r => stage'[q] = stage[q] /\ keyOf'[q] = keyOf[q]
    BY DEF LockTypeOK
  <1>4. stage'[r] = "idle" /\ keyOf'[r] = None
    BY DEF LockTypeOK
  <1>5. \A k \in Keys : tails'[k] # None => tails'[k] = tails[k] /\ tails[k] \in Runs /\ tails[k] # r
    BY LockAssumption DEF LockTypeOK, TailOwned
  <1>6. LockTypeOK'
    BY DEF LockTypeOK, Stages
  <1>7. Queued'
    BY <1>2, <1>3, <1>4 DEF Queued, Unsettled
  <1>8. Chained'
    BY <1>1, <1>2, <1>3 DEF Chained
  <1>9. TailOwned'
    <2> SUFFICES ASSUME NEW k \in Keys
                 PROVE  /\ line[k] # <<>> => tails'[k] = line[k][Len(line[k])]
                        /\ tails'[k] # None => keyOf'[tails'[k]] = k
                        /\ line[k] = <<>> /\ tails'[k] # None => stage'[tails'[k]] = "settled"
      BY DEF TailOwned
    <2>1. ASSUME line[k] # <<>> PROVE tails'[k] = line[k][Len(line[k])]
      <3>1. Len(line[k]) \in 1..Len(line[k])
        BY <1>1, <2>1
      <3>2. tails[k] = line[k][Len(line[k])] /\ tails[k] # r
        BY <1>2, <2>1, <3>1 DEF TailOwned
      <3> QED BY <3>2 DEF LockTypeOK
    <2>2. ASSUME tails'[k] # None
          PROVE  keyOf'[tails'[k]] = k /\ (line[k] = <<>> => stage'[tails'[k]] = "settled")
      BY <1>3, <1>5, <2>2 DEF TailOwned
    <2> QED BY <2>1, <2>2
  <1>10. Keyed'
    BY <1>3, <1>4 DEF Keyed
  <1> QED BY <1>6, <1>7, <1>8, <1>9, <1>10

LEMMA LockStep == LockInv /\ [LockNext]_lockVars => LockInv'
  <1> SUFFICES ASSUME LockInv, [LockNext]_lockVars PROVE LockInv'
    OBVIOUS
  <1>1. ASSUME NEW r \in Runs, NEW k \in Keys, LockCall(r, k) PROVE LockInv'
    BY <1>1, LockCallInv
  <1>2. ASSUME NEW r \in Runs, LockStart(r) \/ LockSettle(r) \/ LockCleanup(r) PROVE LockInv'
    BY <1>2, LockStartInv, LockSettleInv, LockCleanupInv
  <1>3. CASE UNCHANGED lockVars
    BY <1>3 DEF lockVars, LockInv, LockTypeOK, Queued, Chained, TailOwned, Keyed
  <1> QED BY <1>1, <1>2, <1>3, LockResetInv DEF LockNext

\* Two running runs of a key would both be the first of its line.
LEMMA LockInvExcludes == LockInv => Exclusive
  BY FirstOfLine DEF Exclusive

\* An entry names a run that knows its key.
LEMMA LockInvTrims == LockInv => MapIsTrimmed
  BY LockAssumption DEF LockInv, TailOwned, LockTypeOK, MapIsTrimmed

\* A step that starts a run starts the first of its line.
LEMMA StartIsOrdered ==
  ASSUME LockInv, [LockNext]_lockVars, NEW r \in Runs, stage[r] = "chained", stage'[r] = "running"
  PROVE  Head(line[keyOf[r]]) = r
  <1>1. \A q \in Runs, k \in Keys : ~LockCall(q, k)
    BY DEF LockCall, LockInv, LockTypeOK
  <1>2. \A q \in Runs : ~LockSettle(q) /\ ~LockCleanup(q)
    BY DEF LockSettle, LockCleanup, LockInv, LockTypeOK
  <1>3. ~LockReset /\ ~UNCHANGED lockVars
    BY DEF LockReset, lockVars
  <1>4. PICK q \in Runs : LockStart(q)
    BY <1>1, <1>2, <1>3 DEF LockNext
  <1>5. q = r
    BY <1>4 DEF LockStart, LockInv, LockTypeOK
  <1> QED BY <1>4, <1>5, FirstOfLine DEF LockStart

THEOREM LockInvariant == LockSpec => []LockInv
  BY LockInitInv, LockStep, PTL DEF LockSpec

\* Whatever the keys and however many calls: no two runs of one key at the same time.
THEOREM LockExcludes == LockSpec => []Exclusive
  BY LockInvariant, LockInvExcludes, PTL

\* Runs of one key start in the order in which run() was called.
THEOREM LockIsOrdered == LockSpec => StartsInOrder
  <1>1. LockInv /\ [LockNext]_lockVars
        => [\A r \in Runs : stage[r] = "chained" /\ stage'[r] = "running"
                            => Head(line[keyOf[r]]) = r]_lockVars
    BY StartIsOrdered
  <1> QED BY <1>1, LockInvariant, PTL DEF LockSpec, StartsInOrder

\* A key nobody uses has no entry in the map.
THEOREM LockMapIsTrimmed == LockSpec => []MapIsTrimmed
  BY LockInvariant, LockInvTrims, PTL

-----------------------------------------------------------------------------

\* Every step of the lock is a step of the queue, or none: in particular a run that starts or
\* settles is the first of its line.
LEMMA LockStepIsFifo ==
  ASSUME LockInv, [LockNext]_lockVars PROVE [Fifo!FifoNext]_(Fifo!fifoVars)
  <1> DEFINE in == {q \in Runs : stage[q] = "running"}
  <1> USE DEF LockInv
  <1>1. ASSUME NEW r \in Runs, NEW k \in Keys, LockCall(r, k) PROVE Fifo!Enter(r, k)
    <2>1. line' = [line EXCEPT ![k] = Append(@, r)]
      BY <1>1 DEF LockCall
    <2>2. in' = in
      BY <1>1 DEF LockCall, LockTypeOK
    <2> QED BY <2>1, <2>2 DEF Fifo!Enter
  <1>2. ASSUME NEW r \in Runs, NEW k \in Keys, LockStart(r), k = keyOf[r] PROVE Fifo!Begin(k)
    <2>1. line[k] # <<>> /\ Head(line[k]) = r
      BY <1>2, FirstOfLine DEF LockStart
    <2>2. in' = in \cup {r} /\ r \notin in /\ line' = line
      BY <1>2 DEF LockStart, LockTypeOK
    <2> QED BY <2>1, <2>2 DEF Fifo!Begin
  <1>3. ASSUME NEW r \in Runs, NEW k \in Keys, LockSettle(r), k = keyOf[r] PROVE Fifo!Leave(k)
    <2>1. line[k] # <<>> /\ Head(line[k]) = r
      BY <1>3, FirstOfLine DEF LockSettle
    <2>2. in' = in \ {r} /\ r \in in /\ line' = [line EXCEPT ![k] = Tail(@)]
      BY <1>3 DEF LockSettle, LockTypeOK
    <2> QED BY <2>1, <2>2 DEF Fifo!Leave
  <1>4. ASSUME NEW r \in Runs, LockCleanup(r) PROVE UNCHANGED Fifo!fifoVars
    BY <1>4 DEF LockCleanup, LockTypeOK, Fifo!fifoVars
  <1>5. LockReset => Fifo!Forget
    BY DEF LockReset, Fifo!Forget
  <1>6. UNCHANGED lockVars => UNCHANGED Fifo!fifoVars
    BY DEF lockVars, Fifo!fifoVars
  <1>7. \A r \in Runs : LockStart(r) \/ LockSettle(r) => keyOf[r] \in Keys
    BY FirstOfLine DEF LockStart, LockSettle
  <1>8. LockNext => Fifo!FifoNext \/ UNCHANGED Fifo!fifoVars
    <2>1. ASSUME NEW r \in Runs, LockStart(r) \/ LockSettle(r) PROVE Fifo!FifoNext
      <3>1. PICK k \in Keys : k = keyOf[r]
        BY <1>7, <2>1
      <3>2. Fifo!Begin(k) \/ Fifo!Leave(k)
        BY <1>2, <1>3, <2>1, <3>1
      <3> QED BY <3>2 DEF Fifo!FifoNext
    <2>2. ASSUME NEW r \in Runs, NEW k \in Keys, LockCall(r, k) PROVE Fifo!FifoNext
      BY <1>1, <2>2 DEF Fifo!FifoNext
    <2>3. LockReset => Fifo!FifoNext
      BY <1>5 DEF Fifo!FifoNext
    <2> QED BY <1>4, <2>1, <2>2, <2>3 DEF LockNext
  <1> QED BY <1>6, <1>8

LEMMA LockInitIsFifo == LockInit => Fifo!FifoInit
  BY DEF LockInit, Fifo!FifoInit

\* Whatever the keys and however many calls, the chain of promises implements the queue.
THEOREM LockImplementsFifo == LockSpec => LockIsFifo
  <1>1. LockInv /\ [LockNext]_lockVars => [Fifo!FifoNext]_(Fifo!fifoVars)
    BY LockStepIsFifo
  <1> QED BY <1>1, LockInitIsFifo, LockInvariant, PTL DEF LockSpec, LockIsFifo, Fifo!FifoSpec

-------------------------------------------------------------------------------
(* The pipeline. *)

\* What a request knows at each await.
CallShape ==
    \A c \in Calls :
       /\ call[c].pc \in {"resolve", "add", "inline", "save", "respond", "retire"}
             => call[c].d \in Deliveries
       /\ call[c].op # "ingress" /\ call[c].pc \in {"add", "inline", "retire"}
             => call[c].r \in Rows /\ row[call[c].r].st # "free"
       /\ call[c].pc \in {"resolve", "save", "respond"} => call[c].op = "ingress"
       /\ call[c].pc \in {"next", "retire"} => call[c].op # "ingress"
       /\ \A r \in call[c].todo : row[r].st # "free"

\* A row that was written names its delivery.
RowShape == \A r \in Rows : row[r].st # "free" => row[r].d \in Deliveries

\* A job that was added names its delivery and has attempts left until it has failed.
JobShape ==
    \A j \in Jobs :
       /\ job[j].st # "none" => job[j].d \in Deliveries
       /\ job[j].st # "failed" => job[j].made < MaxAttempts

\* Only an active job waits for the lock or holds it.
LockShape ==
    /\ stage \in [Jobs -> Stages]
    /\ \A j \in Jobs : stage[j] \in Unsettled => job[j].st = "active"

StoreInv == StoreTypeOK /\ CallShape /\ RowShape /\ JobShape

PipeInv == StoreInv /\ LockShape

\* An added job is a job.
LEMMA AddedKeeps ==
  ASSUME StoreInv, NEW c \in Calls, call[c].pc = "add"
  PROVE  /\ Added(c) \in [Jobs -> JobRecord]
         /\ \A j \in Jobs : /\ Added(c)[j].st # "none" => Added(c)[j].d \in Deliveries
                            /\ Added(c)[j].st # "failed" => Added(c)[j].made < MaxAttempts
                            /\ job[j].st = "active" => Added(c)[j].st = "active"
  <1> DEFINE new == NewJob(call[c].d)
  <1>1. call[c].d \in Deliveries
    BY DEF StoreInv, CallShape
  <1>2. JobOf(c) \in Jobs
    BY <1>1 DEF JobOf, Jobs, StoreInv, CallShape, StoreTypeOK, CallRecord
  <1>3. new \in JobRecord /\ new.st = "waiting" /\ new.d = call[c].d /\ new.made = 0
    BY <1>1, IngressAssumption DEF NewJob, JobRecord
  <1>4. Added(c) = IF job[JobOf(c)].st = "none" THEN [job EXCEPT ![JobOf(c)] = new] ELSE job
    BY DEF Added
  <1> HIDE DEF new
  <1>5. job \in [Jobs -> JobRecord]
    BY DEF StoreInv, StoreTypeOK
  <1>6. Added(c) \in [Jobs -> JobRecord]
    BY <1>2, <1>3, <1>4, <1>5
  <1>7. ASSUME NEW j \in Jobs
        PROVE  /\ Added(c)[j].st # "none" => Added(c)[j].d \in Deliveries
               /\ Added(c)[j].st # "failed" => Added(c)[j].made < MaxAttempts
               /\ job[j].st = "active" => Added(c)[j].st = "active"
    <2>1. Added(c)[j] = job[j] \/ (Added(c)[j] = new /\ job[j].st = "none")
      BY <1>4, <1>5
    <2>2. MaxAttempts \in Nat \ {0}
      BY IngressAssumption
    <2> QED BY <1>1, <1>3, <2>1, <2>2 DEF StoreInv, JobShape
  <1> QED BY <1>6, <1>7

LEMMA PipeInit == Init => PipeInv /\ LockInit
  <1> SUFFICES ASSUME Init PROVE PipeInv
    BY DEF Init
  <1>1. NoCall \in CallRecord /\ NoJob \in JobRecord /\ NoRow \in RowRecord
    BY IngressAssumption DEF NoCall, NoJob, NoRow, CallRecord, JobRecord, RowRecord
  <1>2. StoreTypeOK
    BY <1>1 DEF Init, StoreTypeOK
  <1>3. LockShape
    BY IngressAssumption DEF Init, LockInit, LockShape, Stages, Unsettled
  <1>4. CallShape /\ RowShape /\ JobShape
    BY IngressAssumption DEF Init, NoCall, NoJob, NoRow, CallShape, RowShape, JobShape
  <1> QED BY <1>2, <1>3, <1>4 DEF PipeInv, StoreInv

\* A new row names the delivery it was written for.
LEMMA NewRowKeeps ==
  ASSUME StoreInv, NEW d \in Deliveries, NewRow(d)
  PROVE  /\ row' \in [Rows -> RowRecord]
         /\ \A r \in Rows : row'[r].st # "free" => row'[r].d \in Deliveries
         /\ \A r \in Rows : row[r].st # "free" => row'[r] = row[r]
  BY DEF NewRow, StoreInv, StoreTypeOK, RowShape, RowRecord

\* Requests keep the invariant.
LEMMA CallStepInv == ASSUME StoreInv, NEW c \in Calls, CallStep(c) PROVE StoreInv'
  <1> USE DEF outside
  <1>1. CASE Refused(c)
    BY <1>1 DEF Refused, StoreInv, StoreTypeOK, CallShape, RowShape, JobShape, CallRecord, NoCall
  <1>2. CASE Record(c)
    BY <1>2 DEF Record, EnqueuePc, StoreInv, StoreTypeOK, CallShape, RowShape, JobShape, CallRecord
  <1>3. CASE Duplicate(c)
    BY <1>3 DEF Duplicate, StoreInv, StoreTypeOK, CallShape, RowShape, JobShape, CallRecord, NoCall
  <1>4. CASE Respond(c)
    BY <1>4 DEF Respond, StoreInv, StoreTypeOK, CallShape, RowShape, JobShape, CallRecord, NoCall
  <1>5. CASE Add(c)
    <2>1. /\ job' \in [Jobs -> JobRecord]
          /\ JobShape'
      BY <1>5, AddedKeeps DEF Add, JobShape
    <2>2. CallShape'
      BY <1>5 DEF Add, Accepted, StoreInv, StoreTypeOK, CallShape, CallRecord
    <2> QED BY <1>5, <2>1, <2>2 DEF Add, Accepted, StoreInv, StoreTypeOK, RowShape, CallRecord
  <1>6. CASE AddFails(c)
    <2>1. /\ job' \in [Jobs -> JobRecord]
          /\ JobShape'
      BY <1>6, AddedKeeps DEF AddFails, JobShape, StoreInv, StoreTypeOK
    <2>2. CallShape'
      BY <1>6 DEF AddFails, StoreInv, StoreTypeOK, CallShape, CallRecord
    <2> QED BY <1>6, <2>1, <2>2 DEF AddFails, StoreInv, StoreTypeOK, RowShape, CallRecord
  <1>7. CASE InlineSucceeds(c)
    BY <1>7 DEF InlineSucceeds, Succeeds, Accepted, StoreInv, StoreTypeOK, CallShape, RowShape,
       JobShape, CallRecord
  <1>8. CASE InlineFails(c)
    BY <1>8 DEF InlineFails, Fails, Succeeds, StoreInv, StoreTypeOK, CallShape, RowShape, JobShape,
       CallRecord
  <1>9. CASE SaveInline(c)
    <2>1. call[c].d \in Deliveries
      BY <1>9 DEF SaveInline, StoreInv, CallShape
    <2>2. /\ row' \in [Rows -> RowRecord]
          /\ \A r \in Rows : row'[r].st # "free" => row'[r].d \in Deliveries
          /\ \A r \in Rows : row[r].st # "free" => row'[r] = row[r]
          /\ hit' \subseteq {"crash", "redis", "late", "unsaved"}
      BY <1>9, <2>1, NewRowKeeps DEF SaveInline, RowIsLost, StoreInv, StoreTypeOK, RowShape
    <2>3. CallShape'
      BY <1>9, <2>2 DEF SaveInline, StoreInv, StoreTypeOK, CallShape, CallRecord
    <2>4. StoreTypeOK'
      BY <1>9, <2>2 DEF SaveInline, StoreInv, StoreTypeOK, CallRecord
    <2> QED BY <1>9, <2>2, <2>3, <2>4 DEF SaveInline, StoreInv, RowShape, JobShape
  <1>10. CASE NextRow(c)
    <2>1. PICK r \in call[c].todo :
             call' = [call EXCEPT ![c] = [pc |-> EnqueuePc, op |-> "redrive", d |-> row[r].d,
                                          r |-> r, todo |-> call[c].todo \ {r}]]
      BY <1>10 DEF NextRow
    <2>2. r \in Rows /\ row[r].d \in Deliveries /\ call[c].op # "ingress"
      BY <1>10, <2>1 DEF NextRow, StoreInv, StoreTypeOK, CallShape, RowShape, CallRecord
    <2>4. EnqueuePc \in {"add", "inline"}
      BY DEF EnqueuePc
    <2>5. call' \in [Calls -> CallRecord]
      BY <2>1, <2>2, <2>4 DEF StoreInv, StoreTypeOK, CallRecord
    <2>6. CallShape'
      BY <1>10, <2>1, <2>2, <2>4 DEF NextRow, StoreInv, StoreTypeOK, CallShape, CallRecord
    <2> QED BY <1>10, <2>5, <2>6 DEF NextRow, StoreInv, StoreTypeOK, RowShape, JobShape
  <1>11. CASE RedriveDone(c)
    BY <1>11 DEF RedriveDone, StoreInv, StoreTypeOK, CallShape, RowShape, JobShape, CallRecord, NoCall
  <1>12. CASE Retire(c)
    <2>1. call[c].r \in Rows /\ call[c].op # "ingress"
      BY <1>12 DEF Retire, StoreInv, CallShape
    <2>2. /\ row' \in [Rows -> RowRecord]
          /\ \A r \in Rows : row'[r].d = row[r].d
          /\ \A r \in Rows : row[r].st # "free" => row'[r].st # "free"
          /\ RowShape'
      <3>1. CASE UNCHANGED row
        BY <3>1 DEF StoreInv, StoreTypeOK, RowShape
      <3>2. CASE row' = [row EXCEPT ![call[c].r].st = "redriven"]
        <4>1. row[call[c].r].st # "free"
          BY <1>12 DEF Retire, StoreInv, CallShape
        <4> QED BY <2>1, <3>2, <4>1 DEF StoreInv, StoreTypeOK, RowShape, RowRecord
      <3> QED BY <1>12, <3>1, <3>2 DEF Retire
    <2>3. call' \in [Calls -> CallRecord]
      BY <1>12 DEF Retire, StoreInv, StoreTypeOK, CallRecord, NoCall
    <2>4. CallShape'
      BY <1>12, <2>1, <2>2 DEF Retire, StoreInv, StoreTypeOK, CallShape, CallRecord, NoCall
    <2> QED BY <1>12, <2>2, <2>3, <2>4 DEF Retire, StoreInv, StoreTypeOK, JobShape
  <1> QED BY <1>1, <1>2, <1>3, <1>4, <1>5, <1>6, <1>7, <1>8, <1>9, <1>10, <1>11, <1>12 DEF CallStep

LEMMA CallLockShape == ASSUME PipeInv, NEW c \in Calls, CallStep(c) PROVE LockShape'
  <1>1. UNCHANGED stage
    BY DEF CallStep, Refused, Record, Duplicate, Respond, Add, AddFails, InlineSucceeds,
       InlineFails, SaveInline, NextRow, RedriveDone, Retire, lockVars
  <1>2. UNCHANGED job \/ (call[c].pc = "add" /\ job' = Added(c))
    BY DEF CallStep, Refused, Record, Duplicate, Respond, Add, AddFails, InlineSucceeds,
       InlineFails, SaveInline, NextRow, RedriveDone, Retire
  <1>3. \A j \in Jobs : job[j].st = "active" => job'[j].st = "active"
    BY <1>2, AddedKeeps DEF PipeInv
  <1> QED BY <1>1, <1>3 DEF PipeInv, LockShape

\* Attempts keep the invariant.
LEMMA JobStepInv == ASSUME PipeInv, NEW j \in Jobs, JobStep(j) PROVE StoreInv'
  <1> USE IngressAssumption DEF outside
  <1>0. ASSUME LockSettle(j) PROVE job[j].st = "active"
    BY <1>0 DEF PipeInv, LockShape, LockSettle, Unsettled
  <1>1. CASE PickUp(j)
    BY <1>1 DEF PickUp, PipeInv, StoreInv, StoreTypeOK, CallShape, RowShape, JobShape, JobRecord
  <1>2. CASE Dispatch(j)
    BY <1>2 DEF Dispatch, PipeInv, StoreInv, StoreTypeOK, CallShape, RowShape, JobShape
  <1>3. CASE DispatchSucceeds(j)
    BY <1>0, <1>3 DEF DispatchSucceeds, PipeInv, StoreInv, StoreTypeOK, CallShape, RowShape, JobShape, JobRecord,
       Succeeds
  <1>4. CASE DispatchFails(j)
    BY <1>0, <1>4 DEF DispatchFails, Fails, Succeeds, PipeInv, StoreInv, StoreTypeOK, CallShape, RowShape, JobShape,
       JobRecord
  <1>5. CASE DeadLetter(j)
    <2>1. job[j].d \in Deliveries
      BY <1>5 DEF DeadLetter, PipeInv, StoreInv, JobShape
    <2>2. /\ row' \in [Rows -> RowRecord]
          /\ \A r \in Rows : row'[r].st # "free" => row'[r].d \in Deliveries
          /\ \A r \in Rows : row[r].st # "free" => row'[r] = row[r]
          /\ hit' \subseteq {"crash", "redis", "late", "unsaved"}
      BY <1>5, <2>1, NewRowKeeps DEF DeadLetter, RowIsLost, PipeInv, StoreInv, StoreTypeOK, RowShape
    <2>3. job' \in [Jobs -> JobRecord] /\ JobShape'
      BY <1>5 DEF DeadLetter, PipeInv, StoreInv, StoreTypeOK, JobShape, JobRecord
    <2>4. CallShape'
      BY <1>5, <2>2 DEF DeadLetter, PipeInv, StoreInv, StoreTypeOK, CallShape, CallRecord
    <2> QED BY <1>5, <2>2, <2>3, <2>4 DEF DeadLetter, PipeInv, StoreInv, StoreTypeOK, RowShape
  <1>6. CASE Rethrown(j)
    BY <1>6 DEF Rethrown, PipeInv, StoreInv, StoreTypeOK, CallShape, RowShape, JobShape, JobRecord
  <1>7. CASE Cleanup(j)
    BY <1>7 DEF Cleanup, PipeInv, StoreInv, StoreTypeOK, CallShape, RowShape, JobShape
  <1> QED BY <1>1, <1>2, <1>3, <1>4, <1>5, <1>6, <1>7 DEF JobStep

LEMMA JobLockShape == ASSUME PipeInv, NEW j \in Jobs, JobStep(j) PROVE LockShape'
  <1> USE DEF PipeInv, StoreInv, StoreTypeOK, LockShape, JobRecord, Stages, Unsettled
  <1>1. CASE PickUp(j)
    BY <1>1 DEF PickUp, LockCall
  <1>2. CASE Dispatch(j)
    BY <1>2 DEF Dispatch, LockStart
  <1>3. CASE DispatchSucceeds(j)
    BY <1>3 DEF DispatchSucceeds, LockSettle
  <1>4. CASE DispatchFails(j)
    BY <1>4 DEF DispatchFails, LockSettle
  <1>5. CASE DeadLetter(j)
    BY <1>5 DEF DeadLetter, lockVars
  <1>6. CASE Rethrown(j)
    BY <1>6 DEF Rethrown, lockVars
  <1>7. CASE Cleanup(j)
    BY <1>7 DEF Cleanup, LockCleanup
  <1> QED BY <1>1, <1>2, <1>3, <1>4, <1>5, <1>6, <1>7 DEF JobStep

LEMMA PipeStep == PipeInv /\ [Next]_vars => PipeInv'
  <1> SUFFICES ASSUME PipeInv, [Next]_vars PROVE PipeInv'
    OBVIOUS
  <1> USE DEF outside
  <1>1. ASSUME NEW c \in Calls, NEW d \in Deliveries, Request(c, d) PROVE PipeInv'
    BY <1>1 DEF Request, PipeInv, StoreInv, StoreTypeOK, CallShape, RowShape, JobShape, LockShape, lockVars, CallRecord, NoCall
  <1>2. ASSUME NEW c \in Calls, NEW d \in Deliveries, Redrive(c, d.instance) PROVE PipeInv'
    <2>1. \A r \in OpenRows(d.instance) : r \in Rows /\ row[r].st # "free"
      BY DEF OpenRows
    <2> DEFINE todo == OpenRows(d.instance)
    <2>2. call' = [call EXCEPT ![c] = [pc |-> "next", op |-> "redrive", d |-> None, r |-> None,
                                       todo |-> todo]]
      BY <1>2 DEF Redrive, NoCall
    <2> HIDE DEF todo
    <2>3. call' \in [Calls -> CallRecord]
      BY <2>1, <2>2 DEF todo, PipeInv, StoreInv, StoreTypeOK, CallRecord
    <2>4. CallShape'
      BY <1>2, <2>1, <2>2 DEF todo, Redrive, PipeInv, StoreInv, StoreTypeOK, CallShape, CallRecord
    <2> QED BY <1>2, <2>3, <2>4 DEF Redrive, PipeInv, StoreInv, StoreTypeOK, RowShape, JobShape,
            LockShape, lockVars
  <1>3. CASE Crash
    <2>1. \A j \in Jobs : [job[j] EXCEPT !.st = "waiting"] \in JobRecord
      BY DEF PipeInv, StoreInv, StoreTypeOK, JobRecord
    <2>2. job' \in [Jobs -> JobRecord]
      BY <1>3, <2>1 DEF Crash, PipeInv, StoreInv, StoreTypeOK
    <2>3. JobShape'
      BY <1>3 DEF Crash, Working, PipeInv, StoreInv, StoreTypeOK, JobShape, JobRecord
    <2>4. call' \in [Calls -> CallRecord] /\ CallShape'
      BY <1>3 DEF Crash, CallShape, NoCall, CallRecord
    <2>5. LockShape'
      BY <1>3, IngressAssumption DEF Crash, LockReset, LockShape, Stages, Unsettled
    <2> QED BY <1>3, <2>2, <2>3, <2>4, <2>5 DEF Crash, PipeInv, StoreInv, StoreTypeOK, RowShape
  <1>4. CASE UNCHANGED vars
    BY <1>4 DEF vars, PipeInv, StoreInv, StoreTypeOK, CallShape, RowShape, JobShape, LockShape, lockVars
  <1> QED BY <1>1, <1>2, <1>3, <1>4, CallStepInv, JobStepInv, CallLockShape, JobLockShape
     DEF Next, PipeInv

THEOREM PipeInvariant == Spec => []PipeInv
  BY PipeInit, PipeStep, PTL DEF Spec

-----------------------------------------------------------------------------

\* The pipeline uses the lock as the lock is meant: an attempt enters with the key of its
\* conversation, starts when it may, settles once, and a crash empties the map.
LEMMA PipeUsesLock == PipeInv /\ [Next]_vars => [LockNext]_lockVars
  <1> SUFFICES ASSUME PipeInv, [Next]_vars PROVE [LockNext]_lockVars
    OBVIOUS
  <1>1. Runs = Jobs /\ Conversation \in [Deliveries -> Keys]
    BY IngressAssumption
  <1>2. ASSUME NEW j \in Jobs, JobStep(j) PROVE [LockNext]_lockVars
    <2>1. CASE PickUp(j)
      <3>1. Conversation[job[j].d] \in Keys
        BY <1>1, <2>1 DEF PickUp, PipeInv, StoreInv, JobShape
      <3> QED BY <1>1, <2>1, <3>1 DEF PickUp, LockNext
    <2>2. CASE Dispatch(j)
      BY <1>1, <2>2 DEF Dispatch, LockNext
    <2>3. CASE DispatchSucceeds(j)
      BY <1>1, <2>3 DEF DispatchSucceeds, LockNext
    <2>4. CASE DispatchFails(j)
      BY <1>1, <2>4 DEF DispatchFails, LockNext
    <2>5. CASE Cleanup(j)
      BY <1>1, <2>5 DEF Cleanup, LockNext
    <2>6. CASE DeadLetter(j) \/ Rethrown(j)
      BY <2>6 DEF DeadLetter, Rethrown
    <2> QED BY <1>2, <2>1, <2>2, <2>3, <2>4, <2>5, <2>6 DEF JobStep
  <1>3. ASSUME NEW c \in Calls, CallStep(c) PROVE UNCHANGED lockVars
    BY <1>3 DEF CallStep, Refused, Record, Duplicate, Respond, Add, AddFails, InlineSucceeds,
       InlineFails, SaveInline, NextRow, RedriveDone, Retire
  <1>4. ASSUME NEW c \in Calls, NEW d \in Deliveries, Redrive(c, d.instance)
        PROVE  UNCHANGED lockVars
    BY <1>4 DEF Redrive
  <1>5. ASSUME NEW c \in Calls, NEW d \in Deliveries, Request(c, d) PROVE UNCHANGED lockVars
    BY <1>5 DEF Request
  <1>6. CASE Crash
    BY <1>6 DEF Crash, LockNext
  <1>7. CASE UNCHANGED vars
    BY <1>7 DEF vars
  <1> QED BY <1>2, <1>3, <1>4, <1>5, <1>6, <1>7 DEF Next

THEOREM PipeImplementsLock == Spec => LockSpec
  BY PipeInit, PipeInvariant, PipeUsesLock, PTL DEF Spec, LockSpec

\* For any deliveries, workers and faults every variable has its type, and no job is attempted
\* more often than MaxAttempts says.
THEOREM IngressTypeCorrect == Spec => []TypeOK
  <1>1. PipeInv /\ LockInv => TypeOK
    BY DEF PipeInv, StoreInv, LockInv, TypeOK
  <1> QED BY <1>1, PipeInvariant, PipeImplementsLock, LockInvariant, PTL

\* No two attempts of one conversation dispatch at the same time, however many the worker runs,
\* whatever fails and is replayed.
THEOREM ConversationsExclude == Spec => []Exclusive
  BY PipeImplementsLock, LockExcludes, PTL

\* The attempts of one conversation start in the order in which the worker took them.
THEOREM ConversationsInOrder == Spec => StartsInOrder
  BY PipeImplementsLock, LockIsOrdered, PTL

\* A conversation without attempts costs no memory.
THEOREM LockMapStaysTrimmed == Spec => []MapIsTrimmed
  BY PipeImplementsLock, LockMapIsTrimmed, PTL

\* The attempts of a conversation pass through the pipeline as through a first-in, first-out queue
\* of which only the first is inside, whatever the requests, jobs and faults around them.
THEOREM ConversationsAreFifo == Spec => LockIsFifo
  BY PipeImplementsLock, LockImplementsFifo, PTL

-----------------------------------------------------------------------------
(* Nothing is lost                                                          *)

\* A job is the live job of its delivery, or replays the row of its delivery.
Matched(j) ==
    \/ j = LiveJob(job[j].d)
    \/ \E r \in Rows : j = ReplayJob(r) /\ row[r].st # "free" /\ row[r].d = job[j].d

\* A replay works on the delivery of its row, and retires the row when a job or a handler has the delivery.
Replays(c) ==
    call[c].op # "ingress" /\ call[c].pc \in {"add", "inline", "retire"} =>
       /\ call[c].d = row[call[c].r].d
       /\ call[c].pc = "retire" => job[ReplayJob(call[c].r)].st # "none" \/ handled[call[c].d] > 0

\* A delivery is recorded before anything else happens to it.
RecordedFirst ==
    /\ acked \subseteq recorded
    /\ \A c \in Calls : call[c].op = "ingress" /\ call[c].pc \in {"add", "inline", "save", "respond"} => call[c].d \in recorded

MatchInv ==
    /\ \A j \in Jobs : job[j].st # "none" => Matched(j)
    /\ \A c \in Calls : Replays(c)
    /\ RecordedFirst

\* An open row that no job replays yet.
Fresh(r) == row[r].st = "open" /\ job[ReplayJob(r)].st = "none"

\* What answers for a delivery whatever the process does.
Held(d) == handled[d] > 0 \/ Pending(d) \/ \E r \in Rows : Fresh(r) /\ row[r].d = d

HeldInv ==
    "unsaved" \notin hit =>
       /\ \A j \in Jobs : job[j].st # "none" => Held(job[j].d)
       /\ "crash" \notin hit => \A d \in recorded : Held(d) \/ InFlight(d)

\* What may still lead to a dispatch of d, or has: a request about to add it, a job that is not exhausted, a row
\* that no job replays.
Adding(c, d) == call[c].op = "ingress" /\ call[c].pc = "add" /\ call[c].d = d
Open(j, d) == job[j].st # "none" /\ job[j].d = d /\ j \notin Exhausted(d)
Unplayed(r, d) == row[r].st # "free" /\ row[r].d = d /\ job[ReplayJob(r)].st = "none"

Single(d) ==
    /\ \A c1, c2 \in Calls : Adding(c1, d) /\ Adding(c2, d) => c1 = c2
    /\ \A j1, j2 \in Jobs : Open(j1, d) /\ Open(j2, d) => j1 = j2
    /\ \A r1, r2 \in Rows : Unplayed(r1, d) /\ Unplayed(r2, d) => r1 = r2
    /\ \A c \in Calls, j \in Jobs : ~(Adding(c, d) /\ Open(j, d))
    /\ \A c \in Calls, r \in Rows : ~(Adding(c, d) /\ Unplayed(r, d))
    /\ \A j \in Jobs, r \in Rows : ~(Open(j, d) /\ Unplayed(r, d))

\* A delivery that was handled has the token at the job that did it.
Counted(d) ==
    /\ d \notin recorded => (\A j \in Jobs : ~Open(j, d)) /\ (\A r \in Rows : ~Unplayed(r, d)) /\ handled[d] = 0
    /\ handled[d] > 0 => \E j \in Jobs : Open(j, d) /\ job[j].st = "done"
    /\ handled[d] <= 1

OneToken(d) == Single(d) /\ Counted(d)

\* With the queue and without faults that send a delivery twice.
QueueOnly ==
    /\ \A c \in Calls : call[c].pc \notin {"inline", "save"}
    /\ \A j \in Jobs : job[j].st = "erring" => job[j].made + 1 >= MaxAttempts
    /\ \A c \in Calls : call[c].pc = "retire" => job[ReplayJob(call[c].r)].st # "none"

Clean == QueueEnabled /\ hit \cap {"crash", "redis", "late"} = {}
TokenInv == Clean => QueueOnly /\ \A d \in Deliveries : OneToken(d)

\* The dead letters of a delivery, counted against its exhausted jobs.
RowsOf(d) == {r \in Rows : row[r].d = d}
LetterInv ==
    /\ \A r \in Rows : row[r].st = "free" => row[r].d = None
    /\ QueueEnabled /\ hit = {} =>
          \A d \in Deliveries : IsFiniteSet(Exhausted(d)) /\ Cardinality(RowsOf(d)) = Cardinality(Exhausted(d))

\* Rows and jobs that exist keep what they are about, what was handled stays handled, faults stay known.
Growing ==
    /\ \A r \in Rows : row[r].st # "free" => row'[r].st # "free" /\ row'[r].d = row[r].d
    /\ \A j \in Jobs : job[j].st # "none" => job'[j].st # "none" /\ job'[j].d = job[j].d
    /\ \A d \in Deliveries : handled[d] > 0 => handled'[d] > 0
    /\ hit \subseteq hit'

LEMMA HandledGrows ==
  ASSUME StoreTypeOK, NEW d \in Deliveries, Succeeds(d)
  PROVE  /\ \A e \in Deliveries : handled[e] > 0 => handled'[e] > 0
         /\ handled'[d] > 0 /\ handled'[d] <= handled[d] + 1
         /\ \A e \in Deliveries : e # d => handled'[e] = handled[e]
  BY DEF StoreTypeOK, Succeeds

LEMMA FailingKeeps ==
  ASSUME StoreTypeOK, NEW d \in Deliveries, Fails(d)
  PROVE  /\ \A e \in Deliveries : handled[e] > 0 => handled'[e] > 0
         /\ hit \subseteq hit' /\ ("unsaved" \in hit' <=> "unsaved" \in hit) /\ ("crash" \in hit' <=> "crash" \in hit)
         /\ UNCHANGED outside \/ "late" \in hit'
  BY HandledGrows DEF Fails, outside

LEMMA InsertedRow ==
  ASSUME StoreInv, NEW d \in Deliveries, NewRow(d)
  PROVE  \E r \in Rows : /\ row[r].st = "free" /\ row'[r].st = "open" /\ row'[r].d = d
                         /\ \A q \in Rows : q # r => row'[q] = row[q]
  BY DEF NewRow, StoreInv, StoreTypeOK

\* What a step of an attempt does.
JobEffect(j) ==
    /\ UNCHANGED <<recorded, acked, call>>
    /\ \A k \in Jobs : k # j => job'[k] = job[k]
    /\ job'[j].d = job[j].d
    /\ \/ UNCHANGED <<job, row, handled, hit>>
       \/ /\ job[j].st = "waiting" /\ job'[j].st = "active" /\ job'[j].made = job[j].made
          /\ UNCHANGED <<row, handled, hit>>
       \/ /\ job[j].st = "active" /\ job'[j].st = "done" /\ Succeeds(job[j].d) /\ UNCHANGED <<row, hit>>
       \/ /\ job[j].st = "active" /\ job'[j].made = job[j].made
          /\ \/ job[j].made + 1 >= MaxAttempts /\ job'[j].st = "erring"
             \/ job[j].made + 1 < MaxAttempts /\ job'[j].st = "rethrow"
          /\ Fails(job[j].d) /\ UNCHANGED row
       \/ /\ job[j].st = "erring" /\ job'[j].st = "rethrow" /\ job'[j].made = job[j].made
          /\ (NewRow(job[j].d) /\ UNCHANGED hit) \/ RowIsLost
          /\ UNCHANGED handled
       \/ /\ job[j].st = "rethrow" /\ UNCHANGED <<row, handled, hit>>
          /\ \/ job[j].made + 1 < MaxAttempts /\ job'[j].st = "waiting"
             \/ job[j].made + 1 >= MaxAttempts /\ job'[j].st = "failed"

LEMMA AttemptSteps == ASSUME PipeInv, NEW j \in Jobs, JobStep(j) PROVE JobEffect(j) /\ (job[j].st # "none" \/ job' = job)
  <1> USE IngressAssumption DEF outside, JobEffect
  <1>0. job \in [Jobs -> JobRecord] /\ job[j].made \in Nat
    BY DEF PipeInv, StoreInv, StoreTypeOK, JobRecord
  <1>1. ASSUME LockSettle(j) PROVE job[j].st = "active"
    BY <1>1 DEF PipeInv, LockShape, LockSettle, Unsettled
  <1>2. CASE PickUp(j)
    BY <1>0, <1>2 DEF PickUp
  <1>3. CASE Dispatch(j)
    BY <1>3 DEF Dispatch
  <1>4. CASE DispatchSucceeds(j)
    BY <1>0, <1>1, <1>4 DEF DispatchSucceeds
  <1>5. CASE DispatchFails(j)
    BY <1>0, <1>1, <1>5 DEF DispatchFails
  <1>6. CASE DeadLetter(j)
    BY <1>0, <1>6 DEF DeadLetter
  <1>7. CASE Rethrown(j)
    BY <1>0, <1>7 DEF Rethrown
  <1>8. CASE Cleanup(j)
    BY <1>8 DEF Cleanup
  <1> QED BY <1>2, <1>3, <1>4, <1>5, <1>6, <1>7, <1>8 DEF JobStep

LEMMA AttemptsGrow == ASSUME PipeInv, NEW j \in Jobs, JobStep(j) PROVE Growing
  <1>0. StoreTypeOK /\ StoreInv
    BY DEF PipeInv, StoreInv
  <1>1. JobEffect(j) /\ (job[j].st # "none" \/ job' = job)
    BY AttemptSteps
  <1>2. job[j].st # "none" => job[j].d \in Deliveries
    BY DEF PipeInv, StoreInv, JobShape
  <1>3. \A k \in Jobs : job[k].st # "none" => job'[k].st # "none" /\ job'[k].d = job[k].d
    BY <1>1 DEF JobEffect
  <1>4. \A r \in Rows : row[r].st # "free" => row'[r].st # "free" /\ row'[r].d = row[r].d
    BY <1>0, <1>1, <1>2, InsertedRow DEF JobEffect, RowIsLost
  <1>5. (\A d \in Deliveries : handled[d] > 0 => handled'[d] > 0) /\ hit \subseteq hit'
    BY <1>0, <1>1, <1>2, HandledGrows, FailingKeeps DEF JobEffect, RowIsLost
  <1> QED BY <1>3, <1>4, <1>5 DEF Growing

LEMMA CallsGrow == ASSUME PipeInv, NEW c \in Calls, CallStep(c) PROVE Growing /\ \A b \in Calls : b # c => call'[b] = call[b]
  <1>0. StoreTypeOK /\ StoreInv
    BY DEF PipeInv, StoreInv
  <1> USE DEF outside
  <1>1. \A b \in Calls : b # c => call'[b] = call[b]
    BY <1>0 DEF StoreTypeOK, CallStep, Refused, Record, Duplicate, Respond, Add, AddFails, InlineSucceeds,
       InlineFails, SaveInline, NextRow, RedriveDone, Retire
  <1>2. \A j \in Jobs : job[j].st # "none" => job'[j].st # "none" /\ job'[j].d = job[j].d
    <2>1. UNCHANGED job \/ job' = Added(c)
      BY DEF CallStep, Refused, Record, Duplicate, Respond, Add, AddFails, InlineSucceeds,
         InlineFails, SaveInline, NextRow, RedriveDone, Retire
    <2>2. \A j \in Jobs : job[j].st # "none" => Added(c)[j] = job[j]
      BY <1>0 DEF Added, StoreTypeOK
    <2> QED BY <2>1, <2>2
  <1>3. \A r \in Rows : row[r].st # "free" => row'[r].st # "free" /\ row'[r].d = row[r].d
    <2>1. CASE SaveInline(c)
      <3>1. call[c].d \in Deliveries
        BY <2>1 DEF SaveInline, PipeInv, StoreInv, CallShape
      <3> QED BY <1>0, <2>1, <3>1, InsertedRow DEF SaveInline, RowIsLost
    <2>2. CASE Retire(c)
      BY <1>0, <2>2 DEF Retire, StoreTypeOK, RowRecord
    <2> QED BY <2>1, <2>2 DEF CallStep, Refused, Record, Duplicate, Respond, Add, AddFails, InlineSucceeds,
         InlineFails, NextRow, RedriveDone
  <1>4. (\A d \in Deliveries : handled[d] > 0 => handled'[d] > 0) /\ hit \subseteq hit'
    <2>1. call[c].pc = "inline" => call[c].d \in Deliveries
      BY DEF PipeInv, StoreInv, CallShape
    <2>2. CASE InlineSucceeds(c)
      BY <1>0, <2>1, <2>2, HandledGrows DEF InlineSucceeds
    <2>3. CASE InlineFails(c)
      BY <1>0, <2>1, <2>3, FailingKeeps DEF InlineFails
    <2> QED BY <2>2, <2>3 DEF CallStep, Refused, Record, Duplicate, Respond, Add, AddFails, SaveInline, RowIsLost,
         NextRow, RedriveDone, Retire
  <1> QED BY <1>1, <1>2, <1>3, <1>4 DEF Growing

\* The ids of jobs tell what they are for.
LEMMA JobIds ==
    /\ \A d, e \in Deliveries : LiveJob(d) \in Jobs /\ (LiveJob(d) = LiveJob(e) => d.id = e.id)
    /\ \A q, r \in Rows : ReplayJob(r) \in Jobs /\ (ReplayJob(q) = ReplayJob(r) => q = r)
    /\ \A d \in Deliveries, r \in Rows : LiveJob(d) # ReplayJob(r)
  BY DEF LiveJob, ReplayJob, Jobs

\* What an add adds.
LEMMA AddedJob ==
  ASSUME PipeInv, NEW c \in Calls, call[c].pc = "add"
  PROVE  /\ JobOf(c) \in Jobs /\ call[c].d \in Deliveries
         /\ \A j \in Jobs : j # JobOf(c) => Added(c)[j] = job[j]
         /\ \/ job[JobOf(c)].st # "none" /\ Added(c) = job
            \/ /\ job[JobOf(c)].st = "none" /\ Added(c)[JobOf(c)].st = "waiting"
               /\ Added(c)[JobOf(c)].d = call[c].d /\ Added(c)[JobOf(c)].made = 0
  <1>1. call[c].d \in Deliveries
    BY DEF PipeInv, StoreInv, CallShape
  <1>2. JobOf(c) \in Jobs
    BY <1>1 DEF JobOf, Jobs, PipeInv, StoreInv, CallShape, StoreTypeOK, CallRecord
  <1>3. job \in [Jobs -> JobRecord]
    BY DEF PipeInv, StoreInv, StoreTypeOK
  <1>4. /\ NewJob(call[c].d).st = "waiting" /\ NewJob(call[c].d).d = call[c].d /\ NewJob(call[c].d).made = 0
    BY DEF NewJob
  <1> QED BY <1>1, <1>2, <1>3, <1>4 DEF Added

LEMMA MatchInit == Init => MatchInv
  BY DEF Init, MatchInv, NoJob, NoCall, Replays, RecordedFirst

\* What is matched stays matched.
LEMMA MatchStays ==
  ASSUME PipeInv, MatchInv, Growing
  PROVE  /\ \A j \in Jobs : job[j].st # "none" => Matched(j)'
         /\ \A c \in Calls : call'[c] = call[c] => Replays(c)'
  <1>1. ASSUME NEW j \in Jobs, job[j].st # "none" PROVE Matched(j)'
    <2>1. Matched(j) /\ job'[j].d = job[j].d
      BY <1>1 DEF MatchInv, Growing
    <2> QED BY <2>1 DEF Matched, Growing
  <1>2. ASSUME NEW c \in Calls, call'[c] = call[c] PROVE Replays(c)'
    <2>1. CASE call[c].op # "ingress" /\ call[c].pc \in {"add", "inline", "retire"}
      <3>1. /\ call[c].r \in Rows /\ row[call[c].r].st # "free" /\ call[c].d \in Deliveries
            /\ call[c].d = row[call[c].r].d
            /\ call[c].pc = "retire" => job[ReplayJob(call[c].r)].st # "none" \/ handled[call[c].d] > 0
        BY <2>1 DEF PipeInv, StoreInv, CallShape, MatchInv, Replays
      <3>2. ReplayJob(call[c].r) \in Jobs
        BY <3>1, JobIds
      <3> QED BY <1>2, <3>1, <3>2 DEF Growing, Replays
    <2>2. CASE ~(call[c].op # "ingress" /\ call[c].pc \in {"add", "inline", "retire"})
      BY <1>2, <2>2 DEF Replays
    <2> QED BY <2>1, <2>2
  <1> QED BY <1>1, <1>2

LEMMA MatchCall == ASSUME PipeInv, MatchInv, NEW c \in Calls, CallStep(c) PROVE MatchInv'
  <1>0. StoreTypeOK /\ CallShape /\ RowShape
    BY DEF PipeInv, StoreInv
  <1>1. Growing /\ \A b \in Calls : b # c => call'[b] = call[b]
    BY CallsGrow
  <1>2. /\ \A j \in Jobs : job[j].st # "none" => Matched(j)'
        /\ \A b \in Calls : b # c => Replays(b)'
    BY <1>1, MatchStays
  <1> USE DEF outside
  <1>3. ASSUME NEW j \in Jobs, job'[j].st # "none" PROVE Matched(j)'
    <2>1. CASE job[j].st # "none"
      BY <1>2, <2>1
    <2>2. CASE job[j].st = "none"
      <3>1. call[c].pc = "add" /\ job' = Added(c)
        BY <1>3, <2>2 DEF CallStep, Refused, Record, Duplicate, Respond, Add, AddFails, InlineSucceeds,
           InlineFails, SaveInline, NextRow, RedriveDone, Retire
      <3>2. j = JobOf(c) /\ job'[j].d = call[c].d
        BY <1>3, <2>2, <3>1, AddedJob
      <3>3. CASE call[c].op = "ingress"
        BY <3>2, <3>3 DEF JobOf, Matched
      <3>4. CASE call[c].op # "ingress"
        <4>1. /\ call[c].r \in Rows /\ row[call[c].r].st # "free" /\ call[c].d = row[call[c].r].d
              /\ j = ReplayJob(call[c].r)
          BY <1>0, <3>1, <3>2, <3>4 DEF CallShape, MatchInv, Replays, JobOf
        <4>2. row'[call[c].r].st # "free" /\ row'[call[c].r].d = job'[j].d
          BY <1>1, <3>2, <4>1 DEF Growing
        <4> QED BY <4>1, <4>2 DEF Matched
      <3> QED BY <3>3, <3>4
    <2> QED BY <2>1, <2>2
  <1>4. Replays(c)'
    <2>1. CASE Refused(c) \/ Record(c) \/ Duplicate(c) \/ Respond(c) \/ SaveInline(c) \/ RedriveDone(c) \/ InlineFails(c)
      BY <1>0, <2>1 DEF Refused, Record, Duplicate, Respond, SaveInline, RedriveDone, InlineFails, Replays, NoCall,
         StoreTypeOK, CallRecord, CallShape
    <2>2. CASE Add(c) \/ AddFails(c)
      <3>1. CASE call[c].op = "ingress"
        BY <1>0, <2>2, <3>1 DEF Add, AddFails, Replays, Accepted, StoreTypeOK, CallRecord
      <3>2. CASE call[c].op # "ingress"
        <4>1. /\ call[c].pc = "add" /\ call[c].r \in Rows /\ row[call[c].r].st # "free" /\ call[c].d \in Deliveries
              /\ call[c].d = row[call[c].r].d /\ JobOf(c) = ReplayJob(call[c].r)
          BY <1>0, <2>2, <3>2 DEF Add, AddFails, CallShape, MatchInv, Replays, JobOf
        <4>2. Add(c) => job'[JobOf(c)].st # "none"
          BY <4>1, AddedJob DEF Add
        <4>3. call'[c].d = call[c].d /\ call'[c].r = call[c].r /\ (AddFails(c) => call'[c].pc = "inline") /\ row' = row
          BY <1>0, <2>2 DEF Add, AddFails, StoreTypeOK, CallRecord
        <4> QED BY <2>2, <4>1, <4>2, <4>3 DEF Replays
      <3> QED BY <3>1, <3>2
    <2>3. CASE InlineSucceeds(c)
      <3>1. call[c].d \in Deliveries
        BY <1>0, <2>3 DEF InlineSucceeds, CallShape
      <3>2. handled'[call[c].d] > 0
        BY <1>0, <2>3, <3>1, HandledGrows DEF InlineSucceeds
      <3>3. call'[c].d = call[c].d /\ call'[c].r = call[c].r /\ call'[c].op = call[c].op /\ row' = row /\ call[c].pc = "inline"
        BY <1>0, <2>3 DEF InlineSucceeds, StoreTypeOK, CallRecord
      <3> QED BY <3>2, <3>3 DEF Replays, MatchInv
    <2>4. CASE NextRow(c)
      <3>1. PICK r \in call[c].todo :
               call' = [call EXCEPT ![c] = [pc |-> EnqueuePc, op |-> "redrive", d |-> row[r].d,
                                            r |-> r, todo |-> call[c].todo \ {r}]]
        BY <2>4 DEF NextRow
      <3>2. call'[c].d = row[r].d /\ call'[c].r = r /\ call'[c].pc = EnqueuePc /\ row' = row
        BY <1>0, <2>4, <3>1 DEF NextRow, StoreTypeOK
      <3>3. EnqueuePc # "retire"
        BY DEF EnqueuePc
      <3> QED BY <3>2, <3>3 DEF Replays
    <2>5. CASE Retire(c)
      BY <1>0, <2>5 DEF Retire, Replays, NoCall, StoreTypeOK, CallRecord
    <2> QED BY <2>1, <2>2, <2>3, <2>4, <2>5 DEF CallStep
  <1>5. RecordedFirst'
    <2>1. recorded \subseteq recorded' /\ acked' \subseteq recorded'
      BY <1>0 DEF CallStep, Refused, Record, Duplicate, Respond, Add, AddFails, InlineSucceeds,
         InlineFails, SaveInline, NextRow, RedriveDone, Retire, MatchInv, RecordedFirst, CallShape
    <2>2. call'[c].op = "ingress" /\ call'[c].pc \in {"add", "inline", "save", "respond"} => call'[c].d \in recorded'
      BY <1>0 DEF CallStep, Refused, Record, Duplicate, Respond, Add, AddFails, InlineSucceeds, InlineFails, SaveInline,
         NextRow, RedriveDone, Retire, MatchInv, RecordedFirst, CallShape, StoreTypeOK, CallRecord, NoCall, Accepted
    <2> QED BY <1>1, <2>1, <2>2 DEF RecordedFirst, MatchInv
  <1> QED BY <1>2, <1>3, <1>4, <1>5 DEF MatchInv

LEMMA MatchStep == ASSUME PipeInv, MatchInv, [Next]_vars PROVE MatchInv'
  <1>0. StoreTypeOK
    BY DEF PipeInv, StoreInv
  <1> USE DEF outside
  <1>1. ASSUME NEW c \in Calls, CallStep(c) PROVE MatchInv'
    BY <1>1, MatchCall
  <1>2. ASSUME NEW j \in Jobs, JobStep(j) PROVE MatchInv'
    <2>1. Growing /\ JobEffect(j) /\ (job[j].st # "none" \/ job' = job)
      BY <1>2, AttemptsGrow, AttemptSteps
    <2>2. \A k \in Jobs : job'[k].st # "none" => job[k].st # "none"
      BY <2>1 DEF JobEffect
    <2>3. \A k \in Jobs : job'[k].st # "none" => Matched(k)'
      BY <2>1, <2>2, MatchStays
    <2>4. \A c \in Calls : Replays(c)'
      BY <2>1, MatchStays DEF JobEffect
    <2> QED BY <2>1, <2>3, <2>4 DEF JobEffect, MatchInv, RecordedFirst
  <1>3. ASSUME NEW c \in Calls, NEW d \in Deliveries, Request(c, d) \/ Redrive(c, d.instance) PROVE MatchInv'
    <2>1. /\ call'[c].pc \in {"resolve", "next"} /\ \A b \in Calls : b # c => call'[b] = call[b]
      <3>1. CASE Request(c, d)
        BY <1>0, <3>1 DEF Request, NoCall, StoreTypeOK
      <3>2. CASE Redrive(c, d.instance)
        <4> DEFINE todo == OpenRows(d.instance)
        <4>1. call' = [call EXCEPT ![c] = [pc |-> "next", op |-> "redrive", d |-> None, r |-> None, todo |-> todo]]
          BY <3>2 DEF Redrive
        <4> HIDE DEF todo
        <4> QED BY <1>0, <4>1 DEF StoreTypeOK
      <3> QED BY <1>3, <3>1, <3>2
    <2>2. UNCHANGED <<job, row, handled, hit, recorded, acked>>
      BY <1>3 DEF Request, Redrive
    <2>3. Growing
      BY <2>2 DEF Growing
    <2>4. Replays(c)'
      BY <2>1 DEF Replays
    <2> QED BY <2>1, <2>2, <2>3, <2>4, MatchStays DEF MatchInv, RecordedFirst
  <1>4. CASE Crash
    <2>1. /\ UNCHANGED <<row, handled, recorded, acked>> /\ hit \subseteq hit'
          /\ \A j \in Jobs : job'[j].d = job[j].d /\ (job'[j].st # "none" <=> job[j].st # "none")
          /\ \A c \in Calls : call'[c].pc = "idle"
      BY <1>0, <1>4 DEF Crash, NoCall, Working, StoreTypeOK, JobRecord
    <2>2. Growing
      BY <2>1 DEF Growing
    <2>3. \A j \in Jobs : job'[j].st # "none" => Matched(j)'
      BY <2>1, <2>2, MatchStays
    <2> QED BY <2>1, <2>3 DEF MatchInv, RecordedFirst, Replays
  <1>5. CASE UNCHANGED vars
    <2>1. UNCHANGED <<recorded, acked, call, job, row, handled, hit>>
      BY <1>5 DEF vars
    <2>2. Growing
      BY <2>1 DEF Growing
    <2> QED BY <2>1, <2>2, MatchStays DEF MatchInv, RecordedFirst
  <1> QED BY <1>1, <1>2, <1>3, <1>4, <1>5 DEF Next

\* A job that will be attempted, or is.
Busy(j) == job[j].st \in {"waiting", "active", "erring"} \/ (job[j].st = "rethrow" /\ job[j].made + 1 < MaxAttempts)

\* A row that was just inserted is fresh: no job has its id.
LEMMA InsertedIsFresh ==
  ASSUME PipeInv, MatchInv, NEW d \in Deliveries, NewRow(d), \A j \in Jobs : job'[j].st # "none" => job[j].st # "none"
  PROVE  Held(d)'
  <1>1. PICK r \in Rows : row[r].st = "free" /\ row'[r].st = "open" /\ row'[r].d = d
    BY InsertedRow DEF PipeInv
  <1>2. job[ReplayJob(r)].st = "none"
    <2>1. SUFFICES ASSUME job[ReplayJob(r)].st # "none" PROVE FALSE
      OBVIOUS
    <2>2. ReplayJob(r) \in Jobs /\ job[ReplayJob(r)].d \in Deliveries
      BY <2>1, JobIds DEF PipeInv, StoreInv, JobShape
    <2>3. Matched(ReplayJob(r))
      BY <2>1, <2>2 DEF MatchInv
    <2> QED BY <1>1, <2>2, <2>3, JobIds DEF Matched
  <1>3. job'[ReplayJob(r)].st = "none"
    BY <1>2, JobIds
  <1> QED BY <1>1, <1>3 DEF Held, Fresh

LEMMA HeldFrame ==
  ASSUME NEW d, Held(d),
         handled[d] > 0 => handled'[d] > 0,
         \A j \in Jobs : job[j].d = d /\ Busy(j) => (job'[j].d = d /\ Busy(j)') \/ Held(d)',
         \A r \in Rows : row[r].d = d /\ Fresh(r) => (row'[r].d = d /\ Fresh(r)') \/ Held(d)'
  PROVE  Held(d)'
  <1>1. Pending(d) <=> \E j \in Jobs : job[j].d = d /\ Busy(j)
    BY DEF Pending, Busy
  <1>2. (Pending(d) <=> \E j \in Jobs : job[j].d = d /\ Busy(j))'
    BY DEF Pending, Busy
  <1> QED BY <1>1, <1>2 DEF Held

\* An attempt leaves its delivery held.
LEMMA HeldByAttempt ==
  ASSUME PipeInv, MatchInv, NEW j \in Jobs, JobStep(j), "unsaved" \notin hit', NEW d \in Deliveries, Held(d)
  PROVE  Held(d)'
  <1>0. StoreTypeOK /\ Growing /\ JobEffect(j) /\ (job[j].st # "none" \/ job' = job)
    BY AttemptSteps, AttemptsGrow DEF PipeInv, StoreInv
  <1>1. ASSUME job[j].d = d, Busy(j) PROVE (job'[j].d = d /\ Busy(j)') \/ Held(d)'
    <2>1. job[j].made \in Nat /\ MaxAttempts \in Nat
      BY <1>0, IngressAssumption DEF StoreTypeOK, JobRecord
    <2>2. CASE job'[j].st = "done"
      <3>1. handled'[d] > 0 \/ Busy(j)'
        BY <1>0, <1>1, <2>2, HandledGrows DEF JobEffect, Busy
      <3> QED BY <1>0, <1>1, <3>1 DEF Held, JobEffect
    <2>3. CASE job[j].st = "erring" /\ job'[j].st = "rethrow"
      <3>1. NewRow(d)
        BY <1>0, <1>1, <2>3 DEF JobEffect, RowIsLost
      <3>2. \A k \in Jobs : job'[k].st # "none" => job[k].st # "none"
        BY <1>0, <2>3 DEF JobEffect
      <3> QED BY <3>1, <3>2, InsertedIsFresh
    <2> QED BY <1>0, <1>1, <2>1, <2>2, <2>3 DEF JobEffect, Busy
  <1>2. ASSUME NEW k \in Jobs, k # j, job[k].d = d, Busy(k) PROVE job'[k].d = d /\ Busy(k)'
    BY <1>0, <1>2 DEF JobEffect, Busy
  <1>3. ASSUME NEW r \in Rows, row[r].d = d, Fresh(r) PROVE row'[r].d = d /\ Fresh(r)'
    <2>1. row'[r] = row[r]
      <3>1. job[j].st # "none" => job[j].d \in Deliveries
        BY DEF PipeInv, StoreInv, JobShape
      <3>2. UNCHANGED row \/ NewRow(job[j].d)
        BY <1>0 DEF JobEffect, RowIsLost
      <3>3. row[r].st # "free"
        BY <1>3 DEF Fresh
      <3> QED BY <1>0, <3>1, <3>2, <3>3, InsertedRow DEF JobEffect, PipeInv
    <2>2. job'[ReplayJob(r)].st = "none"
      <3>1. \A k \in Jobs : job[k].st = "none" => job'[k].st = "none"
        BY <1>0 DEF JobEffect
      <3> QED BY <1>3, <3>1, JobIds DEF Fresh
    <2> QED BY <1>3, <2>1, <2>2 DEF Fresh
  <1> QED BY <1>0, <1>1, <1>2, <1>3, HeldFrame DEF Growing

\* So does a request: a row leaves the fresh ones when a job replays it, and is retired after that.
LEMMA HeldByCall ==
  ASSUME PipeInv, MatchInv, NEW c \in Calls, CallStep(c), "unsaved" \notin hit', NEW d \in Deliveries, Held(d)
  PROVE  Held(d)'
  <1>0. StoreTypeOK /\ Growing
    BY CallsGrow DEF PipeInv, StoreInv
  <1> USE DEF outside
  <1>1. UNCHANGED job \/ (call[c].pc = "add" /\ job' = Added(c))
    BY DEF CallStep, Refused, Record, Duplicate, Respond, Add, AddFails, InlineSucceeds,
       InlineFails, SaveInline, NextRow, RedriveDone, Retire
  <1>2. ASSUME NEW j \in Jobs, job[j].d = d, Busy(j) PROVE job'[j].d = d /\ Busy(j)'
    <2>1. job[j].st # "none"
      BY <1>2 DEF Busy
    <2>2. job'[j] = job[j]
      BY <1>1, <2>1, AddedJob
    <2> QED BY <1>2, <2>2 DEF Busy
  <1>3. ASSUME NEW r \in Rows, row[r].d = d, Fresh(r) PROVE (row'[r].d = d /\ Fresh(r)') \/ Held(d)'
    <2>0. ReplayJob(r) \in Jobs /\ row[r].st = "open" /\ job[ReplayJob(r)].st = "none"
      BY <1>3, JobIds DEF Fresh
    <2>1. CASE row'[r] # row[r]
      <3>1. Retire(c) /\ call[c].r = r /\ call[c].pc = "retire"
        <4>1. ~SaveInline(c)
          <5>1. SUFFICES ASSUME SaveInline(c) PROVE FALSE
            OBVIOUS
          <5>2. call[c].d \in Deliveries
            BY <5>1 DEF SaveInline, PipeInv, StoreInv, CallShape
          <5> QED BY <2>0, <2>1, <5>1, <5>2, InsertedRow DEF SaveInline, RowIsLost, PipeInv
        <4> QED BY <1>0, <2>1, <4>1 DEF CallStep, Refused, Record, Duplicate, Respond, Add, AddFails, InlineSucceeds,
               InlineFails, NextRow, RedriveDone, Retire, StoreTypeOK
      <3>2. call[c].op # "ingress"
        BY <3>1 DEF PipeInv, StoreInv, CallShape
      <3>3. handled[d] > 0
        BY <1>3, <2>0, <3>1, <3>2 DEF MatchInv, Replays
      <3> QED BY <1>0, <3>3 DEF Growing, Held
    <2>2. CASE row'[r] = row[r] /\ job'[ReplayJob(r)].st # "none"
      <3>1. call[c].pc = "add" /\ job' = Added(c) /\ JobOf(c) = ReplayJob(r)
        BY <1>1, <2>0, <2>2, AddedJob
      <3>2. job'[ReplayJob(r)].st = "waiting" /\ job'[ReplayJob(r)].d = call[c].d
        BY <2>0, <3>1, AddedJob
      <3>3. call[c].op # "ingress" /\ call[c].r = r
        <4>1. call[c].d \in Deliveries
          BY <3>1, AddedJob
        <4>2. call[c].op # "ingress"
          BY <3>1, <4>1, JobIds DEF JobOf
        <4>3. call[c].r \in Rows
          BY <3>1, <4>2 DEF PipeInv, StoreInv, CallShape
        <4> QED BY <3>1, <4>2, <4>3, JobIds DEF JobOf
      <3>4. call[c].d = d
        BY <1>3, <3>1, <3>3 DEF MatchInv, Replays
      <3> QED BY <2>0, <3>2, <3>4 DEF Held, Pending
    <2>3. CASE row'[r] = row[r] /\ job'[ReplayJob(r)].st = "none"
      BY <1>3, <2>3 DEF Fresh
    <2> QED BY <2>1, <2>2, <2>3
  <1> QED BY <1>0, <1>2, <1>3, HeldFrame DEF Growing

\* Every step leaves held what is held.
LEMMA HeldStays ==
  ASSUME PipeInv, MatchInv, [Next]_vars, "unsaved" \notin hit', NEW d \in Deliveries, Held(d)
  PROVE  Held(d)'
  <1> USE DEF outside
  <1>1. ASSUME UNCHANGED <<job, row, handled>> PROVE Held(d)'
    BY <1>1 DEF Held, Pending, Fresh
  <1>2. CASE Crash
    <2>1. UNCHANGED <<row, handled>> /\ MaxAttempts \in Nat /\ job \in [Jobs -> JobRecord]
      BY <1>2, IngressAssumption DEF Crash, PipeInv, StoreInv, StoreTypeOK
    <2>2. \A j \in Jobs : job'[j].d = job[j].d /\ (job[j].st = "none" => job'[j].st = "none") /\ (Busy(j) => Busy(j)')
      BY <1>2, <2>1 DEF Crash, Working, Busy, JobRecord
    <2>3. \A r \in Rows : Fresh(r) => Fresh(r)'
      BY <2>1, <2>2, JobIds DEF Fresh
    <2> QED BY <2>1, <2>2, <2>3, HeldFrame
  <1> QED BY <1>1, <1>2, HeldByAttempt, HeldByCall DEF Next, Request, Redrive, vars

LEMMA NextGrows == ASSUME PipeInv, [Next]_vars PROVE Growing
  <1>1. ASSUME UNCHANGED <<job, row, handled, hit>> PROVE Growing
    BY <1>1 DEF Growing
  <1>2. CASE Crash
    BY <1>2 DEF Crash, Growing, PipeInv, StoreInv, StoreTypeOK, JobRecord
  <1> QED BY <1>1, <1>2, CallsGrow, AttemptsGrow DEF Next, Request, Redrive, vars, outside

\* Only an add makes a job.
LEMMA NewJobs ==
  ASSUME PipeInv, [Next]_vars, NEW j \in Jobs, job[j].st = "none", job'[j].st # "none"
  PROVE  \E c \in Calls : call[c].pc = "add" /\ job' = Added(c) /\ j = JobOf(c) /\ call[c].d \in Deliveries
                          /\ job'[j].st = "waiting" /\ job'[j].d = call[c].d /\ (Add(c) \/ AddFails(c))
  <1>1. ~ UNCHANGED job
    OBVIOUS
  <1>2. ~ Crash
    BY DEF Crash, Working, PipeInv, StoreInv, StoreTypeOK, JobRecord
  <1>3. ASSUME NEW i \in Jobs, JobStep(i) PROVE FALSE
    <2>1. JobEffect(i) /\ (job[i].st # "none" \/ job' = job)
      BY <1>3, AttemptSteps
    <2> QED BY <2>1 DEF JobEffect
  <1>4. PICK c \in Calls : call[c].pc = "add" /\ job' = Added(c) /\ (Add(c) \/ AddFails(c))
    BY <1>1, <1>2, <1>3 DEF Next, Request, Redrive, vars, CallStep, Refused, Record, Duplicate, Respond, Add, AddFails,
       InlineSucceeds, InlineFails, SaveInline, NextRow, RedriveDone, Retire
  <1> QED BY <1>4, AddedJob

\* A request that ends leaves its delivery held.
LEMMA FlightEnds ==
  ASSUME \A d, e \in Deliveries : d.id = e.id => d = e,
         PipeInv, MatchInv, HeldInv, NEW c \in Calls, CallStep(c), "unsaved" \notin hit',
         NEW d \in Deliveries, call[c].d = d, call[c].op = "ingress", call[c].pc \in {"add", "inline", "save"}
  PROVE  Held(d)' \/ InFlight(d)'
  <1>0. StoreTypeOK /\ Growing /\ "unsaved" \notin hit
    BY CallsGrow DEF PipeInv, StoreInv, Growing
  <1> USE DEF outside
  <1>1. CASE Add(c)
    <2>1. JobOf(c) = LiveJob(d) /\ LiveJob(d) \in Jobs /\ job' = Added(c)
      BY <1>0, <1>1, JobIds DEF JobOf, Add
    <2>2. CASE job[LiveJob(d)].st = "none"
      <3>1. job'[LiveJob(d)].st = "waiting" /\ job'[LiveJob(d)].d = d
        BY <1>1, <2>1, <2>2, AddedJob DEF Add
      <3> QED BY <2>1, <3>1 DEF Held, Pending
    <2>3. CASE job[LiveJob(d)].st # "none"
      <3>1. Matched(LiveJob(d)) /\ Held(job[LiveJob(d)].d) /\ job[LiveJob(d)].d \in Deliveries
        BY <1>0, <2>1, <2>3 DEF MatchInv, HeldInv, PipeInv, StoreInv, JobShape
      <3>2. job[LiveJob(d)].d = d
        BY <1>0, <3>1, JobIds DEF Matched
      <3> QED BY <1>0, <3>1, <3>2, HeldByCall
    <2> QED BY <2>2, <2>3
  <1>2. CASE AddFails(c) \/ InlineFails(c)
    <2>1. call'[c].op = "ingress" /\ call'[c].d = d /\ call'[c].pc \in {"inline", "save"}
      BY <1>0, <1>2 DEF AddFails, InlineFails, StoreTypeOK, CallRecord
    <2> QED BY <2>1 DEF InFlight
  <1>3. CASE InlineSucceeds(c)
    BY <1>0, <1>3, HandledGrows DEF InlineSucceeds, Held
  <1>4. CASE SaveInline(c)
    BY <1>0, <1>4, InsertedIsFresh DEF SaveInline, RowIsLost
  <1> QED BY <1>0, <1>1, <1>2, <1>3, <1>4 DEF CallStep, Refused, Record, Duplicate, Respond, NextRow, RedriveDone, Retire

LEMMA HeldStep ==
  ASSUME \A d, e \in Deliveries : d.id = e.id => d = e, PipeInv, MatchInv, HeldInv, [Next]_vars
  PROVE  HeldInv'
  <1> SUFFICES ASSUME "unsaved" \notin hit' PROVE HeldInv'
    BY DEF HeldInv
  <1>0. Growing /\ StoreTypeOK /\ "unsaved" \notin hit
    BY NextGrows DEF Growing, PipeInv, StoreInv
  <1>1. ASSUME NEW j \in Jobs, NEW d \in Deliveries, job'[j].st # "none", job'[j].d = d PROVE Held(d)'
    <2>1. CASE job[j].st # "none"
      <3>1. job[j].d = d
        BY <1>0, <1>1, <2>1 DEF Growing
      <3>2. Held(d)
        BY <1>0, <2>1, <3>1 DEF HeldInv
      <3> QED BY <3>2, HeldStays
    <2>2. CASE job[j].st = "none"
      <3>1. job'[j].st = "waiting"
        BY <1>1, <2>2, NewJobs
      <3> QED BY <1>1, <3>1 DEF Held, Pending
    <2> QED BY <2>1, <2>2
  <1>2. ASSUME "crash" \notin hit', NEW d \in recorded' PROVE Held(d)' \/ InFlight(d)'
    <2>1. ASSUME NEW c \in Calls, call[c].op = "ingress", call[c].d = d, call[c].pc \in {"add", "inline", "save"},
                 call'[c] = call[c]
          PROVE  InFlight(d)'
      BY <2>1 DEF InFlight
    <2>2. CASE d \in recorded
      <3>1. d \in Deliveries /\ "crash" \notin hit
        BY <1>0, <1>2, <2>2 DEF StoreTypeOK, Growing
      <3>2. CASE Held(d)
        BY <3>1, <3>2, HeldStays
      <3>3. CASE InFlight(d)
        <4>1. PICK c \in Calls : call[c].op = "ingress" /\ call[c].d = d /\ call[c].pc \in {"add", "inline", "save"}
          BY <3>3 DEF InFlight
        <4>2. CASE CallStep(c)
          BY <3>1, <4>1, <4>2, FlightEnds
        <4>3. CASE call'[c] = call[c]
          BY <2>1, <4>1, <4>3
        <4>4. CallStep(c) \/ call'[c] = call[c]
          <5>1. ~ Crash
            BY <1>2 DEF Crash
          <5>2. ASSUME NEW b \in Calls, b # c, CallStep(b) PROVE call'[c] = call[c]
            BY <5>2, CallsGrow
          <5>3. ASSUME NEW j \in Jobs, JobStep(j) PROVE call'[c] = call[c]
            BY <5>3, AttemptSteps DEF JobEffect
          <5>4. ASSUME NEW b \in Calls, NEW e \in Deliveries, Request(b, e) \/ Redrive(b, e.instance)
                PROVE  call'[c] = call[c]
            BY <1>0, <4>1, <5>4 DEF Request, Redrive, StoreTypeOK
          <5>5. UNCHANGED vars => call'[c] = call[c]
            BY DEF vars
          <5> QED BY <5>1, <5>2, <5>3, <5>4, <5>5 DEF Next
        <4> QED BY <4>2, <4>3, <4>4
      <3> QED BY <1>0, <2>2, <3>1, <3>2, <3>3 DEF HeldInv
    <2>3. CASE d \notin recorded
      <3>1. PICK c \in Calls : Record(c) /\ d = call[c].d
        <4>1. ASSUME NEW j \in Jobs, JobStep(j) PROVE UNCHANGED recorded
          BY <4>1, AttemptSteps DEF JobEffect
        <4> QED BY <1>2, <2>3, <4>1 DEF Next, Request, Redrive, Crash, vars, CallStep, Refused, Record, Duplicate,
               Respond, Add, AddFails, InlineSucceeds, InlineFails, SaveInline, NextRow, RedriveDone, Retire
      <3>2. call'[c].op = "ingress" /\ call'[c].d = d /\ call'[c].pc \in {"add", "inline"}
        BY <1>0, <3>1 DEF Record, EnqueuePc, PipeInv, StoreInv, CallShape, StoreTypeOK, CallRecord
      <3> QED BY <3>2 DEF InFlight
    <2> QED BY <2>2, <2>3
  <1>3. PipeInv'
    BY PipeStep
  <1>4. \A j \in Jobs : job'[j].st # "none" => job'[j].d \in Deliveries
    BY <1>3 DEF PipeInv, StoreInv, JobShape
  <1>5. ASSUME NEW j \in Jobs, job'[j].st # "none" PROVE Held(job[j].d)'
    <2>1. PICK d \in Deliveries : job'[j].d = d
      BY <1>4, <1>5
    <2>2. Held(d)'
      BY <1>1, <1>5, <2>1
    <2> QED BY <2>1, <2>2 DEF Held, Pending, Fresh
  <1> QED BY <1>2, <1>5 DEF HeldInv

LEMMA HeldIsAccounted == \A d : Held(d) => Accounted(d)
  BY DEF Held, Accounted, Fresh, Dead

\* No delivery that the service recorded or acknowledged is lost while the process lives and dead letters can be
\* saved, and not even a crash loses one that reached the queue: for any deliveries whose ids differ between
\* the instances, and any interleaving of providers, replays, attempts and faults.
THEOREM DeliveriesSurvive ==
  ASSUME \A d, e \in Deliveries : d.id = e.id => d = e
  PROVE  Spec => []NothingIsLost
  <1>1. Init => HeldInv
    BY DEF Init, HeldInv, NoJob
  <1>2. PipeInv /\ MatchInv /\ [Next]_vars => MatchInv'
    BY MatchStep
  <1>3. PipeInv /\ MatchInv /\ HeldInv /\ [Next]_vars => HeldInv'
    BY HeldStep
  <1>4. MatchInv /\ HeldInv => NothingIsLost
    <2> SUFFICES ASSUME MatchInv, HeldInv PROVE NothingIsLost
      OBVIOUS
    <2>1. QueuedSurvives
      BY HeldIsAccounted DEF HeldInv, QueuedSurvives
    <2>2. NoEventLost
      BY HeldIsAccounted DEF HeldInv, NoEventLost, MatchInv, RecordedFirst, Accounted
    <2> QED BY <2>1, <2>2 DEF NothingIsLost
  <1> QED BY <1>1, <1>2, <1>3, <1>4, MatchInit, PipeInvariant, PTL DEF Spec

-----------------------------------------------------------------------------
(* Nothing is handled twice                                                 *)

\* A delivery whose token nothing made or moved.
LEMMA TokenStays ==
  ASSUME NEW d \in Deliveries, OneToken(d), recorded \subseteq recorded', handled'[d] = handled[d],
         \A c \in Calls : Adding(c, d)' => Adding(c, d),
         \A j \in Jobs : Open(j, d)' => Open(j, d),
         \A r \in Rows : Unplayed(r, d)' => Unplayed(r, d),
         \A j \in Jobs : job[j].st = "done" => job'[j].st = "done" /\ job'[j].d = job[j].d
  PROVE  OneToken(d)'
  <1>1. Single(d)'
    BY DEF OneToken, Single
  <1>2. ASSUME NEW j \in Jobs, Open(j, d), job[j].st = "done" PROVE Open(j, d)' /\ job'[j].st = "done"
    BY <1>2 DEF Open, Exhausted
  <1>3. Counted(d)'
    BY <1>2 DEF OneToken, Counted
  <1> QED BY <1>1, <1>3 DEF OneToken

\* Steps that touch neither jobs nor rows.
LEMMA TokenElsewhere ==
  ASSUME NEW d \in Deliveries, OneToken(d), UNCHANGED <<recorded, job, row, handled>>,
         \A c \in Calls : Adding(c, d)' => Adding(c, d)
  PROVE  OneToken(d)'
  BY TokenStays DEF Open, Exhausted, Unplayed

LEMMA JobFrame ==
  ASSUME NEW d, NEW j \in Jobs, job'[j] = job[j]
  PROVE  Open(j, d)' <=> Open(j, d)
  BY DEF Open, Exhausted

\* An attempt: the token stays at the job, or goes to the dead letter of the job.
LEMMA TokenByAttempt ==
  ASSUME PipeInv, MatchInv, Clean, QueueOnly, NEW j \in Jobs, JobStep(j), Clean', NEW d \in Deliveries, OneToken(d)
  PROVE  OneToken(d)'
  <1>0. /\ StoreTypeOK /\ JobEffect(j) /\ (job[j].st # "none" \/ job' = job)
        /\ job[j].st # "none" => job[j].d \in Deliveries
    BY AttemptSteps DEF PipeInv, StoreInv, JobShape
  <1>1. \A c \in Calls : Adding(c, d)' => Adding(c, d)
    BY <1>0 DEF JobEffect, Adding
  <1>2. \A k \in Jobs : k # j => (Open(k, d)' <=> Open(k, d))
    BY <1>0, JobFrame DEF JobEffect
  <1>3. recorded' = recorded
    BY <1>0 DEF JobEffect
  <1>4. \A r \in Rows : job'[ReplayJob(r)].st = "none" <=> job[ReplayJob(r)].st = "none"
    BY <1>0, JobIds DEF JobEffect
  <1>5. MaxAttempts \in Nat /\ job[j].made \in Nat
    BY <1>0, IngressAssumption DEF StoreTypeOK, JobRecord
  <1>6. job[j].st = "done" => job' = job
    BY <1>0 DEF JobEffect
  <1>7. \A k \in Jobs : job[k].st = "done" => job'[k].st = "done" /\ job'[k].d = job[k].d
    BY <1>0, <1>6 DEF JobEffect
  <1>8. CASE UNCHANGED <<row, handled>> /\ (Open(j, d)' => Open(j, d))
    <2>1. \A r \in Rows : Unplayed(r, d)' => Unplayed(r, d)
      BY <1>4, <1>8 DEF Unplayed
    <2>2. \A k \in Jobs : Open(k, d)' => Open(k, d)
      BY <1>2, <1>8
    <2> QED BY <1>1, <1>3, <1>7, <1>8, <2>1, <2>2, TokenStays
  <1>9. CASE job[j].st = "active" /\ job'[j].st = "done" /\ Succeeds(job[j].d) /\ UNCHANGED <<row, hit>>
    <2>1. \A r \in Rows : Unplayed(r, d)' => Unplayed(r, d)
      BY <1>4, <1>9 DEF Unplayed
    <2>2. Open(j, d)' <=> Open(j, d)
      BY <1>0, <1>9 DEF JobEffect, Open, Exhausted
    <2>3. CASE job[j].d # d
      <3>1. handled'[d] = handled[d]
        BY <1>0, <1>9, <2>3, HandledGrows
      <3> QED BY <1>1, <1>2, <1>3, <1>7, <2>1, <2>2, <3>1, TokenStays
    <2>4. CASE job[j].d = d
      <3>1. Open(j, d) /\ Open(j, d)'
        BY <1>9, <2>2, <2>4 DEF Open, Exhausted
      <3>2. handled[d] = 0
        BY <1>0, <1>9, <3>1 DEF OneToken, Single, Counted, StoreTypeOK
      <3>3. handled'[d] <= 1
        BY <1>0, <1>9, <2>4, <3>2, HandledGrows
      <3>4. Single(d)'
        BY <1>1, <1>2, <2>1, <2>2 DEF OneToken, Single
      <3>5. Counted(d)'
        BY <1>3, <1>9, <3>1, <3>3 DEF OneToken, Counted
      <3> QED BY <3>4, <3>5 DEF OneToken
    <2> QED BY <2>3, <2>4
  <1>10. CASE job[j].st = "active" /\ job'[j].st \in {"erring", "rethrow"}
    <2>1. UNCHANGED <<row, handled>>
      BY <1>0, <1>10, FailingKeeps DEF JobEffect, Clean, outside
    <2>2. Open(j, d)' => Open(j, d)
      BY <1>0, <1>10 DEF JobEffect, Open, Exhausted
    <2> QED BY <1>8, <2>1, <2>2
  <1>11. CASE job[j].st = "erring"  /\ job'[j].st = "rethrow"
    <2>0. ~ Open(j, d)'
      <3>1. job'[j].made = job[j].made /\ job[j].made + 1 >= MaxAttempts
        BY <1>0, <1>11 DEF JobEffect, QueueOnly
      <3> QED BY <1>11, <3>1 DEF Open, Exhausted
    <2>1. CASE UNCHANGED row
      BY <1>0, <1>8, <1>11, <2>0, <2>1 DEF JobEffect
    <2>2. CASE NewRow(job[j].d)
      <3>1. PICK r \in Rows : /\ row[r].st = "free" /\ row'[r].st = "open" /\ row'[r].d = job[j].d
                              /\ \A q \in Rows : q # r => row'[q] = row[q]
        BY <1>0, <1>11, <2>2, InsertedRow DEF PipeInv
      <3>2. \A q \in Rows : q # r => (Unplayed(q, d)' <=> Unplayed(q, d))
        BY <1>4, <3>1 DEF Unplayed
      <3>3. handled' = handled
        BY <1>0, <1>11 DEF JobEffect
      <3>4. CASE job[j].d # d
        <4>1. ~ Unplayed(r, d)'
          BY <3>1, <3>4 DEF Unplayed
        <4>2. \A q \in Rows : Unplayed(q, d)' => Unplayed(q, d)
          BY <3>2, <4>1
        <4>3. \A k \in Jobs : Open(k, d)' => Open(k, d)
          BY <1>2, <2>0
        <4> QED BY <1>1, <1>3, <1>7, <3>3, <4>2, <4>3, TokenStays
      <3>5. CASE job[j].d = d
        <4>1. Open(j, d)
          BY <1>11, <3>5 DEF Open, Exhausted
        <4>2. handled[d] = 0 /\ d \in recorded
          BY <1>0, <1>11, <4>1 DEF OneToken, Single, Counted, StoreTypeOK
        <4>3. /\ \A c \in Calls : ~ Adding(c, d)'
              /\ \A k \in Jobs : ~ Open(k, d)'
              /\ \A q \in Rows : Unplayed(q, d)' => q = r
          BY <1>1, <1>2, <2>0, <3>2, <4>1 DEF OneToken, Single
        <4>4. Single(d)'
          BY <4>3 DEF Single
        <4>5. Counted(d)'
          BY <1>3, <3>3, <4>2 DEF Counted
        <4> QED BY <4>4, <4>5 DEF OneToken
      <3> QED BY <3>4, <3>5
    <2> QED BY <1>0, <1>11, <2>1, <2>2 DEF JobEffect, RowIsLost
  <1>12. CASE job[j].st \in {"waiting", "rethrow"} \/ UNCHANGED <<job, row, handled, hit>>
    <2>1. UNCHANGED <<row, handled>>
      BY <1>0, <1>12 DEF JobEffect
    <2>2. Open(j, d)' => Open(j, d)
      BY <1>0, <1>5, <1>12 DEF JobEffect, Open, Exhausted
    <2> QED BY <1>8, <2>1, <2>2
  <1> QED BY <1>0, <1>9, <1>10, <1>11, <1>12 DEF JobEffect

\* A request that adds its job.
LEMMA TokenByAdd ==
  ASSUME PipeInv, MatchInv, NEW c \in Calls, Add(c), NEW d \in Deliveries, OneToken(d)
  PROVE  OneToken(d)'
  <1>j. PICK j \in Jobs : j = JobOf(c)
    BY AddedJob DEF Add
  <1>0. /\ StoreTypeOK /\ call[c].pc = "add" /\ job' = Added(c) /\ call[c].d \in Deliveries
        /\ UNCHANGED <<recorded, row, handled>>
    BY AddedJob DEF Add, PipeInv, StoreInv, outside
  <1>1. /\ \A k \in Jobs : k # j => job'[k] = job[k]
        /\ \/ job[j].st # "none" /\ job' = job
           \/ /\ job[j].st = "none" /\ job'[j].st = "waiting" /\ job'[j].d = call[c].d
    BY <1>0, <1>j, AddedJob
  <1>2. /\ ~ Adding(c, d)'
        /\ \A b \in Calls : b # c => (Adding(b, d)' <=> Adding(b, d))
    BY <1>0 DEF Add, Adding, Accepted, StoreTypeOK, CallRecord
  <1>3. \A b \in Calls : Adding(b, d)' => Adding(b, d)
    BY <1>2
  <1>4. CASE job' = job
    BY <1>0, <1>3, <1>4, TokenElsewhere
  <1>5. CASE job[j].st = "none" /\ job'[j].st = "waiting" /\ job'[j].d = call[c].d
    <2>1. \A k \in Jobs : k # j => (Open(k, d)' <=> Open(k, d))
      BY <1>1, JobFrame
    <2>2. \A r \in Rows : Unplayed(r, d)' => Unplayed(r, d) /\ ReplayJob(r) # j
      BY <1>0, <1>1, <1>5, JobIds DEF Unplayed
    <2>3. \A k \in Jobs : job[k].st = "done" => job'[k].st = "done" /\ job'[k].d = job[k].d
      BY <1>1, <1>5
    <2>4. CASE call[c].d # d
      <3>1. ~ Open(j, d)'
        BY <1>5, <2>4 DEF Open
      <3>2. \A k \in Jobs : Open(k, d)' => Open(k, d)
        BY <2>1, <3>1
      <3> QED BY <1>0, <1>3, <2>2, <2>3, <3>2, TokenStays
    <2>5. CASE call[c].d = d
      \* The token was with the request, or with the row that it replays.
      <3>1. Adding(c, d) \/ \E r \in Rows : Unplayed(r, d) /\ ReplayJob(r) = j
        <4>1. CASE call[c].op = "ingress"
          BY <1>0, <2>5, <4>1 DEF Adding
        <4>2. CASE call[c].op # "ingress"
          <5>1. call[c].r \in Rows /\ row[call[c].r].st # "free" /\ row[call[c].r].d = d /\ j = ReplayJob(call[c].r)
            BY <1>0, <1>j, <2>5, <4>2 DEF PipeInv, StoreInv, CallShape, MatchInv, Replays, JobOf
          <5> QED BY <1>5, <5>1 DEF Unplayed
        <4> QED BY <4>1, <4>2
      <3>2. /\ \A b \in Calls : ~ Adding(b, d)'
            /\ \A r \in Rows : ~ Unplayed(r, d)'
            /\ \A k \in Jobs : Open(k, d)' => k = j
            /\ handled[d] = 0
        <4>1. CASE Adding(c, d)
          BY <1>2, <2>1, <2>2, <4>1, <1>0 DEF OneToken, Single, Counted, StoreTypeOK
        <4>2. ASSUME NEW q \in Rows, Unplayed(q, d), ReplayJob(q) = j
              PROVE  /\ \A b \in Calls : ~ Adding(b, d)'
                     /\ \A r \in Rows : ~ Unplayed(r, d)'
                     /\ \A k \in Jobs : Open(k, d)' => k = j
                     /\ handled[d] = 0
          BY <1>3, <2>1, <2>2, <4>2, <1>0 DEF OneToken, Single, Counted, StoreTypeOK
        <4> QED BY <3>1, <4>1, <4>2
      <3>3. d \in recorded
        BY <1>0, <3>1 DEF Adding, OneToken, Counted, MatchInv, RecordedFirst
      <3>4. Single(d)'
        BY <3>2 DEF Single
      <3>5. Counted(d)'
        BY <1>0, <3>2, <3>3 DEF Counted
      <3> QED BY <3>4, <3>5 DEF OneToken
    <2> QED BY <2>4, <2>5
  <1> QED BY <1>1, <1>4, <1>5

LEMMA TokenByCall ==
  ASSUME PipeInv, MatchInv, Clean, QueueOnly, NEW c \in Calls, CallStep(c), Clean', NEW d \in Deliveries, OneToken(d)
  PROVE  OneToken(d)'
  <1>0. StoreTypeOK /\ CallShape
    BY DEF PipeInv, StoreInv
  <1> USE DEF outside
  <1>1. CASE Record(c)
    <2>1. /\ UNCHANGED <<job, row, handled>> /\ recorded \subseteq recorded' /\ call[c].d \in recorded'
          /\ call[c].d \notin recorded
          /\ call'[c].d = call[c].d /\ \A b \in Calls : b # c => call'[b] = call[b]
      BY <1>0, <1>1 DEF Record, StoreTypeOK, CallRecord
    <2>2. (\A j \in Jobs : Open(j, d)' <=> Open(j, d)) /\ (\A r \in Rows : Unplayed(r, d)' <=> Unplayed(r, d))
      BY <2>1 DEF Open, Exhausted, Unplayed
    <2>3. \A b \in Calls : b # c => (Adding(b, d)' <=> Adding(b, d))
      BY <2>1 DEF Adding
    <2>4. CASE call[c].d # d
      <3>1. \A b \in Calls : Adding(b, d)' => Adding(b, d)
        BY <2>1, <2>3, <2>4 DEF Adding
      <3> QED BY <2>1, <2>2, <2>4, <3>1, TokenStays
    <2>5. CASE call[c].d = d
      <3>1. /\ \A j \in Jobs : ~ Open(j, d)
            /\ \A r \in Rows : ~ Unplayed(r, d)
            /\ handled[d] = 0
            /\ \A b \in Calls : ~ Adding(b, d)
        BY <2>1, <2>5 DEF OneToken, Counted, MatchInv, RecordedFirst, Adding
      <3>2. Single(d)'
        BY <2>2, <2>3, <3>1 DEF Single
      <3>3. Counted(d)'
        BY <2>1, <2>5, <3>1 DEF Counted
      <3> QED BY <3>2, <3>3 DEF OneToken
    <2> QED BY <2>4, <2>5
  <1>2. CASE Add(c)
    BY <1>2, TokenByAdd
  <1>3. CASE Refused(c) \/ Duplicate(c) \/ Respond(c) \/ NextRow(c) \/ RedriveDone(c)
    <2>1. UNCHANGED <<recorded, job, row, handled>> /\ \A b \in Calls : b # c => call'[b] = call[b]
      BY <1>0, <1>3 DEF Refused, Duplicate, Respond, NextRow, RedriveDone, StoreTypeOK
    <2>2. ~ Adding(c, d)'
      BY <1>0, <1>3 DEF Refused, Duplicate, Respond, NextRow, RedriveDone, Adding, NoCall, StoreTypeOK
    <2>3. \A b \in Calls : Adding(b, d)' => Adding(b, d)
      BY <2>1, <2>2 DEF Adding
    <2> QED BY <2>1, <2>3, TokenElsewhere
  <1>4. CASE Retire(c)
    <2>1. /\ UNCHANGED <<recorded, job, handled>> /\ call'[c].pc # "add" /\ \A b \in Calls : b # c => call'[b] = call[b]
          /\ \A r \in Rows : row'[r].d = row[r].d /\ (row'[r].st # "free" => row[r].st # "free")
      <3>1. call[c].r \in Rows /\ row[call[c].r].st # "free"
        BY <1>0, <1>4 DEF Retire, CallShape
      <3> QED BY <1>0, <1>4, <3>1 DEF Retire, NoCall, StoreTypeOK, CallRecord, RowRecord
    <2>2. \A b \in Calls : Adding(b, d)' => Adding(b, d)
      BY <2>1 DEF Adding
    <2>3. \A j \in Jobs : Open(j, d)' => Open(j, d)
      BY <2>1 DEF Open, Exhausted
    <2>4. \A r \in Rows : Unplayed(r, d)' => Unplayed(r, d)
      BY <2>1 DEF Unplayed
    <2> QED BY <2>1, <2>2, <2>3, <2>4, TokenStays
  <1> QED BY <1>1, <1>2, <1>3, <1>4 DEF CallStep, AddFails, InlineSucceeds, InlineFails, SaveInline, Clean, QueueOnly

LEMMA QueueOnlyStep ==
  ASSUME PipeInv, Clean, QueueOnly, [Next]_vars, Clean'
  PROVE  QueueOnly'
  <1>0. StoreTypeOK /\ CallShape /\ Growing
    BY NextGrows DEF PipeInv, StoreInv
  <1>1. ASSUME NEW c \in Calls, NEW b \in Calls, CallStep(b) \/ call'[c] = call[c]
        PROVE  /\ call'[c].pc \notin {"inline", "save"}
               /\ call'[c].pc = "retire" => call'[c].r \in Rows /\ job'[ReplayJob(call'[c].r)].st # "none"
    <2>1. CASE call'[c] = call[c]
      <3>1. call[c].pc \notin {"inline", "save"}
        BY DEF QueueOnly
      <3>2. call[c].pc = "retire" => call[c].r \in Rows /\ job[ReplayJob(call[c].r)].st # "none"
        BY <1>0 DEF QueueOnly, CallShape
      <3> QED BY <1>0, <2>1, <3>1, <3>2, JobIds DEF Growing
    <2>2. CASE c = b /\ Add(c)
      <3>1. call'[c].pc = Accepted(c) /\ call'[c].r = call[c].r /\ call[c].pc = "add" /\ job' = Added(c)
        BY <1>0, <2>2 DEF Add, StoreTypeOK, CallRecord
      <3>2. job'[JobOf(c)].st # "none"
        BY <3>1, AddedJob
      <3>3. call[c].op # "ingress" => call[c].r \in Rows /\ JobOf(c) = ReplayJob(call[c].r)
        BY <1>0, <3>1 DEF CallShape, JobOf
      <3> QED BY <3>1, <3>2, <3>3 DEF Accepted
    <2>3. CASE c = b /\ NextRow(c)
      <3>1. EnqueuePc = "add"
        BY DEF EnqueuePc, Clean
      <3>2. call'[c].pc = EnqueuePc
        BY <1>0, <2>3 DEF NextRow, StoreTypeOK
      <3> QED BY <3>1, <3>2
    <2>4. CASE c = b /\ (Refused(c) \/ Record(c) \/ Duplicate(c) \/ Respond(c) \/ RedriveDone(c) \/ Retire(c))
      <3>1. EnqueuePc = "add"
        BY DEF EnqueuePc, Clean
      <3> QED BY <1>0, <2>4, <3>1 DEF Refused, Record, Duplicate, Respond, RedriveDone, Retire, NoCall, StoreTypeOK,
             CallRecord
    <2>6. ~ (AddFails(b) \/ InlineSucceeds(b) \/ InlineFails(b) \/ SaveInline(b))
      BY DEF AddFails, InlineSucceeds, InlineFails, SaveInline, QueueOnly, Clean
    <2>5. CASE c # b /\ CallStep(b)
      BY <2>1, <2>5, CallsGrow
    <2> QED BY <1>1, <2>1, <2>2, <2>3, <2>4, <2>5, <2>6 DEF CallStep
  <1>2. ASSUME NEW c \in Calls
        PROVE  /\ call'[c].pc \notin {"inline", "save"}
               /\ call'[c].pc = "retire" => job'[ReplayJob(call'[c].r)].st # "none"
    <2>1. CASE \E b \in Calls : CallStep(b)
      BY <1>1, <2>1
    <2>2. CASE call'[c] = call[c]
      BY <1>1, <2>2
    <2>3. ASSUME NEW b \in Calls, NEW e \in Deliveries, Request(b, e) \/ Redrive(b, e.instance), call'[c] # call[c]
          PROVE  call'[c].pc \in {"resolve", "next"}
      <3>1. CASE Request(b, e)
        BY <1>0, <2>3, <3>1 DEF Request, NoCall, StoreTypeOK
      <3>2. CASE Redrive(b, e.instance)
        <4> DEFINE todo == OpenRows(e.instance)
        <4>1. call' = [call EXCEPT ![b] = [pc |-> "next", op |-> "redrive", d |-> None, r |-> None, todo |-> todo]]
          BY <3>2 DEF Redrive
        <4> HIDE DEF todo
        <4> QED BY <1>0, <2>3, <4>1 DEF StoreTypeOK
      <3> QED BY <2>3, <3>1, <3>2
    <2>4. ASSUME NEW j \in Jobs, JobStep(j) PROVE call' = call
      BY <2>4, AttemptSteps DEF JobEffect
    <2>5. ~ Crash
      BY DEF Crash, Clean
    <2>6. UNCHANGED vars => call' = call
      BY DEF vars
    <2> QED BY <2>1, <2>2, <2>3, <2>4, <2>5, <2>6 DEF Next
  <1>3. ASSUME NEW j \in Jobs, job'[j].st = "erring" PROVE job'[j].made + 1 >= MaxAttempts
    <2>1. CASE job'[j] = job[j]
      BY <1>3, <2>1 DEF QueueOnly
    <2>2. ASSUME NEW i \in Jobs, JobStep(i) PROVE job'[j].made + 1 >= MaxAttempts
      <3>1. JobEffect(i)
        BY <2>2, AttemptSteps
      <3> QED BY <1>3, <2>1, <3>1 DEF JobEffect
    <2>3. ASSUME job[j].st = "none" PROVE FALSE
      BY <1>3, <2>3, NewJobs
    <2>4. ASSUME NEW c \in Calls, CallStep(c), job[j].st # "none" PROVE job'[j] = job[j]
      <3>1. UNCHANGED job \/ (call[c].pc = "add" /\ job' = Added(c))
        BY <2>4 DEF CallStep, Refused, Record, Duplicate, Respond, Add, AddFails, InlineSucceeds,
           InlineFails, SaveInline, NextRow, RedriveDone, Retire
      <3> QED BY <2>4, <3>1, AddedJob
    <2>5. ~ Crash
      BY DEF Crash, Clean
    <2> QED BY <2>1, <2>2, <2>3, <2>4, <2>5 DEF Next, Request, Redrive, vars
  <1> QED BY <1>2, <1>3 DEF QueueOnly

LEMMA TokenStep == ASSUME PipeInv, MatchInv, TokenInv, [Next]_vars PROVE TokenInv'
  <1> SUFFICES ASSUME Clean' PROVE TokenInv'
    BY DEF TokenInv
  <1>0. StoreTypeOK /\ Clean /\ QueueOnly /\ \A d \in Deliveries : OneToken(d)
    BY NextGrows DEF Growing, Clean, TokenInv, PipeInv, StoreInv
  <1>1. QueueOnly'
    BY <1>0, QueueOnlyStep
  <1>2. ASSUME NEW d \in Deliveries PROVE OneToken(d)'
    <2>1. ASSUME NEW c \in Calls, NEW e \in Deliveries, Request(c, e) \/ Redrive(c, e.instance) PROVE OneToken(d)'
      <3>1. call'[c].pc \in {"resolve", "next"} /\ \A b \in Calls : b # c => call'[b] = call[b]
        <4>1. CASE Request(c, e)
          BY <1>0, <4>1 DEF Request, NoCall, StoreTypeOK
        <4>2. CASE Redrive(c, e.instance)
          <5> DEFINE todo == OpenRows(e.instance)
          <5>1. call' = [call EXCEPT ![c] = [pc |-> "next", op |-> "redrive", d |-> None, r |-> None, todo |-> todo]]
            BY <4>2 DEF Redrive
          <5> HIDE DEF todo
          <5> QED BY <1>0, <5>1 DEF StoreTypeOK
        <4> QED BY <2>1, <4>1, <4>2
      <3>2. \A b \in Calls : Adding(b, d)' => Adding(b, d)
        BY <3>1 DEF Adding
      <3> QED BY <1>0, <2>1, <3>2, TokenElsewhere DEF Request, Redrive, outside
    <2>2. ~ Crash
      BY DEF Crash, Clean
    <2>3. UNCHANGED vars => OneToken(d)'
      BY <1>0, TokenElsewhere DEF vars, Adding
    <2> QED BY <1>0, <2>1, <2>2, <2>3, TokenByCall, TokenByAttempt DEF Next
  <1> QED BY <1>1, <1>2 DEF TokenInv

LEMMA TokenInit == Init => TokenInv
  <1> SUFFICES ASSUME Init PROVE QueueOnly /\ \A d \in Deliveries : OneToken(d)
    BY DEF TokenInv
  <1>1. QueueOnly
    BY DEF Init, QueueOnly, NoCall, NoJob
  <1>2. ASSUME NEW d \in Deliveries PROVE OneToken(d)
    BY DEF Init, OneToken, Single, Counted, Adding, Open, Unplayed, NoCall, NoJob, NoRow
  <1> QED BY <1>1, <1>2

\* With the queue, while Redis answers, the process lives and no handler outlives its timeout, no delivery is
\* handled twice: for any deliveries and requests, however often providers repeat theirs and operators replay them.
THEOREM NothingIsHandledTwice == Spec => []HandledOnce
  <1>1. Init => TokenInv
    BY TokenInit
  <1>2. PipeInv /\ MatchInv /\ [Next]_vars => MatchInv'
    BY MatchStep
  <1>3. PipeInv /\ MatchInv /\ TokenInv /\ [Next]_vars => TokenInv'
    BY TokenStep
  <1>4. TokenInv => HandledOnce
    BY DEF TokenInv, Clean, HandledOnce, OneToken, Counted
  <1> QED BY <1>1, <1>2, <1>3, <1>4, MatchInit, PipeInvariant, PTL DEF Spec

-----------------------------------------------------------------------------
(* One dead letter per exhausted job                                        *)

\* Steps that neither write a row nor exhaust a job.
LEMMA LettersStay ==
  ASSUME LetterInv, hit' = {} => hit = {},
         \A r \in Rows : row'[r].d = row[r].d /\ (row'[r].st = "free" => row[r].st = "free"),
         QueueEnabled /\ hit' = {} => \A d \in Deliveries : Exhausted(d)' = Exhausted(d)
  PROVE  LetterInv'
  <1>1. ASSUME QueueEnabled, hit' = {}, NEW d \in Deliveries
        PROVE  IsFiniteSet(Exhausted(d)') /\ Cardinality(RowsOf(d)') = Cardinality(Exhausted(d)')
    <2>1. RowsOf(d)' = RowsOf(d)
      BY DEF RowsOf
    <2>2. Exhausted(d)' = Exhausted(d) /\ hit = {}
      BY <1>1
    <2> QED BY <1>1, <2>1, <2>2 DEF LetterInv
  <1>2. \A r \in Rows : row'[r].st = "free" => row'[r].d = None
    BY DEF LetterInv
  <1> QED BY <1>1, <1>2 DEF LetterInv

LEMMA LettersByAttempt ==
  ASSUME PipeInv, TokenInv, LetterInv, NEW j \in Jobs, JobStep(j)
  PROVE  LetterInv'
  <1>0. /\ StoreTypeOK /\ JobEffect(j) /\ (job[j].st # "none" \/ job' = job) /\ Growing
        /\ job[j].st # "none" => job[j].d \in Deliveries
    BY AttemptSteps, AttemptsGrow DEF PipeInv, StoreInv, JobShape
  <1>1. hit' = {} => hit = {}
    BY <1>0 DEF Growing
  <1>2. MaxAttempts \in Nat /\ job[j].made \in Nat
    BY <1>0, IngressAssumption DEF StoreTypeOK, JobRecord
  <1>3. CASE UNCHANGED row /\ ~(job[j].st = "erring" /\ job'[j].st = "rethrow")
    <2>1. \A d \in Deliveries, k \in Jobs : k \in Exhausted(d)' <=> k \in Exhausted(d)
      BY <1>0, <1>2, <1>3 DEF JobEffect, Exhausted
    <2>2. \A d \in Deliveries : Exhausted(d)' = Exhausted(d)
      BY <2>1 DEF Exhausted
    <2> QED BY <1>1, <1>3, <2>2, LettersStay
  <1>4. CASE job[j].st = "erring" /\ job'[j].st = "rethrow"
    <2>1. CASE RowIsLost
      <3>1. hit' # {} /\ UNCHANGED row
        BY <2>1 DEF RowIsLost
      <3> QED BY <1>1, <3>1, LettersStay
    <2>2. CASE NewRow(job[j].d)
      <3>1. PICK r \in Rows : /\ row[r].st = "free" /\ row'[r].st = "open" /\ row'[r].d = job[j].d
                              /\ \A q \in Rows : q # r => row'[q] = row[q]
        BY <1>0, <1>4, <2>2, InsertedRow DEF PipeInv
      <3>2. \A q \in Rows : row'[q].st = "free" => row'[q].d = None
        BY <3>1 DEF LetterInv
      <3>3. ASSUME QueueEnabled, hit' = {}, NEW d \in Deliveries
            PROVE  IsFiniteSet(Exhausted(d)') /\ Cardinality(RowsOf(d)') = Cardinality(Exhausted(d)')
        <4>1. IsFiniteSet(Exhausted(d)) /\ Cardinality(RowsOf(d)) = Cardinality(Exhausted(d))
          BY <1>1, <3>3 DEF LetterInv
        <4>2. job'[j].made + 1 >= MaxAttempts /\ job'[j].d = job[j].d
          <5>1. QueueOnly
            BY <1>1, <3>3 DEF TokenInv, Clean
          <5>2. job'[j].made = job[j].made
            BY <1>0, <1>4 DEF JobEffect
          <5> QED BY <1>0, <1>4, <5>1, <5>2 DEF QueueOnly, JobEffect
        <4>3. \A k \in Jobs : k # j => (k \in Exhausted(d)' <=> k \in Exhausted(d))
          BY <1>0 DEF JobEffect, Exhausted
        <4>4. j \notin Exhausted(d)
          BY <1>4 DEF Exhausted
        <4>5. CASE job[j].d = d
          <5>1. Exhausted(d)' = Exhausted(d) \cup {j}
            BY <1>4, <4>2, <4>3, <4>5 DEF Exhausted
          <5>2. RowsOf(d)' = RowsOf(d) \cup {r}
            BY <3>1, <4>5 DEF RowsOf
          <5>3. r \notin RowsOf(d)
            BY <3>1, IngressAssumption DEF LetterInv, RowsOf
          <5>4. IsFiniteSet(RowsOf(d))
            BY IngressAssumption, FS_Subset DEF RowsOf
          <5>5. IsFiniteSet(Exhausted(d)') /\ Cardinality(Exhausted(d)') = Cardinality(Exhausted(d)) + 1
            BY <4>1, <4>4, <5>1, FS_AddElement
          <5>6. Cardinality(RowsOf(d)') = Cardinality(RowsOf(d)) + 1
            BY <5>2, <5>3, <5>4, FS_AddElement
          <5> QED BY <4>1, <5>5, <5>6
        <4>6. CASE job[j].d # d
          <5>1. Exhausted(d)' = Exhausted(d)
            BY <4>2, <4>3, <4>4, <4>6 DEF Exhausted
          <5>2. RowsOf(d)' = RowsOf(d)
            <6>1. r \notin RowsOf(d)
              BY <3>1, IngressAssumption DEF LetterInv, RowsOf
            <6> QED BY <3>1, <4>6, <6>1 DEF RowsOf
          <5> QED BY <4>1, <5>1, <5>2
        <4> QED BY <4>5, <4>6
      <3> QED BY <3>2, <3>3 DEF LetterInv
    <2> QED BY <1>0, <1>4, <2>1, <2>2 DEF JobEffect
  <1>5. UNCHANGED row \/ (job[j].st = "erring" /\ job'[j].st = "rethrow")
    BY <1>0 DEF JobEffect
  <1> QED BY <1>3, <1>4, <1>5

LEMMA LettersStep == ASSUME PipeInv, TokenInv, LetterInv, [Next]_vars PROVE LetterInv'
  <1>0. StoreTypeOK /\ CallShape /\ Growing
    BY NextGrows DEF PipeInv, StoreInv
  <1>1. hit' = {} => hit = {}
    BY <1>0 DEF Growing
  <1> USE DEF outside
  <1>2. ASSUME NEW c \in Calls, CallStep(c) PROVE LetterInv'
    <2>1. \A d \in Deliveries, k \in Jobs : k \in Exhausted(d)' <=> k \in Exhausted(d)
      <3>1. UNCHANGED job \/ (call[c].pc = "add" /\ job' = Added(c))
        BY <1>2 DEF CallStep, Refused, Record, Duplicate, Respond, Add, AddFails, InlineSucceeds,
           InlineFails, SaveInline, NextRow, RedriveDone, Retire
      <3>2. \A k \in Jobs : job'[k] = job[k] \/ (job[k].st = "none" /\ job'[k].st = "waiting")
        BY <3>1, AddedJob
      <3> QED BY <3>2 DEF Exhausted
    <2>2. \A d \in Deliveries : Exhausted(d)' = Exhausted(d)
      BY <2>1 DEF Exhausted
    <2>3. CASE UNCHANGED row
      BY <1>1, <2>2, <2>3, LettersStay
    <2>4. CASE Retire(c)
      <3>1. \A r \in Rows : row'[r].d = row[r].d /\ (row'[r].st = "free" => row[r].st = "free")
        BY <1>0, <2>4 DEF Retire, StoreTypeOK, RowRecord
      <3> QED BY <1>1, <2>2, <3>1, LettersStay
    \* Only a failed inline dispatch writes a row here, and with the queue there is none.
    <2>5. CASE SaveInline(c) /\ NewRow(call[c].d)
      <3>1. ~(QueueEnabled /\ hit' = {})
        BY <1>1, <2>5 DEF SaveInline, TokenInv, Clean, QueueOnly
      <3>2. \A r \in Rows : row'[r].st = "free" => row'[r].d = None
        <4>1. call[c].d \in Deliveries
          BY <1>0, <2>5 DEF SaveInline, CallShape
        <4> QED BY <2>5, <4>1, InsertedRow DEF LetterInv, PipeInv
      <3> QED BY <3>1, <3>2 DEF LetterInv
    <2> QED BY <1>2, <2>3, <2>4, <2>5 DEF CallStep, Refused, Record, Duplicate, Respond, Add, AddFails, InlineSucceeds,
         InlineFails, SaveInline, RowIsLost, NextRow, RedriveDone
  <1>3. CASE Crash
    BY <1>1, <1>3, LettersStay DEF Crash
  <1>4. CASE UNCHANGED <<job, row, hit>>
    <2>1. \A d \in Deliveries : Exhausted(d)' = Exhausted(d)
      BY <1>4 DEF Exhausted
    <2> QED BY <1>4, <2>1, LettersStay
  <1> QED BY <1>2, <1>3, <1>4, LettersByAttempt DEF Next, Request, Redrive, vars

\* With the queue and without faults the dead letters of a delivery are as many as its exhausted jobs: the write of
\* the final attempt happens exactly once, and only after the attempts are exhausted, for any number of attempts.
THEOREM FinalAttemptWritesOnce == Spec => []DeadLetterOnce
  <1>1. Init => TokenInv /\ LetterInv
    <2> SUFFICES ASSUME Init PROVE TokenInv /\ LetterInv
      OBVIOUS
    <2>1. TokenInv
      BY TokenInit
    <2>2. \A d \in Deliveries : RowsOf(d) = {} /\ Exhausted(d) = {}
      BY IngressAssumption DEF Init, RowsOf, Exhausted, NoRow, NoJob
    <2>3. \A r \in Rows : row[r].d = None
      BY DEF Init, NoRow
    <2> QED BY <2>1, <2>2, <2>3, FS_EmptySet DEF LetterInv
  <1>2. PipeInv /\ MatchInv /\ [Next]_vars => MatchInv'
    BY MatchStep
  <1>3. PipeInv /\ MatchInv /\ TokenInv /\ [Next]_vars => TokenInv'
    BY TokenStep
  <1>4. PipeInv /\ TokenInv /\ LetterInv /\ [Next]_vars => LetterInv'
    BY LettersStep
  <1>5. LetterInv => DeadLetterOnce
    BY DEF LetterInv, DeadLetterOnce, RowsOf
  <1> QED BY <1>1, <1>2, <1>3, <1>4, <1>5, MatchInit, PipeInvariant, PTL DEF Spec

=============================================================================
