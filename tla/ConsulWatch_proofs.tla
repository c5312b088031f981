------------------------- MODULE ConsulWatch_proofs -------------------------
(***************************************************************************)
(* Proofs about ConsulWatch, for any instances, any channel capacity and   *)
(* any bounds.                                                             *)
(***************************************************************************)
EXTENDS ConsulWatch, TLAPS

\* What was read in the server's present life is not from its future.
NotFromFuture ==
    /\ base <= epoch
    /\ base = epoch => lastIndex <= index

\* An answer of the server's present life is of its catalog now or, with a
\* smaller index, of an earlier one.
AnswerIsOfServer ==
    pc \in {"handle", "emit"} =>
        /\ resp.epoch <= epoch
        /\ resp.epoch = epoch => /\ resp.index <= index
                                 /\ resp.index = index => resp.health = health

\* While emitEntries runs, lastIndex is of the answer it sends, and what has no
\* event still to be sent has been announced.
EmitsAnswer ==
    pc = "emit" =>
        /\ lastIndex = resp.index /\ base = resp.epoch
        /\ \A i \in Present(resp.health) \ pending :
              told[i] = EventType(resp.health[i])

IInv == TypeOK /\ NotFromFuture /\ AnswerIsOfServer /\ EmitsAnswer /\ AnnouncedIsCatalog

-----------------------------------------------------------------------------
(* The types.                                                              *)

\* The bounds and the capacity are positive numbers.
LEMMA BoundsType ==
  /\ ChanCap \in Nat /\ ChanCap # 0
  /\ MaxIndex \in Nat /\ MaxIndex # 0
  /\ MaxRestarts \in Nat
  /\ MaxAttempt \in Nat /\ MaxAttempt # 0
BY ConstantsAssumption

Resp == [index : 0..MaxIndex, health : [Instances -> Health], epoch : 0..MaxRestarts]

\* Before the first answer there is an empty one.
LEMMA NoRespType == NoResp \in Resp
BY BoundsType DEF NoResp, Resp, Health

\* What a catalog holds are instances.
LEMMA PresentType == \A h : Present(h) \in SUBSET Instances
BY DEF Present

\* The invariant holds in every initial state.
LEMMA TypeInit == Init => TypeOK
<1> SUFFICES ASSUME Init PROVE TypeOK
  OBVIOUS
<1>1. /\ index \in 1..MaxIndex /\ epoch \in 0..MaxRestarts
      /\ lastIndex \in 0..MaxIndex /\ attempt \in 0..MaxAttempt
      /\ base \in 0..MaxRestarts
  BY BoundsType DEF Init
<1>2. ch \in Seq(Entry) /\ Len(ch) <= ChanCap
  BY BoundsType DEF Init
<1>3. resp \in Resp
  BY NoRespType DEF Init
<1>4. told \in [Instances -> {"nothing", "registered", "deregistered"}]
  BY DEF Init
<1> QED
  BY <1>1, <1>2, <1>3, <1>4 DEF Init, TypeOK, Resp

\* The server's steps and the end of the context.
LEMMA ServerType ==
  ASSUME TypeOK,
         \/ \E i \in Instances, h \in Health : Change(i, h)
         \/ ServerDown \/ ServerUp \/ ServerRestart \/ Cancel
  PROVE  TypeOK'
<1> USE DEF TypeOK
<1>1. ASSUME NEW i \in Instances, NEW h \in Health, Change(i, h)
      PROVE  TypeOK'
  <2>1. index' \in 1..MaxIndex
    BY <1>1, BoundsType DEF Change
  <2>2. health' \in [Instances -> Health]
    BY <1>1 DEF Change
  <2> QED
    BY <1>1, <2>1, <2>2 DEF Change
<1>2. CASE ServerRestart
  <2>1. index' \in 1..MaxIndex /\ epoch' \in 0..MaxRestarts
    BY <1>2, BoundsType DEF ServerRestart
  <2> QED
    BY <1>2, <2>1 DEF ServerRestart
<1>3. CASE ServerDown \/ ServerUp \/ Cancel
  BY <1>3 DEF ServerDown, ServerUp, Cancel, server
<1> QED
  BY <1>1, <1>2, <1>3

\* The steps of the loop up to an answer.
LEMMA PollType ==
  ASSUME TypeOK, Top \/ Answered \/ AnsweredStale \/ Stuck \/ Failed \/ Backoff
  PROVE  TypeOK'
<1> USE DEF TypeOK, server
<1>1. CASE Answered
  <2>1. resp' \in Resp
    BY <1>1, BoundsType DEF Answered, Resp
  <2> QED
    BY <1>1, <2>1 DEF Answered, Resp
<1>2. CASE AnsweredStale
  <2>1. resp' \in Resp
    BY <1>2, BoundsType DEF AnsweredStale, Resp
  <2> QED
    BY <1>2, <2>1 DEF AnsweredStale, Resp
<1>3. CASE Backoff
  <2>1. attempt' \in 0..MaxAttempt
    BY <1>3, BoundsType DEF Backoff
  <2> QED
    BY <1>3, <2>1 DEF Backoff
<1>4. CASE Top \/ Stuck \/ Failed
  BY <1>4 DEF Top, Stuck, Failed
<1> QED
  BY <1>1, <1>2, <1>3, <1>4

\* The steps from an answer to the next iteration, and the consumer.
LEMMA AnswerType ==
  ASSUME TypeOK,
         \/ Handle \/ (\E i \in Instances : Emit(i)) \/ EmitInterrupted \/ EmitDone
         \/ Receive
  PROVE  TypeOK'
<1> USE DEF TypeOK, server
<1>1. CASE Handle
  <2>1. lastIndex' \in 0..MaxIndex /\ attempt' \in 0..MaxAttempt
    BY <1>1, BoundsType DEF Handle, NextIndex
  <2>2. resp' \in Resp
    BY <1>1, NoRespType DEF Handle, Resp
  <2>3. pending' \in SUBSET Instances /\ base' \in 0..MaxRestarts
    BY <1>1, PresentType DEF Handle
  <2> QED
    BY <1>1, <2>1, <2>2, <2>3 DEF Handle, Resp
<1>2. ASSUME NEW i \in Instances, Emit(i)
      PROVE  TypeOK'
  <2> DEFINE type == EventType(resp.health[i])
  <2>1. type \in {"registered", "deregistered"}
    BY DEF EventType
  <2>2. ch' = Append(ch, [type |-> type, inst |-> i])
    BY <1>2 DEF Emit
  <2>3. [type |-> type, inst |-> i] \in Entry
    BY <2>1 DEF Entry
  <2> HIDE DEF type
  <2>4. ch' \in Seq(Entry) /\ Len(ch') = Len(ch) + 1
    BY <2>2, <2>3
  <2>5. Len(ch') <= ChanCap
    BY <1>2, <2>4, BoundsType DEF Emit, Sendable
  <2>6. told' \in [Instances -> {"nothing", "registered", "deregistered"}]
    BY <1>2, <2>1 DEF Emit, type
  <2> QED
    BY <1>2, <2>4, <2>5, <2>6 DEF Emit
<1>3. CASE EmitInterrupted \/ EmitDone
  <2>1. resp' \in Resp
    BY <1>3, NoRespType DEF EmitInterrupted, EmitDone
  <2> QED
    BY <1>3, <2>1 DEF EmitInterrupted, EmitDone, Resp
<1>4. CASE Receive
  <2>1. ch' \in Seq(Entry) /\ Len(ch') = Len(ch) - 1
    BY <1>4 DEF Receive
  <2>2. Len(ch') <= ChanCap
    BY <2>1, BoundsType
  <2> QED
    BY <1>4, <2>1, <2>2 DEF Receive
<1> QED
  BY <1>1, <1>2, <1>3, <1>4

\* Every step keeps the types.
LEMMA TypeNext == TypeOK /\ Next => TypeOK'
BY ServerType, PollType, AnswerType DEF Next, LoopStep
-----------------------------------------------------------------------------
(* The rest of the invariant.                                              *)

Rest == NotFromFuture /\ AnswerIsOfServer /\ EmitsAnswer /\ AnnouncedIsCatalog

\* A change of the catalog moves the index past everything the loop has read,
\* and a restart begins a life of which it has read nothing.
LEMMA ServerKeepsRest ==
  ASSUME IInv,
         \/ \E i \in Instances, h \in Health : Change(i, h)
         \/ ServerDown \/ ServerUp \/ ServerRestart \/ Cancel
  PROVE  Rest'
<1> USE DEF IInv
<1>1. ASSUME NEW i \in Instances, NEW h \in Health, Change(i, h)
      PROVE  Rest'
  <2>1. /\ index \in Nat /\ index' = index + 1 /\ lastIndex \in Nat
        /\ resp.index \in Nat
        /\ UNCHANGED <<epoch, pc, lastIndex, resp, pending, base, told>>
    BY <1>1, BoundsType DEF Change, TypeOK
  <2>2. NotFromFuture' /\ AnswerIsOfServer' /\ EmitsAnswer'
    BY <2>1 DEF NotFromFuture, AnswerIsOfServer, EmitsAnswer, Present
  <2>3. ~Level'
    BY <2>1 DEF NotFromFuture, Level
  <2> QED
    BY <2>2, <2>3 DEF Rest, AnnouncedIsCatalog
<1>2. CASE ServerRestart
  <2>1. /\ epoch' = epoch + 1 /\ epoch \in Nat /\ base \in Nat
        /\ resp.epoch \in Nat
        /\ UNCHANGED <<pc, lastIndex, resp, pending, base, told>>
    BY <1>2, BoundsType DEF ServerRestart, TypeOK
  <2>2. NotFromFuture' /\ AnswerIsOfServer' /\ EmitsAnswer'
    BY <2>1 DEF NotFromFuture, AnswerIsOfServer, EmitsAnswer, Present
  <2>3. ~Level'
    BY <2>1 DEF NotFromFuture, Level
  <2> QED
    BY <2>2, <2>3 DEF Rest, AnnouncedIsCatalog
<1>3. CASE ServerDown \/ ServerUp \/ Cancel
  <2>1. UNCHANGED <<health, index, epoch, pc, lastIndex, resp, pending, base, told>>
    BY <1>3 DEF ServerDown, ServerUp, Cancel, server
  <2> QED
    BY <2>1
    DEF Rest, NotFromFuture, AnswerIsOfServer, EmitsAnswer, AnnouncedIsCatalog,
        Level, Present
<1> QED
  BY <1>1, <1>2, <1>3

\* A step that is not the handling of an answer and not the server disturbs
\* none of the other conjuncts.
LEMMA PollKeepsRest ==
  ASSUME IInv,
         \/ Top \/ Answered \/ AnsweredStale \/ Stuck \/ Failed \/ Backoff \/ Receive
  PROVE  Rest'
<1> USE DEF IInv, server
<1>1. CASE Answered \/ AnsweredStale
  <2>1. /\ pc = "poll" /\ pc' = "handle"
        /\ UNCHANGED <<health, index, epoch, lastIndex, base, told>>
    BY <1>1 DEF Answered, AnsweredStale
  <2>2. AnswerIsOfServer'
    <3>1. epoch \in Nat /\ index \in Nat
      BY BoundsType DEF TypeOK
    <3>2. CASE Answered
      BY <2>1, <3>1, <3>2 DEF AnswerIsOfServer, Answered
    <3>3. CASE AnsweredStale
      <4>1. resp'.epoch = epoch /\ resp'.index \in 1..(index - 1)
        BY <3>3 DEF AnsweredStale
      <4> QED
        BY <2>1, <3>1, <4>1 DEF AnswerIsOfServer
    <3> QED
      BY <1>1, <3>2, <3>3
  <2>3. NotFromFuture' /\ EmitsAnswer' /\ AnnouncedIsCatalog'
    BY <2>1 DEF NotFromFuture, EmitsAnswer, AnnouncedIsCatalog, Level, Present
  <2> QED
    BY <2>2, <2>3 DEF Rest
<1>2. CASE Top \/ Stuck \/ Failed \/ Backoff
  <2>1. /\ pc \in {"top", "poll", "stuck", "backoff"}
        /\ pc' \in {"poll", "stuck", "exited", "backoff", "top"}
        /\ UNCHANGED <<health, index, epoch, lastIndex, base, told>>
    BY <1>2 DEF Top, Stuck, Failed, Backoff
  <2> QED
    BY <2>1
    DEF Rest, NotFromFuture, AnswerIsOfServer, EmitsAnswer, AnnouncedIsCatalog,
        Level, Present
<1>3. CASE Receive
  <2>1. UNCHANGED <<health, index, epoch, pc, lastIndex, resp, pending, base, told>>
    BY <1>3 DEF Receive
  <2> QED
    BY <2>1
    DEF Rest, NotFromFuture, AnswerIsOfServer, EmitsAnswer, AnnouncedIsCatalog,
        Level, Present
<1> QED
  BY <1>1, <1>2, <1>3

\* The answer brings events, is a timeout, or rewinds lastIndex to 0, which no
\* catalog is level with.
LEMMA HandleKeepsRest ==
  ASSUME IInv, Handle
  PROVE  Rest'
<1> USE DEF IInv
<1>0. /\ pc = "handle"
      /\ UNCHANGED <<health, index, epoch, told>>
      /\ index \in Nat /\ index # 0 /\ lastIndex \in Nat /\ resp.index \in Nat
      /\ base \in Nat /\ epoch \in Nat /\ resp.epoch \in Nat
  BY BoundsType DEF Handle, server, TypeOK
<1>1. CASE resp.index > lastIndex
  <2>1. /\ lastIndex' = resp.index /\ base' = resp.epoch /\ resp' = resp
        /\ pc' = "emit" /\ pending' = Present(resp.health)
    BY <1>0, <1>1 DEF Handle, NextIndex
  <2> QED
    BY <1>0, <2>1
    DEF Rest, NotFromFuture, AnswerIsOfServer, EmitsAnswer, AnnouncedIsCatalog,
        Level, Present
<1>2. CASE resp.index = lastIndex
  <2>1. lastIndex' = lastIndex /\ base' = base /\ pc' = "top"
    BY <1>0, <1>2 DEF Handle, NextIndex
  <2> QED
    BY <1>0, <2>1
    DEF Rest, NotFromFuture, AnswerIsOfServer, EmitsAnswer, AnnouncedIsCatalog,
        Level, Present
<1>3. CASE resp.index < lastIndex
  <2>1. lastIndex' = 0 /\ base' = base /\ pc' = "top"
    BY <1>0, <1>3 DEF Handle, NextIndex
  <2> QED
    BY <1>0, <2>1
    DEF Rest, NotFromFuture, AnswerIsOfServer, EmitsAnswer, AnnouncedIsCatalog, Level
<1> QED
  BY <1>0, <1>1, <1>2, <1>3

\* When the last event is sent what has been announced is the answer, and the
\* answer is the catalog if the loop is level with it.
LEMMA EmitKeepsRest ==
  ASSUME IInv, (\E i \in Instances : Emit(i)) \/ EmitInterrupted \/ EmitDone
  PROVE  Rest'
<1> USE DEF IInv, server
<1>1. ASSUME NEW i \in Instances, Emit(i)
      PROVE  Rest'
  <2>1. /\ pc = "emit" /\ pc' = "emit" /\ pending' = pending \ {i}
        /\ told' = [told EXCEPT ![i] = EventType(resp.health[i])]
        /\ UNCHANGED <<health, index, epoch, lastIndex, resp, base>>
    BY <1>1 DEF Emit
  <2>2. EmitsAnswer'
    BY <2>1 DEF EmitsAnswer, TypeOK, Present, EventType
  <2> QED
    BY <2>1, <2>2
    DEF Rest, NotFromFuture, AnswerIsOfServer, AnnouncedIsCatalog, Level
<1>2. CASE EmitInterrupted
  <2>1. /\ pc' = "exited"
        /\ UNCHANGED <<health, index, epoch, lastIndex, base, told>>
    BY <1>2 DEF EmitInterrupted
  <2> QED
    BY <2>1
    DEF Rest, NotFromFuture, AnswerIsOfServer, EmitsAnswer, AnnouncedIsCatalog, Level
<1>3. CASE EmitDone
  <2>1. /\ pc = "emit" /\ pc' = "top" /\ pending = {}
        /\ UNCHANGED <<health, index, epoch, lastIndex, base, told>>
    BY <1>3 DEF EmitDone
  <2>2. AnnouncedIsCatalog'
    <3> SUFFICES ASSUME Level', NEW i \in Present(health)
                 PROVE  told[i] = IF health[i] = "passing"
                                  THEN "registered" ELSE "deregistered"
      BY <2>1 DEF AnnouncedIsCatalog, Present
    <3>1. resp.epoch = epoch /\ resp.index = index
      BY <2>1 DEF Level, EmitsAnswer
    <3>2. resp.health = health
      BY <2>1, <3>1 DEF AnswerIsOfServer
    <3>3. told[i] = EventType(health[i])
      BY <2>1, <3>2 DEF EmitsAnswer
    <3>4. health[i] \in {"passing", "critical"}
      BY DEF Present, TypeOK, Health
    <3> QED
      BY <3>3, <3>4 DEF EventType
  <2> QED
    BY <2>1, <2>2 DEF Rest, NotFromFuture, AnswerIsOfServer, EmitsAnswer
<1> QED
  BY <1>1, <1>2, <1>3

\* The invariant holds in every initial state.
LEMMA IInvInit == Init => IInv
<1> SUFFICES ASSUME Init PROVE IInv
  OBVIOUS
<1>1. base = epoch /\ lastIndex = 0 /\ index = 1 /\ pc = "top" /\ epoch = 0
  BY DEF Init
<1> QED
  BY <1>1, TypeInit
  DEF IInv, NotFromFuture, AnswerIsOfServer, EmitsAnswer, AnnouncedIsCatalog, Level

\* The invariant is inductive.
LEMMA IInvNext == IInv /\ [Next]_vars => IInv'
<1> SUFFICES ASSUME IInv, [Next]_vars PROVE IInv'
  OBVIOUS
<1>1. CASE Next
  <2>1. TypeOK'
    BY <1>1, TypeNext DEF IInv
  <2>2. Rest'
    BY <1>1, ServerKeepsRest, PollKeepsRest, HandleKeepsRest, EmitKeepsRest
    DEF Next, LoopStep
  <2> QED
    BY <2>1, <2>2 DEF IInv, Rest
<1>2. CASE UNCHANGED vars
  BY <1>2
  DEF vars, IInv, TypeOK, NotFromFuture, AnswerIsOfServer, EmitsAnswer,
      AnnouncedIsCatalog, Level, Present
<1> QED
  BY <1>1, <1>2

-----------------------------------------------------------------------------
\* The invariant of the watch loop.
THEOREM IInvAlways == Spec => []IInv
BY IInvInit, IInvNext, PTL DEF Spec

\* The loop, the answer in its hands and the channel stay in the states of the
\* model; emitEntries never has more events in the channel than it has room for.
THEOREM TypeCorrect == Spec => []TypeOK
<1>1. IInv => TypeOK
  BY DEF IInv
<1> QED
  BY <1>1, IInvAlways, PTL

\* Whatever polls fail, hang, or are answered by a follower, and however often
\* the server restarts: when watchLoop is level with the catalog, its last event
\* about each instance in it says what the catalog says.
THEOREM CatalogIsAnnounced == Spec => []AnnouncedIsCatalog
<1>1. IInv => AnnouncedIsCatalog
  BY DEF IInv
<1> QED
  BY <1>1, IInvAlways, PTL
=============================================================================
