-------------------------- MODULE GeneratorProofs ---------------------------
(***************************************************************************)
(* Theorems about Generator, for all programs, rates and buffer lengths.   *)
(* The first ones rest on one inductive invariant, IInv; each of its parts *)
(* has a lemma that says it is preserved, with a step for each action that *)
(* touches what the part is about, and one for all the others.             *)
(*                                                                         *)
(* The last ones are that the generator implements the stream: its calls,  *)
(* whatever events, blocks and buffers they go through, cut the signal     *)
(* that the program denotes into consecutive chunks.  The refinement keeps *)
(* prog, pos and out as they are; a return is a delivery and every other   *)
(* step a stutter.  It rests on IInv and on StreamInv, which says how far  *)
(* the voices, the mix buffer and the caller's buffer have got in the      *)
(* signal.                                                                 *)
(***************************************************************************)
EXTENDS Generator, Numbers

-----------------------------------------------------------------------------
(* Programs. *)

(* Everything the proofs need to know of the program at hand. *)
LEMMA ProgramFacts ==
    ASSUME prog \in Programs
    PROVE  /\ prog \in Program /\ ValidProgram(prog)
           /\ prog.vo_count \in Nat
           /\ prog.events \in Seq(Event)
           /\ EvLen \in Nat
           /\ \A k \in 1..EvLen : /\ prog.events[k] \in Event
                                  /\ prog.events[k].vo_id \in VoiceIds
                                  /\ AtMs(prog, k - 1) <= prog.events[k].at_ms
                                  /\ AtMs(prog, k - 1) \in Nat
<1>1. prog \in Program /\ ValidProgram(prog)
  BY ProgramsAssumption
<1>2. prog.vo_count \in Nat /\ prog.events \in Seq(Event) /\ EvLen \in Nat
  BY <1>1 DEF Program, EvLen
<1>3. ASSUME NEW k \in 1..EvLen PROVE prog.events[k] \in Event
  BY <1>2 DEF EvLen
<1>4. ASSUME NEW k \in 1..EvLen
      PROVE  /\ prog.events[k].vo_id \in VoiceIds
             /\ AtMs(prog, k - 1) <= prog.events[k].at_ms
  BY <1>1, <1>2, <1>3 DEF ValidProgram, ValidEvent, EvCount, EvLen, VoiceIds, Event
<1>5. ASSUME NEW k \in 1..EvLen PROVE AtMs(prog, k - 1) \in Nat
  <2>1. CASE k = 1
    BY <2>1 DEF AtMs
  <2>2. CASE k # 1
    BY <1>2, <2>2, <1>3, k - 1 \in 1..EvLen DEF AtMs, Event
  <2> QED
    BY <2>1, <2>2
<1> QED
  BY <1>1, <1>2, <1>3, <1>4, <1>5

(* Positions and times in samples are naturals. *)
LEMMA SamplesType ==
    ASSUME NEW ms \in Nat
    PROVE  MsInSamples(ms) \in Nat
  BY RateAssumption, Products, DivMod DEF MsInSamples

-----------------------------------------------------------------------------
(* Type correctness. *)

(* IInv, of a program that Programs has. *)
Inv == prog \in Programs /\ IInv

(* A frequency buffer id is one of the few there are. *)
LEMMA FreqBufType ==
    ASSUME NEW op \in Ops
    PROVE  FreqBufOf(op) \in 0..3
  BY OpAssumption DEF FreqBufOf, OpTypes

(* The initial states satisfy the invariant. *)
LEMMA InitInv == Init => Inv
<1> SUFFICES ASSUME Init PROVE Inv
  OBVIOUS
<1> USE DEF Init
<1>1. /\ prog \in Programs
      /\ prog \in Program /\ prog.vo_count \in Nat /\ EvLen \in Nat
  BY ProgramFacts
<1>2. (CHOOSE op \in Ops : TRUE) \in Ops
  BY OpAssumption
<1>3. TypeOK
  <2>1. buf \in BufType /\ mix \in [0..(BufLen - 1) -> Sample]
    BY DEF BufType, Sample, Garbage, Silence
  <2>2. /\ carry \in 0..(MsPerSec - 1)
        /\ gen \in GenType /\ call \in CallType /\ run \in RunType /\ out \in OutType
    BY <1>1, RateAssumption, LengthAssumption
       DEF NoCall, NoRun, NoDelivery, GenType, CallType, RunType, OutType
  <2>3. voices \in [VoiceIds -> VoiceType] /\ operators \in [Ops -> OperatorType]
    BY <1>2 DEF VoiceType, OperatorType
  <2>4. timeline \in Seq(Nat) /\ Len(timeline) = 0 /\ pc = "convert" /\ pos \in Nat
    OBVIOUS
  <2> QED
    BY <1>1, <2>1, <2>2, <2>3, <2>4 DEF TypeOK
<1>4. CallAccounting /\ BlockProgress /\ NothingAfterShortBlock
  BY DEF CallAccounting, BlockProgress, NothingAfterShortBlock
<1>5. SkippedVoicesSilent /\ DurationMatchesCarrier
  BY DEF SkippedVoicesSilent, DurationMatchesCarrier, VoiceIds
<1>6. Ownership
  BY <1>1 DEF Ownership, OnVoiceBefore, VoiceIds
<1>7. MixPastMaxClear /\ ClearFlagHonest
  BY DEF MixPastMaxClear, ClearFlagHonest
<1>8. TimelineExact
  <2>1. 0 * Srate = 0 /\ 0 % MsPerSec = 0
    BY RateAssumption
  <2> QED
    BY <2>1 DEF TimelineExact, AtMs
<1>9. EventClock
  BY DEF EventClock, RunEnd, AtOrZero
<1> QED
  BY <1>1, <1>3, <1>4, <1>5, <1>6, <1>7, <1>8, <1>9 DEF Inv, IInv

(* What the invariant says of the types, in pieces to cite: sizes, *)
LEMMA SizeFacts ==
    ASSUME Inv
    PROVE  /\ prog \in Programs /\ TypeOK
           /\ EvLen \in Nat /\ prog.vo_count \in Nat
           /\ BufLen \in Nat /\ BufLen > 0 /\ ChLen \in Nat /\ ChLen > 0
           /\ MsPerSec \in Nat /\ MsPerSec > 0
<1>1. prog \in Programs /\ TypeOK
  BY DEF Inv, IInv
<1> QED
  BY <1>1, ProgramFacts, LengthAssumption, RateAssumption

(* the waits and positions in time, *)
LEMMA TimeFacts ==
    ASSUME Inv
    PROVE  /\ timeline \in Seq(Nat) /\ Len(timeline) \in Nat /\ Len(timeline) <= EvLen
           /\ pc # "convert" => Len(timeline) = EvLen
           /\ carry \in Nat /\ carry < MsPerSec /\ pos \in Nat
  BY SizeFacts DEF TypeOK

(* the fields of the generator, *)
LEMMA GenFacts ==
    ASSUME Inv
    PROVE  /\ gen \in GenType
           /\ gen.event \in Nat /\ 1 <= gen.event /\ gen.event <= EvLen + 1
           /\ gen.event_pos \in Nat
           /\ gen.voice \in Nat /\ gen.voice <= prog.vo_count
           /\ gen.mix_add_max \in Nat /\ gen.mix_add_max <= BufLen
<1>1. gen \in GenType
  BY SizeFacts DEF TypeOK
<1> QED
  BY <1>1, SizeFacts DEF GenType

(* the locals of sauGenerator_run(), *)
LEMMA CallFacts ==
    ASSUME Inv
    PROVE  /\ call \in CallType
           /\ call.sp \in Nat /\ call.len \in Nat
           /\ call.skip_len \in Nat /\ call.gen_len \in Nat
           /\ call.sp <= ChLen /\ call.len <= ChLen
           /\ call.skip_len <= ChLen /\ call.gen_len <= ChLen
<1>1. call \in CallType
  BY SizeFacts DEF TypeOK
<1> QED
  BY <1>1, SizeFacts DEF CallType

(* those of run_for_time(), *)
LEMMA RunFacts ==
    ASSUME Inv
    PROVE  /\ run \in RunType
           /\ run.time \in Nat /\ run.len \in Nat /\ run.i \in Nat
           /\ run.last_len \in Nat /\ run.gen_len \in Nat
           /\ run.time <= ChLen /\ run.len <= BufLen /\ run.i <= prog.vo_count
           /\ run.last_len <= BufLen /\ run.gen_len <= ChLen
<1>1. run \in RunType
  BY SizeFacts DEF TypeOK
<1> QED
  BY <1>1, SizeFacts DEF RunType

(* What a call runs before the next event fits in it, and ends at the event. *)
LEMMA RunLenType ==
    ASSUME Inv, pc = "events", ~EventDue
    PROVE  /\ RunLen \in Nat /\ RunLen <= call.len
           /\ gen.event <= EvLen => /\ timeline[gen.event] \in Nat
                                    /\ gen.event_pos + RunLen <= timeline[gen.event]
<1>1. CASE gen.event > EvLen
  BY <1>1, GenFacts, CallFacts, SizeFacts DEF RunLen
<1>2. CASE gen.event <= EvLen
  <2>1. timeline[gen.event] \in Nat
    BY <1>2, GenFacts, TimeFacts
  <2>2. timeline[gen.event] > gen.event_pos
    BY <1>2, <2>1, GenFacts DEF EventDue
  <2>3. RunLen = Lesser(call.len, timeline[gen.event] - gen.event_pos)
    BY <1>2, GenFacts, SizeFacts DEF RunLen
  <2> HIDE DEF RunLen
  <2> QED
    BY <2>1, <2>2, <2>3, GenFacts, CallFacts DEF Lesser
<1> QED
  BY <1>1, <1>2, GenFacts, SizeFacts

(* and the voice and operator nodes. *)
LEMMA NodeFacts ==
    ASSUME Inv
    PROVE  /\ voices \in [VoiceIds -> VoiceType]
           /\ operators \in [Ops -> OperatorType]
           /\ \A v \in VoiceIds : /\ voices[v].duration \in Nat
                                  /\ voices[v].init \in BOOLEAN
                                  /\ voices[v].freq_buf_id \in 0..3
                                  /\ voices[v].carr_op_id \in Ops
           /\ \A op \in Ops : operators[op].time \in Nat
  BY DEF Inv, IInv, TypeOK, VoiceType, OperatorType

(* The program never changes, nor do the sets that depend on it only. *)
LEMMA ProgConstant ==
    ASSUME [Next]_vars
    PROVE  /\ prog' = prog /\ EvLen' = EvLen /\ VoiceIds' = VoiceIds
           /\ GenType' = GenType /\ RunType' = RunType
<1>1. prog' = prog
  BY DEF Next, Create, ConvertEvent, Created, Call, Run, RunBlock, HandleEvent,
         BeginRun, BeginBlock, SkipVoice, RunVoice, EndBlock, EndRun, Finish,
         AdvanceVoice, ReturnMore, ReturnEnd, Return, CallAgain, vars, progVars
<1>2. EvLen' = EvLen /\ VoiceIds' = VoiceIds
  BY <1>1 DEF EvLen, VoiceIds
<1> QED
  BY <1>1, <1>2 DEF GenType, RunType

(* Where a mixed-in voice output may be, and what it is. *)
LEMMA RunVoiceFacts ==
    ASSUME Inv, RunVoice
    PROVE  LET vn == voices[run.i]
               op == vn.carr_op_id
               time == Lesser(vn.duration, run.len)
               n == Lesser(time, operators[op].time)
           IN  /\ run.i \in VoiceIds
               /\ op \in Ops
               /\ vn.duration = operators[op].time
               /\ n = time
               /\ n \in 0..BufLen /\ n <= run.len
               /\ n < run.len => n = vn.duration
               /\ operators[op].time - n \in Nat
               /\ vn.duration - time \in Nat
<1> DEFINE vn == voices[run.i]
           op == vn.carr_op_id
<1>1. run.i \in VoiceIds /\ vn.duration # 0
  BY RunFacts, SizeFacts DEF RunVoice, VoiceIds
<1>2. vn.duration \in Nat /\ op \in Ops /\ operators[op].time \in Nat
      /\ run.len \in 0..BufLen /\ BufLen \in Nat
  BY <1>1, RunFacts, SizeFacts, NodeFacts
<1>3. vn.duration = operators[op].time
  BY <1>1, <1>2 DEF Inv, IInv, DurationMatchesCarrier
<1> QED
  BY <1>1, <1>2, <1>3 DEF Lesser

(* TypeOK is preserved, action by action. *)
LEMMA TypeStep ==
    ASSUME Inv, [Next]_vars
    PROVE  prog' \in Programs /\ TypeOK'
<1>1. prog' = prog /\ EvLen' = EvLen /\ VoiceIds' = VoiceIds
      /\ GenType' = GenType /\ RunType' = RunType
  BY ProgConstant
<1>2. prog \in Programs /\ TypeOK
  BY DEF Inv, IInv
<1>3. CASE ConvertEvent
  <2> DEFINE k == Len(timeline) + 1
             time == WaitMs(prog, k) * Srate + carry
  <2>1. k \in 1..EvLen
    BY <1>3, TimeFacts, SizeFacts DEF ConvertEvent
  <2>2. prog.events[k].at_ms \in Nat /\ AtMs(prog, k - 1) \in Nat
        /\ AtMs(prog, k - 1) <= prog.events[k].at_ms
    BY <1>2, <2>1, ProgramFacts DEF Event
  <2>3. WaitMs(prog, k) \in Nat
    BY <2>2 DEF WaitMs
  <2>4. time \in Nat
    BY <2>3, Products, RateAssumption, TimeFacts
  <2>5. time \div MsPerSec \in Nat /\ time % MsPerSec \in 0..(MsPerSec - 1)
    BY <2>4, RateAssumption, DivMod
  <2>6. timeline' \in Seq(Nat) /\ Len(timeline') <= EvLen
        /\ carry' \in 0..(MsPerSec - 1) /\ pc' = "convert"
    BY <1>3, <2>1, <2>5, TimeFacts, SizeFacts DEF ConvertEvent, CarryAfter
  <2> QED
    BY <1>1, <1>2, <1>3, <2>6 DEF TypeOK, ConvertEvent, nodeVars, bufVars, histVars
<1>4. CASE Created
  BY <1>1, <1>2, <1>4 DEF TypeOK, Created, progVars, nodeVars, bufVars, histVars
<1>5. CASE Call
  <2>1. buf' \in BufType
    BY <1>5, <1>2 DEF Call, TypeOK, BufType, Silence, Sample
  <2>2. gen' \in GenType
    BY <1>5, <1>1, GenFacts DEF Call, GenType
  <2>3. call' \in CallType
    BY <1>5, LengthAssumption DEF Call, NoCall, CallType
  <2> QED
    BY <1>1, <1>2, <1>5, <2>1, <2>2, <2>3 DEF TypeOK, Call, progVars, histVars
<1>6. CASE HandleEvent
  <2> DEFINE e == prog.events[gen.event]
  <2>1. /\ gen.event \in 1..EvLen
        /\ e \in Event /\ e.vo_id \in VoiceIds /\ e.carr_op_id \in Ops
    BY <1>6, GenFacts, SizeFacts, ProgramFacts DEF HandleEvent, EventDue, Event
  <2>2. OperatorAfter(e) \in OperatorType
    BY <2>1, SamplesType, NodeFacts DEF OperatorAfter, Event, OperatorType
  <2>3. operators' \in [Ops -> OperatorType]
    BY <1>6, <2>1, <2>2, NodeFacts DEF HandleEvent
  <2>4. (IF operators[e.carr_op_id].init THEN voices[e.vo_id].freq_buf_id
         ELSE FreqBufOf(e.carr_op_id)) \in 0..3
    BY <2>1, FreqBufType, NodeFacts
  <2>5. OperatorAfter(e).time \in Nat
    BY <2>2 DEF OperatorType
  <2>6. voices' \in [VoiceIds -> VoiceType]
    BY <1>1, <1>6, <2>1, <2>4, <2>5, NodeFacts DEF HandleEvent, VoiceTime, VoiceCarrier, VoiceType
  <2>7. StartVoice(e.vo_id) \in 0..prog.vo_count
    BY <2>1, GenFacts, SizeFacts DEF StartVoice, Lesser, VoiceIds
  <2>8. gen' \in GenType
    <3>1. gen.event + 1 \in 1..(EvLen + 1)
      BY <2>1, SizeFacts
    <3> QED
      BY <1>1, <1>6, <2>7, <3>1, GenFacts DEF HandleEvent, GenType
  <2> QED
    BY <1>1, <1>2, <1>6, <2>3, <2>6, <2>8 DEF TypeOK, HandleEvent, progVars, bufVars, histVars
<1>7. CASE BeginRun
  <2>1. RunLen \in 0..ChLen /\ call.len - RunLen \in 0..ChLen
    BY <1>7, RunLenType, CallFacts, SizeFacts DEF BeginRun
  <2>2. gen' \in GenType
    BY <1>1, <1>7, <2>1, GenFacts DEF BeginRun, EventPos, GenType
  <2>3. call' \in CallType
    BY <1>7, <2>1, CallFacts DEF BeginRun, CallType
  <2>4. run' \in RunType
    BY <1>1, <1>7, <2>1, SizeFacts DEF BeginRun, NoRun, RunType
  <2> QED
    BY <1>1, <1>2, <1>7, <2>2, <2>3, <2>4 DEF TypeOK, BeginRun, progVars, bufVars, histVars
<1>8. CASE BeginBlock
  <2>1. Lesser(run.time, BufLen) \in 0..BufLen
        /\ run.time - Lesser(run.time, BufLen) \in 0..ChLen
    BY RunFacts, SizeFacts DEF Lesser
  <2>2. run' \in RunType
    <3>1. gen.voice \in 0..prog.vo_count /\ 0 \in 0..BufLen
      BY GenFacts, SizeFacts
    <3> QED
      BY <1>1, <1>8, <2>1, <3>1, RunFacts DEF BeginBlock, RunType
  <2>3. mix' \in [0..(BufLen - 1) -> Sample]
    BY <1>8, <1>2 DEF BeginBlock, TypeOK, Silence, Sample
  <2>4. gen' \in GenType
    BY <1>1, <1>8, GenFacts, SizeFacts DEF BeginBlock, GenType
  <2> QED
    BY <1>1, <1>2, <1>8, <2>2, <2>3, <2>4 DEF TypeOK, BeginBlock, progVars, histVars
<1>9. CASE SkipVoice
  <2>1. run' \in RunType
    BY <1>1, <1>9, RunFacts, SizeFacts DEF SkipVoice, RunType
  <2> QED
    BY <1>1, <1>2, <1>9, <2>1 DEF TypeOK, SkipVoice, progVars, nodeVars, bufVars, histVars
<1>10. CASE RunVoice
  <2> DEFINE op == voices[run.i].carr_op_id
             time == Lesser(voices[run.i].duration, run.len)
             n == Lesser(time, operators[op].time)
  <2>1. /\ run.i \in VoiceIds /\ op \in Ops /\ n \in 0..BufLen
        /\ operators[op].time - n \in Nat
        /\ voices[run.i].duration - time \in Nat
        /\ operators[op].time \in Nat /\ n <= operators[op].time
    BY <1>10, RunVoiceFacts, NodeFacts, LengthAssumption
  <2>2. mix' \in [0..(BufLen - 1) -> Sample]
    <3>1. ASSUME NEW x \in 0..(BufLen - 1), x < n
          PROVE  mix[x] \union {<<op, operators[op].time - x>>} \in Sample
      <4> DEFINE left == operators[op].time
      <4>1. left \in Nat /\ n \in Nat /\ n <= left /\ op \in Ops
        BY <2>1, LengthAssumption
      <4>2. mix[x] \in Sample
        BY <1>2, <3>1 DEF TypeOK
      <4> HIDE DEF left, n, op
      <4>3. left - x \in Nat
        BY <3>1, <4>1
      <4> QED
        BY <4>1, <4>2, <4>3 DEF Sample, left
    <3> QED
      BY <1>10, <1>2, <3>1 DEF RunVoice, TypeOK
  <2>3. gen' \in GenType
    <3>1. Longest(gen.mix_add_max, n) \in 0..BufLen
      BY <2>1, GenFacts, SizeFacts DEF Longest
    <3> QED
      BY <1>1, <1>10, <3>1, GenFacts DEF RunVoice, GenType
  <2>4. run' \in RunType
    <3> DEFINE longest == Longest(run.last_len, n)
    <3>1. longest \in 0..BufLen /\ run.i + 1 \in 0..prog.vo_count
      BY <2>1, RunFacts, SizeFacts DEF Longest, VoiceIds
    <3>2. run' = [run EXCEPT !.i = run.i + 1, !.last_len = longest]
      BY <1>10 DEF RunVoice
    <3> HIDE DEF longest
    <3> QED
      BY <1>1, <3>1, <3>2, RunFacts DEF RunType
  <2>5. operators' \in [Ops -> OperatorType]
    BY <1>10, <2>1, NodeFacts DEF RunVoice, OperatorType
  <2>6. voices' \in [VoiceIds -> VoiceType]
    BY <1>1, <1>10, <2>1, NodeFacts DEF RunVoice, VoiceType
  <2> QED
    BY <1>1, <1>2, <1>10, <2>2, <2>3, <2>4, <2>5, <2>6 DEF TypeOK, RunVoice, progVars, histVars
<1>11. CASE EndBlock
  <2>1. buf' \in BufType
    <3> DEFINE from == call.sp + run.gen_len
    <3>1. ASSUME NEW x \in 0..(ChLen - 1), from <= x, x < from + run.last_len
          PROVE  buf[x] \union mix[x - from] \in Sample
      <4>1. x - from \in 0..(BufLen - 1)
        BY <3>1, CallFacts, RunFacts, SizeFacts
      <4>2. mix[x - from] \in Sample /\ buf[x] \in Sample
        BY <1>2, <3>1, <4>1 DEF TypeOK, BufType
      <4> QED
        BY <4>2 DEF Sample
    <3>2. MixWrite \in BufType
      BY <1>2, <3>1 DEF MixWrite, TypeOK, BufType
    <3> QED
      BY <1>2, <1>11, <3>2 DEF EndBlock, TypeOK
  <2>2. run' \in RunType
    <3>1. run.gen_len + run.last_len \in 0..ChLen
      <4>1. run.last_len <= run.len /\ run.gen_len + run.len + run.time <= call.len
        BY <1>11 DEF EndBlock, Inv, IInv, CallAccounting, BlockProgress
      <4> QED
        BY <4>1, CallFacts, RunFacts, SizeFacts
    <3> QED
      BY <1>1, <1>11, <3>1, RunFacts DEF EndBlock, RunType
  <2>3. gen' \in GenType
    BY <1>1, <1>11, GenFacts DEF EndBlock, Unclear, GenType
  <2> QED
    BY <1>1, <1>2, <1>11, <2>1, <2>2, <2>3 DEF TypeOK, EndBlock, progVars, histVars
<1>12. CASE EndRun
  <2>1. call.sp + call.len \in 0..ChLen /\ call.gen_len = call.sp
        /\ run.gen_len <= call.len
    <3>1. /\ call.sp + call.len + call.skip_len = ChLen
          /\ call.gen_len = call.sp /\ run.gen_len + run.time <= call.len
      BY <1>12 DEF EndRun, Inv, IInv, CallAccounting
    <3> QED
      BY <3>1, CallFacts, RunFacts, SizeFacts
  <2>2. call' \in CallType
    BY <1>12, <2>1, CallFacts, RunFacts, SizeFacts DEF EndRun, CallType
  <2>3. run' \in RunType
    BY <1>1, <1>12, SizeFacts DEF EndRun, NoRun, RunType
  <2> QED
    BY <1>1, <1>2, <1>12, <2>2, <2>3 DEF TypeOK, EndRun, progVars, nodeVars, bufVars, histVars
<1>13. CASE AdvanceVoice
  <2>1. gen' \in GenType
    BY <1>1, <1>13, GenFacts, SizeFacts DEF AdvanceVoice, GenType
  <2> QED
    BY <1>1, <1>2, <1>13, <2>1 DEF TypeOK, AdvanceVoice, progVars, bufVars, histVars
<1>14. CASE ReturnMore \/ ReturnEnd
  <2>1. ChLen \in 0..ChLen /\ call.gen_len \in 0..ChLen
    BY CallFacts, SizeFacts
  <2>2. PICK n \in 0..ChLen, more \in BOOLEAN :
             out' = [chunk |-> buf, len |-> n, more |-> more] /\ pos' = pos + n
    BY <1>14, <2>1 DEF ReturnMore, ReturnEnd, Return
  <2>3. out' \in OutType /\ pos' \in Nat
    BY <1>2, <2>2, TimeFacts, SizeFacts DEF TypeOK, OutType
  <2>4. call' \in CallType
    BY <1>14, SizeFacts DEF ReturnMore, ReturnEnd, Return, NoCall, CallType
  <2>5. /\ timeline' = timeline /\ carry' = carry /\ gen' = gen
        /\ voices' = voices /\ operators' = operators
        /\ mix' = mix /\ buf' = buf /\ run' = run
        /\ pc' \in {"idle", "ended"} /\ pc = "advance"
    BY <1>14 DEF ReturnMore, ReturnEnd, Return, progVars, nodeVars, bufVars
  <2> QED
    BY <1>1, <1>2, <2>3, <2>4, <2>5 DEF TypeOK
<1>15. CASE CallAgain
  BY <1>1, <1>2, <1>15 DEF TypeOK, CallAgain, progVars, nodeVars, bufVars, histVars
<1>16. CASE UNCHANGED vars
  BY <1>1, <1>2, <1>16 DEF TypeOK, vars, progVars, nodeVars, bufVars, histVars
<1> QED
  BY <1>1, <1>2, <1>3, <1>4, <1>5, <1>6, <1>7, <1>8, <1>9, <1>10, <1>11,
     <1>12, <1>13, <1>14, <1>15, <1>16
     DEF Next, Create, Run, RunBlock, Finish

-----------------------------------------------------------------------------
(* What the actions leave alone. *)

(* All but handle_event() and run_voice() leave the nodes as they are. *)
LEMMA NodesOnlyBy ==
    ASSUME [Next]_vars, ~HandleEvent, ~RunVoice
    PROVE  voices' = voices /\ operators' = operators
  BY DEF Next, Create, ConvertEvent, Created, Call, Run, RunBlock,
         BeginRun, BeginBlock, SkipVoice, EndBlock, EndRun, Finish,
         AdvanceVoice, ReturnMore, ReturnEnd, Return, CallAgain, vars, nodeVars

(* A block takes its length from the time of the run. *)
LEMMA BeginBlockFacts ==
    ASSUME Inv, BeginBlock
    PROVE  /\ run'.len \in Nat /\ run'.time \in Nat /\ run'.len + run'.time = run.time
           /\ run'.gen_len = run.gen_len /\ run'.last_len = 0
           /\ run'.i = gen.voice /\ gen'.voice = gen.voice
<1> DEFINE n == Lesser(run.time, BufLen)
<1>1. n \in Nat /\ n <= run.time
  BY RunFacts, SizeFacts DEF Lesser
<1>2. run' = [run EXCEPT !.time = run.time - n, !.len = n, !.i = gen.voice, !.last_len = 0]
  BY DEF BeginBlock
<1> HIDE DEF n
<1>3. /\ run'.len = n /\ run'.time = run.time - n /\ run'.gen_len = run.gen_len
      /\ run'.last_len = 0 /\ run'.i = gen.voice
  BY <1>2, RunFacts DEF RunType
<1>4. gen'.voice = gen.voice
  BY GenFacts DEF BeginBlock, GenType
<1> QED
  BY <1>1, <1>3, <1>4, RunFacts

-----------------------------------------------------------------------------
(* CallAccounting: the parts of a call add up. *)
LEMMA AccountingStep ==
    ASSUME Inv, [Next]_vars
    PROVE  CallAccounting'
<1>1. CallAccounting /\ (BlockProgress)
  BY DEF Inv, IInv
<1>2. CASE Call
  BY <1>2, SizeFacts DEF Call, NoCall, CallAccounting
<1>3. CASE BeginRun
  <2>1. RunLen \in Nat /\ RunLen <= call.len
    BY <1>3, RunLenType DEF BeginRun
  <2>2. /\ pc' = "blocks"
        /\ call'.sp = call.sp /\ call'.len = RunLen /\ call'.gen_len = call.gen_len
        /\ call'.skip_len = call.len - RunLen
        /\ run'.gen_len = 0 /\ run'.time = RunLen
    BY <1>3, CallFacts DEF BeginRun, NoRun, CallType
  <2>3. call.sp + call.len + 0 = ChLen /\ call.gen_len = call.sp
    BY <1>1, <1>3, CallFacts DEF BeginRun, CallAccounting
  <2> QED
    BY <2>1, <2>2, <2>3, CallFacts DEF CallAccounting
<1>4. CASE BeginBlock
  <2>1. /\ pc = "blocks" /\ pc' = "voices" /\ call' = call
        /\ run'.len \in Nat /\ run'.time \in Nat /\ run'.len + run'.time = run.time
        /\ run'.gen_len = run.gen_len
    BY <1>4, BeginBlockFacts DEF BeginBlock
  <2> QED
    BY <1>1, <2>1, RunFacts, CallFacts DEF CallAccounting
<1>5. CASE SkipVoice \/ RunVoice
  <2>1. /\ pc = "voices" /\ pc' = "voices" /\ call' = call
        /\ run'.gen_len = run.gen_len /\ run'.len = run.len /\ run'.time = run.time
    BY <1>5, RunFacts DEF SkipVoice, RunVoice, RunType
  <2> QED
    BY <1>1, <2>1 DEF CallAccounting
<1>6. CASE EndBlock
  <2>1. /\ pc = "voices" /\ pc' = "blocks" /\ call' = call
        /\ run'.time = run.time
        /\ run'.gen_len \in {run.gen_len, run.gen_len + run.last_len}
    BY <1>6, RunFacts DEF EndBlock, RunType
  <2>2. run.last_len <= run.len
    BY <1>1, <2>1 DEF BlockProgress
  <2> QED
    BY <1>1, <2>1, <2>2, RunFacts, CallFacts DEF CallAccounting
<1>7. CASE EndRun
  BY <1>1, <1>7, RunFacts, CallFacts DEF EndRun, CallAccounting, CallType
<1>8. CASE HandleEvent \/ AdvanceVoice \/ UNCHANGED vars
  BY <1>1, <1>8 DEF HandleEvent, AdvanceVoice, vars, CallAccounting
<1>9. CASE Create \/ ReturnMore \/ ReturnEnd \/ CallAgain
  BY <1>9 DEF Create, ConvertEvent, Created, ReturnMore, ReturnEnd, CallAgain,
              CallAccounting
<1> QED
  BY <1>2, <1>3, <1>4, <1>5, <1>6, <1>7, <1>8, <1>9 DEF Next, Run, RunBlock, Finish

(* BlockProgress: which voices are done within a block. *)
LEMMA ProgressStep ==
    ASSUME Inv, [Next]_vars
    PROVE  BlockProgress'
<1>1. BlockProgress /\ SkippedVoicesSilent /\ NothingAfterShortBlock /\ VoiceIds' = VoiceIds
  BY ProgConstant DEF Inv, IInv
<1>2. CASE BeginBlock
  <2>1. /\ pc = "blocks" /\ call' = call /\ voices' = voices
        /\ run'.gen_len = run.gen_len /\ run'.last_len = 0
        /\ run'.len + run'.time = run.time
        /\ run'.len \in Nat /\ run'.time \in Nat
        /\ run'.i = gen.voice /\ gen'.voice = gen.voice
    BY <1>2, BeginBlockFacts DEF BeginBlock
  <2>2. \A v \in VoiceIds : v < gen.voice => voices'[v].duration = 0
    BY <1>1, <2>1 DEF SkippedVoicesSilent
  <2>3. run.gen_len + run.time < call.len =>
            \A v \in VoiceIds : voices'[v].duration = 0
    BY <1>1, <2>1 DEF NothingAfterShortBlock
  <2>4. run.gen_len + run'.len + run'.time = run.gen_len + run.time
    BY <2>1, RunFacts
  <2> QED
    BY <1>1, <2>1, <2>2, <2>3, <2>4, GenFacts DEF BlockProgress
<1>3. CASE SkipVoice
  <2>1. /\ pc = "voices" /\ call' = call /\ voices' = voices /\ gen' = gen
        /\ run' = [run EXCEPT !.i = run.i + 1]
        /\ voices[run.i].duration = 0
    BY <1>3 DEF SkipVoice, nodeVars
  <2>2. /\ run'.gen_len = run.gen_len /\ run'.last_len = run.last_len
        /\ run'.len = run.len /\ run'.time = run.time /\ run'.i = run.i + 1
    BY <2>1, RunFacts DEF RunType
  <2>3. \A v \in VoiceIds : v < run.i + 1 <=> v < run.i \/ v = run.i
    BY RunFacts, SizeFacts DEF VoiceIds
  <2> QED
    BY <1>1, <2>1, <2>2, <2>3, RunFacts, GenFacts DEF BlockProgress
<1>4. CASE RunVoice
  <2> DEFINE op == voices[run.i].carr_op_id
             time == Lesser(voices[run.i].duration, run.len)
             n == Lesser(time, operators[op].time)
  <2>1. /\ run.i \in VoiceIds /\ n = time /\ n \in Nat /\ n <= run.len
        /\ n < run.len => n = voices[run.i].duration
        /\ voices[run.i].duration # 0 /\ voices[run.i].duration \in Nat
    BY <1>4, RunVoiceFacts, NodeFacts, SizeFacts DEF RunVoice
  <2>2. /\ pc = "voices" /\ call' = call /\ gen'.voice = gen.voice
        /\ run'.i = run.i + 1 /\ run'.last_len = Longest(run.last_len, n)
        /\ run'.gen_len = run.gen_len /\ run'.len = run.len /\ run'.time = run.time
    BY <1>4, RunFacts, GenFacts DEF RunVoice, RunType, GenType
  <2>3. /\ voices'[run.i].duration = voices[run.i].duration - time
        /\ \A v \in VoiceIds : v # run.i => voices'[v] = voices[v]
    BY <1>4, <2>1, NodeFacts DEF RunVoice, VoiceType
  <2>4. ~(run.gen_len + run.len + run.time < call.len)
    BY <1>1, <2>1, <2>2 DEF BlockProgress
  <2> HIDE DEF n, time
  <2>5. /\ run'.last_len \in Nat /\ run'.last_len <= run.len
        /\ run.last_len <= run'.last_len /\ n <= run'.last_len
    BY <1>1, <2>1, <2>2, RunFacts DEF BlockProgress, Longest
  <2>6. ASSUME run'.last_len < run.len, NEW v \in VoiceIds, v < run.i + 1
        PROVE  voices'[v].duration = 0
    <3>1. CASE v = run.i
      <4>1. n < run.len
        BY <2>1, <2>5, <2>6, RunFacts
      <4> QED
        BY <2>1, <2>3, <3>1, <4>1
    <3>2. CASE v # run.i
      <4>1. v < run.i /\ run.last_len < run.len
        BY <2>5, <2>6, <3>2, RunFacts, SizeFacts DEF VoiceIds
      <4> QED
        BY <1>1, <2>2, <2>3, <3>2, <4>1 DEF BlockProgress
    <3> QED
      BY <3>1, <3>2
  <2> QED
    BY <1>1, <2>2, <2>4, <2>5, <2>6, RunFacts, GenFacts DEF BlockProgress
<1>5. CASE UNCHANGED vars
  BY <1>1, <1>5 DEF vars, nodeVars, BlockProgress
<1>6. CASE pc' # "voices"
  BY <1>6 DEF BlockProgress
<1> QED
  BY <1>2, <1>3, <1>4, <1>5, <1>6
     DEF Next, Create, ConvertEvent, Created, Call, Run, RunBlock, HandleEvent,
         BeginRun, EndBlock, EndRun, Finish, AdvanceVoice, ReturnMore, ReturnEnd,
         CallAgain

(* SkippedVoicesSilent: the voice loop starts at or before any that plays. *)
LEMMA SilentStep ==
    ASSUME Inv, [Next]_vars
    PROVE  SkippedVoicesSilent'
<1>1. SkippedVoicesSilent /\ VoiceIds' = VoiceIds
  BY ProgConstant DEF Inv, IInv
<1>2. CASE HandleEvent
  <2> DEFINE e == prog.events[gen.event]
  <2>1. e.vo_id \in VoiceIds
    BY <1>2, GenFacts, SizeFacts, ProgramFacts DEF HandleEvent, EventDue
  <2>2. \A u \in VoiceIds : u # e.vo_id => voices'[u] = voices[u]
    BY <1>2, NodeFacts DEF HandleEvent
  <2>3. gen'.voice = Lesser(gen.voice, e.vo_id)
    BY <1>2, GenFacts DEF HandleEvent, StartVoice, GenType
  <2>4. gen'.voice <= gen.voice /\ gen'.voice <= e.vo_id
    BY <2>1, <2>3, GenFacts, SizeFacts DEF Lesser, VoiceIds
  <2>5. ASSUME NEW u \in VoiceIds, u < gen'.voice
        PROVE  u # e.vo_id /\ u < gen.voice
    BY <2>1, <2>3, <2>5, GenFacts, SizeFacts DEF Lesser, VoiceIds
  <2> QED
    BY <1>1, <2>2, <2>5 DEF SkippedVoicesSilent
<1>3. CASE RunVoice
  <2>1. run.i \in VoiceIds /\ gen.voice <= run.i
    BY <1>3, RunVoiceFacts DEF RunVoice, Inv, IInv, BlockProgress
  <2>2. \A v \in VoiceIds : v # run.i => voices'[v] = voices[v]
    BY <1>3, NodeFacts DEF RunVoice
  <2>3. gen'.voice = gen.voice
    BY <1>3, GenFacts DEF RunVoice, GenType
  <2>4. \A v \in VoiceIds : v < gen.voice => v # run.i
    BY <2>1, GenFacts, RunFacts, SizeFacts DEF VoiceIds
  <2> QED
    BY <1>1, <2>2, <2>3, <2>4 DEF SkippedVoicesSilent
<1>4. CASE AdvanceVoice
  <2>1. voices' = voices /\ gen'.voice = gen.voice + 1 /\ voices[gen.voice].duration = 0
    BY <1>4, GenFacts DEF AdvanceVoice, GenType
  <2>2. \A v \in VoiceIds : v < gen.voice + 1 <=> v < gen.voice \/ v = gen.voice
    BY GenFacts, SizeFacts DEF VoiceIds
  <2> QED
    BY <1>1, <2>1, <2>2 DEF SkippedVoicesSilent
<1>5. CASE ~HandleEvent /\ ~RunVoice /\ ~AdvanceVoice
  <2>1. voices' = voices
    BY <1>5, NodesOnlyBy
  <2>2. gen'.voice = gen.voice
    BY <1>5, GenFacts
       DEF GenType, Next, Create, ConvertEvent, Created, Call, Run, RunBlock,
           BeginRun, BeginBlock, SkipVoice, EndBlock, Unclear, EndRun, Finish,
           ReturnMore, ReturnEnd, Return, CallAgain, vars, nodeVars
  <2> QED
    BY <1>1, <2>1, <2>2 DEF SkippedVoicesSilent
<1> QED
  BY <1>2, <1>3, <1>4, <1>5

(* NothingAfterShortBlock: when a block falls short, all voices are done.  *)
LEMMA ShortBlockStep ==
    ASSUME Inv, [Next]_vars
    PROVE  NothingAfterShortBlock'
<1>1. NothingAfterShortBlock /\ BlockProgress /\ VoiceIds' = VoiceIds
  BY ProgConstant DEF Inv, IInv
<1>2. CASE BeginRun
  <2>1. RunLen \in Nat
    BY <1>2, RunLenType DEF BeginRun
  <2>2. call'.len = RunLen /\ run'.gen_len = 0 /\ run'.time = RunLen
    BY <1>2, CallFacts DEF BeginRun, NoRun, CallType
  <2> QED
    BY <2>1, <2>2 DEF NothingAfterShortBlock
<1>3. CASE EndBlock
  <2>1. /\ pc = "voices" /\ call' = call /\ voices' = voices /\ run'.time = run.time
        /\ run.i >= prog.vo_count
    BY <1>3, RunFacts DEF EndBlock, RunType
  <2>2. run'.gen_len = run.gen_len + run.last_len
    BY <1>3, RunFacts DEF EndBlock, RunType
  <2>3. \A v \in VoiceIds : v < run.i
    BY <2>1, RunFacts, SizeFacts DEF VoiceIds
  <2>4. CASE run.last_len < run.len
    BY <1>1, <2>1, <2>3, <2>4 DEF BlockProgress, NothingAfterShortBlock
  <2>5. CASE ~(run.last_len < run.len)
    <3>1. run.last_len = run.len
      BY <1>1, <2>1, <2>5, RunFacts DEF BlockProgress
    <3> QED
      BY <1>1, <2>1, <2>2, <3>1 DEF BlockProgress, NothingAfterShortBlock
  <2> QED
    BY <2>4, <2>5
<1>4. CASE UNCHANGED vars
  BY <1>1, <1>4 DEF vars, nodeVars, NothingAfterShortBlock
<1>5. CASE pc' # "blocks"
  BY <1>5 DEF NothingAfterShortBlock
<1> QED
  BY <1>2, <1>3, <1>4, <1>5
     DEF Next, Create, ConvertEvent, Created, Call, Run, RunBlock, HandleEvent,
         BeginBlock, SkipVoice, RunVoice, EndRun, Finish, AdvanceVoice,
         ReturnMore, ReturnEnd, CallAgain

(* MixPastMaxClear and ClearFlagHonest: what may be left in the buffers.   *)
LEMMA BuffersStep ==
    ASSUME Inv, [Next]_vars
    PROVE  MixPastMaxClear' /\ ClearFlagHonest'
<1>1. MixPastMaxClear /\ ClearFlagHonest /\ buf \in BufType
      /\ mix \in [0..(BufLen - 1) -> Sample]
  BY SizeFacts DEF Inv, IInv, TypeOK
<1>2. CASE Call
  <2>1. mix' = mix /\ gen'.mix_add_max = gen.mix_add_max
    BY <1>2, GenFacts DEF Call, GenType
  <2>2. ClearFlagHonest'
    BY <1>1, <1>2 DEF Call, ClearFlagHonest
  <2> QED
    BY <1>1, <2>1, <2>2 DEF MixPastMaxClear
<1>3. CASE BeginBlock
  <2>1. \A x \in 0..(BufLen - 1) : mix'[x] = Silence
    BY <1>1, <1>3, GenFacts, SizeFacts DEF BeginBlock, MixPastMaxClear
  <2>2. buf' = buf /\ gen'.out_clear = gen.out_clear
    BY <1>3, GenFacts DEF BeginBlock, GenType
  <2> QED
    BY <1>1, <2>1, <2>2 DEF MixPastMaxClear, ClearFlagHonest
<1>4. CASE RunVoice
  <2> DEFINE op == voices[run.i].carr_op_id
             time == Lesser(voices[run.i].duration, run.len)
             n == Lesser(time, operators[op].time)
  <2>1. n \in Nat
    BY <1>4, RunVoiceFacts, SizeFacts
  <2>2. /\ gen'.mix_add_max = Longest(gen.mix_add_max, n)
        /\ gen'.out_clear = gen.out_clear /\ buf' = buf
    BY <1>4, GenFacts DEF RunVoice, GenType
  <2>3. \A x \in 0..(BufLen - 1) : ~(x < n) => mix'[x] = mix[x]
    BY <1>4 DEF RunVoice
  <2> HIDE DEF n
  <2>4. \A x \in 0..(BufLen - 1) : x >= gen'.mix_add_max =>
            ~(x < n) /\ x >= gen.mix_add_max
    BY <2>1, <2>2, GenFacts, SizeFacts DEF Longest
  <2> QED
    BY <1>1, <2>2, <2>3, <2>4 DEF MixPastMaxClear, ClearFlagHonest
<1>5. CASE EndBlock
  <2>1. mix' = mix /\ gen'.mix_add_max = gen.mix_add_max
        /\ (buf' = buf \/ ~gen'.out_clear)
        /\ (gen'.out_clear => gen.out_clear)
    BY <1>5, GenFacts DEF EndBlock, Unclear, GenType
  <2> QED
    BY <1>1, <2>1 DEF MixPastMaxClear, ClearFlagHonest
<1>6. CASE HandleEvent \/ BeginRun \/ AdvanceVoice
  <2>1. /\ mix' = mix /\ buf' = buf /\ gen'.mix_add_max = gen.mix_add_max
        /\ gen'.out_clear = gen.out_clear
    BY <1>6, GenFacts DEF HandleEvent, BeginRun, AdvanceVoice, bufVars, GenType
  <2> QED
    BY <1>1, <2>1 DEF MixPastMaxClear, ClearFlagHonest
<1>7. CASE Create \/ SkipVoice \/ EndRun \/ ReturnMore \/ ReturnEnd \/ CallAgain
           \/ UNCHANGED vars
  <2>1. mix' = mix /\ buf' = buf /\ gen' = gen
    BY <1>7 DEF Create, ConvertEvent, Created, SkipVoice, EndRun, ReturnMore,
                ReturnEnd, Return, CallAgain, vars, nodeVars, bufVars
  <2> QED
    BY <1>1, <2>1 DEF MixPastMaxClear, ClearFlagHonest
<1> QED
  BY <1>2, <1>3, <1>4, <1>5, <1>6, <1>7 DEF Next, Run, RunBlock, Finish

-----------------------------------------------------------------------------
(* Voices and carriers. *)

(* What is known of an event that is due, and of who owns what before it.  *)
LEMMA DueEvent ==
    ASSUME Inv, HandleEvent,
           NEW e, e = prog.events[gen.event]
    PROVE  /\ gen.event \in 1..EvLen /\ gen.event \in Nat
           /\ e \in Event /\ e.vo_id \in VoiceIds /\ e.carr_op_id \in Ops
           /\ e.at_ms \in Nat
           /\ OperatorAfter(e) \in OperatorType /\ OperatorAfter(e).time \in Nat
           /\ \/ Owns(prog, gen.event, e.vo_id, e.carr_op_id)
              \/ \A v \in VoiceIds : ~Owns(prog, gen.event, v, e.carr_op_id)
<1>1. gen.event \in 1..EvLen /\ gen.event \in Nat
  BY GenFacts, SizeFacts DEF HandleEvent, EventDue
<1>2. e \in Event /\ e.vo_id \in VoiceIds /\ ValidProgram(prog)
  BY <1>1, SizeFacts, ProgramFacts
<1>3. e.carr_op_id \in Ops /\ e.time_ms \in Nat /\ e.at_ms \in Nat
  BY <1>2 DEF Event
<1>4. OperatorAfter(e) \in OperatorType
  BY <1>3, SamplesType, NodeFacts DEF OperatorAfter, OperatorType
<1>5. ValidEvent(prog, gen.event)
  BY <1>1, <1>2 DEF ValidProgram, EvCount, EvLen
<1>6. \/ Owns(prog, gen.event, e.vo_id, e.carr_op_id)
      \/ \A v \in VoiceIds : ~Owns(prog, gen.event, v, e.carr_op_id)
  BY <1>5 DEF ValidEvent, VoiceIds
<1> QED
  BY <1>1, <1>2, <1>3, <1>4, <1>6 DEF OperatorType

(* What handle_event() does to the voices and their carriers. *)
LEMMA HandleEventFacts ==
    ASSUME Inv, HandleEvent,
           NEW e, e = prog.events[gen.event]
    PROVE  /\ voices'[e.vo_id].init
           /\ voices'[e.vo_id].duration = OperatorAfter(e).time
           /\ voices'[e.vo_id].carr_op_id = e.carr_op_id
           /\ operators'[e.carr_op_id] = OperatorAfter(e)
           /\ \A v \in VoiceIds : v # e.vo_id => voices'[v] = voices[v]
           /\ \A op \in Ops : op # e.carr_op_id => operators'[op] = operators[op]
           /\ gen'.event = gen.event + 1
<1>1. e.vo_id \in VoiceIds /\ e.carr_op_id \in Ops
  BY DueEvent
<1>2. gen'.event = gen.event + 1
  BY GenFacts DEF HandleEvent, GenType
<1> QED
  BY <1>1, <1>2, NodeFacts DEF HandleEvent, VoiceTime, VoiceCarrier

(* The events before one are naturals, which are ordered. *)
LEMMA LatestUnique ==
    ASSUME NEW p, NEW k \in Nat, NEW v, NEW a, NEW b,
           Owns(p, k, v, a), Owns(p, k, v, b)
    PROVE  a = b
<1>1. PICK i \in OnVoiceBefore(p, k, v) :
          /\ p.events[i].carr_op_id = a
          /\ \A j \in OnVoiceBefore(p, k, v) : j <= i
  BY DEF Owns
<1>2. PICK j \in OnVoiceBefore(p, k, v) :
          /\ p.events[j].carr_op_id = b
          /\ \A h \in OnVoiceBefore(p, k, v) : h <= j
  BY DEF Owns
<1>3. i \in Int /\ j \in Int /\ i <= j /\ j <= i
  BY <1>1, <1>2 DEF OnVoiceBefore
<1> QED
  BY <1>1, <1>2, <1>3

(* A voice in use other than that of an event due is not the carrier's.    *)
LEMMA OtherVoices ==
    ASSUME Inv, HandleEvent,
           NEW e, e = prog.events[gen.event],
           NEW u \in VoiceIds, voices[u].init, u # e.vo_id
    PROVE  voices[u].carr_op_id # e.carr_op_id
<1>1. Ownership
  BY DEF Inv, IInv
<1>2. SUFFICES ASSUME voices[u].carr_op_id = e.carr_op_id PROVE FALSE
  OBVIOUS
<1>3. Owns(prog, gen.event, u, e.carr_op_id)
  BY <1>1, <1>2 DEF Ownership
<1>4. Owns(prog, gen.event, e.vo_id, e.carr_op_id) /\ e.vo_id \in VoiceIds
      /\ gen.event \in Nat
  BY <1>3, DueEvent
<1>5. OnVoiceBefore(prog, gen.event, e.vo_id) # {}
  BY <1>4 DEF Owns
<1>6. voices[e.vo_id].init
  BY <1>1, <1>4, <1>5 DEF Ownership
<1>7. Owns(prog, gen.event, e.vo_id, voices[e.vo_id].carr_op_id)
  BY <1>1, <1>4, <1>6 DEF Ownership
<1>8. voices[e.vo_id].carr_op_id = e.carr_op_id
  BY <1>4, <1>7, LatestUnique
<1> QED
  BY <1>1, <1>2, <1>4, <1>6, <1>8 DEF Ownership

(* Ownership: a voice in use is its carrier's, and only that one is.       *)
LEMMA OwnershipStep ==
    ASSUME Inv, [Next]_vars
    PROVE  Ownership'
<1>1. Ownership /\ VoiceIds' = VoiceIds /\ prog' = prog
  BY ProgConstant DEF Inv, IInv
<1>2. CASE HandleEvent
  <2> DEFINE e == prog.events[gen.event]
             k == gen.event
  <2>1. k \in Nat /\ k >= 1 /\ e.vo_id \in VoiceIds
    BY <1>2, DueEvent
  <2>2. 1..k = (1..(k - 1)) \union {k}
    BY <2>1
  <2>3. OnVoiceBefore(prog, k + 1, e.vo_id) = OnVoiceBefore(prog, k, e.vo_id) \union {k}
    BY <2>1, <2>2 DEF OnVoiceBefore
  <2>4. \A v : v # e.vo_id => OnVoiceBefore(prog, k + 1, v) = OnVoiceBefore(prog, k, v)
    BY <2>1, <2>2 DEF OnVoiceBefore
  <2>5. Owns(prog, k + 1, e.vo_id, e.carr_op_id)
    BY <2>1, <2>3 DEF Owns, OnVoiceBefore
  <2>6. gen'.event = k + 1 /\ voices'[e.vo_id].init
        /\ voices'[e.vo_id].carr_op_id = e.carr_op_id
        /\ \A v \in VoiceIds : v # e.vo_id => voices'[v] = voices[v]
    BY <1>2, HandleEventFacts
  <2>7. ASSUME NEW v \in VoiceIds
        PROVE  /\ voices'[v].init => Owns(prog, k + 1, v, voices'[v].carr_op_id)
               /\ ~voices'[v].init => OnVoiceBefore(prog, k + 1, v) = {}
    <3>1. CASE v = e.vo_id
      BY <2>5, <2>6, <3>1
    <3>2. CASE v # e.vo_id
      BY <1>1, <2>4, <2>6, <3>2 DEF Ownership, Owns
    <3> QED
      BY <3>1, <3>2
  <2>8. ASSUME NEW u \in VoiceIds, NEW v \in VoiceIds,
               voices'[u].init, voices'[v].init,
               voices'[u].carr_op_id = voices'[v].carr_op_id
        PROVE  u = v
    BY <1>1, <1>2, <2>6, <2>8, OtherVoices DEF Ownership
  <2> QED
    BY <1>1, <2>6, <2>7, <2>8 DEF Ownership
<1>3. CASE RunVoice
  <2>1. \A v \in VoiceIds : /\ voices'[v].init = voices[v].init
                            /\ voices'[v].carr_op_id = voices[v].carr_op_id
    BY <1>3, NodeFacts DEF RunVoice, VoiceType
  <2>2. gen'.event = gen.event
    BY <1>3, GenFacts DEF RunVoice, GenType
  <2> QED
    BY <1>1, <2>1, <2>2 DEF Ownership
<1>4. CASE ~HandleEvent /\ ~RunVoice
  <2>1. voices' = voices
    BY <1>4, NodesOnlyBy
  <2>2. gen'.event = gen.event
    BY <1>4, GenFacts
       DEF GenType, Next, Create, ConvertEvent, Created, Call, Run, RunBlock,
           BeginRun, BeginBlock, SkipVoice, EndBlock, Unclear, EndRun, Finish,
           AdvanceVoice, ReturnMore, ReturnEnd, Return, CallAgain, vars, nodeVars
  <2> QED
    BY <1>1, <2>1, <2>2 DEF Ownership
<1> QED
  BY <1>2, <1>3, <1>4

(* DurationMatchesCarrier: both are set alike, and count down alike.       *)
LEMMA DurationStep ==
    ASSUME Inv, [Next]_vars
    PROVE  DurationMatchesCarrier'
<1>1. DurationMatchesCarrier /\ Ownership /\ VoiceIds' = VoiceIds
  BY ProgConstant DEF Inv, IInv
<1>2. CASE HandleEvent
  <2> DEFINE e == prog.events[gen.event]
  <2>1. ASSUME NEW u \in VoiceIds, voices'[u].duration > 0
        PROVE  /\ voices'[u].init
               /\ voices'[u].duration = operators'[voices'[u].carr_op_id].time
    <3>1. CASE u = e.vo_id
      BY <1>2, <3>1, HandleEventFacts
    <3>2. CASE u # e.vo_id
      <4>1. voices'[u] = voices[u] /\ voices[u].carr_op_id \in Ops
        BY <1>2, <3>2, HandleEventFacts, NodeFacts
      <4>2. voices[u].init /\ voices[u].duration = operators[voices[u].carr_op_id].time
        BY <1>1, <2>1, <4>1 DEF DurationMatchesCarrier
      <4>3. voices[u].carr_op_id # e.carr_op_id
        BY <1>2, <3>2, <4>2, OtherVoices
      <4> QED
        BY <1>2, <4>1, <4>2, <4>3, HandleEventFacts
    <3> QED
      BY <3>1, <3>2
  <2> QED
    BY <1>1, <2>1 DEF DurationMatchesCarrier
<1>3. CASE RunVoice
  <2> DEFINE i == run.i
             op == voices[i].carr_op_id
             time == Lesser(voices[i].duration, run.len)
             n == Lesser(time, operators[op].time)
  <2>1. /\ i \in VoiceIds /\ op \in Ops /\ n = time
        /\ voices[i].duration = operators[op].time
        /\ voices[i].duration > 0
    BY <1>3, RunVoiceFacts, NodeFacts DEF RunVoice
  <2>2. /\ voices'[i].duration = voices[i].duration - time
        /\ voices'[i].init = voices[i].init /\ voices'[i].carr_op_id = op
        /\ \A v \in VoiceIds : v # i => voices'[v] = voices[v]
    BY <1>3, <2>1, NodeFacts DEF RunVoice, VoiceType
  <2>3. /\ operators'[op].time = operators[op].time - n
        /\ \A q \in Ops : q # op => operators'[q] = operators[q]
    BY <1>3, <2>1, NodeFacts DEF RunVoice, OperatorType
  <2>4. voices[i].init
    BY <1>1, <2>1 DEF DurationMatchesCarrier
  <2> HIDE DEF n, time
  <2>5. ASSUME NEW u \in VoiceIds, voices'[u].duration > 0
        PROVE  /\ voices'[u].init
               /\ voices'[u].duration = operators'[voices'[u].carr_op_id].time
    <3>1. CASE u = i
      BY <2>1, <2>2, <2>3, <2>4, <3>1
    <3>2. CASE u # i
      <4>1. /\ voices'[u] = voices[u] /\ voices[u].carr_op_id \in Ops
            /\ voices[u].init
            /\ voices[u].duration = operators[voices[u].carr_op_id].time
        BY <1>1, <2>2, <2>5, <3>2, NodeFacts DEF DurationMatchesCarrier
      <4>2. voices[u].carr_op_id # op
        BY <1>1, <2>1, <2>4, <3>2, <4>1 DEF Ownership
      <4> QED
        BY <2>3, <4>1, <4>2
    <3> QED
      BY <3>1, <3>2
  <2> QED
    BY <1>1, <2>5 DEF DurationMatchesCarrier
<1>4. CASE ~HandleEvent /\ ~RunVoice
  BY <1>1, <1>4, NodesOnlyBy DEF DurationMatchesCarrier
<1> QED
  BY <1>2, <1>3, <1>4

-----------------------------------------------------------------------------
(* Time. *)

(* An event's position as a quotient, with the remainder that goes with it. *)
LEMMA AtFacts ==
    ASSUME Inv, NEW k \in 1..EvLen
    PROVE  /\ AtOrZero(k) = (AtMs(prog, k) * Srate) \div MsPerSec
           /\ AtOrZero(k - 1) = (AtMs(prog, k - 1) * Srate) \div MsPerSec
           /\ AtOrZero(k) \in Nat /\ AtOrZero(k - 1) \in Nat
           /\ AtMs(prog, k) \in Nat /\ AtMs(prog, k - 1) \in Nat
           /\ AtMs(prog, k - 1) <= AtMs(prog, k)
<1>1. /\ prog.events[k] \in Event /\ AtMs(prog, k - 1) <= prog.events[k].at_ms
      /\ AtMs(prog, k - 1) \in Nat /\ k \in Nat /\ k # 0
  BY SizeFacts, ProgramFacts
<1>2. AtMs(prog, k) = prog.events[k].at_ms /\ AtMs(prog, k) \in Nat
  BY <1>1 DEF AtMs, Event
<1>3. 0 * Srate = 0 /\ 0 \div MsPerSec = 0
  BY RateAssumption
<1>4. AtOrZero(k) = (AtMs(prog, k) * Srate) \div MsPerSec
  BY <1>1, <1>2 DEF AtOrZero, At, MsInSamples
<1>5. AtOrZero(k - 1) = (AtMs(prog, k - 1) * Srate) \div MsPerSec
  BY <1>1, <1>3 DEF AtOrZero, At, AtMs, MsInSamples
<1>6. AtOrZero(k) \in Nat /\ AtOrZero(k - 1) \in Nat
  BY <1>1, <1>2, <1>4, <1>5, SamplesType DEF MsInSamples
<1> QED
  BY <1>1, <1>2, <1>4, <1>5, <1>6

(* TimelineExact: the carry makes up for the rounding of each wait.        *)
LEMMA TimelineStep ==
    ASSUME Inv, [Next]_vars
    PROVE  TimelineExact'
<1>1. TimelineExact /\ prog' = prog
  BY ProgConstant DEF Inv, IInv
<1>2. CASE ConvertEvent
  <2> DEFINE k == Len(timeline) + 1
             a == AtMs(prog, k - 1) * Srate
             b == AtMs(prog, k) * Srate
  <2>1. k \in 1..EvLen /\ k - 1 = Len(timeline) /\ k \in Nat /\ k # 0
    BY <1>2, TimeFacts, SizeFacts DEF ConvertEvent
  <2>2. a \in Nat /\ b \in Nat /\ a <= b
    BY <2>1, AtFacts, Products, RateAssumption
  <2>3. WaitMs(prog, k) * Srate = b - a
    <3>1. WaitMs(prog, k) = AtMs(prog, k) - AtMs(prog, k - 1)
      BY <2>1 DEF WaitMs, AtMs
    <3> QED
      BY <2>1, <3>1, AtFacts, RateAssumption
  <2>4. carry = a % MsPerSec
    BY <1>1, <2>1 DEF TimelineExact
  <2>5. /\ timeline' = Append(timeline, ((b - a) + (a % MsPerSec)) \div MsPerSec)
        /\ carry' = ((b - a) + (a % MsPerSec)) % MsPerSec
    BY <1>2, <2>3, <2>4 DEF ConvertEvent, CarryAfter
  <2>6. /\ timeline' = Append(timeline, (b \div MsPerSec) - (a \div MsPerSec))
        /\ carry' = b % MsPerSec
    BY <2>2, <2>5, CarryExact, RateAssumption
  <2>7. (b \div MsPerSec) - (a \div MsPerSec) = AtOrZero(k) - AtOrZero(k - 1)
    BY <2>1, AtFacts
  <2> HIDE DEF a, b
  <2>8. ASSUME NEW j \in DOMAIN timeline'
        PROVE  timeline'[j] = AtOrZero(j) - AtOrZero(j - 1)
    <3>1. CASE j = k
      BY <2>6, <2>7, <3>1, TimeFacts
    <3>2. CASE j # k
      <4>1. j \in DOMAIN timeline /\ timeline'[j] = timeline[j]
        BY <2>6, <2>8, <3>2, TimeFacts
      <4> QED
        BY <1>1, <4>1 DEF TimelineExact
    <3> QED
      BY <3>1, <3>2
  <2>9. carry' = (AtMs(prog, Len(timeline')) * Srate) % MsPerSec
    <3>1. Len(timeline') = k
      BY <2>6, TimeFacts
    <3> QED
      BY <2>6, <3>1 DEF b
  <2> QED
    BY <1>1, <2>8, <2>9 DEF TimelineExact, AtOrZero
<1>3. CASE ~ConvertEvent
  <2>1. timeline' = timeline /\ carry' = carry
    BY <1>3 DEF Next, Create, Created, Call, Run, RunBlock, HandleEvent,
         BeginRun, BeginBlock, SkipVoice, RunVoice, EndBlock, EndRun, Finish,
         AdvanceVoice, ReturnMore, ReturnEnd, Return, CallAgain, vars, progVars
  <2> QED
    BY <1>1, <2>1 DEF TimelineExact, AtOrZero
<1> QED
  BY <1>2, <1>3

(* What an event that comes due says of the position it is handled at.     *)
LEMMA DueClock ==
    ASSUME Inv, HandleEvent
    PROVE  /\ StreamPos = AtOrZero(gen.event)
           /\ gen.event \in 1..EvLen /\ gen.event \in Nat
<1>1. EventClock /\ TimelineExact
  BY DEF Inv, IInv
<1>2. /\ gen.event \in 1..EvLen /\ gen.event \in Nat
      /\ pc = "events" /\ timeline[gen.event] <= gen.event_pos
  BY DueEvent DEF HandleEvent, EventDue
<1>3. DOMAIN timeline = 1..EvLen /\ timeline[gen.event] \in Nat
  BY <1>2, TimeFacts
<1>4. timeline[gen.event] = gen.event_pos
  BY <1>1, <1>2, <1>3, GenFacts, SizeFacts DEF EventClock
<1>5. timeline[gen.event] = AtOrZero(gen.event) - AtOrZero(gen.event - 1)
  BY <1>1, <1>2, <1>3 DEF TimelineExact
<1>6. pos + call.sp = AtOrZero(gen.event - 1) + gen.event_pos
  BY <1>1, <1>2, SizeFacts DEF EventClock, RunEnd
<1>7. AtOrZero(gen.event) \in Nat /\ AtOrZero(gen.event - 1) \in Nat
  BY <1>2, AtFacts
<1> QED
  BY <1>2, <1>4, <1>5, <1>6, <1>7, GenFacts DEF StreamPos

(* EventClock: event_pos counts from the last event handled.               *)
LEMMA ClockStep ==
    ASSUME Inv, [Next]_vars
    PROVE  EventClock'
<1>1. EventClock /\ CallAccounting /\ prog' = prog /\ EvLen' = EvLen
  BY ProgConstant DEF Inv, IInv
<1>2. \A k : AtOrZero(k)' = AtOrZero(k)
  BY <1>1 DEF AtOrZero
<1>3. CASE Create
  <2>1. pc = "convert" /\ gen' = gen /\ pos' = pos /\ call' = call
        /\ (pc' = "convert" \/ (pc' = "idle" /\ Len(timeline) = EvLen /\ timeline' = timeline))
    BY <1>3 DEF Create, ConvertEvent, Created, nodeVars, histVars, progVars
  <2>2. RunEnd' = RunEnd
    BY <2>1 DEF RunEnd
  <2>3. gen.event <= EvLen /\ Len(timeline) = EvLen => timeline[gen.event] \in Nat
    BY GenFacts, TimeFacts
  <2> QED
    BY <1>1, <1>2, <2>1, <2>2, <2>3 DEF EventClock, AtOrZero
<1>4. CASE Call
  <2>1. /\ pc = "idle" /\ pc' = "events" /\ pos' = pos /\ call'.sp = 0
        /\ gen'.event = gen.event /\ gen'.event_pos = gen.event_pos
        /\ timeline' = timeline
    BY <1>4, GenFacts DEF Call, NoCall, GenType, histVars, progVars
  <2>2. RunEnd' = RunEnd
    BY <2>1, TimeFacts DEF RunEnd
  <2> QED
    BY <1>1, <2>1, <2>2 DEF EventClock, AtOrZero
<1>5. CASE HandleEvent
  <2>1. /\ pc = "events" /\ pc' = "events" /\ pos' = pos /\ call' = call
        /\ gen'.event = gen.event + 1 /\ gen'.event_pos = 0
        /\ timeline' = timeline
    BY <1>5, GenFacts DEF HandleEvent, GenType, histVars, progVars
  <2>2. gen.event \in Nat /\ pos + call.sp = AtOrZero(gen.event)
    BY <1>5, DueClock DEF StreamPos
  <2>3. RunEnd' = AtOrZero(gen'.event - 1) + gen'.event_pos
    <3>1. gen'.event - 1 = gen.event
      BY <2>1, <2>2
    <3>2. pos + call.sp \in Nat
      BY TimeFacts, CallFacts
    <3>3. RunEnd' = pos + call.sp
      BY <2>1 DEF RunEnd
    <3> QED
      BY <2>1, <2>2, <3>1, <3>2, <3>3
  <2>4. gen'.event <= EvLen => timeline[gen'.event] \in Nat
    BY <2>1, <2>2, TimeFacts
  <2> QED
    BY <1>1, <2>1, <2>3, <2>4 DEF EventClock, AtOrZero
<1>6. CASE BeginRun
  <2>1. /\ pc = "events" /\ pc' = "blocks" /\ pos' = pos
        /\ call'.sp = call.sp /\ call'.len = RunLen
        /\ gen'.event = gen.event
        /\ gen.event <= EvLen => gen'.event_pos = gen.event_pos + RunLen
        /\ timeline' = timeline
    BY <1>6, GenFacts, CallFacts, SizeFacts
       DEF BeginRun, EventPos, GenType, CallType, histVars, progVars
  <2>2. /\ RunLen \in Nat
        /\ gen.event <= EvLen => gen.event_pos + RunLen <= timeline[gen.event]
    BY <1>6, RunLenType DEF BeginRun
  <2>3. RunEnd' = pos + call.sp + RunLen /\ RunEnd = pos + call.sp
    BY <2>1 DEF RunEnd
  <2>4. ASSUME gen.event <= EvLen
        PROVE  RunEnd' = AtOrZero(gen.event - 1) + gen'.event_pos
    <3>1. AtOrZero(gen.event - 1) \in Nat
      BY <2>4, AtFacts, GenFacts, SizeFacts
    <3>2. RunEnd = AtOrZero(gen.event - 1) + gen.event_pos
      BY <1>1, <2>4 DEF EventClock
    <3> QED
      BY <2>1, <2>2, <2>3, <2>4, <3>1, <3>2, GenFacts, TimeFacts, CallFacts
  <2> QED
    BY <1>1, <2>1, <2>2, <2>4 DEF EventClock, AtOrZero
<1>7. CASE BeginBlock \/ SkipVoice \/ RunVoice \/ EndBlock \/ AdvanceVoice
  <2>1. /\ pc \in {"blocks", "voices", "advance"}
        /\ pc' \in {"blocks", "voices", "advance"} /\ pos' = pos /\ call' = call
        /\ gen'.event = gen.event /\ gen'.event_pos = gen.event_pos
        /\ timeline' = timeline
    BY <1>7, GenFacts
       DEF BeginBlock, SkipVoice, RunVoice, EndBlock, Unclear, AdvanceVoice,
           GenType, histVars, progVars, nodeVars
  <2>2. RunEnd' = RunEnd
    BY <2>1 DEF RunEnd
  <2> QED
    BY <1>1, <2>1, <2>2 DEF EventClock, AtOrZero
<1>8. CASE EndRun
  <2>1. /\ pc = "blocks" /\ pos' = pos /\ gen' = gen /\ timeline' = timeline
        /\ \/ pc' = "events" /\ call'.sp = call.sp + call.len
           \/ pc' = "advance" /\ call'.sp = call.sp /\ call'.len = call.len
    BY <1>8, CallFacts DEF EndRun, CallType, histVars, progVars, nodeVars
  <2>2. RunEnd' = RunEnd
    BY <2>1, TimeFacts, CallFacts DEF RunEnd
  <2> QED
    BY <1>1, <2>1, <2>2 DEF EventClock, AtOrZero
<1>9. CASE ReturnMore
  <2>1. /\ pc = "advance" /\ pc' = "idle" /\ pos' = pos + ChLen
        /\ gen' = gen /\ timeline' = timeline
    BY <1>9 DEF ReturnMore, Return, progVars, nodeVars
  <2>2. call.sp + call.len + 0 = ChLen
    BY <1>1, <2>1, CallFacts DEF CallAccounting
  <2>3. RunEnd' = RunEnd
    BY <2>1, <2>2, TimeFacts, CallFacts DEF RunEnd
  <2> QED
    BY <1>1, <2>1, <2>3 DEF EventClock, AtOrZero
<1>10. CASE ReturnEnd
  <2>1. gen' = gen /\ gen.event > EvLen
    BY <1>10 DEF ReturnEnd, AtEnd, Return, nodeVars
  <2> QED
    BY <1>1, <2>1, GenFacts, SizeFacts DEF EventClock
<1>11. CASE CallAgain \/ UNCHANGED vars
  <2>1. /\ pos' = pos /\ call' = call /\ gen' = gen /\ timeline' = timeline
        /\ pc = pc' \/ (pc = "ended" /\ pc' = "idle")
    BY <1>11 DEF CallAgain, vars, histVars, progVars, nodeVars
  <2>2. RunEnd' = RunEnd
    BY <2>1 DEF RunEnd
  <2> QED
    BY <1>1, <2>1, <2>2 DEF EventClock, AtOrZero
<1> QED
  BY <1>3, <1>4, <1>5, <1>6, <1>7, <1>8, <1>9, <1>10, <1>11
     DEF Next, Run, RunBlock, Finish

-----------------------------------------------------------------------------
(* The theorems. *)

(* The invariant is inductive. *)
LEMMA InvStep == Inv /\ [Next]_vars => Inv'
  BY TypeStep, AccountingStep, ProgressStep, SilentStep, DurationStep,
     OwnershipStep, ShortBlockStep, BuffersStep, TimelineStep, ClockStep
     DEF Inv, IInv

LEMMA InvAlways == Spec => []Inv
  BY InitInv, InvStep, PTL DEF Spec

(* IInv holds throughout, for any programs allocated as parse conversion   *)
(* does it: no assumption is made on when voices are reused.               *)
THEOREM Invariance == Spec => []IInv
<1>1. Inv => IInv
  BY DEF Inv
<1> QED
  BY <1>1, InvAlways, PTL

(* In every state each field has its type, and every index into timeline,  *)
(* voices, operators and the buffers is in bounds.                         *)
THEOREM TypeCorrect == Spec => []TypeOK
<1>1. Inv => TypeOK
  BY DEF Inv, IInv
<1> QED
  BY <1>1, InvAlways, PTL

(* run_for_time() never starts past a voice that has time left, whichever  *)
(* voices end, are reused or are set going again.                          *)
THEOREM NoVoiceSkipped == Spec => []SkippedVoicesSilent
<1>1. Inv => SkippedVoicesSilent
  BY DEF Inv, IInv
<1> QED
  BY <1>1, InvAlways, PTL

(* A voice and its carrier count down together, in every program that is   *)
(* allocated as parse conversion does, also when voices are reused early.  *)
THEOREM CountDownTogether == Spec => []DurationMatchesCarrier
<1>1. Inv => DurationMatchesCarrier
  BY DEF Inv, IInv
<1> QED
  BY <1>1, InvAlways, PTL

(* No two voices that play share a carrier. *)
THEOREM CarriersNotShared == Spec => []OneVoicePerCarrier
<1>1. Inv => OneVoicePerCarrier
  BY NodeFacts DEF Inv, IInv, Ownership, DurationMatchesCarrier, OneVoicePerCarrier
<1> QED
  BY <1>1, InvAlways, PTL

(* What a block may write lies within the caller's buffer. *)
THEOREM NoOverrun == Spec => []WritesInBounds
<1>1. Inv => WritesInBounds
  <2> SUFFICES ASSUME Inv, pc = "voices" PROVE WritesInBounds
    BY DEF WritesInBounds
  <2>1. /\ run.last_len <= run.len
        /\ call.sp + call.len + call.skip_len = ChLen
        /\ run.gen_len + run.len + run.time <= call.len
    BY DEF Inv, IInv, CallAccounting, BlockProgress
  <2>2. call.sp + run.gen_len + run.len <= ChLen
    BY <2>1, CallFacts, RunFacts, SizeFacts
  <2> QED
    BY <2>1, <2>2 DEF WritesInBounds
<1> QED
  BY <1>1, InvAlways, PTL

(* No output is written early: after a block that fell short, every voice  *)
(* has ended.                                                              *)
THEOREM NothingWrittenEarly == Spec => []NothingAfterShortBlock
<1>1. Inv => NothingAfterShortBlock
  BY DEF Inv, IInv
<1> QED
  BY <1>1, InvAlways, PTL

(* The two ways in which the code gets by without clearing a buffer are    *)
(* sound: mix_add_max covers all that was mixed, and GEN_OUT_CLEAR is set  *)
(* only while the caller's buffer is silent.                               *)
THEOREM ClearingSuffices == Spec => [](MixPastMaxClear /\ ClearFlagHonest)
<1>1. Inv => MixPastMaxClear /\ ClearFlagHonest
  BY DEF Inv, IInv
<1> QED
  BY <1>1, InvAlways, PTL

(* However many events there are and whatever their waits, each is handled *)
(* at the sample its time in ms rounds down to: rounding never adds up.    *)
THEOREM NoDrift == Spec => EventOnTime
<1>1. Inv /\ [Next]_vars => (gen'.event # gen.event => StreamPos = At(prog, gen.event))
  <2> SUFFICES ASSUME Inv, [Next]_vars, gen'.event # gen.event
               PROVE  StreamPos = At(prog, gen.event)
    OBVIOUS
  <2>1. HandleEvent
    BY GenFacts
       DEF GenType, Next, Create, ConvertEvent, Created, Call, Run, RunBlock,
           BeginRun, BeginBlock, SkipVoice, RunVoice, EndBlock, Unclear, EndRun,
           Finish, AdvanceVoice, ReturnMore, ReturnEnd, Return, CallAgain, vars,
           nodeVars
  <2> QED
    BY <2>1, DueClock DEF AtOrZero
<1> QED
  BY <1>1, InvAlways, PTL DEF Spec, EventOnTime

-----------------------------------------------------------------------------
(* The program and its signal. *)

(* Rounding down keeps the order. *)
LEMMA AtGrows ==
    ASSUME NEW a \in Nat, NEW b \in Nat, a <= b
    PROVE  MsInSamples(a) <= MsInSamples(b)
<1>1. a * Srate \in Nat /\ b * Srate \in Nat /\ a * Srate <= b * Srate
  BY Products, RateAssumption
<1>2. ((a * Srate) \div MsPerSec) + (0 \div MsPerSec) <= (b * Srate) \div MsPerSec
  BY <1>1, RoundedParts, RateAssumption
<1>3. 0 \div MsPerSec = 0 /\ (a * Srate) \div MsPerSec \in Nat
  BY <1>1, DivMod, RateAssumption
<1> QED
  BY <1>2, <1>3 DEF MsInSamples

(* Positions and ends of events, in samples, are naturals. *)
LEMMA PositionTypes ==
    ASSUME Inv, NEW k \in 1..EvLen
    PROVE  /\ prog.events[k] \in Event /\ prog.events[k].carr_op_id \in Ops
           /\ At(prog, k) \in Nat /\ EndAt(prog, k) \in Nat
<1>1. prog.events[k] \in Event
  BY SizeFacts, ProgramFacts
<1>2. prog.events[k].at_ms \in Nat /\ prog.events[k].time_ms \in Nat
      /\ prog.events[k].carr_op_id \in Ops
  BY <1>1 DEF Event
<1>3. MsInSamples(prog.events[k].at_ms) \in Nat /\ MsInSamples(prog.events[k].time_ms) \in Nat
  BY <1>2, SamplesType
<1> QED
  BY <1>1, <1>2, <1>3 DEF At, EndAt

(* Events come in the order of their positions. *)
LEMMA InOrderOfTime ==
    ASSUME Inv, NEW i \in 1..EvLen, NEW j \in 1..EvLen, i <= j
    PROVE  At(prog, i) <= At(prog, j)
<1> DEFINE Ms(k) == prog.events[k].at_ms
           Early == {k \in 1..EvLen : i <= k /\ Ms(k) < Ms(i)}
<1>1. \A k \in 1..EvLen : Ms(k) \in Nat
  BY PositionTypes DEF Event
<1>2. ASSUME Early # {} PROVE FALSE
  <2>1. Early \subseteq Nat
    BY SizeFacts
  <2>2. PICK k \in Early : \A m \in Early : k <= m
    <3> HIDE DEF Early
    <3> QED
      BY <1>2, <2>1, LeastNatural
  <2>3. k - 1 \in 1..EvLen /\ i <= k - 1 /\ k - 1 # 0
    BY <1>1, <2>2, SizeFacts
  <2>4. Ms(k - 1) <= Ms(k)
    BY <2>2, <2>3, SizeFacts, ProgramFacts DEF AtMs
  <2>5. k - 1 \in Early
    BY <1>1, <2>2, <2>3, <2>4
  <2> QED
    BY <2>2, <2>5
<1>3. Ms(i) <= Ms(j)
  BY <1>1, <1>2
<1> QED
  BY <1>1, <1>3, RateAssumption, AtGrows DEF At

(* Of the events that have timed a carrier one is the latest. *)
LEMMA LatestTimed ==
    ASSUME Inv, NEW op, Timed(op) # {}
    PROVE  \E k \in Timed(op) :
              /\ k \in 1..EvLen /\ k < gen.event
              /\ \A j \in Timed(op) : j <= k
              /\ EndOf(op) = EndAt(prog, k)
<1>1. Timed(op) \subseteq 0..EvLen /\ \A k \in Timed(op) : k \in 1..EvLen /\ k < gen.event
  BY GenFacts, SizeFacts DEF Timed, TimedBefore
<1>2. \E k \in Timed(op) : \A j \in Timed(op) : j <= k
  BY <1>1, SizeFacts, GreatestNatural
<1>3. Latest(Timed(op)) \in Timed(op) /\ \A j \in Timed(op) : j <= Latest(Timed(op))
  BY <1>2 DEF Latest
<1>4. EndOf(op) = EndAt(prog, Latest(Timed(op)))
  BY DEF EndOf
<1> QED
  BY <1>1, <1>3, <1>4

(* Of two latest events there is only one. *)
LEMMA LatestIsEnd ==
    ASSUME Inv, NEW op, NEW k \in Timed(op), \A j \in Timed(op) : j <= k
    PROVE  EndOf(op) = EndAt(prog, k) /\ k \in 1..EvLen /\ k < gen.event
<1>1. PICK i \in Timed(op) : /\ i \in 1..EvLen /\ i < gen.event
                             /\ \A j \in Timed(op) : j <= i
                             /\ EndOf(op) = EndAt(prog, i)
  BY LatestTimed
<1>2. k \in Int /\ i <= k /\ k <= i
  BY <1>1 DEF Timed, TimedBefore
<1> QED
  BY <1>1, <1>2

LEMMA EndOfType ==
    ASSUME Inv, NEW op
    PROVE  EndOf(op) \in Nat /\ (EndOf(op) > 0 => Timed(op) # {})
<1>1. CASE Timed(op) = {}
  BY <1>1 DEF EndOf
<1>2. CASE Timed(op) # {}
  BY <1>2, LatestTimed, PositionTypes
<1> QED
  BY <1>1, <1>2

(* When all events so far have been reached at t and no others, what       *)
(* sounds are the carriers that have not ended.                            *)
LEMMA SoundingNow ==
    ASSUME Inv, NEW t \in Nat,
           \A k \in 1..EvLen : k < gen.event => At(prog, k) <= t,
           \A k \in 1..EvLen : k >= gen.event => At(prog, k) > t,
           NEW k \in 1..EvLen
    PROVE  LET op == prog.events[k].carr_op_id
           IN  Sounding(prog, k, t) <=>
                  k \in Timed(op) /\ (\A j \in Timed(op) : j <= k) /\ EndAt(prog, k) > t
<1> DEFINE op == prog.events[k].carr_op_id
<1>1. /\ \A j \in 1..EvLen : At(prog, j) \in Nat /\ EndAt(prog, j) \in Nat
      /\ gen.event \in Nat /\ gen.event <= EvLen + 1 /\ EvLen \in Nat
      /\ EvCount(prog) = EvLen
  BY PositionTypes, GenFacts, SizeFacts DEF EvCount, EvLen
<1>2. ASSUME Sounding(prog, k, t)
      PROVE  k \in Timed(op) /\ (\A j \in Timed(op) : j <= k) /\ EndAt(prog, k) > t
  <2>1. k < gen.event /\ k \in Timed(op)
    BY <1>1, <1>2 DEF Sounding, Timed, TimedBefore
  <2>2. ASSUME NEW j \in Timed(op), j > k PROVE FALSE
    <3>1. j \in 1..EvLen /\ j < gen.event /\ j \in (k + 1)..EvCount(prog)
      BY <1>1, <2>2 DEF Timed, TimedBefore
    <3> QED
      BY <1>2, <2>2, <3>1 DEF Sounding, Timed, TimedBefore
  <2>3. \A j \in Timed(op) : j \in Int
    BY DEF Timed, TimedBefore
  <2>4. EndAt(prog, k) > t
    BY <1>1, <1>2 DEF Sounding
  <2> QED
    BY <1>1, <2>1, <2>2, <2>3, <2>4
<1>3. ASSUME k \in Timed(op), \A j \in Timed(op) : j <= k, EndAt(prog, k) > t
      PROVE  Sounding(prog, k, t)
  <2>1. prog.events[k].sets_time /\ At(prog, k) <= t
    BY <1>1, <1>3 DEF Timed, TimedBefore
  <2>2. ASSUME NEW j \in (k + 1)..EvCount(prog),
               prog.events[j].sets_time, prog.events[j].carr_op_id = op, At(prog, j) <= t
        PROVE  FALSE
    <3>1. j \in 1..EvLen /\ j < gen.event /\ j > k
      BY <1>1, <2>2
    <3>2. j \in Timed(op)
      BY <1>1, <2>2, <3>1 DEF Timed, TimedBefore
    <3> QED
      BY <1>3, <3>1, <3>2
  <2> QED
    BY <1>1, <1>3, <2>1, <2>2 DEF Sounding
<1> QED
  BY <1>2, <1>3

(* The sample of the signal at such a time. *)
LEMMA SampleNow ==
    ASSUME Inv, NEW t \in Nat,
           \A k \in 1..EvLen : k < gen.event => At(prog, k) <= t,
           \A k \in 1..EvLen : k >= gen.event => At(prog, k) > t
    PROVE  IdealSample(prog, t) = {<<op, EndOf(op) - t>> : op \in {o \in Ops : EndOf(o) > t}}
<1> DEFINE ideal == IdealSample(prog, t)
           now == {<<op, EndOf(op) - t>> : op \in {o \in Ops : EndOf(o) > t}}
<1>1. EvCount(prog) = EvLen
  BY DEF EvCount, EvLen
<1>2. ASSUME NEW s \in ideal PROVE s \in now
  <2>1. PICK k \in 1..EvLen : /\ Sounding(prog, k, t)
                              /\ s = <<prog.events[k].carr_op_id, EndAt(prog, k) - t>>
    BY <1>1, <1>2 DEF IdealSample
  <2>2. EndOf(prog.events[k].carr_op_id) = EndAt(prog, k) /\ EndAt(prog, k) > t
    BY <2>1, SoundingNow, LatestIsEnd
  <2>3. prog.events[k].carr_op_id \in Ops
    BY PositionTypes
  <2> QED
    BY <2>1, <2>2, <2>3
<1>3. ASSUME NEW s \in now PROVE s \in ideal
  <2>1. PICK op \in Ops : EndOf(op) > t /\ s = <<op, EndOf(op) - t>>
    BY <1>3
  <2>2. Timed(op) # {}
    BY <2>1, EndOfType
  <2>3. PICK k \in Timed(op) : /\ k \in 1..EvLen /\ \A j \in Timed(op) : j <= k
                               /\ EndOf(op) = EndAt(prog, k)
    BY <2>2, LatestTimed
  <2>4. prog.events[k].carr_op_id = op
    BY <2>3 DEF Timed, TimedBefore
  <2>5. Sounding(prog, k, t)
    BY <2>1, <2>3, <2>4, SoundingNow
  <2> QED
    BY <1>1, <2>1, <2>3, <2>4, <2>5 DEF IdealSample
<1> QED
  BY <1>2, <1>3

-----------------------------------------------------------------------------
(* Where the code is in the signal. *)

(* The invariants together, of programs that reuse voices once expired. *)
SInv == Inv /\ ReuseExpired /\ StreamInv

(* Now lies within the run, which no event that is yet to come falls into. *)
LEMMA NowFacts ==
    ASSUME SInv
    PROVE  /\ Now \in Nat /\ Now <= RunEnd /\ RunEnd \in Nat
           /\ pc = "voices" => Now + run.len <= RunEnd
           /\ InCall => Now >= pos + call.sp
           /\ \A k \in 1..EvLen : k < gen.event => At(prog, k) <= Now
           /\ pc # "convert" => \A k \in 1..EvLen : k >= gen.event => At(prog, k) >= RunEnd
<1>1. Inv /\ CallAccounting /\ EventClock /\ TimelineExact /\ EventsReached
      /\ pc \in {"convert", "idle", "events", "blocks", "voices", "advance", "ended"}
  BY DEF SInv, StreamInv, Inv, IInv, TypeOK
<1>2. /\ call.sp \in Nat /\ call.len \in Nat /\ pos \in Nat /\ run.time \in Nat
      /\ run.len \in Nat /\ run.gen_len \in Nat
  BY <1>1, CallFacts, RunFacts, TimeFacts
<1>3. /\ pc = "blocks" => run.time <= call.len
      /\ pc = "voices" => run.time + run.len <= call.len
  BY <1>1, <1>2 DEF CallAccounting
<1>4. /\ Now \in Nat /\ Now <= RunEnd /\ RunEnd \in Nat
      /\ pc = "voices" => Now + run.len <= RunEnd
      /\ InCall => Now >= pos + call.sp
      /\ ~InCall => Now = pos
  BY <1>1, <1>2, <1>3 DEF Now, RunEnd, InCall
<1>5. ASSUME NEW k \in 1..EvLen, k < gen.event PROVE At(prog, k) <= Now
  BY <1>1, <1>2, <1>4, <1>5, PositionTypes DEF EventsReached
<1>6. ASSUME pc # "convert", NEW k \in 1..EvLen, k >= gen.event
      PROVE  At(prog, k) >= RunEnd
  <2>1. gen.event \in 1..EvLen /\ gen.event # 0
    BY <1>1, <1>6, GenFacts, SizeFacts
  <2>2. RunEnd = AtOrZero(gen.event - 1) + gen.event_pos
        /\ gen.event_pos <= timeline[gen.event]
    BY <1>1, <1>6, <2>1 DEF EventClock
  <2>3. timeline[gen.event] = AtOrZero(gen.event) - AtOrZero(gen.event - 1)
    BY <1>1, <1>6, <2>1, TimeFacts DEF TimelineExact
  <2>4. AtOrZero(gen.event) = At(prog, gen.event)
        /\ AtOrZero(gen.event - 1) \in Nat /\ At(prog, gen.event) \in Nat
    BY <1>1, <2>1, AtFacts DEF AtOrZero
  <2>5. At(prog, gen.event) <= At(prog, k) /\ At(prog, k) \in Nat
    BY <1>1, <1>6, <2>1, InOrderOfTime, PositionTypes
  <2> QED
    BY <1>1, <2>2, <2>3, <2>4, <2>5, GenFacts
<1> QED
  BY <1>1, <1>4, <1>5, <1>6

(* The sample of the signal at any point of the block. *)
LEMMA SampleInBlock ==
    ASSUME SInv, pc = "voices", NEW x \in Nat, x < run.len
    PROVE  IdealSample(prog, Now + x) =
              {<<op, EndOf(op) - (Now + x)>> : op \in {o \in Ops : EndOf(o) > Now + x}}
<1>1. Inv /\ Now \in Nat /\ RunEnd \in Nat /\ run.len \in Nat /\ Now + run.len <= RunEnd
  BY NowFacts, RunFacts DEF SInv
<1>2. \A k \in 1..EvLen : At(prog, k) \in Nat
  BY <1>1, PositionTypes
<1>3. /\ \A k \in 1..EvLen : k < gen.event => At(prog, k) <= Now + x
      /\ \A k \in 1..EvLen : k >= gen.event => At(prog, k) > Now + x
  BY <1>1, <1>2, NowFacts
<1> QED
  BY <1>1, <1>3, SampleNow

(* As long as no event is handled, carriers end where they did. *)
LEMMA EndsKept ==
    ASSUME [Next]_vars, gen'.event = gen.event
    PROVE  \A op : EndOf(op)' = EndOf(op)
<1>1. prog' = prog
  BY ProgConstant
<1>2. ASSUME NEW op PROVE EndOf(op)' = EndOf(op)
  <2>1. Timed(op)' = Timed(op)
    BY <1>1 DEF Timed, TimedBefore
  <2>2. Latest(Timed(op))' = Latest(Timed(op))
    BY <2>1
  <2> QED
    BY <1>1, <2>1, <2>2 DEF EndOf, EndAt, At
<1> QED
  BY <1>2

-----------------------------------------------------------------------------
(* The initial states. *)

LEMMA InitStream ==
    ASSUME Init
    PROVE  StreamInv
<1>1. /\ pc = "convert" /\ gen.event = 1 /\ pos = 0 /\ call = NoCall /\ ~InCall
      /\ prog \in Programs /\ Now = 0
  BY DEF Init, InCall, Now
<1>2. EvLen \in Nat /\ \A op : Timed(op) = {}
  BY <1>1, ProgramFacts DEF Timed, TimedBefore
<1>3. \A op : EndOf(op) = 0
  BY <1>2 DEF EndOf
<1>4. \A op \in Ops : operators[op].time = 0
  BY DEF Init
<1>5. \A v \in VoiceIds : ~voices[v].init
  BY DEF Init
<1>6. CarrierClock
  BY <1>1, <1>3, <1>4, <1>5 DEF CarrierClock, Remaining, Reached
<1>7. EventsReached
  BY <1>1, <1>2 DEF EventsReached
<1> QED
  BY <1>1, <1>6, <1>7 DEF StreamInv, MixExact, BufferExact, LengthExact

-----------------------------------------------------------------------------
(* EventsReached: handling an event is what reaches it. *)
LEMMA ReachedStep ==
    ASSUME SInv, [Next]_vars
    PROVE  EventsReached'
<1>1. /\ Inv /\ EventsReached /\ CallAccounting /\ LengthExact
      /\ prog' = prog /\ EvLen' = EvLen
  BY ProgConstant DEF SInv, StreamInv, Inv, IInv
<1>2. \A k : At(prog, k)' = At(prog, k)
  BY <1>1 DEF At
<1>3. /\ call.sp \in Nat /\ call.len \in Nat /\ call.skip_len \in Nat /\ call.gen_len \in Nat
      /\ pos \in Nat /\ gen.event \in Nat /\ gen.event <= EvLen + 1 /\ EvLen \in Nat
      /\ ChLen \in Nat /\ ChLen > 0 /\ gen.event_pos \in Nat
      /\ \A k \in 1..EvLen : At(prog, k) \in Nat
  BY <1>1, CallFacts, TimeFacts, GenFacts, SizeFacts, PositionTypes
<1>4. CASE Create \/ CallAgain \/ UNCHANGED vars
  <2>1. /\ pos' = pos /\ call' = call /\ gen' = gen
        /\ (~InCall /\ ~InCall') \/ (pc' = pc /\ timeline' = timeline)
    BY <1>4 DEF Create, ConvertEvent, Created, CallAgain, vars, progVars, nodeVars,
                histVars, InCall
  <2> QED
    BY <1>1, <1>2, <2>1 DEF EventsReached, EventDue, InCall
<1>5. CASE Call
  <2>1. /\ pos' = pos /\ gen'.event = gen.event /\ ~InCall /\ pc' = "events"
        /\ call'.sp = 0 /\ call'.len = ChLen
    BY <1>5, GenFacts, <1>1 DEF Call, NoCall, histVars, GenType, InCall
  <2> QED
    BY <1>1, <1>2, <1>3, <2>1 DEF EventsReached
<1>6. CASE HandleEvent
  <2>1. /\ pos' = pos /\ gen'.event = gen.event + 1 /\ pc = "events" /\ pc' = "events"
        /\ call' = call
    BY <1>6, GenFacts, <1>1 DEF HandleEvent, histVars, GenType
  <2>2. At(prog, gen.event) = pos + call.sp /\ gen.event \in 1..EvLen
    BY <1>1, <1>6, DueClock DEF AtOrZero, StreamPos
  <2>3. InCall /\ InCall'
    BY <2>1 DEF InCall
  <2> QED
    BY <1>1, <1>2, <1>3, <2>1, <2>2, <2>3 DEF EventsReached
<1>7. CASE BeginRun
  <2>1. /\ pos' = pos /\ gen'.event = gen.event /\ pc = "events" /\ pc' = "blocks"
        /\ ~EventDue /\ InCall /\ InCall' /\ timeline' = timeline
        /\ call'.sp = call.sp /\ call'.len = RunLen /\ call'.skip_len = call.len - RunLen
        /\ gen.event <= EvLen => gen'.event_pos = gen.event_pos + RunLen
    BY <1>7, GenFacts, CallFacts, SizeFacts, <1>1
       DEF BeginRun, EventPos, GenType, CallType, histVars, progVars, InCall
  <2>2. RunLen \in Nat /\ RunLen > 0
        /\ (call.len - RunLen > 0 =>
               gen.event <= EvLen /\ timeline[gen.event] = gen.event_pos + RunLen)
    <3>1. call.len > 0
      BY <1>1, <2>1 DEF EventsReached
    <3>2. CASE gen.event > EvLen
      BY <1>3, <3>1, <3>2 DEF RunLen
    <3>3. CASE gen.event <= EvLen
      <4>1. timeline[gen.event] \in Nat /\ timeline[gen.event] > gen.event_pos
        BY <1>1, <1>3, <2>1, <3>3, RunLenType DEF EventDue
      <4>2. RunLen = Lesser(call.len, timeline[gen.event] - gen.event_pos)
        BY <1>3, <3>3 DEF RunLen
      <4> QED
        BY <1>3, <3>1, <3>3, <4>1, <4>2 DEF Lesser
    <3> QED
      BY <1>3, <3>2, <3>3
  <2> QED
    BY <1>1, <1>2, <1>3, <2>1, <2>2 DEF EventsReached
<1>8. CASE BeginBlock \/ SkipVoice \/ RunVoice \/ EndBlock \/ AdvanceVoice
  <2>1. /\ pos' = pos /\ call' = call /\ timeline' = timeline
        /\ gen'.event = gen.event /\ gen'.event_pos = gen.event_pos
        /\ InCall /\ InCall' /\ pc # "events" /\ pc' # "events"
        /\ pc \in {"blocks", "voices"} <=> pc' \in {"blocks", "voices"}
    BY <1>8, GenFacts, <1>1
       DEF BeginBlock, SkipVoice, RunVoice, EndBlock, Unclear, AdvanceVoice,
           GenType, histVars, progVars, nodeVars, InCall
  <2> QED
    BY <1>1, <1>2, <2>1 DEF EventsReached
<1>9. CASE EndRun
  <2>1. /\ pos' = pos /\ gen' = gen /\ timeline' = timeline /\ pc = "blocks" /\ InCall
        /\ \/ /\ call.skip_len > 0 /\ pc' = "events" /\ InCall'
              /\ call'.sp = call.sp + call.len /\ call'.len = call.skip_len
           \/ /\ pc' = "advance" /\ InCall' /\ call'.sp = call.sp /\ call'.len = call.len
    BY <1>9, CallFacts, <1>1 DEF EndRun, CallType, histVars, progVars, nodeVars, InCall
  <2>2. call.skip_len > 0 => gen.event <= EvLen /\ timeline[gen.event] = gen.event_pos
    BY <1>1, <2>1 DEF EventsReached
  <2> QED
    BY <1>1, <1>2, <1>3, <2>1, <2>2 DEF EventsReached, EventDue
<1>10. CASE ReturnMore \/ ReturnEnd
  <2>1. /\ gen' = gen /\ pc = "advance" /\ InCall /\ ~InCall'
        /\ pc' \notin {"blocks", "voices"}
        /\ pos' = pos + ChLen \/ pos' = pos + call.gen_len
    BY <1>10 DEF ReturnMore, ReturnEnd, Return, nodeVars, InCall
  <2>2. call.sp <= ChLen /\ call.sp <= call.gen_len
    BY <1>1, <2>1, CallFacts DEF LengthExact, GenLen
  <2> QED
    BY <1>1, <1>2, <1>3, <2>1, <2>2 DEF EventsReached
<1> QED
  BY <1>4, <1>5, <1>6, <1>7, <1>8, <1>9, <1>10 DEF Next, Run, RunBlock, Finish

-----------------------------------------------------------------------------
(* CarrierClock: carriers and their voices keep time with the signal.      *)

(* What is left of a time that has been reached, or is run for a while. *)
LEMMA RemainingFacts ==
    ASSUME NEW end \in Nat, NEW t \in Nat, NEW n \in Nat
    PROVE  /\ Remaining(end, t) \in Nat
           /\ Remaining(end, t) = 0 <=> end <= t
           /\ Remaining(end, t) > 0 => Remaining(end, t) = end - t
           /\ Remaining(end, t) = 0 => Remaining(end, t + n) = 0
           /\ Remaining(end, t + n) = Remaining(end, t) - Lesser(Remaining(end, t), n)
  BY DEF Remaining, Lesser

(* At the end of the signal no carrier has anything left past what is      *)
(* reported as generated.                                                  *)
LEMMA NoneLeft ==
    ASSUME SInv, pc = "advance", AtEnd, NEW op \in Ops
    PROVE  EndOf(op) <= pos + call.gen_len
<1> SUFFICES ASSUME EndOf(op) > pos + call.gen_len PROVE FALSE
  BY EndOfType, TimeFacts, CallFacts DEF SInv
<1>1. /\ Inv /\ CarrierClock /\ BufferExact /\ LengthExact /\ EventsReached
      /\ CallAccounting /\ SkippedVoicesSilent /\ InCall /\ GenLen = call.gen_len
  BY DEF SInv, StreamInv, Inv, IInv, InCall, GenLen
<1>2. /\ pos \in Nat /\ call.sp \in Nat /\ call.gen_len \in Nat /\ call.len \in Nat
      /\ call.sp <= call.gen_len /\ ChLen \in Nat /\ EvLen \in Nat /\ gen.event > EvLen
      /\ EndOf(op) \in Nat
  BY <1>1, TimeFacts, CallFacts, SizeFacts, EndOfType DEF LengthExact, AtEnd
<1>3. Now = pos + ChLen
  BY <1>1, <1>2, CallFacts DEF CallAccounting, Now
<1>4. CASE call.gen_len < ChLen
  <2> DEFINE t == pos + call.gen_len
  <2>1. IdealSample(prog, t) = Silence
    BY <1>1, <1>2, <1>3, <1>4 DEF BufferExact, LengthExact
  <2>2. /\ \A k \in 1..EvLen : k < gen.event => At(prog, k) <= t
        /\ \A k \in 1..EvLen : k >= gen.event => At(prog, k) > t
    BY <1>1, <1>2, PositionTypes, GenFacts DEF EventsReached
  <2>3. IdealSample(prog, t) = {<<o, EndOf(o) - t>> : o \in {o \in Ops : EndOf(o) > t}}
    BY <1>1, <1>2, <2>2, SampleNow
  <2> QED
    BY <2>1, <2>3 DEF Silence
<1>5. CASE call.gen_len >= ChLen
  <2>1. EndOf(op) > Now
    BY <1>2, <1>3, <1>5
  <2>2. PICK v \in VoiceIds : voices[v].init /\ voices[v].carr_op_id = op
    BY <1>1, <2>1 DEF CarrierClock
  <2>3. voices[v].duration = Remaining(EndOf(op), Now)
    BY <1>1, <2>2 DEF CarrierClock, Reached
  <2>4. voices[v].duration # 0
    BY <1>2, <1>3, <2>1, <2>3 DEF Remaining
  <2>5. v < gen.voice
    BY SizeFacts, <1>1 DEF AtEnd, VoiceIds
  <2> QED
    BY <1>1, <2>4, <2>5 DEF SkippedVoicesSilent
<1> QED
  BY <1>2, <1>4, <1>5

(* What an event takes over from another carrier has nothing left.         *)
LEMMA ExpiredHasEnded ==
    ASSUME SInv, HandleEvent,
           NEW e, e = prog.events[gen.event],
           NEW op \in Ops, op # e.carr_op_id, Owns(prog, gen.event, e.vo_id, op)
    PROVE  EndOf(op) <= Now
<1>1. /\ Inv /\ gen.event \in 1..EvLen /\ e \in Event /\ EvLen \in Nat
      /\ Now = At(prog, gen.event)
  BY DueEvent, DueClock, SizeFacts DEF SInv, Now, HandleEvent, StreamPos, AtOrZero
<1>2. ExpiredMs(prog, gen.event, op)
  <2>1. ReusesOnlyExpired(prog)
    BY <1>1, SizeFacts DEF SInv, ReuseExpired
  <2> QED
    BY <1>1, <2>1 DEF ReusesOnlyExpired, TakesExpired, EvCount, EvLen
<1>3. PICK j \in Timed(op) :
         /\ \A i \in Timed(op) : i <= j
         /\ prog.events[j].at_ms + prog.events[j].time_ms <= e.at_ms
  BY <1>2 DEF ExpiredMs, Timed
<1>4. j \in 1..EvLen /\ EndOf(op) = EndAt(prog, j)
  BY <1>1, <1>3, LatestIsEnd
<1> DEFINE a == prog.events[j].at_ms
           b == prog.events[j].time_ms
           c == e.at_ms
<1>5. a \in Nat /\ b \in Nat /\ c \in Nat /\ a + b <= c
  BY <1>1, <1>3, <1>4, PositionTypes DEF Event
<1> HIDE DEF a, b, c
<1>6. /\ a * Srate \in Nat /\ b * Srate \in Nat /\ c * Srate \in Nat
      /\ a * Srate + b * Srate <= c * Srate
  <2>1. (a + b) * Srate <= c * Srate /\ (a + b) * Srate = a * Srate + b * Srate
    BY <1>5, Products, RateAssumption
  <2> QED
    BY <1>5, <2>1, Products, RateAssumption
<1>7. MsInSamples(a) + MsInSamples(b) <= MsInSamples(c)
  BY <1>6, RoundedParts, RateAssumption DEF MsInSamples
<1> QED
  BY <1>1, <1>4, <1>7 DEF EndAt, At, a, b, c

(* What an event does to where carriers end. *)
LEMMA EndsAfterEvent ==
    ASSUME SInv, HandleEvent,
           NEW e, e = prog.events[gen.event],
           NEW op \in Ops
    PROVE  EndOf(op)' = IF op = e.carr_op_id /\ e.sets_time THEN EndAt(prog, gen.event)
                        ELSE EndOf(op)
<1>1. /\ Inv /\ gen.event \in 1..EvLen /\ gen.event \in Nat /\ prog' = prog
      /\ gen'.event = gen.event + 1
  BY DueEvent, HandleEventFacts DEF SInv, HandleEvent, progVars
<1>2. CASE op = e.carr_op_id /\ e.sets_time
  <2>1. Timed(op)' = Timed(op) \union {gen.event}
    BY <1>1, <1>2 DEF Timed, TimedBefore
  <2>2. \A j \in Timed(op) : j \in Int /\ j < gen.event
    BY <1>1 DEF Timed, TimedBefore
  <2>3. Latest(Timed(op)') = gen.event
    <3> DEFINE S == Timed(op)'
    <3>1. gen.event \in S /\ \A j \in S : j <= gen.event
      BY <1>1, <2>1, <2>2
    <3>2. \A k \in S : (\A j \in S : j <= k) => k = gen.event
      BY <1>1, <2>1, <2>2
    <3> HIDE DEF S
    <3> QED
      BY <3>1, <3>2 DEF Latest, S
  <2> QED
    BY <1>1, <1>2, <2>1, <2>3 DEF EndOf, EndAt, At
<1>3. CASE ~(op = e.carr_op_id /\ e.sets_time)
  <2>1. Timed(op)' = Timed(op)
    BY <1>1, <1>3 DEF Timed, TimedBefore
  <2>2. Latest(Timed(op))' = Latest(Timed(op))
    BY <2>1
  <2> QED
    BY <1>1, <1>3, <2>1, <2>2 DEF EndOf, EndAt, At
<1> QED
  BY <1>2, <1>3

(* handle_event() sets the time of a carrier, and takes a voice only from  *)
(* one that has ended.                                                     *)
LEMMA ClockAfterEvent ==
    ASSUME SInv, [Next]_vars, HandleEvent
    PROVE  CarrierClock'
<1> DEFINE e == prog.events[gen.event]
<1>1. /\ Inv /\ CarrierClock /\ Ownership /\ DurationMatchesCarrier
      /\ prog' = prog /\ VoiceIds' = VoiceIds /\ pos' = pos /\ call' = call
      /\ pc = "events" /\ pc' = "events"
      /\ e.vo_id \in VoiceIds /\ e.carr_op_id \in Ops /\ gen.event \in 1..EvLen
  BY ProgConstant, DueEvent
     DEF SInv, StreamInv, Inv, IInv, HandleEvent, histVars
<1>2. Now' = Now /\ Now = At(prog, gen.event) /\ Now \in Nat
  BY <1>1, DueClock, NowFacts DEF Now, StreamPos, AtOrZero
<1>3. /\ voices'[e.vo_id].init
      /\ voices'[e.vo_id].duration = OperatorAfter(e).time
      /\ voices'[e.vo_id].carr_op_id = e.carr_op_id
      /\ operators'[e.carr_op_id] = OperatorAfter(e)
      /\ \A v \in VoiceIds : v # e.vo_id => voices'[v] = voices[v]
      /\ \A op \in Ops : op # e.carr_op_id => operators'[op] = operators[op]
  BY <1>1, HandleEventFacts
<1>4. \A op \in Ops : EndOf(op)' = IF op = e.carr_op_id /\ e.sets_time
                                  THEN EndAt(prog, gen.event) ELSE EndOf(op)
  BY EndsAfterEvent
<1>5. ASSUME NEW op \in Ops
      PROVE  operators'[op].time = Remaining(EndOf(op)', Now)
  <2>1. operators[op].time = Remaining(EndOf(op), Now)
    BY <1>1 DEF CarrierClock, Reached
  <2>2. CASE op = e.carr_op_id /\ e.sets_time
    <3>1. MsInSamples(e.time_ms) \in Nat
      BY <1>1, PositionTypes, SamplesType DEF Event
    <3>2. EndAt(prog, gen.event) = Now + MsInSamples(e.time_ms)
      BY <1>2 DEF EndAt
    <3> QED
      BY <1>2, <1>3, <1>4, <2>2, <3>1, <3>2 DEF OperatorAfter, Remaining
  <2>3. CASE op = e.carr_op_id /\ ~e.sets_time
    BY <1>3, <1>4, <2>1, <2>3 DEF OperatorAfter
  <2>4. CASE op # e.carr_op_id
    BY <1>3, <1>4, <2>1, <2>4
  <2> QED
    BY <2>2, <2>3, <2>4
<1>6. ASSUME NEW v \in VoiceIds, voices'[v].init
      PROVE  voices'[v].duration = operators'[voices'[v].carr_op_id].time
  <2>1. CASE v = e.vo_id
    BY <1>3, <2>1
  <2>2. CASE v # e.vo_id
    <3>1. voices[v].init /\ voices'[v] = voices[v] /\ voices[v].carr_op_id \in Ops
      BY <1>1, <1>3, <1>6, <2>2, NodeFacts
    <3>2. voices[v].carr_op_id # e.carr_op_id
      BY <1>1, <2>2, <3>1, OtherVoices
    <3> QED
      BY <1>1, <1>3, <3>1, <3>2 DEF CarrierClock
  <2> QED
    BY <2>1, <2>2
<1>7. ASSUME NEW op \in Ops, EndOf(op)' > Now
      PROVE  \E v \in VoiceIds : voices'[v].init /\ voices'[v].carr_op_id = op
  <2>1. CASE op = e.carr_op_id
    BY <1>1, <1>3, <2>1
  <2>2. CASE op # e.carr_op_id
    <3>1. EndOf(op) > Now
      BY <1>4, <1>7, <2>2
    <3>2. PICK v \in VoiceIds : voices[v].init /\ voices[v].carr_op_id = op
      BY <1>1, <3>1 DEF CarrierClock
    <3>3. v # e.vo_id
      <4>1. Owns(prog, gen.event, v, op)
        BY <1>1, <3>2 DEF Ownership
      <4>2. ASSUME v = e.vo_id PROVE FALSE
        <5>1. EndOf(op) <= Now
          BY <2>2, <4>1, <4>2, ExpiredHasEnded
        <5> QED
          BY <1>1, <1>2, <3>1, <5>1, EndOfType
      <4> QED
        BY <4>2
    <3> QED
      BY <1>3, <3>2, <3>3
  <2> QED
    BY <2>1, <2>2
<1>8. \A op : Reached(op)' = Now
  BY <1>1, <1>2 DEF Reached
<1> QED
  BY <1>1, <1>2, <1>5, <1>6, <1>7, <1>8 DEF CarrierClock

(* The start of a block: the voices its loop leaves out have ended. *)
LEMMA ClockAtBlock ==
    ASSUME SInv, [Next]_vars, BeginBlock
    PROVE  CarrierClock'
<1>1. /\ Inv /\ CarrierClock /\ SkippedVoicesSilent
      /\ prog' = prog /\ VoiceIds' = VoiceIds /\ pos' = pos /\ call' = call
      /\ pc = "blocks" /\ pc' = "voices" /\ gen'.event = gen.event
      /\ voices' = voices /\ operators' = operators
      /\ run'.len \in Nat /\ run'.time \in Nat /\ run'.len + run'.time = run.time
      /\ run'.i = gen.voice
  BY ProgConstant, BeginBlockFacts, GenFacts
     DEF SInv, StreamInv, Inv, IInv, BeginBlock, histVars, GenType
<1>2. Now' = Now /\ Now \in Nat
  BY <1>1, NowFacts, CallFacts, RunFacts, TimeFacts DEF Now
<1>3. \A op : EndOf(op)' = EndOf(op)
  BY <1>1, EndsKept
<1>4. ASSUME NEW op \in Ops
      PROVE  operators'[op].time = Remaining(EndOf(op), Reached(op)')
  <2>1. operators[op].time = Remaining(EndOf(op), Now)
    BY <1>1 DEF CarrierClock, Reached
  <2>2. CASE Passed(op)'
    <3>1. PICK v \in VoiceIds : /\ v < gen.voice /\ voices[v].init
                                /\ voices[v].carr_op_id = op
      BY <1>1, <2>2 DEF Passed
    <3>2. operators[op].time = 0
      BY <1>1, <3>1 DEF SkippedVoicesSilent, CarrierClock
    <3>3. Reached(op)' = Now + run'.len
      BY <1>1, <1>2, <2>2 DEF Reached
    <3>4. EndOf(op) \in Nat
      BY <1>1, EndOfType
    <3>5. Remaining(EndOf(op), Now + run'.len) = 0
      BY <1>1, <1>2, <2>1, <3>2, <3>4, RemainingFacts
    <3> QED
      BY <1>1, <3>2, <3>3, <3>5
  <2>3. CASE ~Passed(op)'
    BY <1>1, <1>2, <2>1, <2>3 DEF Reached
  <2> QED
    BY <2>2, <2>3
<1> QED
  BY <1>1, <1>2, <1>3, <1>4 DEF CarrierClock

(* A voice that is passed over has ended, and so has its carrier. *)
LEMMA ClockPastVoice ==
    ASSUME SInv, [Next]_vars, SkipVoice
    PROVE  CarrierClock'
<1>1. /\ Inv /\ CarrierClock
      /\ prog' = prog /\ VoiceIds' = VoiceIds /\ pos' = pos /\ call' = call
      /\ pc = "voices" /\ pc' = "voices" /\ gen' = gen
      /\ voices' = voices /\ operators' = operators
      /\ run'.len = run.len /\ run'.time = run.time /\ run'.i = run.i + 1
      /\ run.i \in VoiceIds /\ voices[run.i].duration = 0
      /\ run.i \in Nat /\ run.len \in Nat
  BY ProgConstant, RunFacts, SizeFacts
     DEF SInv, StreamInv, Inv, IInv, SkipVoice, histVars, nodeVars, RunType, VoiceIds
<1>2. Now' = Now /\ Now \in Nat
  BY <1>1, NowFacts DEF Now
<1>3. \A op : EndOf(op)' = EndOf(op)
  BY <1>1, EndsKept
<1>4. ASSUME NEW op \in Ops
      PROVE  operators'[op].time = Remaining(EndOf(op), Reached(op)')
  <2>1. operators[op].time = Remaining(EndOf(op), Reached(op))
    BY <1>1 DEF CarrierClock
  <2>2. CASE Passed(op)
    <3>1. Passed(op)'
      BY <1>1, <2>2 DEF Passed, VoiceIds
    <3> QED
      BY <1>1, <1>2, <2>1, <2>2, <3>1 DEF Reached
  <2>3. CASE ~Passed(op) /\ Passed(op)'
    <3>1. voices[run.i].init /\ voices[run.i].carr_op_id = op
      <4>1. PICK v \in VoiceIds : v < run.i + 1 /\ voices[v].init /\ voices[v].carr_op_id = op
        BY <1>1, <2>3 DEF Passed
      <4>2. v \in Int /\ ~(v < run.i)
        BY <2>3, <4>1 DEF Passed, VoiceIds
      <4> QED
        BY <1>1, <4>1, <4>2
    <3>2. operators[op].time = 0
      BY <1>1, <3>1 DEF CarrierClock
    <3>3. Reached(op) = Now /\ Reached(op)' = Now + run.len
      BY <1>1, <1>2, <2>3 DEF Reached
    <3>4. EndOf(op) \in Nat
      BY <1>1, EndOfType
    <3>5. Remaining(EndOf(op), Now) = 0
      BY <2>1, <3>2, <3>3
    <3>6. Remaining(EndOf(op), Now + run.len) = 0
      BY <1>1, <1>2, <3>4, <3>5, RemainingFacts
    <3> QED
      BY <1>1, <3>2, <3>3, <3>6
  <2>4. CASE ~Passed(op) /\ ~Passed(op)'
    BY <1>1, <1>2, <2>1, <2>4 DEF Reached
  <2> QED
    BY <2>2, <2>3, <2>4
<1> QED
  BY <1>1, <1>2, <1>3, <1>4 DEF CarrierClock

(* What run_voice() does: its voice and its carrier move on together, and  *)
(* the loop is past the voice, and had not been past one of that carrier.  *)
LEMMA VoiceMoves ==
    ASSUME SInv, [Next]_vars, RunVoice,
           NEW op, op = voices[run.i].carr_op_id,
           NEW n, n = Lesser(voices[run.i].duration, run.len)
    PROVE  /\ op \in Ops /\ n \in Nat /\ n <= run.len /\ n <= operators[op].time
           /\ operators[op].time \in Nat /\ operators[op].time # 0
           /\ n < run.len => n = operators[op].time
           /\ operators'[op].time = operators[op].time - n
           /\ \A o \in Ops : o # op => operators'[o] = operators[o]
           /\ run.i \in VoiceIds /\ voices[run.i].init
           /\ \A v \in VoiceIds : /\ voices'[v].init = voices[v].init
                                  /\ voices'[v].carr_op_id = voices[v].carr_op_id
                                  /\ v # run.i => voices'[v] = voices[v]
           /\ voices'[run.i].duration = operators'[op].time
           /\ ~Passed(op) /\ Passed(op)'
           /\ \A o : o # op => Passed(o)' = Passed(o)
           /\ \A x \in 0..(BufLen - 1) :
                 mix'[x] = IF x < n THEN mix[x] \union {<<op, operators[op].time - x>>}
                           ELSE mix[x]
           /\ gen'.mix_add_max = Longest(gen.mix_add_max, n)
           /\ run'.last_len = Longest(run.last_len, n)
           /\ run'.len = run.len /\ run'.time = run.time /\ run'.gen_len = run.gen_len
           /\ gen'.event = gen.event /\ Now' = Now /\ Now \in Nat
           /\ pc = "voices" /\ pc' = "voices" /\ call' = call
<1>1. /\ Inv /\ Ownership /\ DurationMatchesCarrier /\ VoiceIds' = VoiceIds
      /\ pc = "voices" /\ pc' = "voices" /\ pos' = pos /\ call' = call
      /\ voices[run.i].duration # 0 /\ run.i \in Nat /\ run.len \in Nat
  BY ProgConstant, RunFacts DEF SInv, Inv, IInv, RunVoice, histVars
<1>2. LET time == Lesser(voices[run.i].duration, run.len)
          m == Lesser(time, operators[op].time)
      IN  /\ run.i \in VoiceIds /\ op \in Ops
          /\ voices[run.i].duration = operators[op].time
          /\ m = time /\ time = n
          /\ n \in Nat /\ n <= run.len
          /\ n < run.len => n = voices[run.i].duration
  BY <1>1, RunVoiceFacts, SizeFacts
<1>3. /\ voices[run.i].init /\ operators[op].time \in Nat /\ operators[op].time # 0
      /\ n <= operators[op].time
  BY <1>1, <1>2, NodeFacts DEF DurationMatchesCarrier, Lesser
<1>4. /\ operators' = [operators EXCEPT ![op].time = @ - n]
      /\ voices' = [voices EXCEPT ![run.i].duration = @ - n]
      /\ mix' = [x \in 0..(BufLen - 1) |->
                    IF x < n THEN mix[x] \union {<<op, operators[op].time - x>>}
                    ELSE mix[x]]
      /\ gen' = [gen EXCEPT !.mix_add_max = Longest(@, n)]
      /\ run' = [run EXCEPT !.i = @ + 1, !.last_len = Longest(@, n)]
  BY <1>2 DEF RunVoice
<1>5. /\ operators'[op].time = operators[op].time - n
      /\ \A o \in Ops : o # op => operators'[o] = operators[o]
      /\ voices'[run.i].duration = voices[run.i].duration - n
      /\ \A v \in VoiceIds : /\ voices'[v].init = voices[v].init
                             /\ voices'[v].carr_op_id = voices[v].carr_op_id
                             /\ v # run.i => voices'[v] = voices[v]
  BY <1>1, <1>2, <1>4, NodeFacts DEF VoiceType, OperatorType
<1>6. /\ run'.len = run.len /\ run'.time = run.time /\ run'.gen_len = run.gen_len
      /\ run'.i = run.i + 1 /\ run'.last_len = Longest(run.last_len, n)
      /\ gen'.event = gen.event /\ gen'.mix_add_max = Longest(gen.mix_add_max, n)
  BY <1>1, <1>4, RunFacts, GenFacts DEF RunType, GenType
<1>7. Now' = Now /\ Now \in Nat
  BY <1>1, <1>6, NowFacts DEF Now
<1>8. \A u \in VoiceIds : voices[u].init /\ voices[u].carr_op_id = op => u = run.i
  BY <1>1, <1>2, <1>3 DEF Ownership
<1>9. ~Passed(op)
  BY <1>1, <1>8 DEF Passed
<1>10. Passed(op)'
  BY <1>1, <1>2, <1>3, <1>5, <1>6 DEF Passed
<1>11. ASSUME NEW o, o # op PROVE Passed(o)' = Passed(o)
  <2>1. \A v \in VoiceIds : v # run.i => (v < run.i + 1 <=> v < run.i)
    BY <1>1, SizeFacts DEF VoiceIds
  <2> QED
    BY <1>1, <1>5, <1>6, <1>11, <2>1 DEF Passed
<1> QED
  BY <1>1, <1>2, <1>3, <1>4, <1>5, <1>6, <1>7, <1>9, <1>10, <1>11

(* A voice that is run counts down its carrier to the end of the block.    *)
LEMMA ClockAfterVoice ==
    ASSUME SInv, [Next]_vars, RunVoice
    PROVE  CarrierClock'
<1>1. PICK op, n : op = voices[run.i].carr_op_id /\ n = Lesser(voices[run.i].duration, run.len)
  OBVIOUS
<1>2. /\ Inv /\ CarrierClock /\ VoiceIds' = VoiceIds /\ Ownership /\ run.len \in Nat
  BY ProgConstant, RunFacts DEF SInv, StreamInv, Inv, IInv
<1>3. /\ op \in Ops /\ n \in Nat /\ n <= run.len
      /\ operators'[op].time = operators[op].time - n
      /\ \A o \in Ops : o # op => operators'[o] = operators[o]
      /\ run.i \in VoiceIds /\ voices[run.i].init
      /\ \A v \in VoiceIds : /\ voices'[v].init = voices[v].init
                             /\ voices'[v].carr_op_id = voices[v].carr_op_id
                             /\ v # run.i => voices'[v] = voices[v]
      /\ voices'[run.i].duration = operators'[op].time
      /\ ~Passed(op) /\ Passed(op)'
      /\ \A o : o # op => Passed(o)' = Passed(o)
      /\ run'.len = run.len
      /\ gen'.event = gen.event /\ Now' = Now /\ Now \in Nat
      /\ pc = "voices" /\ pc' = "voices"
  BY <1>1, VoiceMoves
<1>4. \A o : EndOf(o)' = EndOf(o)
  BY <1>3, EndsKept
<1>5. ASSUME NEW o \in Ops
      PROVE  operators'[o].time = Remaining(EndOf(o), Reached(o)')
  <2>1. operators[o].time = Remaining(EndOf(o), Reached(o)) /\ EndOf(o) \in Nat
    BY <1>2, EndOfType DEF CarrierClock
  <2>2. CASE o = op
    <3>1. Reached(o) = Now /\ Reached(o)' = Now + run.len
      BY <1>3, <2>2 DEF Reached
    <3>2. n = Lesser(operators[op].time, run.len)
      BY <1>1, <1>2, <1>3 DEF CarrierClock
    <3>3. run.len \in Nat /\ Now \in Nat /\ EndOf(o) \in Nat
      BY <1>2, <1>3, <2>1
    <3>4. Remaining(EndOf(o), Now + run.len)
             = Remaining(EndOf(o), Now) - Lesser(Remaining(EndOf(o), Now), run.len)
      BY <3>3, RemainingFacts
    <3> QED
      BY <1>3, <2>1, <2>2, <3>1, <3>2, <3>4
  <2>3. CASE o # op
    BY <1>3, <2>1, <2>3 DEF Reached
  <2> QED
    BY <2>2, <2>3
<1>6. ASSUME NEW v \in VoiceIds, voices'[v].init
      PROVE  voices'[v].duration = operators'[voices'[v].carr_op_id].time
  <2>1. CASE v = run.i
    BY <1>1, <1>3, <2>1
  <2>2. CASE v # run.i
    <3>1. voices[v].init /\ voices'[v] = voices[v] /\ voices[v].carr_op_id \in Ops
      BY <1>2, <1>3, <1>6, <2>2, NodeFacts
    <3>2. voices[v].carr_op_id # op
      BY <1>1, <1>2, <1>3, <2>2, <3>1 DEF Ownership
    <3> QED
      BY <1>2, <1>3, <3>1, <3>2 DEF CarrierClock
  <2> QED
    BY <2>1, <2>2
<1>7. \A o \in Ops : EndOf(o)' > Now' =>
         \E v \in VoiceIds : voices'[v].init /\ voices'[v].carr_op_id = o
  BY <1>2, <1>3, <1>4 DEF CarrierClock
<1> QED
  BY <1>2, <1>4, <1>5, <1>6, <1>7 DEF CarrierClock

(* Only the end of a block and that of the signal move the code on in it.  *)
LEMMA NowKept ==
    ASSUME SInv, [Next]_vars, ~EndBlock, ~ReturnEnd
    PROVE  Now' = Now
<1>1. /\ Inv /\ CallAccounting
      /\ call.sp \in Nat /\ call.len \in Nat /\ call.skip_len \in Nat /\ ChLen \in Nat
      /\ pos \in Nat /\ run.time \in Nat /\ run.len \in Nat
  BY CallFacts, TimeFacts, RunFacts, SizeFacts DEF SInv, Inv, IInv
<1>2. CASE Create \/ CallAgain \/ HandleEvent \/ AdvanceVoice \/ UNCHANGED vars
  <2>1. /\ pos' = pos /\ call' = call
        /\ \/ pc' = pc /\ run' = run
           \/ pc \in {"convert", "ended"} /\ pc' = "idle"
    BY <1>2 DEF Create, ConvertEvent, Created, CallAgain, HandleEvent, AdvanceVoice,
                vars, histVars
  <2> QED
    BY <2>1 DEF Now
<1>3. CASE Call
  <2>1. pc = "idle" /\ pc' = "events" /\ pos' = pos /\ call'.sp = 0
    BY <1>3, SizeFacts DEF Call, NoCall, histVars
  <2> QED
    BY <1>1, <2>1 DEF Now
<1>4. CASE BeginRun
  <2>1. /\ pc = "events" /\ pc' = "blocks" /\ pos' = pos /\ call'.sp = call.sp
        /\ call'.len = RunLen /\ run'.time = RunLen /\ RunLen \in Nat
    BY <1>1, <1>4, CallFacts, RunLenType DEF BeginRun, NoRun, CallType, histVars
  <2> QED
    BY <1>1, <2>1 DEF Now
<1>5. CASE BeginBlock
  <2>1. /\ pc = "blocks" /\ pc' = "voices" /\ pos' = pos /\ call' = call
        /\ run'.len \in Nat /\ run'.time \in Nat /\ run'.len + run'.time = run.time
    BY <1>1, <1>5, BeginBlockFacts DEF BeginBlock, histVars
  <2> QED
    BY <1>1, <2>1 DEF Now
<1>6. CASE SkipVoice \/ RunVoice
  <2>1. /\ pc = "voices" /\ pc' = "voices" /\ pos' = pos /\ call' = call
        /\ run'.len = run.len /\ run'.time = run.time
    BY <1>1, <1>6, RunFacts DEF SkipVoice, RunVoice, RunType, histVars
  <2> QED
    BY <2>1 DEF Now
<1>7. CASE EndRun
  <2>1. /\ pc = "blocks" /\ run.time = 0 /\ pos' = pos
        /\ \/ pc' = "events" /\ call'.sp = call.sp + call.len
           \/ pc' = "advance" /\ call'.sp = call.sp /\ call'.len = call.len
    BY <1>1, <1>7, CallFacts DEF EndRun, CallType, histVars
  <2> QED
    BY <1>1, <2>1 DEF Now
<1>8. CASE ReturnMore
  <2>1. pc = "advance" /\ pc' = "idle" /\ pos' = pos + ChLen
    BY <1>8 DEF ReturnMore, Return
  <2>2. call.sp + call.len = ChLen
    BY <1>1, <2>1 DEF CallAccounting
  <2> QED
    BY <1>1, <2>1, <2>2 DEF Now
<1> QED
  BY <1>2, <1>3, <1>4, <1>5, <1>6, <1>7, <1>8 DEF Next, Run, RunBlock, Finish

(* A block moves it on by its length. *)
LEMMA NowAfterBlock ==
    ASSUME SInv, EndBlock
    PROVE  /\ Now' = Now + run.len /\ Now \in Nat /\ run.len \in Nat
           /\ \A op : Passed(op) <=>
                 \E v \in VoiceIds : voices[v].init /\ voices[v].carr_op_id = op
<1>1. /\ Inv /\ CallAccounting
      /\ call.sp \in Nat /\ call.len \in Nat /\ prog.vo_count \in Nat
      /\ pos \in Nat /\ run.time \in Nat /\ run.len \in Nat /\ run.i \in Nat
  BY CallFacts, TimeFacts, RunFacts, SizeFacts DEF SInv, Inv, IInv
<1>2. /\ pc = "voices" /\ pc' = "blocks" /\ pos' = pos /\ call' = call
      /\ run'.time = run.time /\ run.i >= prog.vo_count
  BY <1>1, RunFacts DEF EndBlock, RunType, histVars
<1>3. Now' = Now + run.len /\ Now \in Nat
  BY <1>1, <1>2, NowFacts DEF Now
<1>4. \A v \in VoiceIds : v < run.i
  BY <1>1, <1>2 DEF VoiceIds
<1> QED
  BY <1>1, <1>3, <1>4 DEF Passed

(* CarrierClock: carriers and their voices keep time with the signal. *)
LEMMA ClockKept ==
    ASSUME SInv, [Next]_vars
    PROVE  CarrierClock'
<1>1. /\ Inv /\ CarrierClock /\ VoiceIds' = VoiceIds
  BY ProgConstant DEF SInv, StreamInv, Inv, IInv
<1>2. CASE EndBlock
  <2>1. /\ voices' = voices /\ operators' = operators /\ pc = "voices" /\ pc' = "blocks"
        /\ gen'.event = gen.event
    BY <1>1, <1>2, GenFacts DEF EndBlock, Unclear, GenType
  <2>2. \A op : EndOf(op)' = EndOf(op)
    BY <2>1, EndsKept
  <2>3. /\ Now' = Now + run.len /\ Now \in Nat /\ run.len \in Nat
        /\ \A op : Passed(op) <=>
              \E v \in VoiceIds : voices[v].init /\ voices[v].carr_op_id = op
    BY <1>2, NowAfterBlock
  <2>4. ASSUME NEW op \in Ops
        PROVE  /\ operators[op].time = Remaining(EndOf(op), Now + run.len)
               /\ EndOf(op) > Now + run.len => Passed(op)
    <3>1. EndOf(op) \in Nat /\ operators[op].time = Remaining(EndOf(op), Reached(op))
      BY <1>1, EndOfType DEF CarrierClock
    <3>2. CASE Passed(op)
      BY <2>1, <3>1, <3>2 DEF Reached
    <3>3. CASE ~Passed(op)
      <4>1. EndOf(op) <= Now /\ Reached(op) = Now
        BY <1>1, <2>3, <3>1, <3>3 DEF CarrierClock, Reached
      <4> QED
        BY <2>3, <3>1, <4>1 DEF Remaining
    <3> QED
      BY <3>2, <3>3
  <2>5. \A op : Reached(op)' = Now + run.len
    BY <2>1, <2>3 DEF Reached
  <2> QED
    BY <1>1, <2>1, <2>2, <2>3, <2>4, <2>5 DEF CarrierClock
<1>3. CASE ReturnEnd
  <2>1. /\ voices' = voices /\ operators' = operators /\ pc = "advance" /\ pc' = "ended"
        /\ gen' = gen /\ pos' = pos + call.gen_len /\ AtEnd
    BY <1>3 DEF ReturnEnd, Return, nodeVars
  <2>2. \A op : EndOf(op)' = EndOf(op)
    BY <2>1, EndsKept
  <2>3. Now' = pos + call.gen_len /\ Now' \in Nat /\ Now \in Nat /\ Now = pos + ChLen
        /\ Now' <= Now
    <3>1. Now = pos + (call.sp + call.len + call.skip_len)
      BY <1>1, <2>1, CallFacts, TimeFacts DEF Now, Inv, IInv, CallAccounting
    <3> QED
      BY <1>1, <2>1, <3>1, CallFacts, TimeFacts, SizeFacts DEF Now, Inv, IInv, CallAccounting
  <2>4. ASSUME NEW op \in Ops
        PROVE  operators[op].time = Remaining(EndOf(op), Now') /\ EndOf(op) <= Now'
    <3>1. EndOf(op) \in Nat /\ operators[op].time = Remaining(EndOf(op), Now)
      BY <1>1, <2>1, EndOfType DEF CarrierClock, Reached
    <3>2. EndOf(op) <= Now'
      BY <2>1, <2>3, NoneLeft
    <3> QED
      BY <2>3, <3>1, <3>2 DEF Remaining
  <2>5. \A op : Reached(op)' = Now'
    BY <2>1 DEF Reached
  <2>6. \A op \in Ops : EndOf(op) \in Nat
    BY <1>1, EndOfType
  <2> QED
    BY <1>1, <2>1, <2>2, <2>3, <2>4, <2>5, <2>6 DEF CarrierClock
<1>4. CASE Create \/ Call \/ BeginRun \/ EndRun \/ AdvanceVoice \/ ReturnMore \/ CallAgain
           \/ UNCHANGED vars
  <2>1. /\ voices' = voices /\ operators' = operators /\ gen'.event = gen.event
        /\ (pc # "voices" /\ pc' # "voices") \/ UNCHANGED vars
    BY <1>1, <1>4, GenFacts
       DEF Create, ConvertEvent, Created, Call, BeginRun, EndRun, AdvanceVoice, ReturnMore,
           Return, CallAgain, nodeVars, vars, GenType
  <2>2. \A op : EndOf(op)' = EndOf(op)
    BY <2>1, EndsKept
  <2>3. Now' = Now
    <3>1. (~EndBlock /\ ~ReturnEnd) \/ UNCHANGED vars
      BY <1>4 DEF Create, ConvertEvent, Created, Call, BeginRun, EndRun, AdvanceVoice,
                  ReturnMore, CallAgain, EndBlock, ReturnEnd
    <3>2. CASE UNCHANGED vars
      BY <3>2 DEF vars, histVars, Now
    <3> QED
      BY <3>1, <3>2, NowKept
  <2>4. \A op : Reached(op)' = Reached(op)
    BY <1>1, <2>1, <2>3 DEF Reached, Passed, vars, nodeVars
  <2> QED
    BY <1>1, <2>1, <2>2, <2>3, <2>4 DEF CarrierClock
<1> QED
  BY <1>2, <1>3, <1>4, ClockAfterEvent, ClockAtBlock, ClockPastVoice, ClockAfterVoice
     DEF Next, Run, RunBlock, Finish

-----------------------------------------------------------------------------
(* MixExact: each voice run adds its carrier to the samples it sounds in.  *)

LEMMA MixAtBlock ==
    ASSUME SInv, [Next]_vars, BeginBlock
    PROVE  MixExact'
<1>1. /\ Inv /\ CarrierClock /\ SkippedVoicesSilent
      /\ VoiceIds' = VoiceIds /\ BufLen \in Nat
      /\ pc = "blocks" /\ gen'.event = gen.event /\ gen'.mix_add_max = 0
      /\ voices' = voices /\ run'.i = gen.voice /\ run'.last_len = 0
  BY ProgConstant, BeginBlockFacts, GenFacts, SizeFacts
     DEF SInv, StreamInv, Inv, IInv, BeginBlock, GenType
<1>2. Now' = Now /\ Now \in Nat
  BY <1>1, NowKept, NowFacts DEF BeginBlock, EndBlock, ReturnEnd
<1>3. \A op : EndOf(op)' = EndOf(op)
  BY <1>1, EndsKept
<1>4. \A x \in 0..(BufLen - 1) : mix'[x] = Silence
  <2>1. MixPastMaxClear'
    BY <1>1, BuffersStep
  <2> QED
    BY <1>1, <2>1 DEF MixPastMaxClear
<1>5. ASSUME NEW op \in Ops, Passed(op)' PROVE EndOf(op) <= Now
  <2>1. PICK v \in VoiceIds : /\ v < gen.voice /\ voices[v].init
                              /\ voices[v].carr_op_id = op
    BY <1>1, <1>5 DEF Passed
  <2>2. operators[op].time = 0 /\ operators[op].time = Remaining(EndOf(op), Now)
    BY <1>1, <2>1 DEF SkippedVoicesSilent, CarrierClock, Reached
  <2>3. EndOf(op) \in Nat
    BY <1>1, EndOfType
  <2> QED
    BY <1>2, <2>2, <2>3 DEF Remaining
<1>6. ASSUME NEW x \in 0..(BufLen - 1) PROVE MixedSoFar(x)' = Silence
  <2>1. \A op \in Ops : EndOf(op) \in Nat
    BY <1>1, EndOfType
  <2>2. \A op \in Ops : ~(Passed(op)' /\ EndOf(op)' > Now' + x)
    BY <1>1, <1>2, <1>3, <1>5, <2>1
  <2> QED
    BY <2>2 DEF MixedSoFar, Silence
<1> QED
  BY <1>1, <1>4, <1>6 DEF MixExact

LEMMA MixPastVoice ==
    ASSUME SInv, [Next]_vars, SkipVoice
    PROVE  MixExact'
<1>1. /\ Inv /\ CarrierClock /\ MixExact /\ VoiceIds' = VoiceIds /\ BufLen \in Nat
      /\ pc = "voices" /\ gen' = gen /\ mix' = mix /\ call' = call
      /\ voices' = voices /\ run.i \in VoiceIds /\ voices[run.i].duration = 0
      /\ run'.len = run.len /\ run'.time = run.time /\ run'.i = run.i + 1
      /\ run'.last_len = run.last_len /\ run'.gen_len = run.gen_len /\ run.i \in Nat
  BY ProgConstant, RunFacts, SizeFacts
     DEF SInv, StreamInv, Inv, IInv, SkipVoice, nodeVars, bufVars, RunType, VoiceIds
<1>2. Now' = Now /\ Now \in Nat
  BY <1>1, NowKept, NowFacts DEF SkipVoice, EndBlock, ReturnEnd
<1>3. \A op : EndOf(op)' = EndOf(op)
  BY <1>1, EndsKept
<1>4. ASSUME NEW op \in Ops
      PROVE  Passed(op)' <=> \/ Passed(op)
                             \/ voices[run.i].init /\ voices[run.i].carr_op_id = op
  <2>1. \A v \in VoiceIds : v < run.i + 1 <=> v < run.i \/ v = run.i
    BY <1>1 DEF VoiceIds
  <2> QED
    BY <1>1, <2>1 DEF Passed
<1>5. ASSUME NEW op \in Ops, ~Passed(op), Passed(op)' PROVE EndOf(op) <= Now
  <2>1. operators[op].time = 0 /\ operators[op].time = Remaining(EndOf(op), Now)
    BY <1>1, <1>4, <1>5 DEF CarrierClock, Reached
  <2>2. EndOf(op) \in Nat
    BY <1>1, EndOfType
  <2> QED
    BY <1>2, <2>1, <2>2 DEF Remaining
<1>6. ASSUME NEW x \in 0..(BufLen - 1) PROVE MixedSoFar(x)' = MixedSoFar(x)
  <2>1. \A op \in Ops : EndOf(op) \in Nat
    BY <1>1, EndOfType
  <2>2. \A op \in Ops : Passed(op)' /\ EndOf(op)' > Now' + x <=>
                           Passed(op) /\ EndOf(op) > Now + x
    BY <1>1, <1>2, <1>3, <1>4, <1>5, <2>1
  <2> QED
    BY <1>2, <1>3, <2>2 DEF MixedSoFar
<1> QED
  BY <1>1, <1>6 DEF MixExact

LEMMA MixAfterVoice ==
    ASSUME SInv, [Next]_vars, RunVoice
    PROVE  MixExact'
<1>1. PICK op, n : op = voices[run.i].carr_op_id /\ n = Lesser(voices[run.i].duration, run.len)
  OBVIOUS
<1>2. /\ Inv /\ CarrierClock /\ MixExact /\ BlockProgress /\ VoiceIds' = VoiceIds
      /\ BufLen \in Nat /\ run.len \in Nat /\ run.len <= BufLen /\ run.last_len \in Nat
      /\ run.last_len <= BufLen /\ voices[run.i].duration # 0
  BY ProgConstant, RunFacts, SizeFacts DEF SInv, StreamInv, Inv, IInv, RunVoice
<1>3. /\ op \in Ops /\ n \in Nat /\ n <= run.len
      /\ operators[op].time \in Nat /\ operators[op].time # 0 /\ n <= operators[op].time
      /\ n < run.len => n = operators[op].time
      /\ run.i \in VoiceIds /\ ~Passed(op) /\ Passed(op)'
      /\ \A o : o # op => Passed(o)' = Passed(o)
      /\ \A x \in 0..(BufLen - 1) :
            mix'[x] = IF x < n THEN mix[x] \union {<<op, operators[op].time - x>>}
                      ELSE mix[x]
      /\ gen'.mix_add_max = Longest(gen.mix_add_max, n)
      /\ run'.last_len = Longest(run.last_len, n)
      /\ run'.len = run.len /\ run'.time = run.time /\ run'.gen_len = run.gen_len
      /\ gen'.event = gen.event /\ Now' = Now /\ Now \in Nat
      /\ pc = "voices" /\ pc' = "voices" /\ call' = call
  BY <1>1, VoiceMoves, ZenonT(30)
<1>4. \A o : EndOf(o)' = EndOf(o)
  BY <1>3, EndsKept
<1>5. EndOf(op) = Now + operators[op].time /\ \A o \in Ops : EndOf(o) \in Nat
  <2>1. EndOf(op) \in Nat /\ operators[op].time = Remaining(EndOf(op), Now)
    BY <1>2, <1>3, EndOfType DEF CarrierClock, Reached
  <2> QED
    BY <1>2, <1>3, <2>1, EndOfType DEF Remaining
<1>6. ASSUME NEW x \in 0..(BufLen - 1), x < run.len
      PROVE  mix'[x] = MixedSoFar(x)'
  <2>1. mix[x] = MixedSoFar(x) /\ x \in Nat
    BY <1>2, <1>3, <1>6 DEF MixExact
  <2>2. \A o \in Ops : o # op =>
           (Passed(o)' /\ EndOf(o)' > Now' + x <=> Passed(o) /\ EndOf(o) > Now + x)
    BY <1>3, <1>4
  <2>3. Passed(op)' /\ EndOf(op)' > Now' + x <=> x < n
    BY <1>2, <1>3, <1>4, <1>5, <1>6, <2>1
  <2>4. EndOf(op)' - (Now' + x) = operators[op].time - x
    BY <1>3, <1>4, <1>5, <2>1
  <2>5. MixedSoFar(x)' = IF x < n THEN MixedSoFar(x) \union {<<op, operators[op].time - x>>}
                         ELSE MixedSoFar(x)
    BY <1>3, <1>4, <2>2, <2>3, <2>4 DEF MixedSoFar
  <2> QED
    BY <1>3, <2>1, <2>5
<1>7. run'.last_len > 0 => mix'[run'.last_len - 1] # Silence
  <2>1. CASE n > run.last_len
    <3>1. run'.last_len = n /\ n - 1 \in 0..(BufLen - 1) /\ n - 1 < n
      BY <1>2, <1>3, <2>1 DEF Longest
    <3>2. <<op, operators[op].time - (n - 1)>> \in mix'[n - 1]
      BY <1>3, <3>1
    <3> QED
      BY <3>1, <3>2 DEF Silence
  <2>2. CASE ~(n > run.last_len) /\ run.last_len > 0
    <3>1. run'.last_len = run.last_len /\ run.last_len - 1 \in 0..(BufLen - 1)
      BY <1>2, <1>3, <2>2 DEF Longest
    <3>2. mix[run.last_len - 1] # Silence
      BY <1>2, <1>3, <2>2 DEF MixExact
    <3>3. mix[run.last_len - 1] \subseteq mix'[run.last_len - 1]
      BY <1>3, <3>1
    <3> QED
      BY <3>1, <3>2, <3>3 DEF Silence
  <2> QED
    BY <1>2, <1>3, <2>1, <2>2 DEF Longest
<1>8. gen'.mix_add_max = run'.last_len
  BY <1>2, <1>3 DEF MixExact
<1>9. ~(run.gen_len + run.len + run.time < call.len)
  BY <1>2, <1>3 DEF BlockProgress
<1> QED
  BY <1>3, <1>6, <1>7, <1>8, <1>9 DEF MixExact

LEMMA MixKept ==
    ASSUME SInv, [Next]_vars
    PROVE  MixExact'
<1>1. CASE UNCHANGED vars
  <2>1. MixExact /\ VoiceIds' = VoiceIds /\ \A op : EndOf(op)' = EndOf(op)
    BY <1>1, EndsKept, ProgConstant DEF SInv, StreamInv, vars, nodeVars
  <2>2. Now' = Now /\ \A op : Passed(op)' = Passed(op)
    BY <1>1, <2>1 DEF vars, histVars, nodeVars, Now, Passed
  <2>3. \A x : MixedSoFar(x)' = MixedSoFar(x)
    BY <2>1, <2>2 DEF MixedSoFar
  <2> QED
    BY <1>1, <2>1, <2>3 DEF MixExact, vars, nodeVars, bufVars
<1>2. CASE pc' # "voices"
  BY <1>2 DEF MixExact
<1> QED
  BY <1>1, <1>2, MixAtBlock, MixPastVoice, MixAfterVoice
     DEF Next, Create, ConvertEvent, Created, Call, Run, RunBlock, HandleEvent,
         BeginRun, EndBlock, EndRun, Finish, AdvanceVoice, ReturnMore, ReturnEnd,
         CallAgain

-----------------------------------------------------------------------------
(* BufferExact and LengthExact: what a block writes is the signal.         *)

(* When a block ends, what was mixed is the signal of its samples, and if  *)
(* any of it is to be written, it goes where those samples belong.         *)
LEMMA BlockMixed ==
    ASSUME SInv, EndBlock
    PROVE  /\ \A x \in 0..(BufLen - 1) :
                 x < run.len => mix[x] = IdealSample(prog, Now + x)
           /\ \A x \in 0..(BufLen - 1) : x >= run.last_len => mix[x] = Silence
           /\ run.last_len <= run.len /\ run.len <= BufLen
           /\ run.last_len > 0 => /\ mix[run.last_len - 1] # Silence
                                  /\ Now = pos + (call.sp + run.gen_len)
                                  /\ call.sp + run.gen_len + run.last_len <= ChLen
<1>1. /\ Inv /\ CarrierClock /\ MixExact /\ MixPastMaxClear /\ BlockProgress /\ CallAccounting
      /\ call.sp \in Nat /\ call.len \in Nat /\ call.skip_len \in Nat /\ ChLen \in Nat
      /\ pos \in Nat /\ run.time \in Nat /\ run.len \in Nat /\ run.gen_len \in Nat
      /\ run.last_len \in Nat /\ run.len <= BufLen /\ BufLen \in Nat /\ pc = "voices"
  BY CallFacts, TimeFacts, RunFacts, SizeFacts
     DEF SInv, StreamInv, Inv, IInv, EndBlock
<1>2. /\ Now \in Nat
      /\ \A op : Passed(op) <=>
            \E v \in VoiceIds : voices[v].init /\ voices[v].carr_op_id = op
  BY NowAfterBlock
<1>3. ASSUME NEW x \in 0..(BufLen - 1), x < run.len
      PROVE  mix[x] = IdealSample(prog, Now + x)
  <2>1. mix[x] = MixedSoFar(x)
    BY <1>1, <1>3 DEF MixExact
  <2>2. ASSUME NEW op \in Ops, EndOf(op) > Now + x PROVE Passed(op)
    <3>1. EndOf(op) > Now
      BY <1>1, <1>2, <2>2, EndOfType
    <3> QED
      BY <1>1, <1>2, <3>1 DEF CarrierClock
  <2>3. IdealSample(prog, Now + x) =
           {<<op, EndOf(op) - (Now + x)>> : op \in {o \in Ops : EndOf(o) > Now + x}}
    BY <1>1, <1>3, SampleInBlock
  <2> QED
    BY <2>1, <2>2, <2>3 DEF MixedSoFar
<1>4. \A x \in 0..(BufLen - 1) : x >= run.last_len => mix[x] = Silence
  BY <1>1 DEF MixExact, MixPastMaxClear
<1>5. run.last_len <= run.len
  BY <1>1 DEF BlockProgress
<1>6. ASSUME run.last_len > 0
      PROVE  /\ mix[run.last_len - 1] # Silence
             /\ Now = pos + (call.sp + run.gen_len)
             /\ call.sp + run.gen_len + run.last_len <= ChLen
  <2>1. ~(run.gen_len + run.len + run.time < call.len)
    BY <1>1, <1>6 DEF MixExact
  <2>2. run.gen_len + run.len + run.time <= call.len
        /\ call.sp + call.len + call.skip_len = ChLen
    BY <1>1 DEF CallAccounting
  <2>3. Now = pos + call.sp + (call.len - run.time - run.len)
    BY <1>1 DEF Now
  <2>4. Now = pos + (call.sp + run.gen_len)
    BY <1>1, <2>1, <2>2, <2>3
  <2> QED
    BY <1>1, <1>5, <1>6, <2>2, <2>4 DEF MixExact
<1> QED
  BY <1>1, <1>3, <1>4, <1>5, <1>6

LEMMA BufferKept ==
    ASSUME SInv, [Next]_vars
    PROVE  BufferExact'
<1>1. /\ Inv /\ BufferExact /\ ClearFlagHonest /\ buf \in BufType /\ prog' = prog
      /\ ChLen \in Nat /\ pos \in Nat /\ call.sp \in Nat /\ run.gen_len \in Nat
      /\ run.len \in Nat /\ run.last_len \in Nat /\ BufLen \in Nat
  BY ProgConstant, SizeFacts, TimeFacts, CallFacts, RunFacts
     DEF SInv, StreamInv, Inv, IInv, TypeOK
<1>2. CASE Call
  <2>1. /\ pos' = pos /\ pc = "idle" /\ ~EndBlock /\ ~ReturnEnd
        /\ \A x \in 0..(ChLen - 1) : buf'[x] = Silence
    BY <1>1, <1>2 DEF Call, histVars, EndBlock, ReturnEnd, ClearFlagHonest, BufType
  <2>2. Now' = pos
    BY <2>1, NowKept DEF Now
  <2> QED
    BY <1>1, <2>1, <2>2 DEF BufferExact
<1>3. CASE EndBlock
  <2>1. /\ pc = "voices" /\ InCall /\ pos' = pos
        /\ run.last_len > 0 => buf' = MixWrite
        /\ ~(run.last_len > 0) => buf' = buf
    BY <1>3 DEF EndBlock, histVars, InCall
  <2>2. Now' = Now + run.len /\ Now \in Nat /\ Now >= pos
    BY <1>1, <1>3, <2>1, NowAfterBlock, NowFacts
  <2>3. /\ \A x \in 0..(BufLen - 1) :
              x < run.len => mix[x] = IdealSample(prog, Now + x)
        /\ \A x \in 0..(BufLen - 1) : x >= run.last_len => mix[x] = Silence
        /\ run.last_len <= run.len /\ run.len <= BufLen
        /\ run.last_len > 0 => Now = pos + (call.sp + run.gen_len)
    BY <1>3, BlockMixed
  <2>4. ASSUME NEW y \in 0..(ChLen - 1)
        PROVE  buf'[y] = IF pos + y < Now' THEN IdealSample(prog, pos + y) ELSE Silence
    <3> DEFINE x == pos + y - Now
    <3>1. buf[y] = IF pos + y < Now THEN IdealSample(prog, pos + y) ELSE Silence
      BY <1>1, <2>1 DEF BufferExact
    <3>2. /\ x \in Int /\ pos + y = Now + x /\ y \in Nat
          /\ pos + y < Now <=> x < 0
          /\ pos + y < Now' <=> x < run.len
      BY <1>1, <2>2
    <3>3. buf'[y] = IF x >= 0 /\ x < run.last_len THEN buf[y] \union mix[x] ELSE buf[y]
      <4>1. CASE run.last_len > 0
        <5>1. /\ x = y - (call.sp + run.gen_len)
              /\ x >= 0 <=> call.sp + run.gen_len <= y
              /\ x < run.last_len <=> y < call.sp + run.gen_len + run.last_len
          BY <1>1, <2>2, <2>3, <3>2, <4>1
        <5> HIDE DEF x
        <5> QED
          BY <2>1, <4>1, <5>1 DEF MixWrite
      <4>2. CASE ~(run.last_len > 0)
        BY <1>1, <2>1, <3>2, <4>2
      <4> QED
        BY <4>1, <4>2
    <3> HIDE DEF x
    <3>4. CASE x < 0
      BY <1>1, <2>2, <3>1, <3>2, <3>3, <3>4
    <3>5. CASE x >= 0 /\ x < run.len
      <4>1. x \in 0..(BufLen - 1)
        BY <1>1, <2>3, <3>2, <3>5
      <4>2. mix[x] = IdealSample(prog, pos + y) /\ (x >= run.last_len => mix[x] = Silence)
        BY <2>3, <3>2, <3>5, <4>1
      <4>3. buf[y] = Silence
        BY <3>1, <3>2, <3>5
      <4> QED
        BY <1>1, <3>2, <3>3, <3>5, <4>2, <4>3 DEF Silence
    <3>6. CASE x >= run.len
      BY <1>1, <2>3, <3>1, <3>2, <3>3, <3>6
    <3> QED
      BY <1>1, <3>2, <3>4, <3>5, <3>6
  <2> QED
    BY <1>1, <2>1, <2>4 DEF BufferExact
<1>4. CASE HandleEvent \/ BeginRun \/ BeginBlock \/ SkipVoice \/ RunVoice \/ EndRun
           \/ AdvanceVoice \/ (UNCHANGED vars /\ ~EndBlock /\ ~ReturnEnd)
  <2>1. pos' = pos /\ buf' = buf /\ (InCall \/ UNCHANGED vars) /\ ~EndBlock /\ ~ReturnEnd
    BY <1>4 DEF HandleEvent, BeginRun, BeginBlock, SkipVoice, RunVoice, EndRun,
         AdvanceVoice, vars, histVars, bufVars, InCall, EndBlock, ReturnEnd
  <2>2. Now' = Now
    BY <2>1, NowKept
  <2>3. InCall' => InCall
    BY <2>1 DEF InCall, vars
  <2> QED
    BY <1>1, <2>1, <2>2, <2>3 DEF BufferExact
<1>5. CASE ~InCall'
  BY <1>5 DEF BufferExact
<1> QED
  BY <1>2, <1>3, <1>4, <1>5
     DEF Next, Create, ConvertEvent, Created, Run, RunBlock, Finish, ReturnMore,
         ReturnEnd, CallAgain, InCall

LEMMA LengthKept ==
    ASSUME SInv, [Next]_vars
    PROVE  LengthExact'
<1>1. /\ Inv /\ BufferExact /\ LengthExact /\ CallAccounting
      /\ ChLen \in Nat /\ pos \in Nat /\ call.sp \in Nat /\ run.gen_len \in Nat
      /\ run.last_len \in Nat /\ call.len \in Nat /\ call.gen_len \in Nat /\ BufLen \in Nat
  BY SizeFacts, TimeFacts, CallFacts, RunFacts
     DEF SInv, StreamInv, Inv, IInv
<1>2. CASE BeginRun
  <2>1. /\ pc = "events" /\ InCall /\ pc' = "blocks" /\ buf' = buf
        /\ call'.sp = call.sp /\ run'.gen_len = 0
    BY <1>1, <1>2, CallFacts DEF BeginRun, NoRun, CallType, bufVars, InCall
  <2>2. Now = pos + call.sp
    BY <2>1 DEF Now
  <2>3. \A x \in 0..(ChLen - 1) : x >= call.sp => buf[x] = Silence
    BY <1>1, <2>1, <2>2 DEF BufferExact
  <2>4. GenLen' = call.sp
    BY <1>1, <2>1 DEF GenLen
  <2> QED
    BY <1>1, <2>1, <2>3, <2>4 DEF LengthExact
<1>3. CASE EndBlock
  <2>1. /\ pc = "voices" /\ pc' = "blocks" /\ call' = call
        /\ run.last_len > 0 => buf' = MixWrite /\ run'.gen_len = run.gen_len + run.last_len
        /\ ~(run.last_len > 0) => buf' = buf /\ run' = run
    BY <1>1, <1>3, RunFacts DEF EndBlock, RunType
  <2>2. GenLen = call.sp + run.gen_len /\ GenLen' = call.sp + run'.gen_len
    BY <2>1 DEF GenLen
  <2>3. CASE ~(run.last_len > 0)
    BY <1>1, <2>1, <2>2, <2>3 DEF LengthExact
  <2>4. CASE run.last_len > 0
    <3> DEFINE last == call.sp + run.gen_len + run.last_len - 1
    <3>1. /\ run.last_len <= BufLen /\ mix[run.last_len - 1] # Silence
          /\ call.sp + run.gen_len + run.last_len <= ChLen
      BY <1>1, <1>3, <2>4, BlockMixed, RunFacts
    <3>2. last \in 0..(ChLen - 1) /\ last - (call.sp + run.gen_len) = run.last_len - 1
          /\ call.sp + run.gen_len <= last /\ last < call.sp + run.gen_len + run.last_len
      BY <1>1, <2>4, <3>1
    <3>3. buf'[last] = buf[last] \union mix[run.last_len - 1]
      <4> HIDE DEF last
      <4> QED
        BY <2>1, <2>4, <3>2 DEF MixWrite
    <3>4. buf'[last] # Silence
      BY <3>1, <3>3 DEF Silence
    <3>5. GenLen' = call.sp + run.gen_len + run.last_len /\ last = GenLen' - 1
      BY <1>1, <2>1, <2>2, <2>4
    <3>6. \A x \in 0..(ChLen - 1) : x >= GenLen' => buf'[x] = Silence
      <4>1. \A x \in 0..(ChLen - 1) : x >= GenLen => buf[x] = Silence
        BY <1>1, <2>1 DEF LengthExact
      <4>2. \A x \in 0..(ChLen - 1) : x >= GenLen' =>
               x >= GenLen /\ ~(x < call.sp + run.gen_len + run.last_len)
        BY <1>1, <2>2, <2>4, <3>5
      <4>3. \A x \in 0..(ChLen - 1) : x >= GenLen' => buf'[x] = buf[x]
        BY <2>1, <2>4, <4>2 DEF MixWrite
      <4> QED
        BY <4>1, <4>2, <4>3
    <3>7. call'.sp <= GenLen'
      BY <1>1, <2>1, <3>5
    <3> QED
      BY <2>1, <3>4, <3>5, <3>6, <3>7 DEF LengthExact
  <2> QED
    BY <2>3, <2>4
<1>4. CASE EndRun
  <2>1. CASE pc' = "events"
    BY <2>1 DEF LengthExact
  <2>2. CASE pc' # "events"
    <3>1. /\ pc = "blocks" /\ pc' = "advance" /\ buf' = buf /\ call'.sp = call.sp
          /\ call'.gen_len = call.gen_len + run.gen_len
      BY <1>1, <1>4, <2>2, CallFacts DEF EndRun, CallType, bufVars
    <3>2. GenLen' = GenLen
      BY <1>1, <3>1 DEF GenLen, CallAccounting
    <3> QED
      BY <1>1, <3>1, <3>2 DEF LengthExact
  <2> QED
    BY <2>1, <2>2
<1>5. CASE BeginBlock \/ SkipVoice \/ RunVoice \/ AdvanceVoice \/ UNCHANGED vars
  <2>1. /\ buf' = buf /\ call' = call /\ run'.gen_len = run.gen_len
        /\ (pc = "advance" <=> pc' = "advance")
        /\ (pc \in {"blocks", "voices", "advance"} <=> pc' \in {"blocks", "voices", "advance"})
    BY <1>1, <1>5, RunFacts
       DEF BeginBlock, SkipVoice, RunVoice, AdvanceVoice, vars, bufVars, RunType
  <2>2. GenLen' = GenLen
    BY <2>1 DEF GenLen
  <2> QED
    BY <1>1, <2>1, <2>2 DEF LengthExact
<1>6. CASE ~(pc' \in {"blocks", "voices", "advance"})
  BY <1>6 DEF LengthExact
<1> QED
  BY <1>2, <1>3, <1>4, <1>5, <1>6
     DEF Next, Create, ConvertEvent, Created, Call, Run, RunBlock, HandleEvent, Finish,
         ReturnMore, ReturnEnd, CallAgain

-----------------------------------------------------------------------------
(* The theorems. *)

LEMMA InitSInv ==
    ASSUME ReuseExpired, Init
    PROVE  SInv
  BY InitInv, InitStream DEF SInv

LEMMA SInvStep ==
    ASSUME ReuseExpired, SInv, [Next]_vars
    PROVE  SInv'
<1>1. Inv'
  BY InvStep DEF SInv
<1>2. ReuseExpired'
  BY DEF ReuseExpired
<1> QED
  BY <1>1, <1>2, ReachedStep, ClockKept, MixKept, BufferKept, LengthKept
     DEF SInv, StreamInv

LEMMA SInvAlways ==
    ASSUME ReuseExpired
    PROVE  Spec => []SInv
<1>1. Init => SInv
  BY InitSInv
<1>2. SInv /\ [Next]_vars => SInv'
  BY SInvStep
<1> QED
  BY <1>1, <1>2, PTL DEF Spec

(* However a program of voices that are reused once expired is cut up into *)
(* calls, runs and blocks: every carrier has the time left that the events *)
(* give it, what a block mixes and writes is the signal of the program at  *)
(* that very sample, and what is reported as generated ends where it does. *)
THEOREM InStream ==
    ASSUME ReuseExpired
    PROVE  Spec => []StreamInv
<1>1. SInv => StreamInv
  BY DEF SInv
<1> QED
  BY <1>1, SInvAlways, PTL

(* A voice changes hands only when its old carrier has played to its last  *)
(* sample: that it has expired in rounded-off ms means that it has ended   *)
(* in samples too.                                                         *)
THEOREM PlayedToTheEnd ==
    ASSUME ReuseExpired
    PROVE  Spec => NeverCutOff
<1>1. ASSUME SInv, [Next]_vars, NEW v \in VoiceIds,
             voices'[v].carr_op_id # voices[v].carr_op_id
      PROVE  voices[v].duration = 0
  <2> DEFINE e == prog.events[gen.event]
  <2>1. Inv /\ CarrierClock /\ Ownership /\ DurationMatchesCarrier
    BY <1>1 DEF SInv, StreamInv, Inv, IInv
  <2>2. HandleEvent
    <3>1. ~RunVoice
      BY <1>1, <2>1, NodeFacts DEF RunVoice, VoiceType
    <3> QED
      BY <1>1, <3>1, NodesOnlyBy
  <2>3. /\ v = e.vo_id /\ voices[v].carr_op_id # e.carr_op_id
        /\ voices[v].carr_op_id \in Ops
    BY <1>1, <2>1, <2>2, HandleEventFacts, NodeFacts
  <2>4. CASE ~voices[v].init
    BY <2>1, <2>4, NodeFacts DEF DurationMatchesCarrier
  <2>5. CASE voices[v].init
    <3>1. EndOf(voices[v].carr_op_id) <= Now
      BY <1>1, <2>1, <2>2, <2>3, <2>5, ExpiredHasEnded DEF Ownership
    <3>2. EndOf(voices[v].carr_op_id) \in Nat /\ Now \in Nat
      BY <1>1, <2>1, NowFacts, EndOfType
    <3>3. voices[v].duration = Remaining(EndOf(voices[v].carr_op_id), Now)
      BY <2>1, <2>2, <2>3, <2>5 DEF CarrierClock, Reached, HandleEvent
    <3> QED
      BY <3>1, <3>2, <3>3 DEF Remaining
  <2> QED
    BY <2>4, <2>5
<1>2. SInv /\ [Next]_vars =>
         \A v \in VoiceIds :
            voices'[v].carr_op_id # voices[v].carr_op_id => voices[v].duration = 0
  BY <1>1
<1> QED
  BY <1>2, SInvAlways, PTL DEF Spec, NeverCutOff

-----------------------------------------------------------------------------
(* Each return is a delivery of the stream. *)

(* The two modules say the same of a program. *)
LEMMA SameSignal ==
    /\ \A p, t : Stream!IdealSample(p, t) = IdealSample(p, t)
    /\ \A p, t : Stream!AllReached(p, t) <=> AllReached(p, t)
    /\ \A p, t : Stream!SilentFrom(p, t) <=> SilentFrom(p, t)
    /\ Stream!Program = Program
    /\ \A p : Stream!ValidProgram(p) <=> ValidProgram(p)
    /\ \A p : Stream!ReusesOnlyExpired(p) <=> ReusesOnlyExpired(p)
<1>1. \A p, k, t : Stream!Sounding(p, k, t) <=> Sounding(p, k, t)
  BY DEF Stream!Sounding, Sounding, Stream!EndAt, EndAt, Stream!At, At,
         Stream!MsInSamples, MsInSamples, Stream!EvCount, EvCount
<1>2. \A p, t : Stream!IdealSample(p, t) = IdealSample(p, t)
  BY <1>1 DEF Stream!IdealSample, IdealSample, Stream!EndAt, EndAt, Stream!At, At,
              Stream!MsInSamples, MsInSamples, Stream!EvCount, EvCount
<1>3. \A p, t : Stream!AllReached(p, t) <=> AllReached(p, t)
  BY DEF Stream!AllReached, AllReached, Stream!At, At,
         Stream!MsInSamples, MsInSamples, Stream!EvCount, EvCount
<1>4. \A p, t : Stream!SilentFrom(p, t) <=> SilentFrom(p, t)
  BY <1>1, <1>3 DEF Stream!SilentFrom, SilentFrom, Stream!EvCount, EvCount
<1>5. Stream!Program = Program
  BY DEF Stream!Program, Program, Stream!Event, Event
<1>6. \A p : Stream!ValidProgram(p) <=> ValidProgram(p)
  BY DEF Stream!ValidProgram, ValidProgram, Stream!ValidEvent, ValidEvent,
         Stream!Owns, Owns, Stream!OnVoiceBefore, OnVoiceBefore, Stream!TimedBefore,
         TimedBefore, Stream!AtMs, AtMs, Stream!EvCount, EvCount
<1>7. \A p : Stream!ReusesOnlyExpired(p) <=> ReusesOnlyExpired(p)
  BY DEF Stream!ReusesOnlyExpired, ReusesOnlyExpired, Stream!TakesExpired, TakesExpired,
         Stream!ExpiredMs, ExpiredMs, Stream!TimedBefore, TimedBefore,
         Stream!Owns, Owns, Stream!OnVoiceBefore, OnVoiceBefore, Stream!EvCount, EvCount
<1> QED
  BY <1>2, <1>3, <1>4, <1>5, <1>6, <1>7

(* Before a return the buffer holds as much of the signal as it is long. *)
LEMMA FullBuffer ==
    ASSUME SInv, pc = "advance"
    PROVE  /\ Now = pos + ChLen
           /\ buf = [x \in 0..(ChLen - 1) |-> Stream!IdealSample(prog, pos + x)]
<1>1. /\ BufferExact /\ CallAccounting /\ InCall /\ buf \in BufType
      /\ ChLen \in Nat /\ pos \in Nat /\ call.sp \in Nat /\ call.len \in Nat
      /\ call.skip_len \in Nat
  BY SizeFacts, TimeFacts, CallFacts DEF SInv, StreamInv, Inv, IInv, TypeOK, InCall
<1>2. Now = pos + ChLen
  BY <1>1 DEF Now, CallAccounting
<1>3. \A x \in 0..(ChLen - 1) : buf[x] = Stream!IdealSample(prog, pos + x)
  BY <1>1, <1>2, SameSignal DEF BufferExact
<1>4. buf = [x \in 0..(ChLen - 1) |-> buf[x]]
  BY <1>1 DEF BufType
<1> QED
  BY <1>2, <1>3, <1>4

(* A call that says there is more has left an event out or a voice playing. *)
LEMMA MoreToCome ==
    ASSUME SInv, ReturnMore
    PROVE  ~Stream!EndsWithin(prog, pos)
<1>1. /\ Inv /\ CarrierClock /\ CallAccounting /\ DurationMatchesCarrier
      /\ pc = "advance" /\ ~AtEnd
      /\ gen.voice < prog.vo_count => voices[gen.voice].duration # 0
  BY DEF SInv, StreamInv, Inv, IInv, ReturnMore
<1>2. /\ ChLen \in Nat /\ pos \in Nat /\ EvLen \in Nat /\ gen.event \in Nat
      /\ gen.event >= 1 /\ gen.voice \in Nat /\ gen.voice <= prog.vo_count
      /\ prog.vo_count \in Nat /\ Now = pos + ChLen /\ EvCount(prog) = EvLen
      /\ \A k \in 1..EvLen : At(prog, k) \in Nat
  BY <1>1, SizeFacts, TimeFacts, GenFacts, FullBuffer, PositionTypes DEF EvCount, EvLen
<1>3. CASE gen.event <= EvLen
  <2>1. At(prog, gen.event) >= Now
    BY <1>1, <1>2, <1>3, NowFacts
  <2>2. ~AllReached(prog, pos + ChLen - 1)
    BY <1>2, <1>3, <2>1 DEF AllReached
  <2> QED
    BY <2>2, SameSignal DEF Stream!EndsWithin
<1>4. CASE gen.event > EvLen
  <2> DEFINE op == voices[gen.voice].carr_op_id
  <2>1. gen.voice \in VoiceIds
    BY <1>1, <1>2, <1>4 DEF AtEnd, VoiceIds
  <2>2. /\ voices[gen.voice].init /\ voices[gen.voice].duration # 0 /\ op \in Ops
    BY <1>1, <1>2, <2>1, NodeFacts DEF DurationMatchesCarrier, VoiceIds
  <2>3. EndOf(op) > Now
    <3>1. EndOf(op) \in Nat /\ Remaining(EndOf(op), Now) # 0
      BY <1>1, <2>1, <2>2, EndOfType DEF CarrierClock, Reached
    <3> QED
      BY <1>2, <3>1 DEF Remaining
  <2>4. PICK k \in Timed(op) : /\ k \in 1..EvLen /\ \A j \in Timed(op) : j <= k
                               /\ EndOf(op) = EndAt(prog, k)
    BY <1>1, <1>2, <2>3, EndOfType, LatestTimed
  <2>5. prog.events[k].carr_op_id = op
    BY <2>4 DEF Timed, TimedBefore
  <2>6. Sounding(prog, k, pos + ChLen)
    BY <1>1, <1>2, <1>4, <2>3, <2>4, <2>5, NowFacts, SoundingNow
  <2>7. ~SilentFrom(prog, pos + ChLen)
    BY <1>2, <2>4, <2>6 DEF SilentFrom
  <2> QED
    BY <2>7, SameSignal DEF Stream!EndsWithin
<1> QED
  BY <1>2, <1>3, <1>4

(* A call that says there is no more has come to the end of the signal,    *)
(* and says where that is.                                                 *)
LEMMA EndOfSignal ==
    ASSUME SInv, ReturnEnd
    PROVE  /\ AllReached(prog, pos + ChLen - 1)
           /\ SilentFrom(prog, pos + ChLen)
           /\ SilentFrom(prog, pos + call.gen_len)
           /\ call.gen_len \in 0..ChLen
           /\ \A m \in 0..(call.gen_len - 1) : ~SilentFrom(prog, pos + m)
<1>1. /\ Inv /\ BufferExact /\ LengthExact /\ EventsReached /\ CallAccounting
      /\ pc = "advance" /\ AtEnd /\ InCall /\ GenLen = call.gen_len
  BY DEF SInv, StreamInv, Inv, IInv, ReturnEnd, InCall, GenLen
<1>2. /\ ChLen \in Nat /\ pos \in Nat /\ EvLen \in Nat /\ gen.event \in Nat
      /\ gen.event = EvLen + 1 /\ EvCount(prog) = EvLen
      /\ call.sp \in Nat /\ call.len \in Nat /\ call.gen_len \in Nat
      /\ call.gen_len <= ChLen /\ call.sp <= call.gen_len
      /\ Now = pos + ChLen
      /\ \A k \in 1..EvLen : At(prog, k) \in Nat /\ EndAt(prog, k) \in Nat
  <2>1. EvCount(prog) = EvLen
    BY DEF EvCount, EvLen
  <2>2. \A k \in 1..EvLen : At(prog, k) \in Nat /\ EndAt(prog, k) \in Nat
    BY <1>1, PositionTypes
  <2>3. Now = pos + ChLen
    BY <1>1, FullBuffer
  <2>4. gen.event = EvLen + 1
    BY <1>1, SizeFacts, GenFacts DEF AtEnd
  <2> QED
    BY <1>1, <2>1, <2>2, <2>3, <2>4, SizeFacts, TimeFacts, GenFacts, CallFacts
       DEF LengthExact
<1>3. call.sp <= ChLen - 1
  BY <1>1, <1>2 DEF CallAccounting, EventsReached
<1>4. \A k \in 1..EvLen : k < gen.event /\ At(prog, k) <= pos + call.sp
  BY <1>1, <1>2 DEF EventsReached
<1>5. AllReached(prog, pos + ChLen - 1)
  BY <1>2, <1>3, <1>4 DEF AllReached
<1>6. ASSUME NEW t \in Nat, t >= pos + call.gen_len
      PROVE  SilentFrom(prog, t)
  <2>1. AllReached(prog, t)
    BY <1>2, <1>4, <1>6 DEF AllReached
  <2>2. ASSUME NEW k \in 1..EvLen, Sounding(prog, k, t) PROVE FALSE
    <3> DEFINE op == prog.events[k].carr_op_id
    <3>1. /\ \A j \in 1..EvLen : j < gen.event => At(prog, j) <= t
          /\ \A j \in 1..EvLen : j >= gen.event => At(prog, j) > t
      BY <1>2, <1>4, <1>6
    <3>2. k \in Timed(op) /\ (\A j \in Timed(op) : j <= k) /\ EndAt(prog, k) > t
      BY <1>1, <1>6, <2>2, <3>1, SoundingNow
    <3>3. EndOf(op) = EndAt(prog, k) /\ op \in Ops
      BY <1>1, <3>2, LatestIsEnd, PositionTypes
    <3>4. EndOf(op) <= pos + call.gen_len
      BY <1>1, <3>3, NoneLeft
    <3> QED
      BY <1>2, <1>6, <3>2, <3>3, <3>4
  <2> QED
    BY <1>2, <2>1, <2>2 DEF SilentFrom
<1>7. ASSUME NEW m \in 0..(call.gen_len - 1), SilentFrom(prog, pos + m) PROVE FALSE
  <2>1. CASE call.gen_len = call.sp
    <3>1. gen.event - 1 \in 1..EvLen /\ At(prog, gen.event - 1) = pos + call.sp
      BY <1>1, <1>2, <1>7, <2>1 DEF EventsReached
    <3>2. At(prog, gen.event - 1) <= pos + m
      BY <1>2, <1>7, <3>1 DEF SilentFrom, AllReached
    <3> QED
      BY <1>2, <1>7, <2>1, <3>1, <3>2
  <2>2. CASE call.gen_len > call.sp
    <3> DEFINE t == pos + (call.gen_len - 1)
    <3>1. call.gen_len - 1 \in 0..(ChLen - 1) /\ t < Now /\ t \in Nat
      BY <1>2, <2>2
    <3>2. buf[call.gen_len - 1] # Silence
      BY <1>1, <2>2 DEF LengthExact
    <3>3. IdealSample(prog, t) # {}
      BY <1>1, <3>1, <3>2 DEF BufferExact, Silence
    <3>4. PICK k \in 1..EvLen : Sounding(prog, k, t)
      BY <1>2, <3>3 DEF IdealSample
    <3> HIDE DEF t
    <3>5. At(prog, k) <= pos + m /\ pos + m <= t
      BY <1>2, <1>7 DEF SilentFrom, AllReached, t
    <3>6. ASSUME NEW j \in (k + 1)..EvLen, prog.events[j].sets_time,
                 prog.events[j].carr_op_id = prog.events[k].carr_op_id
          PROVE  ~(At(prog, j) <= pos + m)
      <4>1. j \in 1..EvLen /\ At(prog, j) \in Nat
        BY <1>2, <3>6
      <4>2. ~(At(prog, j) <= t)
        BY <1>2, <3>4, <3>6 DEF Sounding
      <4> QED
        BY <1>2, <1>7, <3>1, <3>5, <4>1, <4>2
    <3>7. prog.events[k].sets_time /\ pos + m < EndAt(prog, k)
      BY <1>2, <1>7, <3>1, <3>4, <3>5 DEF Sounding
    <3>8. Sounding(prog, k, pos + m)
      BY <1>2, <3>5, <3>6, <3>7 DEF Sounding
    <3> QED
      BY <1>2, <1>7, <3>8 DEF SilentFrom
  <2> QED
    BY <1>2, <2>1, <2>2
<1> QED
  BY <1>2, <1>5, <1>6, <1>7

(* So the stream gives it that length. *)
LEMMA EndDelivered ==
    ASSUME SInv, ReturnEnd
    PROVE  Stream!EndsWithin(prog, pos) /\ Stream!LengthOf(prog, pos) = call.gen_len
<1>1. /\ AllReached(prog, pos + ChLen - 1)
      /\ SilentFrom(prog, pos + ChLen)
      /\ SilentFrom(prog, pos + call.gen_len)
      /\ call.gen_len \in 0..ChLen
      /\ \A m \in 0..(call.gen_len - 1) : ~SilentFrom(prog, pos + m)
  BY EndOfSignal
<1>2. Stream!EndsWithin(prog, pos)
  BY <1>1, SameSignal DEF Stream!EndsWithin
<1> DEFINE IsEnd(n) == /\ Stream!SilentFrom(prog, pos + n)
                       /\ \A m \in 0..(n - 1) : ~Stream!SilentFrom(prog, pos + m)
<1>3. IsEnd(call.gen_len)
  BY <1>1, SameSignal
<1>4. ASSUME NEW n \in 0..ChLen, IsEnd(n) PROVE n = call.gen_len
  <2>1. ChLen \in Nat /\ call.gen_len \in Nat
    BY SizeFacts, CallFacts DEF SInv
  <2>2. n < call.gen_len => n \in 0..(call.gen_len - 1)
    BY <2>1
  <2>3. call.gen_len < n => call.gen_len \in 0..(n - 1)
    BY <2>1
  <2>4. ~(n < call.gen_len) /\ ~(call.gen_len < n)
    BY <1>3, <1>4, <2>2, <2>3
  <2> QED
    BY <2>1, <2>4
<1>5. (CHOOSE n \in 0..ChLen : IsEnd(n)) = call.gen_len
  <2> HIDE DEF IsEnd
  <2> QED
    BY <1>1, <1>3, <1>4
<1> QED
  BY <1>2, <1>5 DEF Stream!LengthOf

(* Every step is a delivery of the stream, or leaves it where it was. *)
LEMMA StepDelivers ==
    ASSUME SInv, [Next]_vars
    PROVE  [Stream!Next]_(Stream!vars)
<1>1. CASE ReturnMore
  <2>1. pc = "advance" /\ prog' = prog /\ pos' = pos + ChLen
        /\ out' = [chunk |-> buf, len |-> ChLen, more |-> TRUE]
    BY <1>1 DEF ReturnMore, Return, progVars
  <2>2. ~Stream!EndsWithin(prog, pos)
    BY <1>1, MoreToCome
  <2>3. Stream!LengthOf(prog, pos) = ChLen
    BY <2>2 DEF Stream!LengthOf
  <2> QED
    BY <2>1, <2>2, <2>3, FullBuffer DEF Stream!Next, Stream!Deliver
<1>2. CASE ReturnEnd
  <2>1. pc = "advance" /\ prog' = prog /\ pos' = pos + call.gen_len
        /\ out' = [chunk |-> buf, len |-> call.gen_len, more |-> FALSE]
    BY <1>2 DEF ReturnEnd, Return, progVars
  <2> QED
    BY <1>2, <2>1, EndDelivered, FullBuffer DEF Stream!Next, Stream!Deliver
<1>3. CASE ~ReturnMore /\ ~ReturnEnd
  <2>1. prog' = prog /\ pos' = pos /\ out' = out
    BY <1>3, ProgConstant
       DEF Next, Create, ConvertEvent, Created, Call, Run, RunBlock, HandleEvent,
           BeginRun, BeginBlock, SkipVoice, RunVoice, EndBlock, EndRun, Finish,
           AdvanceVoice, CallAgain, vars, histVars
  <2> QED
    BY <2>1 DEF Stream!vars
<1> QED
  BY <1>1, <1>2, <1>3

(* The generator implements the stream: called with a buffer of any        *)
(* length, over blocks of any length and at any sample rate, it delivers   *)
(* the signal that the program denotes, in consecutive chunks, and stops   *)
(* at its end.                                                             *)
THEOREM DeliversStream ==
    ASSUME ReuseExpired
    PROVE  Spec => StreamSpec
<1>1. Init => Stream!Init
  <2> SUFFICES ASSUME Init PROVE Stream!Init
    OBVIOUS
  <2>1. prog \in Programs /\ pos = 0 /\ out = NoDelivery
    BY DEF Init
  <2>2. prog \in Program /\ ValidProgram(prog) /\ ReusesOnlyExpired(prog)
    BY <2>1, ProgramsAssumption DEF ReuseExpired
  <2> QED
    BY <2>1, <2>2, SameSignal DEF Stream!Init, NoDelivery, Stream!NoDelivery
<1>2. SInv /\ [Next]_vars => [Stream!Next]_(Stream!vars)
  BY StepDelivers
<1> QED
  BY <1>1, <1>2, SInvAlways, PTL DEF Spec, StreamSpec, Stream!Spec
=============================================================================
