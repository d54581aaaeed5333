----------------------------- MODULE Generator ------------------------------
(***************************************************************************)
(* The audio generator, src/sau/generator.c: sau_create_Generator()        *)
(* converts the waits of a program from ms to samples; sauGenerator_run()  *)
(* is then called repeatedly, and each call handles the events that come   *)
(* due, runs the voices between them in blocks, and mixes the result into  *)
(* the caller's buffer.                                                    *)
(*                                                                         *)
(* The program is sequential.  pc says where in the code it is, so that    *)
(* each loop iteration and each handler is an action of its own and the    *)
(* states between them can be looked at.  A sample is the set of what has  *)
(* been mixed into it; signal values, panning, channels and modulators are *)
(* left out.                                                               *)
(***************************************************************************)
EXTENDS SauProgram

CONSTANTS
    Programs,       \* the programs that may be played
    BufLen,         \* BUF_LEN, samples per block
    ChLen           \* buf_len, samples per channel in the caller's buffer

ASSUME ProgramsAssumption ==
    \A p \in Programs : p \in Program /\ ValidProgram(p)

ASSUME LengthAssumption ==
    /\ BufLen \in Nat \ {0}
    /\ ChLen \in Nat \ {0}

(* What some of the properties need of the programs, and the others do     *)
(* not: that voices are reused as parse conversion means to, once expired. *)
ReuseExpired == \A p \in Programs : ReusesOnlyExpired(p)

VARIABLES
    prog,       \* the program
    pc,         \* where the code is
    timeline,   \* the EventNode waits converted so far
    carry,      \* ev_time_carry of convert_program()
    gen,        \* the sauGenerator fields
    voices,     \* its VoiceNode array
    operators,  \* its OperatorNode array, carriers only
    mix,        \* mix_bufs
    buf,        \* the caller's channels buffer
    call,       \* locals of sauGenerator_run()
    run,        \* locals of run_for_time()
    pos,        \* history: samples delivered by earlier calls
    out         \* history: what the last call returned

progVars == <<prog, timeline, carry>>
nodeVars == <<gen, voices, operators>>
bufVars == <<mix, buf>>
histVars == <<pos, out>>
vars == <<pc, progVars, nodeVars, bufVars, call, run, histVars>>

-----------------------------------------------------------------------------

VoiceIds == 0..(prog.vo_count - 1)
EvLen == Len(prog.events)
Lesser(a, b) == IF a < b THEN a ELSE b

Silence == {}
Garbage == Ops \X {0}   \* memory nobody has set yet

NoCall == [sp |-> 0, len |-> 0, skip_len |-> 0, gen_len |-> 0]
NoRun == [time |-> 0, len |-> 0, i |-> 0, last_len |-> 0, gen_len |-> 0]
NoDelivery == [chunk |-> <<>>, len |-> 0, more |-> TRUE]

(* The node arrays come zeroed from the memory pool, the mix buffers from  *)
(* calloc(); the caller's buffer holds anything.                           *)
Init ==
    /\ prog \in Programs
    /\ pc = "convert"
    /\ timeline = <<>>
    /\ carry = 0
    /\ gen = [event |-> 1, event_pos |-> 0, voice |-> 0,
              mix_add_max |-> 0, out_clear |-> FALSE]
    /\ voices = [v \in VoiceIds |->
                    [duration |-> 0, init |-> FALSE, freq_buf_id |-> 0,
                     carr_op_id |-> CHOOSE op \in Ops : TRUE]]
    /\ operators = [op \in Ops |-> [time |-> 0, init |-> FALSE]]
    /\ mix = [x \in 0..(BufLen - 1) |-> Silence]
    /\ buf = [x \in 0..(ChLen - 1) |-> Garbage]
    /\ call = NoCall
    /\ run = NoRun
    /\ pos = 0
    /\ out = NoDelivery

-----------------------------------------------------------------------------
(* sau_create_Generator(): convert_program(), one event per step.          *)

CarryAfter_Dropped(time) == 0
CarryAfter(time) == time % MsPerSec

ConvertEvent ==
    LET time == WaitMs(prog, Len(timeline) + 1) * Srate + carry
    IN  /\ pc = "convert"
        /\ Len(timeline) < EvLen
        /\ timeline' = Append(timeline, time \div MsPerSec)
        /\ carry' = CarryAfter(time)
        /\ UNCHANGED <<pc, prog, nodeVars, bufVars, call, run, histVars>>

Created ==
    /\ pc = "convert"
    /\ Len(timeline) = EvLen
    /\ pc' = "idle"
    /\ UNCHANGED <<progVars, nodeVars, bufVars, call, run, histVars>>

-----------------------------------------------------------------------------
(* sauGenerator_run(), down to the PROCESS label.  The buffer is cleared   *)
(* unless the previous call left it clear.                                 *)

Call ==
    /\ pc = "idle"
    /\ pc' = "events"
    /\ IF gen.out_clear
       THEN UNCHANGED <<gen, buf>>
       ELSE /\ gen' = [gen EXCEPT !.out_clear = TRUE]
            /\ buf' = [x \in 0..(ChLen - 1) |-> Silence]
    /\ call' = [NoCall EXCEPT !.len = ChLen]
    /\ UNCHANGED <<progVars, voices, operators, mix, run, histVars>>

EventDue_Passed ==
    /\ gen.event <= EvLen
    /\ timeline[gen.event] < gen.event_pos
EventDue ==
    /\ gen.event <= EvLen
    /\ timeline[gen.event] <= gen.event_pos

(* prepare_op() for a carrier: which buffer its frequency values are in,   *)
(* by the layout of run_block_wosc() and run_block_rasg().                 *)
FreqBufOf(op) ==
    CASE OpType[op] = "wave"  -> 2
      [] OpType[op] = "raseg" -> 3
      [] OTHER -> 0

(* prepare_op() on first use, and the time part of update_op(). *)
OperatorAfter(e) ==
    LET op == operators[e.carr_op_id]
    IN  [time |-> IF e.sets_time THEN MsInSamples(e.time_ms) ELSE op.time,
         init |-> TRUE]

(* set_voice_duration(), which comes after the update of the operator. *)
VoiceTime_TooSoon(e) == operators[e.carr_op_id].time
VoiceTime(e) == OperatorAfter(e).time

(* Where the voice loop starts: back at a voice that is active again. *)
StartVoice_NotBack(v) == gen.voice
StartVoice(v) == Lesser(gen.voice, v)

VoiceCarrier_Kept(v, e) ==
    IF voices[v].init THEN voices[v].carr_op_id ELSE e.carr_op_id
VoiceCarrier(v, e) == e.carr_op_id

(* handle_event(): the operator first, then its voice, whose duration is   *)
(* set from the operator.                                                  *)
HandleEvent ==
    LET e == prog.events[gen.event]
        op == e.carr_op_id
        v == e.vo_id
    IN  /\ pc = "events"
        /\ EventDue
        /\ operators' = [operators EXCEPT ![op] = OperatorAfter(e)]
        /\ voices' = [voices EXCEPT ![v] =
              [duration |-> VoiceTime(e),
               init |-> TRUE,
               freq_buf_id |-> IF operators[op].init
                               THEN voices[v].freq_buf_id
                               ELSE FreqBufOf(op),
               carr_op_id |-> VoiceCarrier(v, e)]]
        /\ gen' = [gen EXCEPT !.event = @ + 1,
                              !.event_pos = 0,
                              !.voice = StartVoice(v)]
        /\ UNCHANGED <<pc, progVars, bufVars, call, run, histVars>>

(* How much of the buffer to run before the next event must be handled. *)
RunLen_NoLimit ==
    IF gen.event > EvLen THEN call.len
    ELSE timeline[gen.event] - gen.event_pos
RunLen ==
    IF gen.event > EvLen THEN call.len
    ELSE Lesser(call.len, timeline[gen.event] - gen.event_pos)

(* event_pos moves on by what is about to be run. *)
EventPos == gen.event_pos + RunLen

(* The rest of the event loop, and the entry of run_for_time(). *)
BeginRun ==
    /\ pc = "events"
    /\ ~EventDue
    /\ pc' = "blocks"
    /\ gen' = IF gen.event > EvLen THEN gen
              ELSE [gen EXCEPT !.event_pos = EventPos]
    /\ call' = [call EXCEPT !.len = RunLen, !.skip_len = call.len - RunLen]
    /\ run' = [NoRun EXCEPT !.time = RunLen]
    /\ UNCHANGED <<progVars, voices, operators, bufVars, histVars>>

-----------------------------------------------------------------------------
(* run_for_time(): the head of its loop, with mix_clear(). *)
BeginBlock ==
    /\ pc = "blocks"
    /\ run.time > 0
    /\ pc' = "voices"
    /\ LET n == Lesser(run.time, BufLen)
       IN  run' = [run EXCEPT !.time = @ - n, !.len = n,
                              !.i = gen.voice, !.last_len = 0]
    /\ mix' = [x \in 0..(BufLen - 1) |->
                  IF x < gen.mix_add_max THEN Silence ELSE mix[x]]
    /\ gen' = [gen EXCEPT !.mix_add_max = 0]
    /\ UNCHANGED <<progVars, voices, operators, buf, call, histVars>>

(* What the voice loop passes over: a voice with no duration left. *)
SkipVoice ==
    /\ pc = "voices"
    /\ run.i < prog.vo_count
    /\ voices[run.i].duration = 0
    /\ run' = [run EXCEPT !.i = @ + 1]
    /\ UNCHANGED <<pc, progVars, nodeVars, bufVars, call, histVars>>

(* The longest so far: of voice outputs in a block, of mixed-in output. *)
Longest_Last(so_far, n) == n
Longest(so_far, n) == IF so_far < n THEN n ELSE so_far

(* run_voice(), with run_block() for its carrier, and mix_add(): as many   *)
(* samples as the block, the voice and its carrier all have time for.      *)
RunVoice ==
    LET vn == voices[run.i]
        op == vn.carr_op_id
        time == Lesser(vn.duration, run.len)
        n == Lesser(time, operators[op].time)
    IN  /\ pc = "voices"
        /\ run.i < prog.vo_count
        /\ vn.duration # 0
        /\ mix' = [x \in 0..(BufLen - 1) |->
                      IF x < n THEN mix[x] \union {<<op, operators[op].time - x>>}
                      ELSE mix[x]]
        /\ gen' = [gen EXCEPT !.mix_add_max = Longest(@, n)]
        /\ operators' = [operators EXCEPT ![op].time = @ - n]
        /\ voices' = [voices EXCEPT ![run.i].duration = @ - time]
        /\ run' = [run EXCEPT !.i = @ + 1,
                              !.last_len = Longest(@, n)]
        /\ UNCHANGED <<pc, progVars, buf, call, histVars>>

(* mix_write_mono() or mix_write_stereo(): added onto what the caller's    *)
(* buffer holds from the write position on, which moves past it.           *)
MixWrite_AtStart ==
    [x \in 0..(ChLen - 1) |->
        IF call.sp <= x /\ x < call.sp + run.last_len
        THEN buf[x] \union mix[x - call.sp] ELSE buf[x]]
MixWrite ==
    LET from == call.sp + run.gen_len
    IN  [x \in 0..(ChLen - 1) |->
            IF from <= x /\ x < from + run.last_len
            THEN buf[x] \union mix[x - from] ELSE buf[x]]

(* Writing marks the buffer as in need of clearing. *)
Unclear == [gen EXCEPT !.out_clear = FALSE]

(* The end of the block: written only if any voice gave something. *)
EndBlock ==
    /\ pc = "voices"
    /\ run.i >= prog.vo_count
    /\ pc' = "blocks"
    /\ IF run.last_len > 0
       THEN /\ run' = [run EXCEPT !.gen_len = @ + run.last_len]
            /\ buf' = MixWrite
            /\ gen' = Unclear
       ELSE UNCHANGED <<run, buf, gen>>
    /\ UNCHANGED <<progVars, voices, operators, mix, call, histVars>>

-----------------------------------------------------------------------------
(* After run_for_time(): back to PROCESS for what is left of the buffer,   *)
(* or on to the end of the call.                                           *)

EndRun ==
    /\ pc = "blocks"
    /\ run.time = 0
    /\ IF call.skip_len > 0
       THEN /\ pc' = "events"
            /\ call' = [sp |-> call.sp + call.len,
                        len |-> call.skip_len,
                        skip_len |-> 0,
                        gen_len |-> call.gen_len + call.len]
       ELSE /\ pc' = "advance"
            /\ call' = [call EXCEPT !.gen_len = @ + run.gen_len]
    /\ run' = NoRun
    /\ UNCHANGED <<progVars, nodeVars, bufVars, histVars>>

(* Advance the starting voice past those that have ended. *)
AdvanceVoice ==
    /\ pc = "advance"
    /\ gen.voice < prog.vo_count
    /\ voices[gen.voice].duration = 0
    /\ gen' = [gen EXCEPT !.voice = @ + 1]
    /\ UNCHANGED <<pc, progVars, voices, operators, bufVars, call, run, histVars>>

AtEnd == gen.voice = prog.vo_count /\ gen.event > EvLen

(* What the caller gets to see. *)
Return(n, more) ==
    /\ out' = [chunk |-> buf, len |-> n, more |-> more]
    /\ pos' = pos + n
    /\ call' = NoCall
    /\ UNCHANGED <<progVars, nodeVars, bufVars, run>>

ReturnMore ==
    /\ pc = "advance"
    /\ ~AtEnd
    /\ gen.voice < prog.vo_count => voices[gen.voice].duration # 0
    /\ pc' = "idle"
    /\ Return(ChLen, TRUE)

ReturnEnd ==
    /\ pc = "advance"
    /\ AtEnd
    /\ pc' = "ended"
    /\ Return(call.gen_len, FALSE)

(* The player stops calling when a run is over, but with two generators it *)
(* keeps calling the one that ended first (saugns.c, Player_run()).        *)
CallAgain ==
    /\ pc = "ended"
    /\ pc' = "idle"
    /\ UNCHANGED <<progVars, nodeVars, bufVars, call, run, histVars>>

-----------------------------------------------------------------------------

Create == ConvertEvent \/ Created
RunBlock == BeginBlock \/ SkipVoice \/ RunVoice \/ EndBlock
Run == HandleEvent \/ BeginRun \/ RunBlock \/ EndRun
Finish == AdvanceVoice \/ ReturnMore \/ ReturnEnd

Next == Create \/ Call \/ Run \/ Finish \/ CallAgain

Spec == Init /\ [][Next]_vars

(* The code of a call runs to its end by itself; the player's loop calls   *)
(* again as long as it is told that there is more.                         *)
FairSpec == Spec /\ WF_vars(Create \/ Call \/ Run \/ Finish)

-----------------------------------------------------------------------------
(* Properties. *)

GenType == [event : 1..(EvLen + 1), event_pos : Nat, voice : 0..prog.vo_count,
            mix_add_max : 0..BufLen, out_clear : BOOLEAN]
VoiceType == [duration : Nat, init : BOOLEAN, freq_buf_id : 0..3, carr_op_id : Ops]
OperatorType == [time : Nat, init : BOOLEAN]
CallType == [sp : 0..ChLen, len : 0..ChLen, skip_len : 0..ChLen, gen_len : 0..ChLen]
RunType == [time : 0..ChLen, len : 0..BufLen, i : 0..prog.vo_count,
            last_len : 0..BufLen, gen_len : 0..ChLen]
BufType == [0..(ChLen - 1) -> Sample]
OutType == [chunk : {<<>>} \union BufType, len : 0..ChLen, more : BOOLEAN]

(* Every variable has its type, and every array index is in bounds. *)
TypeOK ==
    /\ prog \in Program
    /\ pc \in {"convert", "idle", "events", "blocks", "voices", "advance", "ended"}
    /\ timeline \in Seq(Nat) /\ Len(timeline) <= EvLen
    /\ pc # "convert" => Len(timeline) = EvLen
    /\ carry \in 0..(MsPerSec - 1)
    /\ gen \in GenType
    /\ voices \in [VoiceIds -> VoiceType]
    /\ operators \in [Ops -> OperatorType]
    /\ mix \in [0..(BufLen - 1) -> Sample]
    /\ buf \in BufType
    /\ call \in CallType
    /\ run \in RunType
    /\ pos \in Nat
    /\ out \in OutType

(* The voice loop never starts past a voice that still has time to play,   *)
(* whatever voices end, are reused or are set going again (o->voice).      *)
SkippedVoicesSilent ==
    \A v \in VoiceIds : v < gen.voice => voices[v].duration = 0

(* Outside of handle_event() a voice that plays has just the time its      *)
(* carrier has: run_block() and run_voice() count both down alike.         *)
DurationMatchesCarrier ==
    \A v \in VoiceIds :
        voices[v].duration > 0 =>
            /\ voices[v].init
            /\ voices[v].duration = operators[voices[v].carr_op_id].time

(* No carrier is played by two voices at once, which would run it twice as *)
(* fast and count it down twice.                                           *)
OneVoicePerCarrier ==
    \A u, v \in VoiceIds :
        /\ voices[u].duration > 0
        /\ voices[v].duration > 0
        /\ voices[u].carr_op_id = voices[v].carr_op_id
        => u = v

(* mix_clear() clears only mix_add_max samples: those past it are clear.   *)
MixPastMaxClear ==
    \A x \in 0..(BufLen - 1) : x >= gen.mix_add_max => mix[x] = Silence

(* GEN_OUT_CLEAR is only set while the caller's buffer holds zeros, so the *)
(* next call may go without clearing it.                                   *)
ClearFlagHonest ==
    gen.out_clear => \A x \in DOMAIN buf : buf[x] = Silence

(* sp only moves on by what the voices gave, not by the length of a block: *)
(* once a block falls short, no voice can have anything left for the next, *)
(* or it would be written too early.                                       *)
NothingAfterShortBlock ==
    pc = "blocks" /\ run.gen_len + run.time < call.len =>
        \A v \in VoiceIds : voices[v].duration = 0

(* However a call is cut up by events and into blocks, what a block may    *)
(* write lies in the caller's buffer.                                      *)
WritesInBounds ==
    pc = "voices" => /\ run.last_len <= run.len
                     /\ call.sp + run.gen_len + run.len <= ChLen

(* No drift: with the carry, the waits in samples of any number of events  *)
(* add up to the time in ms of the last one, rounded down once.            *)
StreamPos == pos + call.sp
EventOnTime ==
    [][gen'.event # gen.event => StreamPos = At(prog, gen.event)]_vars

(* A voice is only given to another carrier when the old one has played to *)
(* its last sample, although that was decided from rounded-off ms.         *)
NeverCutOff ==
    [][\A v \in VoiceIds :
         voices'[v].carr_op_id # voices[v].carr_op_id => voices[v].duration = 0]_vars

(* Every program ends: some call returns FALSE. *)
Terminates == <>(pc = "ended")

(* The generator implements the stream: each return is a delivery.         *)
Stream == INSTANCE AudioStream
StreamSpec == Stream!Spec

(* "zero if unused (freq is never main buffer zero)", and the "match       *)
(* run_block_wosc()" and "match run_block_rasg()" of prepare_op(): the     *)
(* frequency buffer a playing voice names is the one its carrier fills.    *)
FreqBufMatchesCarrier ==
    \A v \in VoiceIds :
        voices[v].duration > 0 =>
            voices[v].freq_buf_id = FreqBufOf(voices[v].carr_op_id)

-----------------------------------------------------------------------------
(* The invariant that the proofs are by induction on, in parts. *)

(* The parts of a call add up to its buffer, those of a run to its length. *)
CallAccounting ==
    /\ pc \in {"events", "blocks", "voices", "advance"} =>
          call.sp + call.len + call.skip_len = ChLen
    /\ pc \in {"events", "advance"} => call.skip_len = 0
    /\ pc \in {"events", "blocks", "voices"} => call.gen_len = call.sp
    /\ pc = "blocks" => run.gen_len + run.time <= call.len
    /\ pc = "voices" => run.gen_len + run.len + run.time <= call.len

(* How far voices have got within a block: those the loop has passed and   *)
(* that did not fill it are done; and after a short block all are.         *)
BlockProgress ==
    pc = "voices" =>
        /\ gen.voice <= run.i
        /\ run.last_len <= run.len
        /\ run.last_len < run.len =>
              \A v \in VoiceIds : v < run.i => voices[v].duration = 0
        /\ run.gen_len + run.len + run.time < call.len =>
              \A v \in VoiceIds : voices[v].duration = 0

(* A voice in use belongs to its carrier as the events say it does, and no *)
(* two to the same.                                                        *)
Ownership ==
    /\ \A v \in VoiceIds :
          /\ voices[v].init => Owns(prog, gen.event, v, voices[v].carr_op_id)
          /\ ~voices[v].init => OnVoiceBefore(prog, gen.event, v) = {}
    /\ \A u, v \in VoiceIds :
          /\ voices[u].init
          /\ voices[v].init
          /\ voices[u].carr_op_id = voices[v].carr_op_id
          => u = v

(* The waits converted so far are the distances between the events' own    *)
(* positions, and the carry is what the last position was rounded down by. *)
AtOrZero(k) == IF k = 0 THEN 0 ELSE At(prog, k)
TimelineExact ==
    /\ \A k \in DOMAIN timeline : timeline[k] = AtOrZero(k) - AtOrZero(k - 1)
    /\ carry = (AtMs(prog, Len(timeline)) * Srate) % MsPerSec

(* Until the last event is reached, event_pos counts from the one before.  *)
RunEnd == CASE pc = "events" -> pos + call.sp
            [] pc \in {"blocks", "voices", "advance"} -> pos + call.sp + call.len
            [] OTHER -> pos
EventClock ==
    gen.event <= EvLen =>
        /\ RunEnd = AtOrZero(gen.event - 1) + gen.event_pos
        /\ pc = "convert" => gen.event_pos = 0
        /\ pc # "convert" => gen.event_pos <= timeline[gen.event]

IInv ==
    /\ TypeOK
    /\ CallAccounting
    /\ BlockProgress
    /\ SkippedVoicesSilent
    /\ DurationMatchesCarrier
    /\ Ownership
    /\ NothingAfterShortBlock
    /\ MixPastMaxClear
    /\ ClearFlagHonest
    /\ TimelineExact
    /\ EventClock

-----------------------------------------------------------------------------
(* What ties the state to the signal of the program, for the proof that    *)
(* the generator implements the stream, in parts.                          *)

(* The sample of the signal that the code has come to. *)
Now == CASE pc = "events"  -> pos + call.sp
         [] pc = "blocks"  -> pos + call.sp + (call.len - run.time)
         [] pc = "voices"  -> pos + call.sp + (call.len - run.time - run.len)
         [] pc = "advance" -> pos + call.sp + call.len
         [] OTHER -> pos

InCall == pc \in {"events", "blocks", "voices", "advance"}

(* Where op ends, by the last event so far that has timed it. *)
Timed(op) == TimedBefore(prog, gen.event, op)
Latest(S) == CHOOSE k \in S : \A j \in S : j <= k
EndOf(op) == IF Timed(op) = {} THEN 0 ELSE EndAt(prog, Latest(Timed(op)))

Remaining(end, t) == IF end > t THEN end - t ELSE 0

(* The voice loop has come past the voice of op. *)
Passed(op) ==
    \E v \in VoiceIds : v < run.i /\ voices[v].init /\ voices[v].carr_op_id = op

(* Each carrier has the time left that the events give it, as of now, or   *)
(* of the end of the block; its voice has as much, and it has one as long  *)
(* as it sounds.                                                           *)
Reached(op) == IF pc = "voices" /\ Passed(op) THEN Now + run.len ELSE Now
CarrierClock ==
    /\ \A op \in Ops : operators[op].time = Remaining(EndOf(op), Reached(op))
    /\ \A v \in VoiceIds :
          voices[v].init => voices[v].duration = operators[voices[v].carr_op_id].time
    /\ \A op \in Ops :
          EndOf(op) > Now => \E v \in VoiceIds : voices[v].init /\ voices[v].carr_op_id = op

(* The events handled are those reached.  A call goes on past its start    *)
(* only to an event, and has room left when it comes there.                *)
EventsReached ==
    /\ \A k \in 1..EvLen :
          k < gen.event => At(prog, k) <= IF InCall THEN pos + call.sp ELSE pos
    /\ InCall => call.len > 0
    /\ pc \in {"blocks", "voices"} /\ call.skip_len > 0 =>
          gen.event <= EvLen /\ timeline[gen.event] = gen.event_pos
    /\ InCall /\ call.sp > 0 =>
          \/ pc = "events" /\ EventDue
          \/ gen.event > 1 /\ At(prog, gen.event - 1) = pos + call.sp

(* What is mixed so far is the signal of the carriers passed. *)
MixedSoFar(x) ==
    {<<op, EndOf(op) - (Now + x)>> :
        op \in {o \in Ops : Passed(o) /\ EndOf(o) > Now + x}}
MixExact ==
    pc = "voices" =>
        /\ gen.mix_add_max = run.last_len
        /\ \A x \in 0..(BufLen - 1) : x < run.len => mix[x] = MixedSoFar(x)
        /\ run.last_len > 0 => mix[run.last_len - 1] # Silence
        /\ run.gen_len + run.len + run.time < call.len => run.last_len = 0

(* What is in the caller's buffer is the signal up to now. *)
BufferExact ==
    InCall => \A x \in 0..(ChLen - 1) :
                 buf[x] = IF pos + x < Now THEN IdealSample(prog, pos + x) ELSE Silence

(* What is reported as generated ends with a sample that is not silent, or *)
(* at the event reached last.                                              *)
GenLen == IF pc = "advance" THEN call.gen_len ELSE call.sp + run.gen_len
LengthExact ==
    pc \in {"blocks", "voices", "advance"} =>
        /\ call.sp <= GenLen
        /\ GenLen > call.sp => buf[GenLen - 1] # Silence
        /\ \A x \in 0..(ChLen - 1) : x >= GenLen => buf[x] = Silence

StreamInv ==
    /\ CarrierClock
    /\ EventsReached
    /\ MixExact
    /\ BufferExact
    /\ LengthExact
=============================================================================
