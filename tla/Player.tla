------------------------------- MODULE Player -------------------------------
(***************************************************************************)
(* The program around the generator, src/saugns.c: the options, main(),    *)
(* play() and the player, which opens the outputs, calls the generator for *)
(* each program, or two of them when the audio device has a rate of its    *)
(* own, and writes what they give to the outputs.  With it go the sound    *)
(* file writer and the write calls of the audio device.                    *)
(*                                                                         *)
(* A generator is the AudioStream it implements, at the rate and with the  *)
(* buffer length the player gives it.  Opening, allocating, writing and    *)
(* flushing may fail.  What is written is samples of the stream, each in   *)
(* native or swapped byte order.                                           *)
(***************************************************************************)
EXTENDS Integers, SequencesExt

CONSTANTS
    Ops, OpType, MsPerSec,  \* as in SauProgram
    Rate,           \* the sample rate asked for
    DevRate,        \* another one, which the device may turn out to have
    BufTimeMs,      \* BUF_TIME_MS
    ScriptLists,    \* what the scripts named may be: programs, or NoProgram
    NoProgram,
    StdioBuf,       \* samples that stdio may still hold at exit
    SizeWrap,       \* 2^32 in the code, for the size in a file header
    MaxArgs,        \* bound: options given
    MaxFails        \* bound: failing calls, and underruns

ASSUME PlayerAssumption ==
    /\ BufTimeMs \in Nat /\ StdioBuf \in Nat /\ SizeWrap \in Nat \ {0}
    /\ MaxArgs \in Nat /\ MaxFails \in Nat
    /\ {Rate, DevRate, MsPerSec} \subseteq Nat \ {0}
    /\ Rate # DevRate

VARIABLES
    pc,
    flags, wav_path, nargs,     \* what parse_args() makes of the arguments
    todo,       \* programs yet to play
    player,     \* the struct Player: which outputs are open, and rates
    prog,       \* the program being played
    gen_pos, gen_out,   \* gen
    ad_pos, ad_out,     \* ad_gen
    buf,        \* o->buf, in the byte order it has
    run, error, \* of Player_run()
    status,     \* of play(), and then the exit status
    sinks,      \* what each output has been given, and what went wrong
    file,       \* the sound file: samples counted, size in its header
    due,        \* history: what each output should be given
    fails       \* failures so far

argVars == <<flags, wav_path, nargs>>
genVars == <<prog, gen_pos, gen_out, ad_pos, ad_out>>
outVars == <<sinks, file, due>>
vars == <<pc, argVars, todo, player, genVars, buf, run, error, status,
          outVars, fails>>

-----------------------------------------------------------------------------
(* Buffers are of BUF_TIME_MS at each rate, and not empty. *)
LenAt(rate) ==
    LET n == (BufTimeMs * rate) \div MsPerSec
    IN  IF n < 1 THEN 1 ELSE n

Gen == INSTANCE AudioStream WITH
    Srate <- Rate, ChLen <- LenAt(Rate), pos <- gen_pos, out <- gen_out
DevGen == INSTANCE AudioStream WITH
    Srate <- DevRate, ChLen <- LenAt(DevRate), pos <- gen_pos, out <- gen_out
AdGen == INSTANCE AudioStream WITH
    Srate <- DevRate, ChLen <- LenAt(DevRate), pos <- ad_pos, out <- ad_out

ASSUME ScriptsAssumption == ScriptLists \subseteq Seq(Gen!Program \union {NoProgram})

Outputs == {"dev", "raw", "file"}
Closed == [dev |-> FALSE, raw |-> FALSE, file |-> FALSE, srate |-> Rate,
           dev_rate |-> Rate, split_gen |-> FALSE, ch_count |-> 2]

Init ==
    /\ pc = "args"
    /\ flags = {} /\ wav_path = "none" /\ nargs = 0
    /\ todo = <<>>
    /\ player = Closed
    /\ prog = NoProgram
    /\ gen_pos = 0 /\ gen_out = Gen!NoDelivery
    /\ ad_pos = 0 /\ ad_out = Gen!NoDelivery
    /\ buf = <<>>
    /\ run = FALSE /\ error = FALSE /\ status = TRUE
    /\ sinks = [s \in Outputs |-> [got |-> <<>>, failed |-> FALSE, lost |-> FALSE]]
    /\ file = [samples |-> 0, size |-> 0]
    /\ due = [s \in Outputs |-> <<>>]
    /\ fails = 0

MayFail == fails < MaxFails /\ fails' = fails + 1

-----------------------------------------------------------------------------
(* parse_args(): each option excludes some that came before it. *)

Sets == [mono   |-> {"full", "mono"},    stdout |-> {"full", "stdout"},
         a      |-> {"full", "enable"},  m      |-> {"full", "disable"},
         c      |-> {"check"},           r      |-> {"full"},
         o_path |-> {"full"},            o_dash |-> {"full", "au"}]

Excludes == [mono   |-> {"check"},            stdout |-> {"check", "au"},
             a      |-> {"check", "disable"}, m      |-> {"check", "enable"},
             c      |-> {"full"},             r      |-> {"check"},
             o_path |-> {"check"},            o_dash |-> {"check", "stdout"}]

Refused_DashLast(arg) == arg # "o_dash" /\ flags \intersect Excludes[arg] # {}
Refused(arg) == flags \intersect Excludes[arg] # {}

Option(arg) ==
    /\ pc = "args"
    /\ nargs < MaxArgs
    /\ nargs' = nargs + 1
    /\ IF Refused(arg)
       THEN /\ pc' = "exit"
            /\ UNCHANGED <<flags, wav_path>>
       ELSE /\ flags' = flags \union Sets[arg]
            /\ wav_path' = CASE arg = "o_path" -> "path"
                             [] arg = "o_dash" -> "-"
                             [] OTHER -> wav_path
            /\ UNCHANGED pc
    /\ UNCHANGED <<todo, player, genVars, buf, run, error, status, outVars, fails>>

(* main() goes on to read the scripts, and to play unless all failed. *)
ReadScripts ==
    /\ pc = "args"
    /\ todo' \in ScriptLists
    /\ status' = \E x \in DOMAIN todo' : todo'[x] # NoProgram
    /\ pc' = IF status' THEN "init" ELSE "exit"
    /\ UNCHANGED <<argVars, player, genVars, buf, run, error, outVars, fails>>

-----------------------------------------------------------------------------
(* init_Player() *)

HasFile == wav_path # "none"
IsAU == HasFile /\ "au" \in flags
UseAudiodev == IF HasFile THEN "enable" \in flags ELSE "disable" \notin flags

(* With every output open.  One generator serves when all have one rate.   *)
Opened(dev_rate) ==
    LET kept == "stdout" \in flags \/ HasFile
    IN  [dev |-> UseAudiodev, raw |-> "stdout" \in flags, file |-> HasFile,
         srate |-> IF kept THEN Rate ELSE dev_rate,
         dev_rate |-> dev_rate,
         split_gen |-> kept /\ dev_rate # Rate,
         ch_count |-> IF "mono" \in flags THEN 1 ELSE 2]

DevRates == IF UseAudiodev THEN {Rate, DevRate} ELSE {Rate}

InitPlayer ==
    /\ pc = "init"
    /\ pc' = "play"
    /\ IF "check" \in flags THEN player' = Closed
       ELSE \E dev_rate \in DevRates : player' = Opened(dev_rate)
    /\ UNCHANGED <<argVars, todo, genVars, buf, run, error, status, outVars, fails>>

(* The device cannot be opened; or then the file; or memory for the        *)
(* buffers is not to be had.                                               *)
InitFails ==
    /\ pc = "init"
    /\ "check" \notin flags
    /\ MayFail
    /\ pc' = "fini"
    /\ status' = FALSE
    /\ \/ UseAudiodev /\ player' = Closed
       \/ HasFile /\ player' = [Closed EXCEPT !.dev = UseAudiodev]
       \/ \E dev_rate \in DevRates : player' = Opened(dev_rate)
    /\ UNCHANGED <<argVars, todo, genVars, buf, run, error, outVars>>

-----------------------------------------------------------------------------
(* What each output should get of a program: all its sound, at the rate of *)
(* the output and in its byte order.                                       *)

Native(sample) == [sample |-> sample, swapped |-> FALSE]
(* convert_endian(); silence is the same in both orders. *)
Swapped(x) == IF x.sample = {} THEN x ELSE [x EXCEPT !.swapped = ~@]
SwapAll(s) == [x \in DOMAIN s |-> Swapped(s[x])]

SoundAt(p, rate) ==
    LET signal == IF rate = Rate THEN Gen!Signal(p) ELSE DevGen!Signal(p)
    IN  [x \in DOMAIN signal |-> Native(signal[x])]

DueFor(s, p) ==
    IF ~player[s] THEN <<>>
    ELSE CASE s = "dev"          -> SoundAt(p, player.dev_rate)
           [] s = "file" /\ IsAU -> SwapAll(SoundAt(p, Rate))
           [] OTHER              -> SoundAt(p, Rate)

DueAfter(p) == [s \in Outputs |-> due[s] \o DueFor(s, p)]

-----------------------------------------------------------------------------
(* play(), and Player_run() up to its loop *)

SkipProgram ==
    /\ pc = "play"
    /\ todo # <<>>
    /\ Head(todo) = NoProgram
    /\ todo' = Tail(todo)
    /\ UNCHANGED <<pc, argVars, player, genVars, buf, run, error, status,
                   outVars, fails>>

CreateGenerators ==
    /\ pc = "play"
    /\ todo # <<>>
    /\ Head(todo) # NoProgram
    /\ prog' = Head(todo)
    /\ gen_pos' = 0 /\ gen_out' = Gen!NoDelivery
    /\ ad_pos' = 0 /\ ad_out' = Gen!NoDelivery
    /\ run' = ("check" \notin flags)
    /\ error' = FALSE
    /\ pc' = "loop"
    /\ due' = DueAfter(prog')
    /\ UNCHANGED <<argVars, todo, player, buf, status, sinks, file, fails>>

(* No memory for gen or ad_gen: the outputs go without this program. *)
CreateFails ==
    /\ pc = "play"
    /\ todo # <<>>
    /\ Head(todo) # NoProgram
    /\ MayFail
    /\ prog' = Head(todo)
    /\ run' = FALSE
    /\ error' = TRUE
    /\ pc' = "loop"
    /\ due' = DueAfter(prog')
    /\ sinks' = [s \in Outputs |-> [sinks[s] EXCEPT !.failed = @ \/ player[s]]]
    /\ UNCHANGED <<argVars, todo, player, gen_pos, gen_out, ad_pos, ad_out, buf,
                   status, file>>

-----------------------------------------------------------------------------
(* The loop of Player_run(): a buffer from each generator, then to each    *)
(* output what it is to have.                                              *)

(* The order of the steps in the loop's body. *)
Following_FileFirst == [loop |-> "write_file", write_file |-> "write_dev",
                        write_dev |-> "write_raw", write_raw |-> "loop"]
Following == [loop |-> "write_dev", write_dev |-> "write_raw",
              write_raw |-> "write_file", write_file |-> "loop"]

GoesOn_Both == gen_out'.more \/ player.split_gen
GoesOn_First == gen_out'.more
GoesOn == gen_out'.more \/ (player.split_gen /\ ad_out'.more)

Delivered(out) == [x \in 1..out.len |-> Native(out.chunk[x - 1])]

Generate ==
    /\ pc = "loop"
    /\ run
    /\ IF player.srate = Rate THEN Gen!Deliver ELSE DevGen!Deliver
    /\ IF player.split_gen THEN AdGen!Deliver ELSE UNCHANGED <<ad_pos, ad_out>>
    /\ run' = GoesOn
    /\ buf' = Delivered(gen_out')
    /\ pc' = Following.loop
    /\ UNCHANGED <<argVars, todo, player, error, status, outVars, fails>>

(* n of the samples get to s; the writer is told whether all did.  (What   *)
(* stdio still held of earlier ones may go with those that do not.)        *)
Arrive(s, samples, n) ==
    LET ok == n = Len(samples)
    IN  /\ sinks' = [sinks EXCEPT ![s].got = @ \o SubSeq(samples, 1, n),
                                  ![s].failed = @ \/ ~ok]
        /\ error' = (error \/ ~ok)
        /\ IF ok THEN UNCHANGED fails ELSE MayFail

DevSamples == IF player.split_gen THEN Delivered(ad_out) ELSE buf

(* linux_write() and oss_write(): written may be short, or -1. *)
WriteDev ==
    /\ pc = "write_dev"
    /\ player.dev
    /\ \E written \in -1..Len(DevSamples) : Arrive("dev", DevSamples, written)
    /\ pc' = Following.write_dev
    /\ UNCHANGED <<argVars, todo, player, genVars, buf, run, status, file, due>>

(* -EPIPE: ALSA is made ready again, and the same samples are tried again. *)
Underrun ==
    /\ pc = "write_dev"
    /\ player.dev
    /\ MayFail
    /\ UNCHANGED <<pc, argVars, todo, player, genVars, buf, run, error, status, outVars>>

WriteRaw ==
    /\ pc = "write_raw"
    /\ player.raw
    /\ \E written \in 0..Len(buf) : Arrive("raw", buf, written)
    /\ pc' = Following.write_raw
    /\ UNCHANGED <<argVars, todo, player, genVars, buf, run, status, file, due>>

(* SGS_SndFile_write() converts the buffer in place. *)
WriteFile ==
    /\ pc = "write_file"
    /\ player.file
    /\ buf' = IF IsAU THEN SwapAll(buf) ELSE buf
    /\ \E written \in 0..Len(buf) :
          /\ Arrive("file", buf', written)
          /\ file' = [file EXCEPT !.samples = @ + written]
    /\ pc' = Following.write_file
    /\ UNCHANGED <<argVars, todo, player, genVars, run, status, due>>

NoWrite ==
    /\ \/ pc = "write_dev" /\ ~player.dev
       \/ pc = "write_raw" /\ ~player.raw
       \/ pc = "write_file" /\ ~player.file
    /\ pc' = Following[pc]
    /\ UNCHANGED <<argVars, todo, player, genVars, buf, run, error, status,
                   outVars, fails>>

StatusWith_Last(ok) == ok
StatusWith(ok) == status /\ ok

(* The end of Player_run(), and of play()'s turn for the program. *)
EndRun ==
    /\ pc = "loop"
    /\ ~run
    /\ status' = StatusWith(~error)
    /\ todo' = Tail(todo)
    /\ pc' = "play"
    /\ UNCHANGED <<argVars, player, genVars, buf, run, error, outVars, fails>>

EndPlay ==
    /\ pc = "play"
    /\ todo = <<>>
    /\ pc' = "fini"
    /\ UNCHANGED <<argVars, todo, player, genVars, buf, run, error, status,
                   outVars, fails>>

-----------------------------------------------------------------------------
(* fini_Player(), with SGS_close_SndFile(), and the exit of the program *)

AudioBytes == player.ch_count * file.samples * 2

(* What is lost when the last flush of a file fails. *)
WithoutLast(s, n) ==
    [sinks EXCEPT ![s].got = SubSeq(@, 1, Len(@) - n), ![s].lost = TRUE]
LastSizes(s) == {n \in 1..StdioBuf : n <= Len(sinks[s].got)}

(* update_wav_header() flushes by seeking, and sets the size; fclose()     *)
(* flushes that.  A failure of the first is seen by ferror().              *)
HeaderUpdated ==
    /\ file' = [file EXCEPT !.size = AudioBytes % SizeWrap]
    /\ UNCHANGED <<sinks, fails>>
SeekFails ==
    /\ MayFail
    /\ \E n \in LastSizes("file") :
          sinks' = [WithoutLast("file", n) EXCEPT !.file.failed = TRUE]
    /\ UNCHANGED file
CloseFails ==
    /\ MayFail
    /\ sinks' = [sinks EXCEPT !.file.lost = TRUE]
    /\ UNCHANGED file

Fini ==
    /\ pc = "fini"
    /\ pc' = "flush"
    /\ player' = [player EXCEPT !.dev = FALSE, !.file = FALSE]
    /\ IF player.file /\ ~IsAU
       THEN HeaderUpdated \/ SeekFails \/ CloseFails
       ELSE UNCHANGED <<sinks, file, fails>>
    /\ status' = (status /\ ~(player.file /\ sinks'.file.failed))
    /\ UNCHANGED <<argVars, todo, genVars, buf, run, error, due>>

(* main() returns; exit() flushes stdout, and tells nobody if that fails.  *)
OnStdout == {s \in {"raw", "file"} : IF s = "raw" THEN player.raw ELSE IsAU}

Exit ==
    /\ pc = "flush"
    /\ pc' = "exit"
    /\ \/ UNCHANGED <<sinks, fails>>
       \/ /\ MayFail
          /\ \E s \in OnStdout : \E n \in LastSizes(s) : sinks' = WithoutLast(s, n)
    /\ UNCHANGED <<argVars, todo, player, genVars, buf, run, error, status, file, due>>

Exited == pc = "exit" /\ UNCHANGED vars

-----------------------------------------------------------------------------
Next ==
    \/ \E arg \in DOMAIN Sets : Option(arg)
    \/ ReadScripts
    \/ InitPlayer \/ InitFails
    \/ SkipProgram \/ CreateGenerators \/ CreateFails
    \/ Generate \/ WriteDev \/ Underrun \/ WriteRaw \/ WriteFile \/ NoWrite
    \/ EndRun \/ EndPlay
    \/ Fini \/ Exit \/ Exited

Spec == Init /\ [][Next]_vars
FairSpec == Spec /\ WF_vars(Next)

-----------------------------------------------------------------------------
(* Type invariant: what the fields of the player and the outputs may hold, *)
(* that two generators run at two rates, and that in whatever order the    *)
(* options come, raw audio and an AU file never share stdout, and sound is *)
(* not asked for and refused, or only checked for and played (parse_args). *)
Conflicting == {{"stdout", "au"}, {"enable", "disable"}, {"check", "full"}}
Sampled == [sample : Gen!Sample, swapped : BOOLEAN]
TypeOK ==
    /\ pc \in {"args", "init", "play", "fini", "flush", "exit"} \union DOMAIN Following
    /\ flags \subseteq UNION {Sets[arg] : arg \in DOMAIN Sets}
    /\ wav_path \in {"none", "path", "-"}
    /\ nargs \in 0..MaxArgs /\ fails \in 0..MaxFails
    /\ player.srate \in {Rate, DevRate} /\ player.ch_count \in {1, 2}
    /\ player.split_gen => player.srate = Rate /\ player.dev_rate = DevRate
    /\ \A s \in Outputs : /\ player[s] \in BOOLEAN
                          /\ sinks[s].got \in Seq(Sampled)
                          /\ due[s] \in Seq(Sampled)
    /\ buf \in Seq(Sampled) /\ Len(buf) <= LenAt(player.srate)
    /\ file.samples \in Nat /\ file.size \in 0..(SizeWrap - 1)
    /\ run \in BOOLEAN /\ error \in BOOLEAN /\ status \in BOOLEAN
    /\ \A pair \in Conflicting : ~pair \subseteq flags

(* An output that has had no failed write has the sound of the programs,   *)
(* one after the other and none left out, at its own rate and in its own   *)
(* byte order, up to some point: converting the buffer for an AU file does *)
(* not reach the device, though it is written from the same buffer, and    *)
(* the rate of the device does not reach the file.                         *)
InOrder ==
    \A s \in Outputs : ~sinks[s].failed => IsPrefix(sinks[s].got, due[s])

(* When Player_run() is done with a program, every output without a failed *)
(* write has all of it, whatever happened to the other outputs, and also   *)
(* when the generator that feeds another one has ended earlier.            *)
OthersGoOn ==
    pc = "loop" /\ ~run =>
        \A s \in Outputs : player[s] /\ ~sinks[s].failed => sinks[s].got = due[s]

(* Exit status 0 means that each output has all of its sound and had no    *)
(* failed write, in any of the programs, except for what the last flush of *)
(* a file loses; and that the header of a WAV file has the size of the     *)
(* audio data in it.                                                       *)
OkMeansAll ==
    pc = "exit" /\ status =>
        /\ \A s \in Outputs :
              ~sinks[s].failed /\ (sinks[s].got = due[s] \/ sinks[s].lost)
        /\ ~IsAU /\ ~sinks.file.lost =>
              file.size = player.ch_count * 2 * Len(sinks.file.got)

(* The program ends: no output, and no generator that has ended before the *)
(* other, keeps the loop going.                                            *)
Terminates == <>(pc = "exit")

(* man/saugns.1:140-142, "if any errors occured ... during interpretation  *)
(* and audio output, 1 is returned": 0 would mean that all was output.     *)
ExitTellsLoss ==
    pc = "exit" /\ status => \A s \in Outputs : sinks[s].got = due[s]

(* "Updates the file header with the total length/size of audio data       *)
(* written" (player/sndfile.c:193-194): a WAV file that was closed without *)
(* loss says of itself how much is in it, however much that is.            *)
SizeIsTotal ==
    pc = "exit" /\ sinks.file.got # <<>> /\ ~IsAU /\ ~sinks.file.lost =>
        file.size = player.ch_count * 2 * Len(sinks.file.got)

-----------------------------------------------------------------------------
(* The invariant that the proofs are by induction on, in parts.            *)

PlayerType == [dev : BOOLEAN, raw : BOOLEAN, file : BOOLEAN,
               srate : {Rate, DevRate}, dev_rate : {Rate, DevRate},
               split_gen : BOOLEAN, ch_count : {1, 2}]
SinkType == [got : Seq(Sampled), failed : BOOLEAN, lost : BOOLEAN]

InRun == pc \in DOMAIN Following
AtEnd == pc \in {"flush", "exit"}

Types ==
    /\ pc \in {"args", "init", "play", "fini", "flush", "exit"} \union DOMAIN Following
    /\ todo \in Seq(Gen!Program \union {NoProgram})
    /\ player \in PlayerType
    /\ InRun => prog \in Gen!Program /\ todo # <<>>
    /\ gen_pos \in Nat /\ ad_pos \in Nat
    /\ buf \in Seq(Sampled) /\ Len(buf) <= LenAt(player.srate)
    /\ pc = "write_dev" => DevSamples \in Seq(Sampled)
    /\ run \in BOOLEAN /\ error \in BOOLEAN /\ status \in BOOLEAN
    /\ sinks \in [Outputs -> SinkType]
    /\ due \in [Outputs -> Seq(Sampled)]
    /\ file \in [samples : Nat, size : 0..(SizeWrap - 1)]
    /\ fails \in 0..MaxFails

Options ==
    /\ flags \subseteq UNION {Sets[arg] : arg \in DOMAIN Sets}
    /\ wav_path \in {"none", "path", "-"}
    /\ nargs \in 0..MaxArgs
    /\ \A pair \in Conflicting : ~pair \subseteq flags

(* No output is open or fed at first; then which share a generator, and    *)
(* have its rate.                                                          *)
Setup ==
    /\ pc \in {"args", "init"} =>
          player = Closed /\ buf = <<>> /\ \A s \in Outputs : ~sinks[s].failed
    /\ "check" \in flags => \A s \in Outputs : ~player[s]
    /\ player.split_gen => player.srate = Rate /\ player.dev_rate = DevRate
    /\ ~player.split_gen => player.dev_rate = player.srate
    /\ player.raw \/ player.file => player.srate = Rate

(* What an output is written from, and whether this has its turn to come.  *)
Stream(s) ==
    IF s = "dev" /\ player.split_gen THEN [pos |-> ad_pos, out |-> ad_out]
    ELSE [pos |-> gen_pos, out |-> gen_out]
ToWrite(s) ==
    IF s = "dev" THEN DevSamples ELSE IF s = "file" /\ IsAU THEN SwapAll(buf) ELSE buf
Waiting(s) ==
    \/ pc = "write_dev"
    \/ pc = "write_raw" /\ s # "dev"
    \/ pc = "write_file" /\ s = "file"
Written(s) ==
    IF ~player[s] THEN 0
    ELSE Stream(s).pos - (IF Waiting(s) THEN Stream(s).out.len ELSE 0)

(* Of what is due for the program an output has as much as its generator   *)
(* has given, but for the buffer that waits to be written to it.           *)
HasReached(s) ==
    \E n \in 0..Len(due[s]) :
        /\ due[s] = SubSeq(due[s], 1, n) \o DueFor(s, prog)
        /\ sinks[s].got = SubSeq(due[s], 1, n) \o SubSeq(DueFor(s, prog), 1, Written(s))

StreamSound(s) ==
    LET st == Stream(s)
        sound == DueFor(s, prog)
    IN  /\ st.pos <= Len(sound)
        /\ ~st.out.more => st.pos = Len(sound)
        /\ ~run => ~st.out.more
        /\ Waiting(s) => /\ st.out.len \in 0..st.pos
                         /\ ToWrite(s) = SubSeq(sound, st.pos - st.out.len + 1, st.pos)

Progress ==
    \A s \in Outputs : ~sinks[s].failed =>
        /\ InRun => HasReached(s) /\ (player[s] => StreamSound(s))
        /\ ~InRun => \/ sinks[s].got = due[s]
                     \/ AtEnd /\ sinks[s].lost /\ IsPrefix(sinks[s].got, due[s])

(* A failure is not forgotten. *)
Told == \A s \in Outputs : sinks[s].failed => ~status \/ (InRun /\ error)

(* Until the end the file has all that is counted; then the header has. *)
Counted ==
    /\ ~AtEnd => file.size = 0 /\ file.samples = Len(sinks.file.got)
    /\ ~AtEnd /\ ~player.file => file.samples = 0
    /\ AtEnd /\ ~IsAU /\ ~sinks.file.lost =>
          file.samples = Len(sinks.file.got) /\ file.size = AudioBytes % SizeWrap

PlayerInv ==
    /\ Types
    /\ Options
    /\ Setup
    /\ Progress
    /\ Told
    /\ Counted
=============================================================================
