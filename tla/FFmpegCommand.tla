--------------------------- MODULE FFmpegCommand ---------------------------
(* FFmpeg commands run inside the app's process.                           *)
(*                                                                         *)
(* FFmpegTool.execCmd starts one Java thread per command; each calls the   *)
(* renamed main() of ffmpeg.c, run_ffmepg_cmd, over the file-scope         *)
(* variables all commands of the process share, and posts the value it     *)
(* returns to the main looper.  exit_program used to end the process; here *)
(* it runs ffmpeg_cleanup and returns, so the code after every call of it  *)
(* goes on.  A run r of Runs is one execCmd call and its thread.           *)
EXTENDS Integers, Sequences, FiniteSets

CONSTANTS
    Runs,        \* the execCmd calls of one app process
    Listeners,   \* the runs issued with a listener that is not null
    Serial,      \* TRUE: the app issues a command after the last one is over
    Faults,      \* the faults the environment may inject (subset of AllFaults)
    MaxPackets,  \* bound: decode results counted in the process's life
    MaxSignals   \* bound: signals delivered to the process

AllFaults == {"badOption",        \* split_commandline rejects an option
              "noInput",          \* avformat_open_input fails
              "badOutputOption",  \* parse_optgroup rejects an output option
              "badOutput",        \* no muxer, or avio_open2 fails
              "outputExists",     \* the output path exists already
              "initFails",        \* transcode_init returns < 0
              "stepFatal",        \* exit_program(1) inside transcode_step
              "filterError",      \* transcode_step returns < 0
              "corruptPacket",    \* a decoder returns < 0
              "writeError",       \* av_interleaved_write_frame returns < 0
              "trailerFails",     \* av_write_trailer returns < 0
              "noPackets"}        \* a stream of the output gets no packet

ASSUME CommandAssumption ==
    /\ Listeners \subseteq Runs
    /\ Serial \in BOOLEAN
    /\ Faults \subseteq AllFaults
    /\ MaxPackets \in Nat
    /\ MaxSignals \in Nat

VARIABLES
    alive,                \* the process has not crashed or been killed
    pc,                   \* where each run's thread is
    ret,                  \* what run_ffmepg_cmd returned (NoRet before)
    hasY,                 \* the run's arguments hold -y
    input_files,          \* runs whose input nb_input_files counts
    output_files,         \* runs whose output nb_output_files counts
    stale,                \* some counted table entry has been freed
    file_overwrite,       \* the global that -y sets
    main_return_code,
    decoded, corrupt,     \* decode_error_stat[0] and [1]
    received_nb_signals,
    transcode_init_done,
    finished,             \* outputs whose streams are all marked finished
    out,                  \* what the run's output file is on disk
    source,               \* the run whose input feeds the run's output
    met,                  \* history: the faults each run has met
    clobbered,            \* history: runs that replaced an existing file unasked
    queue,                \* messages of the main looper
    called                \* history: listener calls <<run, ret>>, in order

options == <<hasY, file_overwrite, clobbered>>
tables  == <<input_files, output_files, stale>>
stats   == <<main_return_code, decoded, corrupt, transcode_init_done>>
results == <<finished, out, source>>
ui      == <<queue, called>>
vars    == <<alive, pc, ret, received_nb_signals, met,
             options, tables, stats, results, ui>>

NoRet == -1
PCs   == {"new", "options", "inputs", "outputs", "check", "init", "loop",
          "flush", "stats", "exit", "reset", "post", "done"}
InRun == PCs \ {"new", "done"}

\* What an output file on disk is, when transcode is done with it and before.
Ended     == {"closed", "noTrailer", "empty"}
OutStates == {"absent", "open", "broken"} \cup Ended

Init ==
    /\ alive = TRUE
    /\ pc = [r \in Runs |-> "new"]
    /\ ret = [r \in Runs |-> NoRet]
    /\ hasY = [r \in Runs |-> FALSE]
    /\ input_files = {} /\ output_files = {} /\ stale = FALSE
    /\ file_overwrite = FALSE
    /\ main_return_code = 0
    /\ decoded = 0 /\ corrupt = 0
    /\ received_nb_signals = 0
    /\ transcode_init_done = 0
    /\ finished = {}
    /\ out = [r \in Runs |-> "absent"]
    /\ source = [r \in Runs |-> r]
    /\ met = [r \in Runs |-> {}]
    /\ clobbered = {}
    /\ queue = <<>> /\ called = <<>>

-----------------------------------------------------------------------------
(* Helpers                                                                 *)

Goto(r, from, to) == pc[r] = from /\ pc' = [pc EXCEPT ![r] = to]

Meet(r, f) == f \in Faults /\ met' = [met EXCEPT ![r] = @ \cup {f}]

Crash == alive' = FALSE

\* The tables still hold something, in or beyond their freed slots.
Counted == input_files \cup output_files # {}

\* Mutant of exit_program: no clean-up is registered.
exit_program_leaks == UNCHANGED tables

\* exit_program(ret): ffmpeg_cleanup frees the entries the nb_ counters
\* count and sets the arrays to NULL, but leaves the counters, and returns.
exit_program ==
    /\ ~stale
    /\ stale' = Counted
    /\ UNCHANGED <<input_files, output_files>>

\* (decode_error_stat[0] + decode_error_stat[1]) * max_error_rate
\*     < decode_error_stat[1], with max_error_rate = 2.0/3
TooManyErrors == (decoded + corrupt) * 2 < corrupt * 3

\* Mutants of ReturnValue: a signal is told as a shell does; the signal test
\* is off by one; a failed write is forgotten.
ReturnValueShell ==
    IF received_nb_signals > 0 THEN 128 + received_nb_signals ELSE main_return_code
ReturnValueSignal == IF received_nb_signals >= 0 THEN 255 ELSE main_return_code
ReturnValueSuccess == IF received_nb_signals > 0 THEN 255 ELSE 0

\* received_nb_signals ? 255 : main_return_code
ReturnValue == IF received_nb_signals > 0 THEN 255 ELSE main_return_code

\* Mutant of ResetTables: a counter is forgotten.
ResetInputs == input_files' = {} /\ stale' = FALSE /\ UNCHANGED output_files

\* The tables and their counters, as the reset block leaves them.
ResetTables == input_files' = {} /\ output_files' = {} /\ stale' = FALSE

\* -y sets file_overwrite; nothing clears it.
Overwrite(r) == file_overwrite \/ hasY[r]

\* Mutant of Answer: the result is read from the shared variable.
AnswerShared(r) == <<r, main_return_code>>

\* The Runnable posted for r keeps the value its thread got.
Answer(r) == <<r, ret[r]>>

\* Mutant of Heard: only a success is posted.
HeardOnSuccess(r) == r \in Listeners /\ ret[r] = 0

\* The run has a listener to post to.
Heard(r) == r \in Listeners

\* decode_interrupt_cb: I/O in progress is abandoned.
Interrupted == received_nb_signals > transcode_init_done

Over(r) == pc[r] = "done" /\ \A i \in 1..Len(queue) : queue[i][1] # r

-----------------------------------------------------------------------------
(* FFmpegTool.captureImage and transferVideo, on the main looper           *)

\* captureImage passes -y, transferVideo does not.
execCmd(r) ==
    /\ alive
    /\ Serial => \A o \in Runs : pc[o] = "new" \/ Over(o)
    /\ Goto(r, "new", "options")
    /\ \E y \in BOOLEAN : hasY' = [hasY EXCEPT ![r] = y]
    /\ UNCHANGED <<alive, ret, received_nb_signals, met, file_overwrite,
                   clobbered, tables, stats, results, ui>>

\* The looper runs the posted Runnable: listener.onExecCmdResult(ret).
onExecCmdResult ==
    /\ alive
    /\ queue # <<>>
    /\ called' = Append(called, Head(queue))
    /\ queue' = Tail(queue)
    /\ UNCHANGED <<alive, pc, ret, received_nb_signals, met, options, tables,
                   stats, results>>

-----------------------------------------------------------------------------
(* ffmpeg_parse_options                                                    *)

\* split_commandline and the global options; file_overwrite is only ever set.
split_commandline(r) ==
    /\ alive
    /\ \/ /\ Goto(r, "options", "inputs")
          /\ file_overwrite' = Overwrite(r)
          /\ UNCHANGED <<met, tables>>
       \/ /\ Goto(r, "options", "check")
          /\ Meet(r, "badOption")
          /\ exit_program
          /\ UNCHANGED file_overwrite
    /\ UNCHANGED <<alive, ret, received_nb_signals, hasY, clobbered, stats,
                   results, ui>>

\* A failed open calls exit_program and then reads ic->nb_streams, ic = NULL.
open_input_file(r) ==
    /\ alive
    /\ \/ /\ ~Interrupted
          /\ Goto(r, "inputs", "outputs")
          /\ input_files' = input_files \cup {r}
          /\ UNCHANGED <<alive, met>>
       \/ /\ pc[r] = "inputs"
          /\ (Interrupted /\ UNCHANGED met) \/ Meet(r, "noInput")
          /\ Crash
          /\ UNCHANGED <<pc, input_files>>
    /\ UNCHANGED <<ret, received_nb_signals, options, output_files, stale, stats,
                   results, ui>>

\* The new entry is counted first.  A failed open, or an existing file that
\* must be kept, calls exit_program and goes on with the freed entry: it
\* crashes there, or truncates the file all the same and runs on with stale
\* tables.  The output takes its streams from the best input stream in the
\* table, whoever opened it.
open_output_file(r) ==
    /\ alive
    /\ ~stale
    /\ Goto(r, "outputs", "check")
    /\ \/ /\ Meet(r, "badOutputOption")
          /\ exit_program
          /\ UNCHANGED <<alive, out, source, clobbered>>
       \/ /\ output_files' = output_files \cup {r}
          /\ \/ Meet(r, "badOutput") /\ UNCHANGED clobbered
             \/ /\ Meet(r, "outputExists") /\ ~file_overwrite  \* answered N
                /\ clobbered' \in {clobbered, clobbered \cup {r}}
             \/ input_files = {} /\ UNCHANGED <<met, clobbered>>
          /\ stale' = TRUE
          /\ alive' \in BOOLEAN
          /\ UNCHANGED <<input_files, out, source>>
       \/ /\ output_files' = output_files \cup {r}
          /\ out' = [out EXCEPT ![r] = "open"]
          /\ \/ UNCHANGED <<met, clobbered>>
             \/ /\ Meet(r, "outputExists") /\ ~file_overwrite  \* answered y
                /\ UNCHANGED clobbered
             \/ /\ Meet(r, "outputExists") /\ file_overwrite
                /\ clobbered' = IF hasY[r] THEN clobbered
                                           ELSE clobbered \cup {r}
          /\ \E s \in input_files : source' = [source EXCEPT ![r] = s]
          /\ UNCHANGED <<alive, input_files, stale>>
    /\ UNCHANGED <<ret, received_nb_signals, hasY, file_overwrite, stats,
                   finished, ui>>

-----------------------------------------------------------------------------
(* run_ffmepg_cmd after the parsing, and transcode                         *)

\* With no output: show_usage, and exit_program(1) once or twice; the second
\* call finds empty tables.  Otherwise the loop that clears want_sdp reads
\* every output.
check_files(r) ==
    /\ alive
    /\ ~stale
    /\ Goto(r, "check", "init")
    /\ IF output_files = {} THEN exit_program ELSE UNCHANGED tables
    /\ UNCHANGED <<alive, ret, received_nb_signals, met, options, stats, results,
                   ui>>

\* transcode_init, or init_input_threads after it, may fail: transcode() < 0
\* calls exit_program(1) and the code goes on.
transcode_init(r) ==
    /\ alive
    /\ ~stale
    /\ \/ /\ Goto(r, "init", "loop")
          /\ transcode_init_done' = 1
          /\ UNCHANGED <<met, tables>>
       \/ /\ input_files # {}
          /\ Goto(r, "init", "stats")
          /\ Meet(r, "initFails")
          /\ exit_program
          /\ transcode_init_done' \in {transcode_init_done, 1}
    /\ UNCHANGED <<alive, ret, received_nb_signals, options, main_return_code,
                   decoded, corrupt, results, ui>>

need_output == output_files \ finished # {}

\* check_decode_result counts a decoded frame or a failing packet.
check_decode_result(r) ==
    /\ decoded + corrupt < MaxPackets
    /\ \/ /\ decoded' = decoded + 1
          /\ UNCHANGED <<met, corrupt>>
       \/ /\ Meet(r, "corruptPacket")
          /\ corrupt' = corrupt + 1
          /\ UNCHANGED decoded
    /\ UNCHANGED <<alive, stale, main_return_code, finished, out>>

\* write_packet: a failing write sets the exit code and finishes all outputs.
write_packet(r) ==
    /\ Meet(r, "writeError")
    /\ main_return_code' = 1
    /\ finished' = finished \cup output_files
    /\ \E o \in output_files :
          out[o] = "open" /\ out' = [out EXCEPT ![o] = "broken"]
    /\ UNCHANGED <<alive, stale, decoded, corrupt>>

\* An encoder that cannot be opened, a filter that cannot be fed: exit_program
\* frees the files in use.
fatal_step(r) ==
    /\ Meet(r, "stepFatal")
    /\ stale' = TRUE
    /\ alive' \in BOOLEAN
    /\ UNCHANGED <<main_return_code, decoded, corrupt, finished, out>>

\* One turn of the main loop, ending in transcode_step: a packet is decoded, an
\* output gets to its end, a write fails, or something is fatal.
transcode_step(r) ==
    /\ alive
    /\ ~stale
    /\ pc[r] = "loop"
    /\ received_nb_signals = 0
    /\ need_output
    /\ \/ check_decode_result(r) \/ write_packet(r) \/ fatal_step(r)
       \/ /\ \E o \in output_files \ finished : finished' = finished \cup {o}
          /\ UNCHANGED <<alive, met, stale, main_return_code, decoded, corrupt,
                         out>>
    /\ UNCHANGED <<pc, ret, received_nb_signals, options, input_files,
                   output_files, transcode_init_done, source, ui>>

\* The loop ends on a signal, when no output needs data, or on an error of
\* transcode_step, which is logged.
end_loop(r) ==
    /\ alive
    /\ ~stale
    /\ Goto(r, "loop", "flush")
    /\ \/ (received_nb_signals > 0 \/ ~need_output) /\ UNCHANGED met
       \/ need_output /\ Meet(r, "filterError")
    /\ UNCHANGED <<alive, ret, received_nb_signals, options, tables, stats,
                   results, ui>>

\* The decoders are drained and the encoders flushed, which decodes and writes.
flush_encoders(r) ==
    /\ alive
    /\ ~stale
    /\ Counted
    /\ pc[r] = "flush"
    /\ check_decode_result(r) \/ write_packet(r) \/ fatal_step(r)
    /\ UNCHANGED <<pc, ret, received_nb_signals, options, input_files,
                   output_files, transcode_init_done, source, ui>>

\* av_write_trailer for each output; one whose streams got no packet has no
\* header and stays empty, which is logged and no error.  The last report,
\* print_report(1, ...), reads output_files[0]: there must be one.
write_trailers(r) ==
    /\ alive
    /\ ~stale
    /\ output_files # {}
    /\ Goto(r, "flush", "stats")
    /\ \E bad \in SUBSET output_files, empty \in SUBSET output_files :
          /\ bad = {} \/ "trailerFails" \in Faults
          /\ empty = {} \/ "noPackets" \in Faults
          /\ out' = [o \in Runs |->
                       IF o \notin output_files \/ out[o] # "open" THEN out[o]
                       ELSE IF o \in empty THEN "empty"
                       ELSE IF o \in bad THEN "noTrailer" ELSE "closed"]
    /\ UNCHANGED <<alive, ret, received_nb_signals, met, options, tables, stats,
                   finished, source, ui>>

\* exit_program(69) returns like the others.
check_error_rate(r) ==
    /\ alive
    /\ Goto(r, "stats", "exit")
    /\ IF TooManyErrors THEN exit_program ELSE UNCHANGED tables
    /\ UNCHANGED <<alive, ret, received_nb_signals, met, options, stats, results,
                   ui>>

\* ret = exit_program(...), which returns its argument.
final_exit(r) ==
    /\ alive
    /\ Goto(r, "exit", "reset")
    /\ exit_program
    /\ ret' = [ret EXCEPT ![r] = ReturnValue]
    /\ UNCHANGED <<alive, received_nb_signals, met, options, stats, results, ui>>

\* With counted entries freed, the next loop over a table dereferences NULL:
\* a second exit_program, or any of the steps that walk the files.  A command
\* with no output gets as far as the last report, which reads the first one.
segfault(r) ==
    /\ alive
    /\ \/ stale /\ pc[r] \in {"outputs", "check", "init", "loop", "flush", "exit"}
       \/ stale /\ pc[r] = "options" /\ "badOption" \in Faults
       \/ stale /\ pc[r] = "stats" /\ TooManyErrors
       \/ output_files = {} /\ pc[r] = "flush"
    /\ Crash
    /\ UNCHANGED <<pc, ret, received_nb_signals, met, options, tables, stats,
                   results, ui>>

\* The block that resets the variables after a command.
reset_variables(r) ==
    /\ alive
    /\ Goto(r, "reset", "post")
    /\ ResetTables
    /\ finished' = finished \ output_files
    /\ UNCHANGED <<alive, ret, received_nb_signals, met, options, stats, out,
                   source, ui>>

\* ExecCmdThread.run: a run with a listener posts its result.
post(r) ==
    /\ alive
    /\ Goto(r, "post", "done")
    /\ queue' = IF Heard(r) THEN Append(queue, Answer(r)) ELSE queue
    /\ UNCHANGED <<alive, ret, received_nb_signals, met, options, tables, stats,
                   results, called>>

\* sigterm_handler; the fourth signal ends the process.
sigterm_handler ==
    /\ alive
    /\ received_nb_signals < MaxSignals
    /\ received_nb_signals' = received_nb_signals + 1
    /\ alive' = (received_nb_signals' <= 3)
    /\ UNCHANGED <<pc, ret, met, options, tables, stats, results, ui>>

-----------------------------------------------------------------------------
run_ffmepg_cmd(r) ==
    \/ split_commandline(r) \/ open_input_file(r) \/ open_output_file(r)
    \/ check_files(r) \/ transcode_init(r) \/ transcode_step(r)
    \/ end_loop(r) \/ flush_encoders(r) \/ write_trailers(r)
    \/ check_error_rate(r) \/ final_exit(r) \/ reset_variables(r) \/ segfault(r)

Next ==
    \/ \E r \in Runs : execCmd(r) \/ run_ffmepg_cmd(r) \/ post(r)
    \/ onExecCmdResult
    \/ sigterm_handler

Spec == Init /\ [][Next]_vars

\* Every started thread is scheduled, and so is the main looper.
FairSpec ==
    /\ Spec
    /\ \A r \in Runs : WF_vars(run_ffmepg_cmd(r) \/ post(r))
    /\ WF_vars(onExecCmdResult)
-----------------------------------------------------------------------------
(* Properties                                                              *)

\* Every variable holds a value of its C or Java type.
TypeOK ==
    /\ alive \in BOOLEAN
    /\ pc \in [Runs -> PCs]
    /\ ret \in [Runs -> {NoRet, 0, 1, 255}]
    /\ hasY \in [Runs -> BOOLEAN]
    /\ input_files \subseteq Runs /\ output_files \subseteq Runs
    /\ stale \in BOOLEAN /\ file_overwrite \in BOOLEAN
    /\ main_return_code \in {0, 1}
    /\ decoded \in Nat /\ corrupt \in Nat
    /\ received_nb_signals \in Nat
    /\ transcode_init_done \in {0, 1}
    /\ finished \subseteq Runs
    /\ out \in [Runs -> OutStates]
    /\ source \in [Runs -> Runs]
    /\ met \in [Runs -> SUBSET AllFaults]
    /\ clobbered \subseteq Runs
    /\ queue \in Seq(Runs \X {0, 1, 255})
    /\ called \in Seq(Runs \X {0, 1, 255})

Active(r)   == pc[r] \in InRun
Returned(r) == pc[r] \in {"reset", "post", "done"}

\* Between two commands nothing is registered and nothing freed is counted:
\* the next command starts with the tables main() starts with, whatever
\* faults the earlier ones met.
CleanBetweenRuns ==
    alive /\ (\A r \in Runs : pc[r] \in {"new", "post", "done"})
        => input_files = {} /\ output_files = {} /\ ~stale

\* A command that returns 0 took its own output, fed from its own input, up to
\* the trailer, and met no failed write and no fatal error on the way, during
\* the flush at the end included.
ZeroMeansFinished ==
    \A r \in Runs :
        Returned(r) /\ ret[r] = 0
            => /\ out[r] \in Ended
               /\ source[r] = r
               /\ met[r] \cap {"writeError", "stepFatal", "initFails"} = {}

\* The only codes a command returns are 0, 1 and 255, whatever exit_program is
\* called with: the 69 of the error-rate check never comes back, 1 goes back
\* to a failed write (of this command or another), 255 to a signal.
ReturnCodeOrigin ==
    \A r \in Runs :
        Returned(r) =>
            /\ ret[r] \in {0, 1, 255}
            /\ ret[r] = 1 => \E o \in Runs : "writeError" \in met[o]
            /\ ret[r] = 255 => received_nb_signals > 0

\* A command that meets an error exit_program is called for never returns to
\* its caller, nor does one that fails the error-rate check.  With a file
\* open, the second ffmpeg_cleanup kills the process; with rejected options,
\* the last report does, as there is no output.
ExitNeverReturns ==
    \A r \in Runs :
        /\ Returned(r) => met[r] \cap {"badOption", "noInput", "badOutputOption",
                                       "badOutput", "initFails", "stepFatal"} = {}
        /\ pc[r] = "reset" => ~TooManyErrors

\* Once set, the overwrite permission and the failure code stay for all later
\* commands: no step takes them back.
StickyGlobals ==
    [][/\ file_overwrite => file_overwrite'
       /\ main_return_code <= main_return_code'
       /\ received_nb_signals <= received_nb_signals']_vars

\* The calls the commands implement: what a thread does between its start and
\* its return does not show, and no other command's run shows in the answer.
Phase(r) ==
    CASE pc[r] = "new" -> "new"
      [] pc[r] \in {"reset", "post"} -> "returned"
      [] pc[r] = "done" -> "over"
      [] OTHER -> "running"

Calls == INSTANCE CommandCalls WITH
    phase <- [r \in Runs |-> Phase(r)],
    value <- ret,
    failed <- main_return_code # 0,
    signalled <- received_nb_signals > 0,
    posted <- called \o queue,
    heard <- Len(called)

\* However commands overlap, each is answered at most once, with the value it
\* returned itself, in the order of the posts, and that value tells whether a
\* signal came or a write failed before it returned.
ImplementsCalls == Calls!Spec

\* Every command issued with a listener is eventually answered, whatever it
\* meets, unless the process dies.
AnsweredUnlessDead ==
    \A r \in Listeners :
        pc[r] = "options" ~> ~alive \/ \E i \in 1..Len(called) : called[i][1] = r

\* ffmpeg_cmd.h: the value returned is the one ffmpeg would exit with, so a
\* command that meets no fault at all does not return the failure code.
ExitCodeAsFFmpeg ==
    \A r \in Runs : Returned(r) /\ ret[r] = 1 => met[r] # {}

\* ffmpeg_opt.c: an existing output is tested for "to avoid losing precious
\* files", so no command without -y that ran to its end replaced one unasked.
PreciousFilesKept == \A r \in clobbered : ~Returned(r)
=============================================================================
