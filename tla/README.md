# MediaPro: a verification development

MediaPro is an Android app that runs FFmpeg 4.0.2 *inside its own process*: Java
classes call, through JNI, a `main()` of ffmpeg.c renamed `run_ffmepg_cmd`, and
small C++ helpers decode, merge and unpack media. `FF` below stands for
`src/app/cpp/media/ffmpeg_run/ffmpeg-4.0.2`. FFmpeg's libraries are vendored, but
`FF/fftools` is compiled into the app with local changes (`exit_program`
returns, `main` is renamed and followed by a reset block), and those changes are
where this program's own behaviour is hardest to get right.

## 1. Inventory

| component | source | state it keeps | operations | modelled by |
|---|---|---|---|---|
| Command execution | `FFmpegTool.java`, `ffmepg_cmd_impl.cpp`, `FF/fftools/{ffmpeg,ffmpeg_opt,cmdutils}.c` | file-scope tables `input_files`, `output_files` (and their counters), `main_return_code`, `decode_error_stat`, `received_nb_signals`, `transcode_init_done`, `file_overwrite`; one Java thread per command; the main looper's queue | `execCmd`, the phases of `run_ffmepg_cmd`, `exit_program`, the reset block, the posted result, `sigterm_handler` | `FFmpegCommand` |
| Thread message queue | `FF/libavutil/threadmessage.c` | a bounded fifo, two error codes, two condition variables | `send`, `recv`, `set_err_send`, `set_err_recv`, `flush`, alloc/free | `MessageQueue`, `ThreadMessageQueue`, `BoundedChannel` |
| Input threads | `ffmpeg.c` 3976-4290 | a thread and a queue per file (none when there is one file), `eagain`, `eof_reached`, `loop` | `input_thread`, `init_input_thread(s)`, `free_input_thread(s)`, `get_input_packet`, `process_input` up to the packet, `seek_to_start` | `InputThreads`, `InputFeed` |
| Asset extraction | `copy_assert_helper.h`, `native_tool_impl.cpp`, `NativeTool.java` | files below the app's files directory | `CopyAssetsFile2DataDir` (single, list), `CopyAssetFile` | `AssetExtract` |
| Transcode scheduler | `ffmpeg.c` 3792-3845, 4164-4466, 4528-4598 | per output stream: dts, `initialized`, `unavailable`, `inputs_done`, `finished`, `frame_number`; per file: `eagain`, `eof_reached` | `need_output`, `choose_output`, `transcode_step`, `transcode_from_filter`, `process_input`, `process_input_packet`, `do_streamcopy`, `reap_filters` | `Transcode` |
| Filter graph configuration | `ffmpeg.c` 2120-2290, `ffmpeg_filter.c` 1030-1190 | per graph: formats known, frames that wait, ends noted | `ifilter_send_frame`, `ifilter_send_eof`, `configure_filtergraph` | `FilterGraph`, inside `Transcode` |
| Muxing queue, DTS repair | `ffmpeg.c` 670-812, 1846-1960, 2956-3000 | per output stream: packets waiting for the header, `mux_timebase`, `last_mux_dts`, `frame_number`, `finished` | `write_packet`, `check_init_output_file`, `close_all_output_streams`, `flush_encoders` | `MuxQueue` |
| Decoding to YUV420 | `hw_decode_video.cpp`, `codecimpl.cpp` | a codec, an output file | `DecodeVideoAndWriteYUV420`, `decode` (`encode` has no caller) | `DecodeToYuv` |
| Merging two files | `merge.cpp` | two demuxers, one muxer | `MergeTwoFile` (no caller at this commit) | not modelled |
| YUV420 plane writer | `yuv420p_util.cpp` | none | `WriteYUV420ToFile`, `ReadYUV420FromFile` | `Yuv420` |
| JNI bridge | `jni_helper.h`, `reg_class_define.h`, `jni_load.cpp` (three), `ffmpeg_tool_impl.cpp` | attached threads, global references | attach/detach scope, registration | not modelled |
| Option table, hwaccel, cuvid | `FF/fftools/ffmpeg_{opt,hw,cuvid}.c`, `cmdutils.c` | | | not modelled (section 7) |
| Main activity, JNI demo | `MainActivity.java`, `jni_test/` | | | not modelled (section 7) |

How they interact. `MainActivity.onCreate` extracts an asset (synchronously, on
the main looper) and calls `FFmpegTool.captureImage`. `execCmd` starts a thread;
the thread calls `run_ffmepg_cmd` and posts a Runnable with the value it returns
to the main looper, which calls the listener. Nothing serialises commands: the
activity may be re-created while a command runs. Inside a command with several
inputs one thread per input demuxes into a message queue the main loop reads; the
main loop chooses the output that is furthest behind, reads the file its filter
graph (or its copied stream) wants, decodes, feeds the graphs, and hands what comes
out to the encoders and, through the muxing queue, to the muxer. `merge` of
`FFmpegTool.java` goes another way: it decodes a video in the calling thread and
writes its frames as YUV420.

What is hard here:

- *exit_program returns.* It frees every table entry, leaves the counters, and
  the code after each of its calls was written for the case that it never
  returns (section 3.1).
- *Global state survives a command.* The reset block must restore all that a
  command changes; a second command in the same process shows what it forgot.
- *Commands may overlap* on the same globals.
- *Wake-ups*: one `pthread_cond_signal` per message or slot, broadcast on errors
  and flush.
- *Shutdown of demuxing threads* that may be reading, sending, blocked or gone, and a
  thread that cannot be started again.
- *Packets that wait for the header*, are counted once though they pass
  `write_packet` twice, and change time base under way; times repaired by guesses, or made from a count of samples.
- *The main loop must end.* Which output is next depends on dts, limits and three
  flags; which file is read, on what graphs ask for and on who said EAGAIN. A graph
  cannot be built before each input gave a frame or ended, inputs may end first, and
  a change of parameters builds it anew in the middle.
- *Frames a decoder holds* at the end of a file, one drained per call in the main loop,
  none in `DecodeVideoAndWriteYUV420`.
- *Kills of the process* while an asset is copied, and updates of the package
  that keep the files.

`PROJECT.json` lists each hazard at its line with the properties that cover it.

## 2. Modules

- `MessageQueue` — `AVThreadMessageQueue` as a value and the effect of each
  critical section on it. Shared by the next two.
- `ThreadMessageQueue` — one queue, any threads, any order of calls.
  `BoundedChannel` is what it promises; `Channel == INSTANCE BoundedChannel WITH`
  `channel <- mq.fifo, closed <- mq.err_send # NoError` is the refinement.
  `ThreadMessageQueueProofs` holds the proofs.
- `InputThreads` — the demuxing threads and the main thread, or, with one file, the
  main thread alone. `InputFeed` is its abstract specification (each file's packets in
  order, none left out, then its end), which both ways implement.
  `InputThreadsProofs` holds the proofs.
- `FilterGraph` — a filter graph as a value and what each call of ffmpeg.c does to it.
- `Transcode` — the main loop over such graphs, between the packets of the files and
  the packets of the outputs; `TranscodeProofs` and, for its progress,
  `TranscodeProgressProofs`. It starts where `InputFeed` ends (its
  files give packets, EAGAIN or an end) and ends where `MuxQueue` begins (its
  `frame_number` counts what goes into `write_packet`).
- `FFmpegCommand` — commands of one process. `CommandCalls` is what the Java callers are
  promised of them, whatever overlaps: `Calls == INSTANCE CommandCalls WITH ...` is the
  refinement. `FFmpegCommandProofs` holds the proofs.
- `MuxQueue` — the packets of one output file between the encoders (or the copied
  input) and the muxer; `MuxQueueProofs`.
- `AssetExtract` — asset copies; `AssetExtractProofs`.
- `Yuv420` — the bytes of a frame's planes in a file, as functions;
  `DecodeToYuv` — the decoding of a video into such a file; `DecodeToYuvProofs`.
- `MC*` — values for TLC.

Definitions a few lines long named "Mutant of X" are plausible wrong versions of
X; no specification uses them. Each property fails when X is replaced by its
mutant (`PROJECT.json`, "mutants"), so none of them holds by the shape of the
model.

## 3. How the modules correspond to the code

### 3.1 FFmpegCommand

A run `r` is one `execCmd` call and its thread. `pc[r]` follows
`run_ffmepg_cmd`: `options` (split_commandline and global options), `inputs`,
`outputs` (open_files), `check` (no output?), `init` (transcode_init), `loop`,
`flush` (drain, flush_encoders, trailers), `stats` (error rate), `exit`
(`ret = exit_program(...)`), `reset`, then `post` in Java. Each step is one
action named for the function it stands for.

- `input_files`, `output_files`: the runs whose file `nb_input_files`,
  `nb_output_files` count. A command of this app has one input and one output.
- `stale`: `ffmpeg_cleanup` has freed counted entries. From then on every loop over
  the tables, the next `exit_program` included, dereferences NULL: `segfault`.
  `exit_program` on empty tables is harmless, so a command whose options were rejected
  goes on through `transcode` with no file, up to the last report: `print_report`
  reads `output_files[0]`, and that is `segfault` too (`write_trailers` needs an
  output). Hence `ExitNeverReturns`: no error that `exit_program` is called for ever
  becomes a returned code.
- A freed output that is used before the next loop over a table (`open_output_file`
  after a failed open, `transcode_step` after `init_output_stream` failed) is
  undefined behaviour: `alive' \in BOOLEAN`, with the file truncated or not.
- Data races between overlapping commands are modelled at the granularity of
  these steps, not of single loads and stores.
- `met`, `clobbered`, `called` are history variables.
- Under `CommandCalls` all that a command does between its start and its return is one
  phase, `running` (`Phase`); what is posted and not yet delivered is the main looper's
  queue, so `posted` is `called \o queue` and `heard` is `Len(called)`. The process may die in
  `running` or by the fourth signal, and not while a result is on its way.
- "Nothing was written" (no packet reached a stream) leaves the file `empty` and
  the code 0: upstream FFmpeg behaviour, so `Ended` holds it.
- Not modelled: the `q` key (the app has no terminal), `-xerror`, `-abort_on`,
  `-vstats`, which the app never passes.

### 3.2 MessageQueue, ThreadMessageQueue

The mutex is held from a function's first statement to its end or to
`pthread_cond_wait`, so each critical section is an atomic step. A wait set holds
the threads asleep; `Woken` also stands for a spurious wake-up. A signal wakes
any one of the sleepers. Each `send` call carries a new number as its message.
Callers are unrestricted: several senders, several receivers, any mix of flags.

### 3.3 InputThreads

`tpc[f]` and `mpc` are the places of the input thread of file `f` and of the main
thread. `free_input_thread` is split at its recv loop and at `pthread_join`, since
the input thread runs in between; `restarting` tells the call made by
`process_input` (-stream_loop) from the one in `free_input_threads`. Which file the
main loop reads next is open here, any readable one: `Transcode` decides it. `read_frame`
may return a packet, an error, or EAGAIN (nothing changes but time). A packet is its
number within the current pass over the file. How many files the command has is a
variable: with one (`Threaded` false) `get_input_packet` reads the demuxer itself, and
`not_now` is its EAGAIN before a packet is due (-re).

A thread may fail to start (`InitFails`). At the start of the loop that leads to the
clean-up. When a file is started over, `seek_to_start` here stands for the whole of
that step of `process_input`: the seek (`Sought`, or nothing when it fails) and
`init_input_thread`, whose error `process_input` returns. `Unstarted` is what
`transcode_step` makes of it: EAGAIN, the usual error of `pthread_create`, is taken for
a file without a packet, the loop goes on, and as `eagain` was not set the file may be
chosen again: `recv_freed_queue`, where the process dies (`crashed`). Any other
error leaves the loop. Left out: draining the decoders at
a file's end, which makes `process_input` return 0 a few times before the end is
recorded (a stutter here, `drain_frame` in `Transcode`), and `-stream_loop -1`.

### 3.4 MuxQueue

One output file; `InitialSize` is the 8 packets `av_fifo_alloc` makes room for. The
single thread's calls are split into steps where a choice is made: `init` is the
place in `check_init_output_file` (header, then stream by stream: time base, queue),
`busy` the stream whose encoder is in its receive loop, `enc` the stream
`flush_encoders` is at. `write_packet` is one step: limit, queue or repair and
`av_interleaved_write_frame`, which may fail. A failed header and a full queue call
`exit_program`, which frees the stream being used: the run ends (`dead`).

Time stamps are integers; `Rescale`, `av_rescale_q` between the two time bases of a
stream, is any function. A packet is rescaled by the encoder's side once the muxer's
time base has been taken over, by `write_packet` otherwise: `InMuxTimebase` and
`InStreamTime`. `AV_NOPTS_VALUE` occurs as a pts; `do_streamcopy` and the encoders
always give a dts. A copied audio packet that has a dts gets both its times from
`av_rescale_delta` (`Delta`): `delta_last` is `filter_in_rescale_delta_last`, the samples
reached so far. While they stay within what the packet's own time may mean
(`Continues`, between `2 * low - high` and `2 * high - low`) the packet begins at them,
`Clipped` to `Lowest..Highest`, the samples that round to its time; else the count
begins anew from `Samples`. That happens in `Coarse` streams only, whose source counts
time less finely than the muxer, and once `mux_timebase` is the muxer's; the bounds
and the two conversions are any functions, as `Rescale` is. Only streams in `Checked` (audio and video, not copied VP9) have
their dts compared. Audio and copied streams are counted in `write_packet`, encoded
video in `do_video_out`. `accepted` and `muxed` are histories.

Which stream gets a frame, and when the loop ends, is open. A frame may give several
packets; as in the code, a write that fails on one of them does not stop the others.
Left out: bitstream filters, `-shortest`, `-vsync drop`, `AVFMT_NOTIMESTAMPS`.

### 3.5 AssetExtract

A call goes through `exists` (access), `open` (AAssetManager_open), `fopen`,
`write` (malloc, AAsset_read, fwrite) and `close`. `Copied` is what follows an
asset: the single overload returns the result, the list overload goes on or stops
and returns TRUE. A file is absent, or holds some part of one asset of one package
version: `fwrite` leaves any part in the stream's buffer, `fclose` writes the rest
unless the disk is full. A failed `AAsset_read` passes -1 as the length of
`fwrite`, which reads far out of the buffer: the process dies. Kills and updates
may come between any two steps. The app calls it from the main thread only, so
there is one call at a time.

### 3.6 FilterGraph, Transcode

An input stream is a number; a frame is its number among those decoded of its stream.
A graph is a record: `known` are the inputs with a format (`ifilter->format >= 0`), `wait`
the `frame_queue` of each input, `eof` the inputs whose `ifilter->eof` is set, `built` says
whether `fg->graph` exists; `src` and `shut` are the buffer sources, `asked` stands for
`nb_failed_requests > 0`, `sink` counts the frames made and not reaped. What libavfilter
computes is outside the code's control: here a graph takes one frame of each input
that is still open and makes one of them, when it is asked (`filter_frame`) or already
when a frame is pushed (`push_frame`); it asks any non-empty set of the inputs it is
hungry for (`filter_asks`). `Configured` is `configure_filtergraph` as far as state goes:
the frames that waited go in, then the ends; what the old graph held is gone.

`pc` follows the single thread: `loop` (top of `transcode`'s loop and `transcode_step`),
`input` (in `process_input`, before its packet), `decode` (`process_input_packet`, one
step per frame), `reap` (the `reap_filters` at the end of `transcode_step`), `ended`
(the decoders are drained), `done`. `file` and `out` are the file and the output that
`process_input` works for. `need_output`, `choose_output` and `transcode_step` are the
functions of those names; `copy_step`, `format_step`, `filter_frame`, `filter_eof` and
`filter_asks` the ways through the last.

- `cur_dts` is `INT64_MIN` in the code before the first packet of an output is muxed (here
  -1, which is less than any dts); packets that wait for the header leave it alone, hence
  `HeaderWritten`.
- The first unfinished output alone is held against its `-frames` limit, as in
  `need_output`, which closes all outputs of the file.
- At a file's end `process_input` drains one decoder by one frame and returns; the
  streams before it are told their end again on each such call (`DrainedStreams`).
- A decoder holds back up to `Delay` frames.
- Until a copied output has its first packet, `do_streamcopy` drops packets that are no
  key frames or are before the start time. Times and flags are left out, so any of them
  may be dropped (`MayDrop`); `first` remembers which packet was taken first.
- A graph that is built anew throws away what is in it: `lost` counts those frames, for
  each input.
- `changes` bounds the changes of parameters in the middle of a stream; when a frame
  brings one, the sinks are reaped, then the graph is built anew.

One output file; each encoded output has a graph of its own. Section 7 lists what is
left out.

### 3.7 Yuv420, DecodeToYuv

`Offsets(f, p)` are the offsets in `data[p]` that the writer and the reader go through:
line by line if the lines are padded (`linesize[p]` is not the number of columns), the
whole plane at once if not. A byte is the pixel it belongs to, or padding, so two
frames agree on a byte only if it is the same pixel of the same frame.

`DecodeToYuv` has one action per way through `DecodeVideoAndWriteYUV420` and `decode`: every
`goto failed` and `return`, a decoder that refuses a packet (EAGAIN), fails on one or
holds frames back and gives them in its own order. `decode` returns -1 when a packet
is refused or broken and its caller looks at nothing; `ret` of the function is never
assigned. `avCodecContext` is uninitialised until `avcodec_alloc_context3`, and `failed`
frees it: the process survives or not. A decoder that gives interleaved chroma has
`data[2]` NULL, where the writer dies.

## 4. Runs

| run | instance | what it shows |
|---|---|---|
| `Queue` | 3 threads, 2 slots, 5 sends, fair | no lost wake-up on either condition, fifo exactly the untaken rest, refinement of the channel, sleeping receivers are served |
| `InputThreads` | 1 or 2 files, 1 slot, 3 packets, one loop, one file with -re, one non-blocking, aborts, failed creation, fair | accounting of packets, threads and queues; every step of any thread gains something, or is one of boundedly many before a gain, unless it idles; refinement of the feed, the clean-up joins every thread and the inputs end, or the process dies of a thread that could not be started again |
| `FFmpegCommandSerial` | 2 commands in turn (one with a listener), all faults, 2 packets, 1 signal, fair | meaning of the returned codes, clean tables, no return after an error `exit_program` is called for, a listener is called unless the process dies |
| `FFmpegCommandOverlap` | 2 commands at once, 4 signals | refinement of the calls: one return and at most one answer per command, of its own value, in the order of the posts |
| `MuxQueue` | a video encoded and an audio copied, first size 1, maximum 2, at most 3 audio packets, two source times, audio in a source less fine than the muxer | order, times and limits across the header, the times of copied audio included; a failed write stops all |
| `Transcode` | 2 files with 3 streams, an output from a graph of two inputs in different files, one copied, one from a graph of one input; 3 packets per stream, one frame held back, one change, limits, a signal, fair | every step gains something, or is one of boundedly many before a gain, unless a demuxer said EAGAIN; no output is given up, frames reach graphs in order and once, ends reach every graph built, all is delivered but what a change throws away, and the loop ends |
| `DecodeToYuv` | 7 frame layouts, 4 packets, 2 slots, 2 readers | every frame given is in the file, whole and in order, and only the held ones are missing |
| `AssetFaults` | 3 assets (two share a target), 4 lists, all faults, 2 kills, 1 update | FALSE means untouched; a file in place is never written; TRUE means copied until something goes wrong |

Runs that end in a violation, each a disagreement of the code with its own words
(`PROJECT.json`, "findings"):

| run | what happens |
|---|---|
| `FFmpegCommandStickyCode` | after a failed write every later command of the process returns 1, one that meets no fault included (`ffmpeg_cmd.h`: see ffmpeg's exit) |
| `FFmpegCommandPrecious` | `-y` of one command lets the next replace files unasked |
| `DecodeZero` | `merge` returns 0, documented as success, when nothing, or not everything, was decoded |
| `AssetKilled` | a kill during the copy leaves a short file every later call reports as a success |

Seen while modelling, without a run of their own: `decode_error_stat` is not in the
reset block (the model keeps it across commands: `TooManyErrors` counts the frames of
all of them); a rejected option, or an
input that cannot be opened, kills the process, so the listener is never called
(`AnsweredUnlessDead` names that case); a demuxing thread that cannot be started again
kills it too, unless the loop is left before its file is chosen; the list overload of
`CopyAssetsFile2DataDir` returns TRUE after a failed asset; a
`-max_muxing_queue_size` below 8 is not kept to (theorem `QueuesBounded`); of a frame of odd
size the YUV420 writer takes other chroma bytes when lines are padded than when they are
not, so a reader with another padding is lost; overlapping commands may swap their
inputs and outputs, which no document promises they do not.

Bounds and why they are enough. Two commands: what a command leaves behind is seen
by the next one, and a third adds nothing the globals do not already hold. Two
packets reach the error-rate bound (2/3) from both sides, alone and added to what an
earlier command left. One signal distinguishes "interrupted while opening" from "after
transcode_init" and gives 255; four reach `exit(123)`. Three threads give two
sleepers and a runner on each side of the queue; a queue of one or two slots is
full and empty within the bounded sends. One loop and three packets exercise the
restart with a full, a partly read and an empty queue. Three audio packets fill the
muxing queue, grow it, and overflow it; they may all wait for the header, pass
straight through, or some of each; the two source times, in either order as pts and dts,
make both repairs necessary, alone and together, and the time base of the muxer
differs from the source's. The limits of 1 and 3 frames are reached and passed.
In `Transcode` three packets let a decoder that holds one frame give frames before and
after a change and at the drain; the graph of two inputs in two files waits for either
of them, is built late, by a frame or by an end, and is built anew; a limit on the
first output and on one behind it reaches both ways `need_output` can go. The layouts of
`DecodeToYuv` pad no plane, all, luma alone and chroma alone, for even and odd sizes; two
slots and four packets let a decoder refuse, give out of order and hold back. `CHECK_DEADLOCK FALSE`
stands where the modelled system stops: all commands over, the process dead, the
sends used up, the clean-up done, the encoders flushed, the main loop left, the value returned.

Fairness. `ThreadMessageQueue`: a thread awake inside a call gets the mutex (the
OS scheduler; critical sections are short), nothing is assumed of the callers.
`InputThreads`: every thread that can run is scheduled, and `av_read_frame` does
not answer EAGAIN for ever, without which no FFmpeg run on that input ends
(strong fairness: the demuxer is asked again and again, with waits in between); with -re
the time a packet is due comes.
`Transcode`: the loop goes on by itself (weak fairness of the whole), and for each
file that is read for again and again, `process_input` in the end gets a packet or an
end instead of EAGAIN (strong fairness per file). No fairness is assumed of which
output is chosen, what graphs ask for or when decoders give frames.
`FFmpegCommand`: the command's thread and the main looper are scheduled; issuing
commands and signals is not fair. `MaxPackets` stands for inputs being finite.
Nothing is claimed of `MuxQueue`, `AssetExtract` and `DecodeToYuv` that would need fairness.

## 5. Proofs

All proofs are checked by TLAPS from the constants' assumptions only
(`QueueAssumption`, `InputAssumption`, `CommandAssumption`, `MuxAssumption`,
`TranscodeAssumption`, `DecodeAssumption`, `AssetAssumption`), for every value of the constants.

- `ThreadMessageQueueProofs`. `TypeInv` adds to `TypeOK` which call each sleeper is
  in and what a sender carries. `WakeInv` (`NoLostReceiver` and
  `NoLostSender`) is inductive with it: a signal moves one sleeper to the awake
  ones, so the count of awake receivers keeps up with the messages; an awake
  receiver that leaves takes a message with it, or fails only when there is none.
  The proof needs cardinalities of `Awake`, hence `IsFiniteSet(Threads)`. `FifoInv`
  gives `QueueInOrder`; `ChannelImplemented` maps each action to a channel step.
  `NeverAllAsleep` is what `WakeInv` means for a deadlock: when all threads inside the
  queue's functions sleep, they are senders of a full open queue only, or receivers of
  an empty one only, and it takes a call from outside to go on.
- `FFmpegCommandProofs`. `CodeInv` ties `main_return_code` and the codes returned to
  the faults and signals met, under any overlap. `SerialInv` adds, for commands
  issued in turn, that at most one is active, that the tables hold at most its
  files, and that a command that called `exit_program` with a file counted leaves the
  tables stale until the process dies, one whose options were rejected has no output
  until the last report kills it: from it follow `CleanBetweenRuns` and
  `ExitNeverReturns`. `ZeroInv` follows the output of the active command
  (open until the trailer, or main_return_code = 1) and gives `ZeroMeansFinished`.
  `ListenerInv` orders the post after the return and gives `ListenerGetsOwnResult`
  for any overlap. `CallsImplemented` is the refinement of `CommandCalls`, under any overlap
  too: `RunQuiet` says what the steps inside a command may do to its call (it keeps
  running; a write fails, or the process dies, and not both), `PostedAppend` and
  `PostedShift` that posting and delivering keep the order. Two theorems are the safety
  half of `AnsweredUnlessDead`, under any overlap: `NoAnswerLost` (a command that is over
  and has a listener is answered or waits in the queue; `AnswersGrow` says that only a post
  touches the answers, at their end) and `CommandsGoOn` (while the process lives each step
  takes one command on, or pays with something the commands cannot get back while none
  goes on: a file table, an output, a decode result, a queued answer, a signal). What TLC
  adds is that a step comes: every place a thread can be at has one it can take. `Serial`
  is a hypothesis of three theorems: commands that overlap free and reset each other's
  tables, and nothing is claimed of these three there.
- `InputThreadsProofs`. The invariant is per file, so that a step of one thread leaves
  the other files' parts alone (`FileInvs`), and one part for the main thread. Per file:
  `ThreadQueue` ties the place of the thread to its queue (a thread exists only with a
  queue; one that has exited left an error behind or the queue closed), `SleepOk` says
  what a sleeper waits for, `Accounted` counts packets, and `FeedOk` says that what the
  main thread got, the queue and the packet in hand are the packets of this pass in order.
  `MainInv` (`Phases`, `Restarts`) says how far the clean-up is, and that only a thread that failed to start
  leaves a file without one (`OnlyFailuresCrash`): files before `cur` are
  freed, and a restart touches its own file only. The refinement follows: each action is
  a step of `InputFeed` or leaves the feed alone. Lemmas on queue values (`WrittenValue`,
  `ReadValue`, ...) say what each critical section changes, once for all actions.
  `NobodyWaitsInVain` draws the consequence for waiting: the main thread sleeps only on
  a thread that runs, never waits in `pthread_join` (hence nothing is freed under a thread
  that still uses it, `QueuesDrained`), and a thread that sleeps has a full queue which the main
  thread is free to read or close. `InputsProgress` is the safety half of `InputsEnd`. What
  has been gained (packets read, passed on, delivered, freed, loops used up, files ended,
  files lost to a thread that could not be started again, the loop left) never shrinks, a
  file being started over excepted, and `GainsBounded` bounds
  it. A step that gains nothing goes down in the order of: `Left`, the main thread's
  way to its next gain; `Ahead`, that of a thread to its end; threads that still have
  `AV_THREAD_MESSAGE_NONBLOCK`; threads awake. Only an EAGAIN, the main loop's sleep after it
  and spurious wake-ups do neither (`StepGoes`).
- `TranscodeProofs`. `GraphOk` is what a graph is between two operations and `InputOk`
  numbers the frames that wait or are inside: they are consecutive and end with the last
  frame decoded. Both are shown on values, operator by operator (`ConfiguredOk`,
  `SendFrameOk`, `SendEofOk`, `FilteredOk`, ...), whatever the order they are called in.
  `Counts` balances packets, held and decoded frames; `GraphEnds` says that an end
  reaches a graph when file and decoder have nothing left, and has by the time the
  file is marked; `Copies` and `EncodedEnds` say why an output has ended.
  Together with `Control` they are inductive. `format_step` never gives up an output because
  an input that is over is known to every graph; that `First` and `Least` pick an
  element at all is the well-foundedness of the naturals (`LeastNatural`).
- `TranscodeProgressProofs`. `LoopProgress` is the safety half of "the loop ends": what the
  loop has got never shrinks (`LosesNothing`: packets, decoded frames, frames used, ends, flags),
  and each step makes one of these larger, or goes down in the order of sinks to empty, outputs
  not tried, `Left` of the call at hand, in which no descent is endless; what is left are
  the EAGAIN of a demuxer and the sleep after one. It rests on `WInv`: an output
  is unavailable only while a file it needs says EAGAIN (`WaitsOnlyForInput`), so the loop
  sleeps only for that, and a file that `process_input` works for is one the output at
  hand needs. `GainsBounded` bounds what is gained. That the end is then reached, under
  fairness, is `LoopEnds`, which stays with TLC. `EverythingDelivered` is proved here too, as it
  needs more than the counts of `TranscodeProofs`: `LInv` (`UsedMade`, an output encoded or has
  in its sink at least as many frames as its graph used of each input, until it is
  at its limit; `NoneLost`, a rebuilding throws nothing away before parameters
  have changed), so that at the end `used` and `lost` make up all the packets of each
  input.
- `DecodeToYuvProofs`. Line and column are found again in an offset (`LineAndColumn`), so
  a pixel is one byte of a plane, at a place that does not depend on the padding
  (`PixelOffset`); for even sizes both ways take as many bytes (`TakenEven`, where a
  quarter of a product is the product of the halves). `Holds` carries that through
  appending frames, `Kept` balances the packets sent, given and held.
- `MuxQueueProofs`. `History` relates what one stream accepted, gave to the muxer and
  has waiting, and is shown on values: appending to the queue keeps it, and so does
  moving the next packet to the muxer with any times that `Given` allows; the lemmas
  on `Guessed`, `Raised` and `Repaired` show that the two repairs give such times.
  `ControlInv` is what makes a packet rescaled exactly once: a stream with packets
  waiting still has the source's time base, and nothing is produced while queues
  are emptied. Together they are inductive and give order, monotone dts,
  pts after dts, and `TimesKept`; for copied audio what the last needs is only that a
  packet begins at a sample within its bounds (`Clipped`), whatever the count was.
  `LimitInv` adds what dropping needs (a drop only at the limit, an encoder never ahead of its frames). The rescaling is an arbitrary
  function, so no theorem depends on how it rounds. `HeaderInv` (nothing reaches the muxer
  before the header, and the header waits only for an output without parameters)
  gives `MuxingSettled`, what the main loop may assume between two of its turns: the header is written
  exactly when all outputs are initialised, and then all that was accepted has gone to the
  muxer. It is what `Transcode` takes for granted in `HeaderWritten` and `cur_dts`.
- `AssetExtractProofs`. `CallInv` says that a call works on an asset whose target
  was absent when it began and, until `fopen`, has changed nothing: it gives
  `FalseUntouched` and `InPlaceKept` under all faults, kills and updates. `CopyInv`
  adds that, until `disturbed` is set, all files in place but the one being written are
  whole and the assets before the one at hand are done: `CopiedUntilDisturbed`.

All safety and action properties and the three refinements that the passing runs check are
proved (the refinements are of specifications without fairness). Only model-checked: the liveness properties
(`ReceiversServed`, `InputsEnd`, `AnsweredUnlessDead`, `LoopEnds`), since the prover has no
reasoning about fairness or ENABLED.

## 6. Plan, and what came of it

The order was: the queue and the threads that use it; the state commands share; what
becomes of packets on their way to the muxer; the helpers outside ffmpeg.c; then the main
loop between them. What would come next, by worth:

1. `Transcode` with several outputs of one graph and several output files, where
   `need_output` and `close_all_output_streams` act per file, and with `-shortest`.
2. `Transcode` feeding `MuxQueue` in one specification. `Transcode` takes a packet handed to
   `write_packet` as counted and its header as written once all outputs are initialised:
   `MuxingSettled` proves that of `MuxQueue`, whichever calls the main loop makes; what is left is
   to let one specification make them.
3. `FFmpegCommand` over `Transcode`, to relate the place a command dies at to what its
   graphs still hold.

## 7. Not modelled

- *The libraries* (`libav*`, `x264` and the other vendored code, well over a million
  lines): third-party code the app calls and does not change. `threadmessage.c` is
  modelled because the app's threads meet in it; demuxers, decoders, filters, encoders
  and muxers appear as what ffmpeg.c may see of them.
- *Option table, presets, stream specifiers* (`ffmpeg_opt.c`, `cmdutils.c`): text into option
  values. What an option changes in the state commands share is in `FFmpegCommand`.
- *Hardware decoders and cuvid*: not configured in the app's builds.
- *Merging two files*: `MergeTwoFile` has no caller; the one in `ffmpeg_tool_impl.cpp`
  is commented out.
- *JNI bridge*: conversions of strings, and registration when the library is loaded; the
  scope that attaches a thread is used by the demonstration only.
- *Main activity, JNI demonstration*: user interface and example code.
- Of the main loop: `-shortest`, `-fs`, `-t` and `-ss` limits, encoder delay, subtitles,
  failing filters, decoders and graph configuration (`FFmpegCommand` has what a failure
  does to the command), several outputs of one graph, several output files, `-stream_loop`
  (in `InputThreads`), the `q` key, which leading packets a copy
  drops (any of them may be), the flush of decoders after the loop (for which `FFmpegCommand` has a step).
- Of decoding to YUV420: the choice of a pixel format, the printed pts, short writes,
  and `encode`, which has no caller.
