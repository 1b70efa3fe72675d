------------------------ MODULE FFmpegCommandProofs ------------------------
(* Proofs about FFmpegCommand, for any commands, faults and signals.       *)
EXTENDS FFmpegCommand, TLAPS

\* TypeOK, and a run that has returned has a result.
TypeInv ==
    /\ TypeOK
    /\ \A r \in Runs : Returned(r) => ret[r] # NoRet

LEMMA TypeInvInit == Init => TypeInv
<1> SUFFICES ASSUME Init PROVE TypeInv
  OBVIOUS
<1>1. <<>> \in Seq(Runs \X {0, 1, 255})
  OBVIOUS
<1> QED
  BY <1>1 DEF Init, TypeInv, TypeOK, Returned, PCs, NoRet, OutStates, Ended

\* Where a step may send a thread, and the faults it may record.
LEMMA GotoType ==
    ASSUME TypeOK, NEW r \in Runs, NEW from, NEW to \in PCs, Goto(r, from, to)
    PROVE  /\ pc' \in [Runs -> PCs]
           /\ pc[r] = from /\ pc'[r] = to
           /\ \A o \in Runs \ {r} : pc'[o] = pc[o]
BY DEF Goto, TypeOK

LEMMA MeetType ==
    ASSUME TypeOK, NEW r \in Runs, NEW f, Meet(r, f)
    PROVE  /\ met' \in [Runs -> SUBSET AllFaults]
           /\ met'[r] = met[r] \cup {f}
           /\ \A o \in Runs \ {r} : met'[o] = met[o]
BY CommandAssumption DEF Meet, TypeOK

LEMMA ExitType ==
    ASSUME TypeOK, exit_program
    PROVE  /\ ~stale /\ stale' = Counted /\ stale' \in BOOLEAN
           /\ input_files' = input_files /\ output_files' = output_files
BY DEF exit_program, Counted

\* The environment and the Java side.
LEMMA TypeInvCaller ==
    ASSUME TypeInv, NEW r \in Runs,
           execCmd(r) \/ post(r)
    PROVE  TypeInv'
<1> USE DEF options, tables, stats, results, ui, TypeInv, TypeOK, Returned
<1>1. CASE execCmd(r)
  BY <1>1, GotoType DEF execCmd, PCs
<1>2. CASE post(r)
  <2>1. ret[r] \in {0, 1, 255}
    BY <1>2 DEF post, Heard, Goto, NoRet
  <2> QED
    BY <1>2, <2>1, GotoType DEF post, Heard, Answer, PCs
<1> QED
  BY <1>1, <1>2

LEMMA TypeInvLooper ==
    ASSUME TypeInv, onExecCmdResult \/ sigterm_handler
    PROVE  TypeInv'
<1> USE DEF options, tables, stats, results, ui, TypeInv, TypeOK, Returned
<1>1. CASE onExecCmdResult
  <2>1. Head(queue) \in Runs \X {0, 1, 255} /\ Tail(queue) \in Seq(Runs \X {0, 1, 255})
    BY <1>1 DEF onExecCmdResult
  <2> QED
    BY <1>1, <2>1 DEF onExecCmdResult
<1>2. CASE sigterm_handler
  BY <1>2 DEF sigterm_handler
<1> QED
  BY <1>1, <1>2

\* The steps up to the main loop.
LEMMA TypeInvOpening ==
    ASSUME TypeInv, NEW r \in Runs,
           \/ split_commandline(r) \/ open_input_file(r) \/ open_output_file(r)
           \/ check_files(r) \/ transcode_init(r)
    PROVE  TypeInv'
<1> USE DEF options, tables, stats, results, ui, TypeInv, TypeOK, Returned
<1>1. CASE split_commandline(r)
  BY <1>1, GotoType, MeetType, ExitType DEF split_commandline, Overwrite, PCs
<1>2. CASE open_input_file(r)
  <2>1. CASE Goto(r, "inputs", "outputs") /\ UNCHANGED met
    <3>1. /\ pc' \in [Runs -> PCs] /\ pc'[r] = "outputs"
          /\ \A o \in Runs \ {r} : pc'[o] = pc[o]
      BY <2>1, GotoType DEF PCs
    <3>2. input_files' \subseteq Runs
      <4>1. input_files' = input_files \/ input_files' = input_files \cup {r}
        BY <1>2 DEF open_input_file
      <4> QED
        BY <4>1
    <3>3. alive' \in BOOLEAN
      BY <1>2, Zenon DEF open_input_file, Crash
    <3> QED
      BY <1>2, <2>1, <3>1, <3>2, <3>3 DEF open_input_file
  <2>2. CASE UNCHANGED <<pc, met>>
    <3>1. input_files' = input_files \/ input_files' = input_files \cup {r}
      BY <1>2 DEF open_input_file
    <3>2. alive' \in BOOLEAN
      BY <1>2, Zenon DEF open_input_file, Crash
    <3> QED
      BY <1>2, <2>2, <3>1, <3>2 DEF open_input_file
  <2>3. CASE UNCHANGED pc /\ Meet(r, "noInput")
    BY <1>2, <2>3, MeetType DEF open_input_file, Crash
  <2> QED
    BY <1>2, <2>1, <2>2, <2>3 DEF open_input_file
<1>3. CASE open_output_file(r)
  <2>1. /\ pc' \in [Runs -> PCs] /\ pc'[r] = "check"
        /\ \A o \in Runs \ {r} : pc'[o] = pc[o]
    BY <1>3, GotoType DEF open_output_file, PCs
  <2>2. met' \in [Runs -> SUBSET AllFaults]
    BY <1>3, MeetType DEF open_output_file
  <2>3. input_files' \subseteq Runs /\ output_files' \subseteq Runs
    <3>1. input_files' = input_files
      BY <1>3, ExitType DEF open_output_file
    <3>2. output_files' = output_files \/ output_files' = output_files \cup {r}
      BY <1>3, ExitType DEF open_output_file
    <3> QED
      BY <3>1, <3>2
  <2>4. out' \in [Runs -> OutStates]
    BY <1>3 DEF open_output_file, OutStates
  <2>5. source' \in [Runs -> Runs]
    <3>1. \/ source' = source
          \/ \E i \in input_files : source' = [source EXCEPT ![r] = i]
      BY <1>3 DEF open_output_file
    <3> QED
      BY <3>1
  <2>6. clobbered' \subseteq Runs
    <3>1. clobbered' = clobbered \/ clobbered' = clobbered \cup {r}
      BY <1>3 DEF open_output_file
    <3> QED
      BY <3>1
  <2>7. stale' \in BOOLEAN /\ alive' \in BOOLEAN
    BY <1>3, ExitType, Zenon DEF open_output_file
  <2> QED
    BY <1>3, <2>1, <2>2, <2>3, <2>4, <2>5, <2>6, <2>7 DEF open_output_file
<1>4. CASE check_files(r)
  BY <1>4, GotoType, ExitType DEF check_files, PCs
<1>5. CASE transcode_init(r)
  BY <1>5, GotoType, MeetType, ExitType DEF transcode_init, PCs
<1> QED
  BY <1>1, <1>2, <1>3, <1>4, <1>5

\* The main loop and what follows it.
LEMMA TypeInvRunning ==
    ASSUME TypeInv, NEW r \in Runs,
           \/ transcode_step(r) \/ flush_encoders(r) \/ end_loop(r)
           \/ write_trailers(r) \/ check_error_rate(r) \/ final_exit(r) \/ reset_variables(r) \/ segfault(r)
    PROVE  TypeInv'
<1> USE DEF options, tables, stats, results, ui, TypeInv, TypeOK, Returned
<1>1. CASE transcode_step(r) \/ flush_encoders(r)
  <2>1. met' \in [Runs -> SUBSET AllFaults]
    BY <1>1, MeetType DEF transcode_step, flush_encoders,
       check_decode_result, write_packet, fatal_step
  <2>2. finished' \subseteq Runs
    <3>1. \/ finished' \in {finished, finished \cup output_files}
          \/ \E o \in output_files : finished' = finished \cup {o}
      BY <1>1 DEF transcode_step, flush_encoders,
         check_decode_result, write_packet, fatal_step
    <3> QED
      BY <3>1
  <2>3. main_return_code' \in {0, 1} /\ decoded' \in Nat /\ corrupt' \in Nat
    <3>1. /\ main_return_code' \in {main_return_code, 1}
          /\ decoded' \in {decoded, decoded + 1}
          /\ corrupt' \in {corrupt, corrupt + 1}
      BY <1>1 DEF transcode_step, flush_encoders,
         check_decode_result, write_packet, fatal_step
    <3> QED
      BY <3>1
  <2>4. stale' \in BOOLEAN /\ alive' \in BOOLEAN
    BY <1>1, Zenon DEF transcode_step, flush_encoders,
       check_decode_result, write_packet, fatal_step
  <2>5. out' \in [Runs -> OutStates]
    <3>1. out' = out \/ \E o \in output_files : out' = [out EXCEPT ![o] = "broken"]
      BY <1>1 DEF transcode_step, flush_encoders, check_decode_result,
         write_packet, fatal_step
    <3> QED
      BY <3>1 DEF OutStates
  <2> QED
    BY <1>1, <2>1, <2>2, <2>3, <2>4, <2>5 DEF transcode_step, flush_encoders,
       check_decode_result, write_packet, fatal_step
<1>2. CASE end_loop(r)
  BY <1>2, GotoType, MeetType DEF end_loop, PCs
<1>7. CASE write_trailers(r)
  <2>1. out' \in [Runs -> OutStates]
    BY <1>7 DEF write_trailers, OutStates, Ended
  <2> QED
    BY <1>7, <2>1, GotoType DEF write_trailers, PCs
<1>3. CASE check_error_rate(r)
  BY <1>3, GotoType, ExitType DEF check_error_rate, PCs
<1>4. CASE final_exit(r)
  BY <1>4, GotoType, ExitType DEF final_exit, ReturnValue, PCs, NoRet
<1>5. CASE reset_variables(r)
  <2>1. /\ pc' \in [Runs -> PCs] /\ pc[r] = "reset"
        /\ \A o \in Runs \ {r} : pc'[o] = pc[o]
    BY <1>5, GotoType DEF reset_variables, PCs
  <2> QED
    BY <1>5, <2>1 DEF reset_variables, ResetTables
<1>6. CASE segfault(r)
  BY <1>6 DEF segfault, Crash
<1> QED
  BY <1>1, <1>2, <1>3, <1>4, <1>5, <1>6, <1>7

LEMMA TypeInvNext == TypeInv /\ [Next]_vars => TypeInv'
<1> SUFFICES ASSUME TypeInv, [Next]_vars PROVE TypeInv'
  OBVIOUS
<1>1. CASE UNCHANGED vars
  BY <1>1 DEF vars, options, tables, stats, results, ui, TypeInv, TypeOK, Returned
<1> QED
  BY <1>1, TypeInvCaller, TypeInvLooper, TypeInvOpening, TypeInvRunning
     DEF Next, run_ffmepg_cmd

LEMMA TypeInvAlways == Spec => []TypeInv
BY TypeInvInit, TypeInvNext, PTL DEF Spec

\* Every variable of a command's process keeps its type.
THEOREM TypeCorrect == Spec => []TypeOK
<1>1. TypeInv => TypeOK
  BY DEF TypeInv
<1> QED
  BY <1>1, TypeInvAlways, PTL
-----------------------------------------------------------------------------
(* What every step keeps                                                    *)

\* A step of a run moves that run only, and forgets none of its faults.
LEMMA StepFrame ==
    ASSUME TypeInv, NEW r \in Runs,
           execCmd(r) \/ run_ffmepg_cmd(r) \/ post(r)
    PROVE  /\ \A o \in Runs \ {r} : pc'[o] = pc[o] /\ met'[o] = met[o]
           /\ \A o \in Runs : met[o] \subseteq met'[o]
           /\ alive
<1> USE DEF TypeInv, options, tables, stats, results, ui
<1>1. CASE execCmd(r) \/ post(r)
  BY <1>1, GotoType DEF execCmd, post, PCs
<1>2. CASE split_commandline(r)
  BY <1>2, GotoType, MeetType DEF split_commandline, PCs
<1>3. CASE open_input_file(r)
  BY <1>3, GotoType, MeetType DEF open_input_file, PCs
<1>4. CASE open_output_file(r)
  <2>1. \A o \in Runs \ {r} : pc'[o] = pc[o]
    BY <1>4, GotoType DEF open_output_file, PCs
  <2>2. met' = met \/ \E f \in AllFaults : Meet(r, f)
    BY <1>4 DEF open_output_file, AllFaults
  <2> QED
    BY <1>4, <2>1, <2>2, MeetType DEF open_output_file
<1>5. CASE check_files(r) \/ check_error_rate(r) \/ final_exit(r) \/ reset_variables(r)
  BY <1>5, GotoType DEF check_files, check_error_rate, final_exit,
     reset_variables, PCs
<1>6. CASE transcode_init(r)
  BY <1>6, GotoType, MeetType DEF transcode_init, PCs
<1>7. CASE transcode_step(r) \/ flush_encoders(r)
  <2>1. met' = met \/ \E f \in AllFaults : Meet(r, f)
    BY <1>7 DEF transcode_step, flush_encoders,
       check_decode_result, write_packet, fatal_step, AllFaults
  <2> QED
    BY <1>7, <2>1, MeetType DEF transcode_step, flush_encoders,
       check_decode_result, write_packet, fatal_step
<1>8. CASE end_loop(r) \/ write_trailers(r)
  BY <1>8, GotoType, MeetType DEF end_loop, write_trailers, PCs
<1>9. CASE segfault(r)
  BY <1>9 DEF segfault
<1> QED
  BY <1>1, <1>2, <1>3, <1>4, <1>5, <1>6, <1>7, <1>8, <1>9 DEF run_ffmepg_cmd

\* The result of a run is written by its final_exit and by nothing else, and
\* only its final_exit makes it return.
LEMMA ResultKept ==
    ASSUME TypeInv, NEW r \in Runs,
           execCmd(r) \/ run_ffmepg_cmd(r) \/ post(r), ~final_exit(r)
    PROVE  ret' = ret /\ \A o \in Runs : Returned(o)' => Returned(o)
<1> USE DEF TypeInv, options, tables, stats, results, ui, Returned
<1>0. \A o \in Runs \ {r} : pc'[o] = pc[o]
  BY StepFrame
<1>1. CASE execCmd(r) \/ post(r)
  BY <1>0, <1>1, GotoType DEF execCmd, post, PCs
<1>2. CASE split_commandline(r)
  BY <1>0, <1>2, GotoType DEF split_commandline, PCs
<1>3. CASE open_input_file(r)
  BY <1>0, <1>3, GotoType DEF open_input_file, PCs
<1>4. CASE open_output_file(r)
  BY <1>0, <1>4, GotoType DEF open_output_file, PCs
<1>5. CASE check_files(r) \/ check_error_rate(r) \/ reset_variables(r)
  BY <1>0, <1>5, GotoType DEF check_files, check_error_rate, reset_variables, PCs
<1>6. CASE transcode_init(r)
  BY <1>0, <1>6, GotoType DEF transcode_init, PCs
<1>7. CASE transcode_step(r) \/ flush_encoders(r)
  BY <1>7 DEF transcode_step, flush_encoders,
     check_decode_result, write_packet, fatal_step
<1>8. CASE end_loop(r) \/ write_trailers(r)
  BY <1>0, <1>8, GotoType DEF end_loop, write_trailers, PCs
<1>9. CASE segfault(r)
  BY <1>9 DEF segfault
<1> QED
  BY <1>1, <1>2, <1>3, <1>4, <1>5, <1>6, <1>7, <1>8, <1>9 DEF run_ffmepg_cmd

\* Only a failed write sets main_return_code, and the run that met it knows.
LEMMA FailureKept ==
    ASSUME TypeInv, NEW r \in Runs,
           execCmd(r) \/ run_ffmepg_cmd(r) \/ post(r)
    PROVE  /\ \/ main_return_code' = main_return_code
              \/ main_return_code' = 1 /\ "writeError" \in met'[r]
           /\ "writeError" \in met'[r] =>
                 "writeError" \in met[r] \/ main_return_code' = 1
<1> USE DEF TypeInv, options, tables, stats, results, ui
<1>1. CASE execCmd(r) \/ post(r)
  BY <1>1 DEF execCmd, post
<1>2. CASE split_commandline(r)
  BY <1>2, MeetType DEF split_commandline
<1>3. CASE open_input_file(r)
  <2>1. main_return_code' = main_return_code /\ (met' = met \/ Meet(r, "noInput"))
    BY <1>3 DEF open_input_file
  <2> QED
    BY <2>1, MeetType
<1>4. CASE open_output_file(r)
  <2>1. \/ met' = met
        \/ \E f \in {"badOutputOption", "badOutput", "outputExists"} : Meet(r, f)
    BY <1>4 DEF open_output_file
  <2> QED
    BY <1>4, <2>1, MeetType DEF open_output_file
<1>5. CASE check_files(r) \/ check_error_rate(r) \/ final_exit(r) \/ reset_variables(r)
  BY <1>5 DEF check_files, check_error_rate, final_exit, reset_variables
<1>6. CASE transcode_init(r)
  BY <1>6, MeetType DEF transcode_init
<1>7. CASE transcode_step(r) \/ flush_encoders(r)
  <2>1. \/ UNCHANGED <<main_return_code, met>>
        \/ \E f \in {"corruptPacket", "stepFatal"} :
              Meet(r, f) /\ UNCHANGED main_return_code
        \/ Meet(r, "writeError") /\ main_return_code' = 1
    BY <1>7 DEF transcode_step, flush_encoders,
       check_decode_result, write_packet, fatal_step
  <2> QED
    BY <2>1, MeetType
<1>8. CASE end_loop(r) \/ write_trailers(r)
  BY <1>8, MeetType DEF end_loop, write_trailers
<1>9. CASE segfault(r)
  BY <1>9 DEF segfault
<1> QED
  BY <1>1, <1>2, <1>3, <1>4, <1>5, <1>6, <1>7, <1>8, <1>9 DEF run_ffmepg_cmd
-----------------------------------------------------------------------------
(* Where the codes 1 and 255 come from                                      *)

CodeInv ==
    /\ TypeInv
    /\ ReturnCodeOrigin
    /\ main_return_code = 1 => \E o \in Runs : "writeError" \in met[o]

LEMMA CodeInvNext == CodeInv /\ [Next]_vars => CodeInv'
<1> SUFFICES ASSUME CodeInv, [Next]_vars PROVE CodeInv'
  OBVIOUS
<1>0. TypeInv /\ TypeInv'
  BY TypeInvNext DEF CodeInv
<1> USE DEF options, tables, stats, results, ui
<1>1. ASSUME NEW r \in Runs, execCmd(r) \/ run_ffmepg_cmd(r) \/ post(r)
      PROVE  CodeInv'
  <2>1. main_return_code' = 1 => \E o \in Runs : "writeError" \in met'[o]
    BY <1>0, <1>1, StepFrame, FailureKept DEF CodeInv
  <2>2. received_nb_signals' = received_nb_signals
    BY <1>1 DEF execCmd, post, run_ffmepg_cmd, split_commandline, open_input_file,
       open_output_file, check_files, transcode_init, transcode_step,
       end_loop, flush_encoders, write_trailers, check_error_rate, final_exit, reset_variables, segfault
  <2>3. CASE ~final_exit(r)
    BY <1>0, <1>1, <2>1, <2>2, <2>3, ResultKept, StepFrame
       DEF CodeInv, ReturnCodeOrigin
  <2>4. CASE final_exit(r)
    <3>1. /\ ret'[r] = (IF received_nb_signals > 0 THEN 255 ELSE main_return_code)
          /\ \A o \in Runs \ {r} : ret'[o] = ret[o] /\ pc'[o] = pc[o]
          /\ main_return_code' = main_return_code /\ main_return_code \in {0, 1}
      BY <1>0, <2>4, StepFrame DEF run_ffmepg_cmd, final_exit, ReturnValue, TypeInv, TypeOK
    <3>2. ret'[r] \in {0, 1, 255}
      BY <3>1
    <3> QED
      BY <1>0, <1>1, <2>1, <2>2, <3>1, <3>2, StepFrame
         DEF CodeInv, ReturnCodeOrigin, Returned
  <2> QED
    BY <2>3, <2>4
<1>2. CASE onExecCmdResult \/ UNCHANGED vars
  BY <1>0, <1>2 DEF onExecCmdResult, vars, CodeInv, ReturnCodeOrigin, Returned
<1>3. CASE sigterm_handler
  <2>1. received_nb_signals' = received_nb_signals + 1 /\ received_nb_signals \in Nat
    BY <1>0, <1>3 DEF sigterm_handler, TypeInv, TypeOK
  <2> QED
    BY <1>0, <1>3, <2>1 DEF sigterm_handler, CodeInv, ReturnCodeOrigin, Returned
<1> QED
  BY <1>1, <1>2, <1>3 DEF Next

\* Whatever commands overlap, a command returns 0, 1 or 255, 1 only after a
\* failed write and 255 only after a signal: the codes 1 and 69 that
\* exit_program is given elsewhere are lost.
THEOREM CodesHaveOrigins == Spec => []ReturnCodeOrigin
<1>1. Init => CodeInv
  <2>1. Init => main_return_code = 0 /\ \A r \in Runs : ~Returned(r)
    BY DEF Init, Returned
  <2> QED
    BY <2>1, TypeInvInit DEF CodeInv, ReturnCodeOrigin
<1>2. CodeInv => ReturnCodeOrigin
  BY DEF CodeInv
<1> QED
  BY <1>1, <1>2, CodeInvNext, PTL DEF Spec
-----------------------------------------------------------------------------
(* One command at a time                                                    *)

\* The faults whose exit_program comes once a file is open.
Fatal == {"noInput", "badOutputOption", "badOutput", "initFails", "stepFatal"}

OneAtATime ==
    \A r, o \in Runs :
        pc[r] \notin {"new", "done"} /\ pc[o] \notin {"new", "done"} => r = o

\* Only the command in progress has entries in the tables, and none before it
\* opens its input and after it resets them.
TablesMine ==
    /\ \A r \in Runs : Active(r) => input_files \subseteq {r} /\ output_files \subseteq {r}
    /\ \A r \in Runs : pc[r] = "outputs" => input_files = {r}
    /\ (\A r \in Runs : pc[r] \in {"new", "options", "inputs", "post", "done"})
          => input_files = {} /\ output_files = {} /\ ~stale

\* After a fatal fault the process is dead or its tables are stale, and stale
\* tables let no command return.
FatalStays ==
    \A r \in Runs :
        met[r] \cap Fatal # {} => Active(r) /\ (stale \/ ~alive)

\* A command whose options were rejected has no files, and gets no further
\* than the last report.
Rejected(r) ==
    "badOption" \in met[r] =>
        /\ pc[r] \in {"check", "init", "loop", "flush"}
        /\ input_files = {} /\ output_files = {}

RejectedStays == \A r \in Runs : Rejected(r)

\* A command that fails the error-rate check has files, so that its clean-up
\* leaves stale tables, which do not let it return.
Counting(r) ==
    /\ pc[r] = "stats" => stale \/ Counted
    /\ pc[r] = "exit" => stale \/ ~TooManyErrors
    /\ pc[r] = "reset" => ~TooManyErrors

CountingStays == \A r \in Runs : Counting(r)

SerialInv ==
    /\ Serial
    /\ TypeInv
    /\ OneAtATime
    /\ TablesMine
    /\ FatalStays
    /\ RejectedStays
    /\ CountingStays
    /\ ExitNeverReturns

\* A step of the command in progress, the others being over or not begun.
LEMMA SerialFrame ==
    ASSUME SerialInv, NEW r \in Runs,
           execCmd(r) \/ run_ffmepg_cmd(r) \/ post(r)
    PROVE  /\ \A o \in Runs \ {r} : pc'[o] \in {"new", "done"} /\ pc'[o] = pc[o]
           /\ \A o \in Runs \ {r} : met'[o] = met[o] /\ met[o] \cap Fatal = {}
           /\ \A o \in Runs \ {r} : "badOption" \notin met[o]
           /\ OneAtATime'
<1>1. \A o \in Runs \ {r} : pc'[o] = pc[o] /\ met'[o] = met[o]
  BY StepFrame DEF SerialInv
<1>2. \A o \in Runs \ {r} : pc[o] \in {"new", "done"}
  <2>1. CASE execCmd(r)
    BY <2>1 DEF execCmd, Over, SerialInv
  <2>2. CASE run_ffmepg_cmd(r) \/ post(r)
    <3>1. pc[r] \notin {"new", "done"}
      BY <2>2 DEF run_ffmepg_cmd, post, split_commandline, open_input_file,
         open_output_file, check_files, transcode_init, transcode_step,
         end_loop, flush_encoders, write_trailers, check_error_rate, final_exit, reset_variables, segfault,
         Goto
    <3> QED
      BY <3>1 DEF SerialInv, OneAtATime
  <2> QED
    BY <2>1, <2>2
<1>3. \A o \in Runs \ {r} : met[o] \cap Fatal = {}
  BY <1>2 DEF SerialInv, FatalStays, Active, InRun, PCs
<1>4. \A o \in Runs \ {r} : "badOption" \notin met[o]
  BY <1>2 DEF SerialInv, RejectedStays, Rejected
<1> QED
  BY <1>1, <1>2, <1>3, <1>4 DEF OneAtATime

\* The command whose options were rejected stays without files: no step but
\* the rejection meets that fault, and none on its way to the last report
\* opens a file.
LEMMA RejectedKept ==
    ASSUME SerialInv, NEW r \in Runs,
           execCmd(r) \/ run_ffmepg_cmd(r) \/ post(r)
    PROVE  Rejected(r)'
<1>0. TypeInv /\ TypeOK /\ Rejected(r)
  BY DEF SerialInv, TypeInv, RejectedStays
<1> USE <1>0 DEF options, tables, stats, results, ui
<1>1. CASE execCmd(r) \/ post(r) \/ check_error_rate(r) \/ final_exit(r)
              \/ reset_variables(r)
  <2>1. met' = met /\ pc[r] \in {"new", "post", "stats", "exit", "reset"}
    BY <1>1 DEF execCmd, post, check_error_rate, final_exit, reset_variables, Goto
  <2> QED
    BY <2>1 DEF Rejected
<1>2. CASE split_commandline(r)
  <2>1. CASE Goto(r, "options", "inputs") /\ met' = met
    BY <2>1, GotoType DEF Rejected, PCs
  <2>2. CASE Goto(r, "options", "check") /\ exit_program
    <3>1. pc[r] = "options" /\ pc'[r] = "check"
      BY <2>2, GotoType DEF PCs
    <3>2. input_files = {} /\ output_files = {}
      BY <1>2, <3>1, SerialFrame DEF SerialInv, TablesMine, run_ffmepg_cmd
    <3> QED
      BY <2>2, <3>1, <3>2, ExitType DEF Rejected
  <2> QED
    BY <1>2, <2>1, <2>2 DEF split_commandline
<1>3. CASE open_input_file(r) \/ open_output_file(r)
  <2>1. pc[r] \in {"inputs", "outputs"}
    BY <1>3 DEF open_input_file, open_output_file, Goto
  <2>2. \/ met' = met
        \/ \E f \in {"noInput", "badOutputOption", "badOutput", "outputExists"} :
              Meet(r, f)
    BY <1>3 DEF open_input_file, open_output_file
  <2> QED
    BY <2>1, <2>2, MeetType DEF Rejected
<1>4. CASE check_files(r) \/ transcode_init(r) \/ end_loop(r)
  <2>1. UNCHANGED <<input_files, output_files>>
    BY <1>4, ExitType DEF check_files, transcode_init, end_loop
  <2>2. \/ pc'[r] \in {"init", "loop", "flush"} /\ met' = met
        \/ pc'[r] = "flush" /\ Meet(r, "filterError")
        \/ input_files # {} /\ Meet(r, "initFails")
    BY <1>4, GotoType DEF check_files, transcode_init, end_loop, PCs
  <2> QED
    BY <2>1, <2>2, MeetType DEF Rejected
<1>5. CASE transcode_step(r) \/ flush_encoders(r)
  <2>1. /\ pc' = pc /\ UNCHANGED <<input_files, output_files>>
        /\ \/ met' = met
           \/ \E f \in {"corruptPacket", "writeError", "stepFatal"} : Meet(r, f)
    BY <1>5 DEF transcode_step, flush_encoders, check_decode_result,
       write_packet, fatal_step
  <2> QED
    BY <2>1, MeetType DEF Rejected
<1>6. CASE write_trailers(r)
  BY <1>6 DEF write_trailers, Rejected
<1>7. CASE segfault(r)
  BY <1>7 DEF segfault, Rejected
<1> QED
  BY <1>1, <1>2, <1>3, <1>4, <1>5, <1>6, <1>7 DEF run_ffmepg_cmd

LEMMA CountingKept ==
    ASSUME SerialInv, NEW r \in Runs,
           execCmd(r) \/ run_ffmepg_cmd(r) \/ post(r)
    PROVE  Counting(r)'
<1>0. TypeInv /\ TypeOK /\ Counting(r)
  BY DEF SerialInv, TypeInv, CountingStays
<1> USE <1>0 DEF options, tables, stats, results, ui
<1>1. CASE execCmd(r) \/ split_commandline(r) \/ open_output_file(r)
              \/ check_files(r) \/ end_loop(r) \/ reset_variables(r) \/ post(r)
  <2>1. pc'[r] \in {"options", "inputs", "check", "init", "flush", "post", "done"}
    <3>1. \/ Goto(r, "new", "options") \/ Goto(r, "options", "inputs")
          \/ Goto(r, "options", "check") \/ Goto(r, "outputs", "check")
          \/ Goto(r, "check", "init") \/ Goto(r, "loop", "flush")
          \/ Goto(r, "reset", "post") \/ Goto(r, "post", "done")
      BY <1>1 DEF execCmd, split_commandline, open_output_file, check_files,
         end_loop, reset_variables, post
    <3> QED
      BY <3>1, GotoType DEF PCs
  <2> QED
    BY <2>1 DEF Counting
<1>2. CASE open_input_file(r)
  <2>1. pc'[r] \in {"inputs", "outputs"}
    BY <1>2, GotoType DEF open_input_file, PCs
  <2> QED
    BY <2>1 DEF Counting
<1>3. CASE transcode_init(r)
  <2>1. \/ pc'[r] = "loop"
        \/ pc'[r] = "stats" /\ stale' = Counted /\ input_files # {}
    BY <1>3, GotoType, ExitType DEF transcode_init, PCs
  <2> QED
    BY <2>1 DEF Counting, Counted
<1>4. CASE transcode_step(r) \/ flush_encoders(r)
  <2>1. pc'[r] \in {"loop", "flush"}
    BY <1>4 DEF transcode_step, flush_encoders
  <2> QED
    BY <2>1 DEF Counting
<1>5. CASE write_trailers(r)
  <2>1. pc'[r] = "stats" /\ output_files' # {}
    BY <1>5, GotoType DEF write_trailers, PCs
  <2> QED
    BY <2>1 DEF Counting, Counted
<1>6. CASE check_error_rate(r)
  <2>1. pc[r] = "stats" /\ pc'[r] = "exit" /\ TooManyErrors' = TooManyErrors
    BY <1>6, GotoType DEF check_error_rate, PCs, TooManyErrors
  <2>2. TooManyErrors => stale'
    BY <1>6, <2>1, ExitType DEF check_error_rate, Counting
  <2> QED
    BY <2>1, <2>2 DEF Counting
<1>7. CASE final_exit(r)
  <2>1. /\ pc[r] = "exit" /\ pc'[r] = "reset" /\ ~stale
        /\ TooManyErrors' = TooManyErrors
    BY <1>7, GotoType, ExitType DEF final_exit, PCs, TooManyErrors
  <2> QED
    BY <2>1 DEF Counting
<1>8. CASE segfault(r)
  BY <1>8 DEF segfault, Counting, Counted, TooManyErrors
<1> QED
  BY <1>1, <1>2, <1>3, <1>4, <1>5, <1>6, <1>7, <1>8 DEF run_ffmepg_cmd

\* A step that ends outside a run's quiet places keeps the invariant if the
\* tables and the faults of that run are right.
LEMMA SerialStep ==
    ASSUME SerialInv, TypeInv', NEW r \in Runs,
           execCmd(r) \/ run_ffmepg_cmd(r) \/ post(r),
           Active(r)' => input_files' \subseteq {r} /\ output_files' \subseteq {r},
           pc'[r] = "outputs" => input_files' = {r},
           pc'[r] \in {"new", "options", "inputs", "post", "done"} =>
               input_files' = {} /\ output_files' = {} /\ ~stale',
           met'[r] \cap Fatal # {} => Active(r)' /\ (stale' \/ ~alive'),
           Returned(r)' => met'[r] \cap Fatal = {}
    PROVE  SerialInv'
<1>1. /\ \A o \in Runs \ {r} : pc'[o] \in {"new", "done"}
      /\ \A o \in Runs \ {r} : met'[o] \cap Fatal = {}
      /\ OneAtATime'
  BY SerialFrame
<1>2. TablesMine'
  BY <1>1 DEF TablesMine, Active, InRun, PCs
<1>3. FatalStays'
  BY <1>1 DEF FatalStays
<1>4. RejectedStays'
  BY <1>1, RejectedKept, SerialFrame DEF RejectedStays, Rejected
<1>5. CountingStays'
  BY <1>1, CountingKept DEF CountingStays, Counting
<1>6. ExitNeverReturns'
  BY <1>1, <1>4, <1>5 DEF ExitNeverReturns, Fatal, RejectedStays, Rejected,
     CountingStays, Counting, Returned
<1> QED
  BY <1>1, <1>2, <1>3, <1>4, <1>5, <1>6 DEF SerialInv

LEMMA SerialInvNext == SerialInv /\ [Next]_vars => SerialInv'
<1> SUFFICES ASSUME SerialInv, [Next]_vars PROVE SerialInv'
  OBVIOUS
<1>0. TypeInv /\ TypeOK /\ TypeInv'
  BY TypeInvNext DEF SerialInv, TypeInv
<1> USE DEF options, tables, stats, results, ui, Active, Returned, InRun, PCs
<1>1. ASSUME NEW r \in Runs, execCmd(r) PROVE SerialInv'
  <2>1. /\ pc[r] = "new" /\ pc'[r] = "options"
        /\ UNCHANGED <<input_files, output_files, stale, met>>
    BY <1>0, <1>1, GotoType DEF execCmd
  <2>2. input_files = {} /\ output_files = {} /\ ~stale
    BY <1>1, <2>1, SerialFrame DEF SerialInv, TablesMine
  <2>3. met[r] \cap Fatal = {}
    BY <2>1 DEF SerialInv, FatalStays
  <2> QED
    BY <1>0, <1>1, <2>1, <2>2, <2>3, SerialStep
<1>2. ASSUME NEW r \in Runs, post(r) PROVE SerialInv'
  <2>1. /\ pc[r] = "post" /\ pc'[r] = "done"
        /\ UNCHANGED <<input_files, output_files, stale, met>>
    BY <1>0, <1>2, GotoType DEF post, Heard
  <2>2. input_files = {} /\ output_files = {} /\ ~stale
    BY <1>2, <2>1, SerialFrame DEF SerialInv, TablesMine
  <2>3. met[r] \cap Fatal = {}
    BY <2>1 DEF SerialInv, ExitNeverReturns, Fatal
  <2> QED
    BY <1>0, <1>2, <2>1, <2>2, <2>3, SerialStep
<1>3. ASSUME NEW r \in Runs, split_commandline(r) PROVE SerialInv'
  <2>1. pc[r] = "options" /\ pc'[r] \in {"inputs", "check"}
    BY <1>0, <1>3, GotoType DEF split_commandline
  <2>2. input_files = {} /\ output_files = {} /\ ~stale
    BY <1>3, <2>1, SerialFrame DEF SerialInv, TablesMine, run_ffmepg_cmd
  <2>3. input_files' = {} /\ output_files' = {} /\ ~stale'
    <3>1. CASE UNCHANGED tables
      BY <2>2, <3>1
    <3>2. CASE exit_program
      BY <1>0, <2>2, <3>2, ExitType DEF Counted
    <3> QED
      BY <1>3, <3>1, <3>2 DEF split_commandline
  <2>4. met[r] \cap Fatal = {}
    BY <1>3, <2>2 DEF SerialInv, FatalStays, split_commandline
  <2>5. met'[r] \cap Fatal = {}
    <3>1. met' = met \/ Meet(r, "badOption")
      BY <1>3 DEF split_commandline
    <3> QED
      BY <1>0, <2>4, <3>1, MeetType DEF Fatal
  <2> QED
    BY <1>0, <1>3, <2>1, <2>3, <2>5, SerialStep DEF run_ffmepg_cmd
<1>4. ASSUME NEW r \in Runs, open_input_file(r) PROVE SerialInv'
  <2>1. pc[r] = "inputs" /\ alive /\ UNCHANGED <<output_files, stale>>
    BY <1>4 DEF open_input_file, Goto
  <2>2. input_files = {} /\ output_files = {} /\ ~stale
    BY <1>4, <2>1, SerialFrame DEF SerialInv, TablesMine, run_ffmepg_cmd
  <2>3. met[r] \cap Fatal = {}
    BY <2>1, <2>2 DEF SerialInv, FatalStays
  <2>4. \/ /\ pc'[r] = "outputs" /\ input_files' = input_files \cup {r}
           /\ met' = met
        \/ pc'[r] = "inputs" /\ input_files' = input_files /\ ~alive'
    BY <1>0, <1>4, <2>1, GotoType DEF open_input_file, Crash
  <2> QED
    BY <1>0, <1>4, <2>1, <2>2, <2>3, <2>4, SerialStep DEF run_ffmepg_cmd
<1>5. ASSUME NEW r \in Runs, open_output_file(r) PROVE SerialInv'
  <2>1. pc[r] = "outputs" /\ pc'[r] = "check" /\ alive /\ ~stale
    BY <1>0, <1>5, GotoType DEF open_output_file
  <2>2. input_files = {r} /\ output_files \subseteq {r}
    BY <2>1 DEF SerialInv, TablesMine
  <2>3. met[r] \cap Fatal = {}
    BY <2>1 DEF SerialInv, FatalStays
  <2>4. /\ input_files' = input_files
        /\ output_files' = output_files \/ output_files' = output_files \cup {r}
    BY <1>5 DEF open_output_file, exit_program
  <2>5. \/ met' = met \/ Meet(r, "outputExists")
        \/ stale'
    BY <1>5, <2>2 DEF open_output_file, exit_program, Counted
  <2>6. met'[r] \cap Fatal # {} => stale'
    BY <1>0, <2>3, <2>5, MeetType DEF Fatal
  <2> QED
    BY <1>0, <1>5, <2>1, <2>2, <2>4, <2>6, SerialStep DEF run_ffmepg_cmd
<1>6. ASSUME NEW r \in Runs,
             check_files(r) \/ transcode_init(r) \/ end_loop(r)
                \/ write_trailers(r)
                \/ check_error_rate(r)
      PROVE  SerialInv'
  <2>1. /\ pc[r] \in {"check", "init", "loop", "flush", "stats"} /\ alive /\ alive'
        /\ pc'[r] \in {"init", "loop", "flush", "stats", "exit"}
        /\ UNCHANGED <<input_files, output_files>>
    BY <1>0, <1>6, GotoType DEF check_files, transcode_init, end_loop, write_trailers,
       check_error_rate, exit_program
  <2>2. input_files \subseteq {r} /\ output_files \subseteq {r}
    BY <2>1 DEF SerialInv, TablesMine
  <2>3. stale => stale'
    BY <1>6 DEF check_files, transcode_init, end_loop, write_trailers, check_error_rate,
       exit_program
  <2>4. \/ met' = met \/ Meet(r, "filterError")
        \/ stale'
    BY <1>6 DEF check_files, transcode_init, end_loop, write_trailers, check_error_rate,
       exit_program, Counted
  <2>5. met[r] \cap Fatal # {} => stale
    BY <2>1 DEF SerialInv, FatalStays
  <2>6. met'[r] \cap Fatal # {} => stale'
    BY <1>0, <2>3, <2>4, <2>5, MeetType DEF Fatal
  <2> QED
    BY <1>0, <1>6, <2>1, <2>2, <2>6, SerialStep DEF run_ffmepg_cmd
<1>7. ASSUME NEW r \in Runs, transcode_step(r) \/ flush_encoders(r)
      PROVE  SerialInv'
  <2>1. /\ pc[r] \in {"loop", "flush"} /\ pc'[r] = pc[r] /\ alive /\ ~stale
        /\ UNCHANGED <<input_files, output_files>>
    BY <1>7 DEF transcode_step, flush_encoders,
       check_decode_result, write_packet, fatal_step
  <2>2. input_files \subseteq {r} /\ output_files \subseteq {r}
    BY <2>1 DEF SerialInv, TablesMine
  <2>3. met[r] \cap Fatal = {}
    BY <2>1 DEF SerialInv, FatalStays
  <2>4. \/ met' = met \/ Meet(r, "corruptPacket") \/ Meet(r, "writeError")
        \/ stale'
    BY <1>7 DEF transcode_step, flush_encoders,
       check_decode_result, write_packet, fatal_step
  <2>5. met'[r] \cap Fatal # {} => stale'
    BY <1>0, <2>3, <2>4, MeetType DEF Fatal
  <2> QED
    BY <1>0, <1>7, <2>1, <2>2, <2>5, SerialStep DEF run_ffmepg_cmd
<1>8. ASSUME NEW r \in Runs, final_exit(r) PROVE SerialInv'
  <2>1. /\ pc[r] = "exit" /\ pc'[r] = "reset" /\ alive /\ ~stale
        /\ UNCHANGED <<input_files, output_files, met>>
    BY <1>0, <1>8, GotoType DEF final_exit, exit_program
  <2>2. input_files \subseteq {r} /\ output_files \subseteq {r}
    BY <2>1 DEF SerialInv, TablesMine
  <2>3. met[r] \cap Fatal = {}
    BY <2>1 DEF SerialInv, FatalStays
  <2> QED
    BY <1>0, <1>8, <2>1, <2>2, <2>3, SerialStep DEF run_ffmepg_cmd
<1>9. ASSUME NEW r \in Runs, reset_variables(r) PROVE SerialInv'
  <2>1. /\ pc[r] = "reset" /\ pc'[r] = "post" /\ met' = met
        /\ input_files' = {} /\ output_files' = {} /\ ~stale'
    BY <1>0, <1>9, GotoType DEF reset_variables, ResetTables
  <2>2. met[r] \cap Fatal = {}
    BY <2>1 DEF SerialInv, ExitNeverReturns, Fatal
  <2> QED
    BY <1>0, <1>9, <2>1, <2>2, SerialStep DEF run_ffmepg_cmd
<1>10. ASSUME NEW r \in Runs, segfault(r) PROVE SerialInv'
  BY <1>0, <1>10 DEF segfault, Crash, SerialInv, OneAtATime, TablesMine,
     FatalStays, RejectedStays, Rejected, CountingStays, Counting, Counted,
     TooManyErrors, ExitNeverReturns
<1>11. CASE onExecCmdResult \/ sigterm_handler \/ UNCHANGED vars
  <2>1. /\ UNCHANGED <<pc, met, input_files, output_files, stale, decoded, corrupt>>
        /\ (alive' => alive)
    BY <1>11 DEF onExecCmdResult, sigterm_handler, vars
  <2> QED
    BY <1>0, <2>1 DEF SerialInv, OneAtATime, TablesMine, FatalStays,
       RejectedStays, Rejected, CountingStays, Counting, Counted,
       TooManyErrors, ExitNeverReturns
<1> QED
  BY <1>1, <1>2, <1>3, <1>4, <1>5, <1>6, <1>7, <1>8, <1>9, <1>10, <1>11
     DEF Next, run_ffmepg_cmd

LEMMA SerialInvInit == Serial /\ Init => SerialInv
<1> SUFFICES ASSUME Serial, Init PROVE SerialInv
  OBVIOUS
<1>1. /\ \A r \in Runs : pc[r] = "new" /\ met[r] = {}
      /\ input_files = {} /\ output_files = {} /\ ~stale
  BY DEF Init
<1> QED
  BY <1>1, TypeInvInit DEF SerialInv, OneAtATime, TablesMine, FatalStays,
     RejectedStays, Rejected, CountingStays, Counting, ExitNeverReturns, Active, Returned, InRun, PCs

LEMMA SerialInvAlways == Serial /\ Spec => []SerialInv
BY SerialInvInit, SerialInvNext, PTL DEF Spec

\* Commands issued one at a time: each starts with the tables main() starts
\* with, whatever faults the earlier ones met.
THEOREM CleanWhenSerial == Serial /\ Spec => []CleanBetweenRuns
<1>1. SerialInv => CleanBetweenRuns
  BY DEF SerialInv, TablesMine, CleanBetweenRuns
<1> QED
  BY <1>1, SerialInvAlways, PTL

\* Commands issued one at a time: one that meets an error exit_program is
\* called for, a failed error-rate check included, never returns.
THEOREM ExitKillsWhenSerial == Serial /\ Spec => []ExitNeverReturns
<1>1. SerialInv => ExitNeverReturns
  BY DEF SerialInv
<1> QED
  BY <1>1, SerialInvAlways, PTL
-----------------------------------------------------------------------------
(* What 0 means when commands are issued one at a time                      *)

ZeroInv ==
    /\ SerialInv
    /\ ZeroMeansFinished
    /\ \A r \in Runs : "writeError" \in met[r] => main_return_code = 1
    /\ \A r \in Runs :
          pc[r] \in {"check", "init", "loop", "flush"} /\ alive /\ ~stale
                /\ "badOption" \notin met[r]
            => /\ output_files = {r} /\ source[r] = r
               /\ out[r] = "open" \/ (out[r] = "broken" /\ main_return_code = 1)
    /\ \A r \in Runs :
          pc[r] \in {"stats", "exit"} /\ alive /\ ~stale
            => /\ source[r] = r
               /\ out[r] \in Ended \/ main_return_code = 1

\* The command in progress leaves the outputs and results of the others alone.
LEMMA ResultsFrame ==
    ASSUME SerialInv, NEW r \in Runs,
           execCmd(r) \/ run_ffmepg_cmd(r) \/ post(r)
    PROVE  \A o \in Runs \ {r} :
              out'[o] = out[o] /\ source'[o] = source[o] /\ ret'[o] = ret[o]
<1>0. TypeInv /\ TypeOK
  BY DEF SerialInv, TypeInv
<1> USE <1>0 DEF options, tables, stats, results, ui
<1>1. ASSUME pc[r] \in InRun PROVE output_files \subseteq {r}
  BY <1>1 DEF SerialInv, TablesMine, Active
<1>2. CASE final_exit(r)
  BY <1>2 DEF final_exit, TypeOK
<1>3. CASE open_output_file(r)
  <2>1. out' = out \/ out' = [out EXCEPT ![r] = "open"]
    BY <1>3 DEF open_output_file
  <2>2. source' = source \/ \E i \in input_files : source' = [source EXCEPT ![r] = i]
    BY <1>3 DEF open_output_file
  <2>3. ret' = ret
    BY <1>3 DEF open_output_file
  <2> QED
    BY <2>1, <2>2, <2>3 DEF TypeOK
<1>4. CASE transcode_step(r) \/ flush_encoders(r)
  <2>1. output_files \subseteq {r}
    BY <1>1, <1>4 DEF transcode_step, flush_encoders,
       check_decode_result, write_packet, fatal_step, InRun, PCs
  <2>2. out' = out \/ \E o \in output_files : out' = [out EXCEPT ![o] = "broken"]
    BY <1>4 DEF transcode_step, flush_encoders,
       check_decode_result, write_packet, fatal_step
  <2>3. ret' = ret /\ source' = source
    BY <1>4 DEF transcode_step, flush_encoders,
       check_decode_result, write_packet, fatal_step
  <2> QED
    BY <2>1, <2>2, <2>3 DEF TypeOK
<1>5. CASE end_loop(r) \/ write_trailers(r)
  <2>1. output_files \subseteq {r}
    BY <1>1, <1>5 DEF end_loop, write_trailers, Goto, InRun, PCs
  <2> QED
    BY <1>5, <2>1 DEF end_loop, write_trailers, TypeOK
<1>6. CASE execCmd(r) \/ post(r) \/ split_commandline(r) \/ open_input_file(r)
  BY <1>6 DEF execCmd, post, split_commandline, open_input_file
<1>7. CASE check_files(r) \/ transcode_init(r) \/ check_error_rate(r)
               \/ reset_variables(r) \/ segfault(r)
  BY <1>7 DEF check_files, transcode_init, check_error_rate, reset_variables,
     segfault
<1> QED
  BY <1>2, <1>3, <1>4, <1>5, <1>6, <1>7 DEF run_ffmepg_cmd

\* A step keeps the invariant if it is right for the run that takes it.
LEMMA ZeroStep ==
    ASSUME ZeroInv, SerialInv', NEW r \in Runs,
           execCmd(r) \/ run_ffmepg_cmd(r) \/ post(r),
           Returned(r)' /\ ret'[r] = 0 =>
               /\ out'[r] \in Ended /\ source'[r] = r
               /\ "writeError" \notin met'[r],
           pc'[r] \in {"check", "init", "loop", "flush"} /\ alive' /\ ~stale'
                 /\ "badOption" \notin met'[r] =>
               /\ output_files' = {r} /\ source'[r] = r
               /\ out'[r] = "open" \/ (out'[r] = "broken" /\ main_return_code' = 1),
           pc'[r] \in {"stats", "exit"} /\ alive' /\ ~stale' =>
               /\ source'[r] = r
               /\ out'[r] \in Ended \/ main_return_code' = 1
    PROVE  ZeroInv'
<1>1. \A o \in Runs \ {r} : /\ pc'[o] \in {"new", "done"} /\ pc'[o] = pc[o]
                            /\ met'[o] = met[o]
                            /\ out'[o] = out[o] /\ source'[o] = source[o]
                            /\ ret'[o] = ret[o]
  BY SerialFrame, ResultsFrame DEF ZeroInv
<1>2. \A o \in Runs : "writeError" \in met'[o] => main_return_code' = 1
  BY <1>1, FailureKept DEF ZeroInv, SerialInv
<1>3. ZeroMeansFinished'
  <2>1. ASSUME NEW o \in Runs \ {r}, Returned(o)', ret'[o] = 0
        PROVE  /\ out'[o] \in Ended /\ source'[o] = o
               /\ met'[o] \cap {"writeError", "stepFatal", "initFails"} = {}
    BY <1>1, <2>1 DEF ZeroInv, ZeroMeansFinished, Returned
  <2>2. Returned(r)' => met'[r] \cap {"stepFatal", "initFails"} = {}
    BY DEF SerialInv, ExitNeverReturns
  <2> QED
    BY <2>1, <2>2 DEF ZeroMeansFinished
<1> QED
  BY <1>1, <1>2, <1>3 DEF ZeroInv

LEMMA ZeroInvNext == ZeroInv /\ [Next]_vars => ZeroInv'
<1> SUFFICES ASSUME ZeroInv, [Next]_vars PROVE ZeroInv'
  OBVIOUS
<1>0. SerialInv /\ TypeInv /\ TypeOK /\ SerialInv'
  BY SerialInvNext DEF ZeroInv, SerialInv, TypeInv
<1> USE <1>0 DEF options, tables, stats, results, ui, Returned
<1>1. ASSUME NEW r \in Runs,
             execCmd(r) \/ open_input_file(r) \/ reset_variables(r) \/ post(r)
      PROVE  ZeroInv'
  <2>1. \/ pc'[r] \in {"options", "inputs", "outputs"}
        \/ /\ pc[r] \in {"reset", "post"}
           /\ UNCHANGED <<ret, met, out, source>>
           /\ pc'[r] \in {"post", "done"}
    BY <1>1, GotoType DEF execCmd, open_input_file, reset_variables, post, PCs
  <2>2. Returned(r) /\ ret[r] = 0 =>
           /\ out[r] \in Ended /\ source[r] = r
           /\ "writeError" \notin met[r]
    BY DEF ZeroInv, ZeroMeansFinished
  <2> QED
    BY <1>1, <2>1, <2>2, ZeroStep DEF run_ffmepg_cmd
<1>2. ASSUME NEW r \in Runs, split_commandline(r) PROVE ZeroInv'
  <2>1. \/ pc'[r] = "inputs"
        \/ pc'[r] = "check" /\ "badOption" \in met'[r]
    BY <1>2, GotoType, MeetType DEF split_commandline, PCs
  <2> QED
    BY <1>2, <2>1, ZeroStep DEF run_ffmepg_cmd
<1>3. ASSUME NEW r \in Runs, open_output_file(r) PROVE ZeroInv'
  <2>1. pc[r] = "outputs" /\ pc'[r] = "check"
    BY <1>3, GotoType DEF open_output_file, PCs
  <2>2. input_files = {r} /\ output_files \subseteq {r}
    BY <2>1 DEF SerialInv, TablesMine, Active, InRun, PCs
  <2>3. \/ stale'
        \/ /\ output_files' = output_files \cup {r}
           /\ out' = [out EXCEPT ![r] = "open"]
           /\ \E i \in input_files : source' = [source EXCEPT ![r] = i]
    BY <1>3, <2>2 DEF open_output_file, exit_program, Counted
  <2>4. \/ stale'
        \/ output_files' = {r} /\ out'[r] = "open" /\ source'[r] = r
    BY <2>2, <2>3 DEF TypeOK
  <2> QED
    BY <1>3, <2>1, <2>4, ZeroStep DEF run_ffmepg_cmd
<1>4. ASSUME NEW r \in Runs, check_files(r) PROVE ZeroInv'
  <2>1. /\ pc[r] = "check" /\ pc'[r] = "init" /\ alive /\ ~stale
        /\ UNCHANGED <<met, output_files, out, source, main_return_code>>
    BY <1>4, GotoType, ExitType DEF check_files, PCs
  <2> QED
    BY <1>4, <2>1, ZeroStep DEF run_ffmepg_cmd, ZeroInv
<1>5. ASSUME NEW r \in Runs, transcode_init(r) PROVE ZeroInv'
  <2>1. /\ pc[r] = "init" /\ alive /\ ~stale
        /\ UNCHANGED <<output_files, out, source, main_return_code>>
        /\ \/ pc'[r] = "loop" /\ met' = met
           \/ pc'[r] = "stats" /\ stale'
    BY <1>5, GotoType, ExitType DEF transcode_init, Counted, PCs
  <2> QED
    BY <1>5, <2>1, ZeroStep DEF run_ffmepg_cmd, ZeroInv
<1>6. ASSUME NEW r \in Runs, transcode_step(r) \/ flush_encoders(r)
      PROVE  ZeroInv'
  <2>1. /\ pc[r] \in {"loop", "flush"} /\ pc'[r] = pc[r] /\ alive /\ ~stale
        /\ UNCHANGED <<output_files, source>>
    BY <1>6 DEF transcode_step, flush_encoders,
       check_decode_result, write_packet, fatal_step
  <2>2. \/ stale'
        \/ UNCHANGED <<out, main_return_code>>
        \/ /\ \E o \in output_files : out' = [out EXCEPT ![o] = "broken"]
           /\ main_return_code' = 1
    BY <1>6 DEF transcode_step, flush_encoders,
       check_decode_result, write_packet, fatal_step
  <2>3. "badOption" \notin met'[r] => "badOption" \notin met[r]
    BY <1>6, StepFrame DEF run_ffmepg_cmd
  <2>4. output_files \subseteq {r}
    BY <2>1 DEF SerialInv, TablesMine, Active, InRun, PCs
  <2>5. \/ stale'
        \/ UNCHANGED <<out, main_return_code>>
        \/ out'[r] = "broken" /\ main_return_code' = 1
    BY <2>2, <2>4 DEF TypeOK
  <2> QED
    BY <1>6, <2>1, <2>3, <2>5, ZeroStep DEF run_ffmepg_cmd, ZeroInv
<1>7. ASSUME NEW r \in Runs, end_loop(r) PROVE ZeroInv'
  <2>1. /\ pc[r] = "loop" /\ pc'[r] = "flush" /\ alive /\ ~stale
        /\ UNCHANGED <<output_files, out, source, main_return_code>>
    BY <1>7, GotoType DEF end_loop, PCs
  <2>2. "badOption" \notin met'[r] => "badOption" \notin met[r]
    BY <1>7, StepFrame DEF run_ffmepg_cmd
  <2> QED
    BY <1>7, <2>1, <2>2, ZeroStep DEF run_ffmepg_cmd, ZeroInv
<1>12. ASSUME NEW r \in Runs, write_trailers(r) PROVE ZeroInv'
  <2>1. /\ pc[r] = "flush" /\ pc'[r] = "stats" /\ alive /\ ~stale
        /\ UNCHANGED <<met, output_files, source, main_return_code>>
        /\ "badOption" \notin met[r]
    BY <1>12, GotoType DEF write_trailers, PCs, SerialInv, RejectedStays, Rejected
  <2>2. r \in output_files /\ out[r] = "open" => out'[r] \in Ended
    BY <1>12 DEF write_trailers, Ended
  <2> QED
    BY <1>12, <2>1, <2>2, ZeroStep DEF run_ffmepg_cmd, ZeroInv
<1>8. ASSUME NEW r \in Runs, check_error_rate(r) PROVE ZeroInv'
  <2>1. /\ pc[r] = "stats" /\ pc'[r] = "exit" /\ alive /\ (stale => stale')
        /\ UNCHANGED <<met, out, source, main_return_code>>
    BY <1>8, GotoType, ExitType DEF check_error_rate, PCs
  <2> QED
    BY <1>8, <2>1, ZeroStep DEF run_ffmepg_cmd, ZeroInv
<1>9. ASSUME NEW r \in Runs, final_exit(r) PROVE ZeroInv'
  <2>1. /\ pc[r] = "exit" /\ pc'[r] = "reset" /\ alive /\ ~stale
        /\ UNCHANGED <<met, out, source, main_return_code>>
    BY <1>9, GotoType, ExitType DEF final_exit, PCs
  <2>2. ret'[r] = 0 => main_return_code = 0
    BY <1>9 DEF final_exit, ReturnValue, TypeOK
  <2>3. "writeError" \in met[r] => main_return_code = 1
    BY DEF ZeroInv
  <2>4. /\ source[r] = r
        /\ out[r] \in Ended \/ main_return_code = 1
    BY <2>1 DEF ZeroInv
  <2> QED
    BY <1>9, <2>1, <2>2, <2>3, <2>4, ZeroStep DEF run_ffmepg_cmd
<1>10. ASSUME NEW r \in Runs, segfault(r) PROVE ZeroInv'
  BY <1>10 DEF segfault, Crash, ZeroInv, ZeroMeansFinished
<1>11. CASE onExecCmdResult \/ sigterm_handler \/ UNCHANGED vars
  <2>1. /\ UNCHANGED <<pc, ret, met, out, source, output_files, stale,
                       main_return_code>>
        /\ (alive' => alive)
    BY <1>11 DEF onExecCmdResult, sigterm_handler, vars
  <2> QED
    BY <2>1 DEF ZeroInv, ZeroMeansFinished
<1> QED
  BY <1>1, <1>2, <1>3, <1>4, <1>5, <1>6, <1>7, <1>8, <1>9, <1>10, <1>11, <1>12
     DEF Next, run_ffmepg_cmd

\* Commands issued one at a time: one that returns 0 wrote its own output,
\* from its own input, up to the trailer.
THEOREM ZeroFinishedWhenSerial == Serial /\ Spec => []ZeroMeansFinished
<1>1. Serial /\ Init => ZeroInv
  <2> SUFFICES ASSUME Serial, Init PROVE ZeroInv
    OBVIOUS
  <2>1. \A r \in Runs : pc[r] = "new" /\ met[r] = {}
    BY DEF Init
  <2> QED
    BY <2>1, SerialInvInit DEF ZeroInv, ZeroMeansFinished, Returned
<1>2. ZeroInv => ZeroMeansFinished
  BY DEF ZeroInv
<1> QED
  BY <1>1, <1>2, ZeroInvNext, PTL DEF Spec
-----------------------------------------------------------------------------
(* What overlapping commands cannot break                                   *)

\* The permission, the failure code and the signal count only ever grow.
THEOREM GlobalsStick == Spec => StickyGlobals
<1> DEFINE Grow == /\ file_overwrite => file_overwrite'
                   /\ main_return_code <= main_return_code'
                   /\ received_nb_signals <= received_nb_signals'
<1>1. TypeInv /\ [Next]_vars => [Grow]_vars
  <2> SUFFICES ASSUME TypeInv, Next PROVE Grow
    BY DEF vars, options, stats
  <2> USE DEF TypeInv, TypeOK, options, tables, stats, results, ui
  <2>1. main_return_code \in {0, 1} /\ received_nb_signals \in Nat
    OBVIOUS
  <2>2. ASSUME NEW r \in Runs, execCmd(r) \/ run_ffmepg_cmd(r) \/ post(r)
        PROVE  /\ received_nb_signals' = received_nb_signals
               /\ file_overwrite => file_overwrite'
    BY <2>2 DEF execCmd, post, run_ffmepg_cmd, split_commandline, open_input_file,
       open_output_file, check_files, transcode_init, transcode_step,
       end_loop, flush_encoders, write_trailers, check_error_rate, final_exit, reset_variables, segfault,
       Overwrite
  <2>3. ASSUME NEW r \in Runs, execCmd(r) \/ run_ffmepg_cmd(r) \/ post(r)
        PROVE  main_return_code <= main_return_code'
    BY <2>1, <2>3, FailureKept
  <2>4. CASE onExecCmdResult \/ sigterm_handler
    BY <2>1, <2>4 DEF onExecCmdResult, sigterm_handler
  <2> QED
    BY <2>1, <2>2, <2>3, <2>4 DEF Next
<1> QED
  BY <1>1, TypeInvAlways, PTL DEF Spec, StickyGlobals

\* Each listener is called at most once, with the value its own command
\* returned, even when commands overlap.
ListenerGetsOwnResult ==
    LET results_seen == called \o queue IN
    /\ \A i \in 1..Len(results_seen) :
          results_seen[i][1] \in Listeners /\
          results_seen[i][2] = ret[results_seen[i][1]]
    /\ \A i, j \in 1..Len(results_seen) :
          results_seen[i][1] = results_seen[j][1] => i = j

\* The answers given or on their way are those of runs that are done.
ListenerInv ==
    /\ TypeInv
    /\ ListenerGetsOwnResult
    /\ \A i \in 1..Len(called \o queue) : pc[(called \o queue)[i][1]] = "done"

LEMMA ListenerInvNext == ListenerInv /\ [Next]_vars => ListenerInv'
<1> SUFFICES ASSUME ListenerInv, [Next]_vars PROVE ListenerInv'
  OBVIOUS
<1> DEFINE Answers == Runs \X {0, 1, 255}
           all == called \o queue
<1>0. /\ TypeInv /\ TypeOK /\ TypeInv'
      /\ called \in Seq(Answers) /\ queue \in Seq(Answers) /\ all \in Seq(Answers)
  BY TypeInvNext DEF ListenerInv, TypeInv, TypeOK
<1>1. \A i \in 1..Len(all) : /\ all[i][1] \in Runs /\ all[i][1] \in Listeners
                             /\ all[i][2] = ret[all[i][1]]
                             /\ pc[all[i][1]] = "done"
  BY <1>0, CommandAssumption DEF ListenerInv, ListenerGetsOwnResult
<1>2. \A i, j \in 1..Len(all) : all[i][1] = all[j][1] => i = j
  BY DEF ListenerInv, ListenerGetsOwnResult
<1>3. CASE /\ all' = all
           /\ \A o \in Runs : pc[o] = "done" => pc'[o] = "done" /\ ret'[o] = ret[o]
  <2>1. \A i \in 1..Len(all) : /\ all[i][2] = ret'[all[i][1]]
                               /\ pc'[all[i][1]] = "done"
    <3> HIDE DEF all
    <3> QED
      BY <1>1, <1>3
  <2> QED
    BY <1>0, <1>1, <1>2, <1>3, <2>1 DEF ListenerInv, ListenerGetsOwnResult
<1>4. ASSUME NEW r \in Runs, execCmd(r) \/ run_ffmepg_cmd(r)
      PROVE  /\ all' = all
             /\ \A o \in Runs : pc[o] = "done" => pc'[o] = "done" /\ ret'[o] = ret[o]
  <2>1. pc[r] # "done" /\ UNCHANGED <<called, queue>>
    BY <1>4 DEF execCmd, run_ffmepg_cmd, split_commandline, open_input_file,
       open_output_file, check_files, transcode_init, transcode_step,
       end_loop, flush_encoders, write_trailers, check_error_rate, final_exit, reset_variables, segfault,
       Goto, ui
  <2>2. \A o \in Runs \ {r} : pc'[o] = pc[o]
    BY <1>0, <1>4, StepFrame
  <2>3. \A o \in Runs \ {r} : ret'[o] = ret[o]
    <3>1. CASE final_exit(r)
      BY <1>0, <3>1 DEF final_exit, TypeOK
    <3>2. CASE ~final_exit(r)
      BY <1>0, <1>4, <3>2, ResultKept
    <3> QED
      BY <3>1, <3>2
  <2> QED
    BY <2>1, <2>2, <2>3
<1>5. ASSUME NEW r \in Runs, post(r) PROVE ListenerInv'
  <2>1. /\ pc[r] = "post" /\ pc'[r] = "done" /\ ret' = ret /\ called' = called
        /\ \A o \in Runs \ {r} : pc'[o] = pc[o]
    BY <1>0, <1>5, GotoType DEF post, Heard, PCs
  <2>2. CASE r \notin Listeners
    BY <1>3, <1>5, <2>1, <2>2 DEF post, Heard
  <2>3. CASE r \in Listeners
    <3>1. ret[r] \in {0, 1, 255}
      BY <1>0, <2>1 DEF TypeInv, TypeOK, Returned, NoRet
    <3>2. /\ Len(all') = Len(all) + 1 /\ Len(all) \in Nat
          /\ all'[Len(all) + 1][1] = r /\ all'[Len(all) + 1][2] = ret[r]
          /\ \A i \in 1..Len(all) : all'[i] = all[i]
      <4> DEFINE answer == <<r, ret[r]>>
      <4>1. queue' = Append(queue, answer)
        BY <1>5, <2>3 DEF post, Heard, Answer
      <4>2. answer \in Answers /\ answer[1] = r /\ answer[2] = ret[r]
        BY <3>1
      <4> HIDE DEF answer
      <4>3. all' = Append(all, answer)
        BY <1>0, <2>1, <4>1, <4>2
      <4> HIDE DEF all, Answers
      <4> QED
        BY <1>0, <4>2, <4>3
    <3>3. \A i \in 1..Len(all) : all'[i][1] # r
      BY <1>1, <2>1, <3>2
    <3> HIDE DEF all
    <3>4. ASSUME NEW i \in 1..Len(all')
          PROVE  /\ all'[i][1] \in Listeners /\ all'[i][2] = ret'[all'[i][1]]
                 /\ pc'[all'[i][1]] = "done"
      <4>1. CASE i = Len(all) + 1
        BY <2>1, <2>3, <3>2, <4>1
      <4>2. CASE i \in 1..Len(all)
        <5>1. all'[i] = all[i] /\ all[i][1] \in Runs
          BY <1>1, <3>2, <4>2
        <5> QED
          BY <1>1, <2>1, <3>3, <4>2, <5>1
      <4> QED
        BY <3>2, <4>1, <4>2
    <3>5. ASSUME NEW i \in 1..Len(all'), NEW j \in 1..Len(all'),
                 all'[i][1] = all'[j][1]
          PROVE  i = j
      <4>1. i \in 1..Len(all) \/ i = Len(all) + 1
        BY <3>2
      <4>2. j \in 1..Len(all) \/ j = Len(all) + 1
        BY <3>2
      <4> QED
        BY <1>2, <3>2, <3>3, <3>5, <4>1, <4>2
    <3> USE DEF all
    <3> QED
      BY <1>0, <3>4, <3>5 DEF ListenerInv, ListenerGetsOwnResult
  <2> QED
    BY <2>2, <2>3
<1>6. CASE onExecCmdResult
  <2>1. /\ queue # <<>> /\ pc' = pc /\ ret' = ret
        /\ called' = Append(called, Head(queue)) /\ queue' = Tail(queue)
    BY <1>6 DEF onExecCmdResult
  <2>2. all' = all
    BY <1>0, <2>1
  <2> QED
    BY <1>3, <2>1, <2>2
<1>7. CASE sigterm_handler \/ UNCHANGED vars
  BY <1>3, <1>7 DEF sigterm_handler, vars, ui
<1> QED
  BY <1>3, <1>4, <1>5, <1>6, <1>7 DEF Next

\* However commands overlap, a listener is called at most once, with the value
\* its own command returned.
THEOREM OwnResult == Spec => []ListenerGetsOwnResult
<1>1. Init => ListenerInv
  <2> SUFFICES ASSUME Init PROVE ListenerInv
    OBVIOUS
  <2>1. Len(called \o queue) = 0
    BY DEF Init
  <2> QED
    BY <2>1, TypeInvInit DEF ListenerInv, ListenerGetsOwnResult
<1>2. ListenerInv => ListenerGetsOwnResult
  BY DEF ListenerInv
<1> QED
  BY <1>1, <1>2, ListenerInvNext, PTL DEF Spec
-----------------------------------------------------------------------------
(* A command is a call: one answer, of its own value, in the order posted   *)

\* What the steps between a command's start and its return do to the call:
\* it keeps running, and either a write fails or the process dies, not both.
LEMMA RunQuiet ==
    ASSUME TypeInv, NEW r \in Runs, run_ffmepg_cmd(r),
           ~final_exit(r), ~reset_variables(r)
    PROVE  /\ Phase(r) = "running" /\ Phase(r)' = "running"
           /\ UNCHANGED <<ret, received_nb_signals, queue, called>>
           /\ main_return_code' \in {main_return_code, 1}
           /\ \/ alive' = alive
              \/ alive' = FALSE /\ UNCHANGED main_return_code
<1> USE DEF TypeInv, options, tables, stats, results, ui
<1>0. /\ ret' = ret
      /\ main_return_code' \in {main_return_code, 1}
      /\ alive
  BY ResultKept, FailureKept, StepFrame
<1>1. CASE split_commandline(r)
  <2>1. Goto(r, "options", "inputs") \/ Goto(r, "options", "check")
    BY <1>1 DEF split_commandline
  <2>2. pc[r] = "options" /\ pc'[r] \in {"inputs", "check"}
    BY <2>1, GotoType DEF PCs
  <2> QED
    BY <1>0, <1>1, <2>2 DEF split_commandline, Phase
<1>2. CASE open_input_file(r)
  <2>1. pc[r] = "inputs" /\ pc'[r] \in {"inputs", "outputs"}
    <3>1. \/ Goto(r, "inputs", "outputs")
          \/ pc[r] = "inputs" /\ UNCHANGED pc
      BY <1>2 DEF open_input_file
    <3> QED
      BY <3>1, GotoType DEF PCs
  <2>2. alive' = alive \/ alive' = FALSE
    BY <1>2, Zenon DEF open_input_file, Crash
  <2> QED
    BY <1>0, <1>2, <2>1, <2>2 DEF open_input_file, Phase
<1>3. CASE open_output_file(r)
  <2>1. pc[r] = "outputs" /\ pc'[r] = "check"
    BY <1>3, GotoType DEF open_output_file, PCs
  <2>2. alive' = alive \/ alive' = FALSE
    BY <1>0, <1>3, Zenon DEF open_output_file
  <2> QED
    BY <1>0, <1>3, <2>1, <2>2 DEF open_output_file, Phase
<1>4. CASE check_files(r) \/ check_error_rate(r)
  <2>1. Goto(r, "check", "init") \/ Goto(r, "stats", "exit")
    BY <1>4 DEF check_files, check_error_rate
  <2>2. pc[r] \in {"check", "stats"} /\ pc'[r] \in {"init", "exit"}
    BY <2>1, GotoType DEF PCs
  <2> QED
    BY <1>0, <1>4, <2>2 DEF check_files, check_error_rate, Phase
<1>5. CASE transcode_init(r)
  <2>1. Goto(r, "init", "loop") \/ Goto(r, "init", "stats")
    BY <1>5 DEF transcode_init
  <2>2. pc[r] = "init" /\ pc'[r] \in {"loop", "stats"}
    BY <2>1, GotoType DEF PCs
  <2> QED
    BY <1>0, <1>5, <2>2 DEF transcode_init, Phase
<1>6. CASE transcode_step(r) \/ flush_encoders(r)
  <2>1. pc[r] \in {"loop", "flush"} /\ pc' = pc
    BY <1>6 DEF transcode_step, flush_encoders
  <2>2. \/ alive' = alive
        \/ alive' \in BOOLEAN /\ UNCHANGED main_return_code
    BY <1>6 DEF transcode_step, flush_encoders, check_decode_result,
       write_packet, fatal_step
  <2> QED
    BY <1>0, <1>6, <2>1, <2>2 DEF transcode_step, flush_encoders, Phase
<1>7. CASE end_loop(r) \/ write_trailers(r)
  <2>1. Goto(r, "loop", "flush") \/ Goto(r, "flush", "stats")
    BY <1>7 DEF end_loop, write_trailers
  <2>2. pc[r] \in {"loop", "flush"} /\ pc'[r] \in {"flush", "stats"}
    BY <2>1, GotoType DEF PCs
  <2> QED
    BY <1>0, <1>7, <2>2 DEF end_loop, write_trailers, Phase
<1>8. CASE segfault(r)
  <2>1. pc[r] \in {"options", "outputs", "check", "init", "loop", "flush",
                   "exit", "stats"} /\ pc' = pc
    BY <1>8 DEF segfault
  <2>2. alive' = FALSE
    BY <1>8, Zenon DEF segfault, Crash
  <2> QED
    BY <1>0, <1>8, <2>1, <2>2 DEF segfault, Phase
<1> QED
  BY <1>1, <1>2, <1>3, <1>4, <1>5, <1>6, <1>7, <1>8 DEF run_ffmepg_cmd

\* A step of a run moves no other call, and Calls' phase changes accordingly.
LEMMA PhaseStep ==
    ASSUME NEW r \in Runs, NEW p,
           \A o \in Runs \ {r} : pc'[o] = pc[o], Phase(r)' = p
    PROVE  [o \in Runs |-> Phase(o)]'
               = [[o \in Runs |-> Phase(o)] EXCEPT ![r] = p]
<1>1. \A o \in Runs \ {r} : Phase(o)' = Phase(o)
  BY DEF Phase
<1> QED
  BY <1>1

LEMMA PostedAppend ==
    ASSUME TypeOK, NEW x \in Runs \X {0, 1, 255}
    PROVE  called \o Append(queue, x) = Append(called \o queue, x)
BY DEF TypeOK

LEMMA PostedShift ==
    ASSUME TypeOK, queue # <<>>
    PROVE  /\ Append(called, Head(queue)) \o Tail(queue) = called \o queue
           /\ Len(Append(called, Head(queue))) = Len(called) + 1
           /\ Len(called) < Len(called \o queue)
BY DEF TypeOK

LEMMA CallsInit == Init => Calls!Init
<1> SUFFICES ASSUME Init PROVE Calls!Init
  OBVIOUS
<1>1. \A r \in Runs : Phase(r) = "new"
  BY DEF Init, Phase
<1> QED
  BY <1>1 DEF Init, Calls!Init, Calls!NoRet, NoRet

\* The Java side's calls.
LEMMA CallsCaller ==
    ASSUME TypeInv, NEW r \in Runs, execCmd(r) \/ post(r)
    PROVE  Calls!Next
<1> USE DEF TypeInv, options, tables, stats, results, ui
<1>0. \A o \in Runs \ {r} : pc'[o] = pc[o]
  BY StepFrame
<1>1. CASE execCmd(r)
  <2>1. Phase(r) = "new" /\ Phase(r)' = "running"
    BY <1>1, GotoType DEF execCmd, Phase, PCs
  <2>2. [o \in Runs |-> Phase(o)]'
            = [[o \in Runs |-> Phase(o)] EXCEPT ![r] = "running"]
    BY <1>0, <2>1, PhaseStep
  <2>3. Calls!Issue(r)
    BY <1>1, <2>1, <2>2 DEF execCmd, Calls!Issue, Calls!Enter
  <2> QED
    BY <2>3 DEF Calls!Next
<1>2. CASE post(r)
  <2>1. Phase(r) = "returned" /\ Phase(r)' = "over"
    BY <1>2, GotoType DEF post, Phase, PCs
  <2>2. [o \in Runs |-> Phase(o)]'
            = [[o \in Runs |-> Phase(o)] EXCEPT ![r] = "over"]
    BY <1>0, <2>1, PhaseStep
  <2>3. <<r, ret[r]>> \in Runs \X {0, 1, 255}
    BY <1>2 DEF post, Goto, Returned, TypeOK, NoRet
  <2>4. (called \o queue)' = IF r \in Listeners
                             THEN Append(called \o queue, <<r, ret[r]>>)
                             ELSE called \o queue
    BY <1>2, <2>3, PostedAppend DEF post, Heard, Answer
  <2>5. Calls!Post(r)
    BY <1>2, <2>1, <2>2, <2>4 DEF post, Calls!Post, Calls!Enter
  <2> QED
    BY <2>5 DEF Calls!Next
<1> QED
  BY <1>1, <1>2

\* The steps of run_ffmepg_cmd: a return, a failed write, a death, or nothing.
LEMMA CallsRun ==
    ASSUME TypeInv, NEW r \in Runs, run_ffmepg_cmd(r)
    PROVE  [Calls!Next]_(Calls!vars)
<1> USE DEF TypeInv, options, tables, stats, results, ui
<1>0. alive /\ \A o \in Runs \ {r} : pc'[o] = pc[o]
  BY StepFrame
<1>1. CASE final_exit(r)
  <2>1. Phase(r) = "running" /\ Phase(r)' = "returned"
    BY <1>1, GotoType DEF final_exit, Phase, PCs
  <2>2. [o \in Runs |-> Phase(o)]'
            = [[o \in Runs |-> Phase(o)] EXCEPT ![r] = "returned"]
    BY <1>0, <2>1, PhaseStep
  <2>3. ReturnValue = IF received_nb_signals > 0 THEN 255
                      ELSE IF main_return_code # 0 THEN 1 ELSE 0
    BY DEF ReturnValue, TypeOK
  <2>4. Calls!Return(r)
    BY <1>1, <2>1, <2>2, <2>3 DEF final_exit, Calls!Return, Calls!Enter
  <2> QED
    BY <2>4 DEF Calls!Next
<1>2. CASE reset_variables(r)
  <2>1. Phase(r) = "returned" /\ Phase(r)' = "returned"
    BY <1>2, GotoType DEF reset_variables, Phase, PCs
  <2>2. [o \in Runs |-> Phase(o)]' = [o \in Runs |-> Phase(o)]
    BY <1>0, <2>1, PhaseStep
  <2> QED
    BY <1>2, <2>2 DEF reset_variables, Calls!vars
<1>3. CASE ~final_exit(r) /\ ~reset_variables(r)
  <2>1. /\ Phase(r) = "running" /\ Phase(r)' = "running"
        /\ UNCHANGED <<ret, received_nb_signals, queue, called>>
        /\ main_return_code' \in {main_return_code, 1}
        /\ \/ alive' = alive
           \/ alive' = FALSE /\ UNCHANGED main_return_code
    BY <1>3, RunQuiet
  <2>2. [o \in Runs |-> Phase(o)]' = [o \in Runs |-> Phase(o)]
    BY <1>0, <2>1, PhaseStep
  <2>3. CASE alive' = FALSE /\ UNCHANGED main_return_code
    <3>1. Calls!CommandDies(r)
      BY <1>0, <2>1, <2>2, <2>3 DEF Calls!CommandDies
    <3> QED
      BY <3>1 DEF Calls!Next
  <2>4. CASE alive' = alive /\ UNCHANGED main_return_code
    BY <2>1, <2>2, <2>4 DEF Calls!vars
  <2>5. CASE alive' = alive /\ main_return_code' = 1
    <3>1. Calls!WriteFails(r)
      BY <1>0, <2>1, <2>2, <2>5 DEF Calls!WriteFails
    <3> QED
      BY <3>1 DEF Calls!Next
  <2> QED
    BY <2>1, <2>3, <2>4, <2>5
<1> QED
  BY <1>1, <1>2, <1>3

\* The looper and the signals.
LEMMA CallsEnvironment ==
    ASSUME TypeInv, onExecCmdResult \/ sigterm_handler
    PROVE  Calls!Next
<1> USE DEF TypeInv, options, tables, stats, results, ui
<1>0. [o \in Runs |-> Phase(o)]' = [o \in Runs |-> Phase(o)]
  BY DEF onExecCmdResult, sigterm_handler, Phase
<1>1. CASE onExecCmdResult
  <2>1. /\ (called \o queue)' = called \o queue
        /\ Len(called)' = Len(called) + 1
        /\ Len(called) < Len(called \o queue)
    BY <1>1, PostedShift DEF onExecCmdResult
  <2>2. Calls!Hear
    BY <1>0, <1>1, <2>1 DEF onExecCmdResult, Calls!Hear
  <2> QED
    BY <2>2 DEF Calls!Next
<1>2. CASE sigterm_handler
  <2>1. (received_nb_signals > 0)' /\ alive' \in BOOLEAN
    BY <1>2 DEF sigterm_handler, TypeOK
  <2>2. Calls!Signal
    BY <1>0, <1>2, <2>1 DEF sigterm_handler, Calls!Signal
  <2> QED
    BY <2>2 DEF Calls!Next
<1> QED
  BY <1>1, <1>2

LEMMA CallsStep == TypeInv /\ [Next]_vars => [Calls!Next]_(Calls!vars)
<1> SUFFICES ASSUME TypeInv, [Next]_vars PROVE [Calls!Next]_(Calls!vars)
  OBVIOUS
<1>1. CASE UNCHANGED vars
  <2>1. [o \in Runs |-> Phase(o)]' = [o \in Runs |-> Phase(o)]
    BY <1>1 DEF vars, Phase
  <2> QED
    BY <1>1, <2>1 DEF vars, stats, ui, Calls!vars
<1> QED
  BY <1>1, CallsCaller, CallsRun, CallsEnvironment DEF Next

\* Whatever commands, listeners and faults there are, and however the threads
\* overlap, the process implements the calls of CommandCalls.
THEOREM CallsImplemented == Spec => ImplementsCalls
BY CallsInit, CallsStep, TypeInvAlways, PTL DEF Spec, ImplementsCalls, Calls!Spec
-----------------------------------------------------------------------------
(* No answer is lost, and every step of a command costs something           *)

\* The answers given and on their way, in order.
Answers == called \o queue

\* An answer once posted is there for good: a command that is over and has a
\* listener is answered, or its answer waits in the looper's queue.
AnswersKept ==
    \A r \in Listeners :
        pc[r] = "done" => \E i \in 1..Len(Answers) : Answers[i] = <<r, ret[r]>>

\* Only a post touches the answers: it puts its own at the end.
LEMMA AnswersGrow ==
    ASSUME TypeInv, Next
    PROVE  \/ Answers' = Answers
           \/ \E r \in Listeners : /\ post(r)
                                   /\ Answers' = Append(Answers, <<r, ret[r]>>)
<1> USE DEF ui
<1>1. ASSUME NEW r \in Runs, execCmd(r) PROVE Answers' = Answers
  BY <1>1 DEF execCmd, Answers
<1>2. ASSUME NEW r \in Runs, run_ffmepg_cmd(r) PROVE Answers' = Answers
  <2>1. UNCHANGED <<called, queue>>
    BY <1>2 DEF run_ffmepg_cmd, split_commandline, open_input_file,
       open_output_file, check_files, transcode_init, transcode_step,
       end_loop, flush_encoders, write_trailers, check_error_rate, final_exit,
       reset_variables, segfault
  <2> QED
    BY <2>1 DEF Answers
<1>3. ASSUME NEW r \in Runs, post(r), r \notin Listeners
      PROVE  Answers' = Answers
  BY <1>3 DEF post, Heard, Answers
<1>4. ASSUME NEW r \in Listeners, r \in Runs, post(r)
      PROVE  Answers' = Append(Answers, <<r, ret[r]>>)
  <2>1. called' = called /\ queue' = Append(queue, <<r, ret[r]>>)
    BY <1>4 DEF post, Heard, Answer
  <2>2. ret[r] \in {0, 1, 255}
    BY <1>4 DEF TypeInv, TypeOK, post, Goto, Returned, NoRet
  <2>3. <<r, ret[r]>> \in Runs \X {0, 1, 255}
    BY <1>4, <2>2
  <2> QED
    BY <2>1, <2>3, PostedAppend DEF Answers, TypeInv
<1>5. CASE onExecCmdResult
  BY <1>5, PostedShift DEF onExecCmdResult, Answers, TypeInv
<1>6. CASE sigterm_handler
  BY <1>6 DEF sigterm_handler, Answers
<1> QED
  BY <1>1, <1>2, <1>3, <1>4, <1>5, <1>6 DEF Next

LEMMA AnswersKeptNext ==
    ASSUME TypeInv, AnswersKept, [Next]_vars PROVE AnswersKept'
<1>0. CASE UNCHANGED vars
  BY <1>0 DEF AnswersKept, Answers, vars, ui
<1> SUFFICES ASSUME Next, NEW r \in Listeners, pc'[r] = "done"
             PROVE  \E i \in 1..Len(Answers') : Answers'[i] = <<r, ret'[r]>>
  BY <1>0 DEF AnswersKept
<1>1. r \in Runs /\ Answers \in Seq(Runs \X {0, 1, 255})
  BY CommandAssumption DEF TypeInv, TypeOK, Answers
<1>2. ASSUME post(r), Answers' = Append(Answers, <<r, ret[r]>>)
      PROVE  \E i \in 1..Len(Answers') : Answers'[i] = <<r, ret'[r]>>
  <2>1. ret' = ret
    BY <1>2 DEF post
  <2>2. Len(Answers') = Len(Answers) + 1 /\ Len(Answers) \in Nat
        /\ Answers'[Len(Answers) + 1] = <<r, ret[r]>>
    BY <1>1, <1>2
  <2> QED
    BY <2>1, <2>2
<1>3. ASSUME ~post(r) PROVE pc[r] = "done" /\ ret'[r] = ret[r]
  <2>1. ASSUME NEW o \in Runs, o # r, execCmd(o) \/ run_ffmepg_cmd(o) \/ post(o)
        PROVE  pc[r] = "done" /\ ret'[r] = ret[r]
    <3>1. pc'[r] = pc[r]
      BY <1>1, <2>1, StepFrame
    <3>2. CASE final_exit(o)
      BY <1>1, <2>1, <3>1, <3>2 DEF final_exit, TypeInv, TypeOK
    <3>3. CASE ~final_exit(o)
      BY <2>1, <3>1, <3>3, ResultKept
    <3> QED
      BY <3>2, <3>3
  <2>2. ~execCmd(r) /\ ~run_ffmepg_cmd(r)
    <3> USE <1>1 DEF TypeInv, TypeOK
    <3>1. ~execCmd(r)
      BY GotoType DEF execCmd, PCs
    <3>2. ASSUME run_ffmepg_cmd(r) PROVE Phase(r)' # "over"
      <4>1. CASE final_exit(r)
        BY <4>1, GotoType DEF final_exit, PCs, Phase
      <4>2. CASE reset_variables(r)
        BY <4>2, GotoType DEF reset_variables, PCs, Phase
      <4> QED
        BY <3>2, <4>1, <4>2, RunQuiet
    <3> QED
      BY <3>1, <3>2 DEF Phase
  <2>3. CASE onExecCmdResult \/ sigterm_handler
    BY <2>3 DEF onExecCmdResult, sigterm_handler
  <2> QED
    BY <1>3, <2>1, <2>2, <2>3 DEF Next
<1>4. ASSUME pc[r] = "done", ret'[r] = ret[r]
      PROVE  \E i \in 1..Len(Answers') : Answers'[i] = <<r, ret'[r]>>
  <2>1. PICK i \in 1..Len(Answers) : Answers[i] = <<r, ret[r]>>
    BY <1>4 DEF AnswersKept
  <2>2. CASE Answers' = Answers
    BY <1>4, <2>1, <2>2
  <2>3. ASSUME NEW o \in Listeners, post(o),
               Answers' = Append(Answers, <<o, ret[o]>>)
        PROVE  i \in 1..Len(Answers') /\ Answers'[i] = Answers[i]
    BY <1>1, <2>1, <2>3
  <2> QED
    BY <1>4, <2>1, <2>2, <2>3, AnswersGrow
<1>5. post(r) => Answers' = Append(Answers, <<r, ret[r]>>)
  <2> SUFFICES ASSUME post(r) PROVE Answers' = Append(Answers, <<r, ret[r]>>)
    OBVIOUS
  <2>1. queue' = Append(queue, <<r, ret[r]>>) /\ called' = called
    BY DEF post, Heard, Answer, ui
  <2>2. ret[r] \in {0, 1, 255}
    BY <1>1 DEF TypeInv, TypeOK, post, Goto, Returned, NoRet
  <2> QED
    BY <1>1, <2>1, <2>2, PostedAppend DEF Answers, TypeInv
<1> QED
  BY <1>2, <1>3, <1>4, <1>5

\* However commands overlap, no posted answer is lost: with OwnResult, a
\* command that is over and has a listener has exactly one, of its own value.
THEOREM NoAnswerLost == Spec => []AnswersKept
<1>1. Init => AnswersKept
  BY CommandAssumption DEF Init, AnswersKept
<1>2. TypeInv /\ AnswersKept /\ [Next]_vars => AnswersKept'
  BY AnswersKeptNext
<1> QED
  BY <1>1, <1>2, TypeInvAlways, PTL DEF Spec

\* What a command has before it, counted down to 0 when it is over.
Place(p) ==
    CASE p = "new" -> 12 [] p = "options" -> 11 [] p = "inputs" -> 10
      [] p = "outputs" -> 9 [] p = "check" -> 8 [] p = "init" -> 7
      [] p = "loop" -> 6 [] p = "flush" -> 5 [] p = "stats" -> 4
      [] p = "exit" -> 3 [] p = "reset" -> 2 [] p = "post" -> 1
      [] OTHER -> 0

Opened == {o \in Runs : out[o] = "open"}

\* One command goes on, the others stay.
GoesOn ==
    \E r \in Runs : /\ Place(pc'[r]) < Place(pc[r])
                    /\ \A o \in Runs \ {r} : pc'[o] = pc[o]

\* No command goes on, and none of what a step may cost is given back.
NoneWorse ==
    /\ pc' = pc
    /\ stale => stale'
    /\ finished \subseteq finished'
    /\ Opened' \subseteq Opened
    /\ decoded + corrupt <= decoded' + corrupt'
    /\ Len(queue') <= Len(queue)
    /\ received_nb_signals <= received_nb_signals'

\* A file table is lost, an output gets to its end or breaks, a decode result
\* is counted, an answer is heard or a signal comes.
Pays ==
    \/ ~stale /\ stale'
    \/ finished' # finished
    \/ Opened' # Opened
    \/ decoded + corrupt < decoded' + corrupt'
    \/ Len(queue') < Len(queue)
    \/ received_nb_signals < received_nb_signals'

\* A process that lives on gets nearer to the end of its commands with every
\* step, so no interleaving of overlapping commands keeps them turning.
CommandsAdvance == [][alive' => GoesOn \/ (NoneWorse /\ Pays)]_vars

\* Every step that moves a command's thread moves it on.
LEMMA GotoGoesOn ==
    ASSUME TypeInv, NEW r \in Runs, NEW from \in PCs, NEW to \in PCs,
           Goto(r, from, to), Place(to) < Place(from)
    PROVE  GoesOn
<1>1. pc'[r] = to /\ pc[r] = from /\ \A o \in Runs \ {r} : pc'[o] = pc[o]
  BY GotoType DEF TypeInv
<1>2. Place(pc'[r]) < Place(pc[r])
  BY <1>1
<1> QED
  BY <1>1, <1>2 DEF GoesOn

\* The moves of the threads, from one place of the code to the next.
LEMMA MovingGoesOn ==
    ASSUME TypeInv, NEW r \in Runs, alive',
           \/ execCmd(r) \/ split_commandline(r) \/ open_input_file(r)
           \/ open_output_file(r) \/ check_files(r) \/ transcode_init(r)
           \/ end_loop(r) \/ write_trailers(r) \/ check_error_rate(r)
           \/ final_exit(r) \/ reset_variables(r) \/ post(r)
    PROVE  GoesOn
<1> DEFINE Moves == {<<"new", "options">>, <<"options", "inputs">>,
                     <<"options", "check">>, <<"inputs", "outputs">>,
                     <<"outputs", "check">>, <<"check", "init">>,
                     <<"init", "loop">>, <<"init", "stats">>, <<"loop", "flush">>,
                     <<"flush", "stats">>, <<"stats", "exit">>,
                     <<"exit", "reset">>, <<"reset", "post">>, <<"post", "done">>}
<1>1. \E m \in Moves : Goto(r, m[1], m[2])
  <2>1. CASE execCmd(r) \/ post(r)
    <3>1. Goto(r, "new", "options") \/ Goto(r, "post", "done")
      BY <2>1 DEF execCmd, post
    <3> QED
      BY <3>1
  <2>2. CASE split_commandline(r) \/ open_output_file(r) \/ check_files(r)
    <3>1. \/ Goto(r, "options", "inputs") \/ Goto(r, "options", "check")
          \/ Goto(r, "outputs", "check") \/ Goto(r, "check", "init")
      BY <2>2 DEF split_commandline, open_output_file, check_files
    <3> QED
      BY <3>1
  <2>3. CASE open_input_file(r)
    <3>1. Goto(r, "inputs", "outputs") \/ Crash
      BY <2>3, Zenon DEF open_input_file
    <3>2. ~Crash
      BY Zenon DEF Crash
    <3> QED
      BY <3>1, <3>2
  <2>4. CASE transcode_init(r) \/ end_loop(r) \/ write_trailers(r)
    <3>1. \/ Goto(r, "init", "loop") \/ Goto(r, "init", "stats")
          \/ Goto(r, "loop", "flush") \/ Goto(r, "flush", "stats")
      BY <2>4 DEF transcode_init, end_loop, write_trailers
    <3> QED
      BY <3>1
  <2>5. CASE check_error_rate(r) \/ final_exit(r) \/ reset_variables(r)
    <3>1. \/ Goto(r, "stats", "exit") \/ Goto(r, "exit", "reset")
          \/ Goto(r, "reset", "post")
      BY <2>5 DEF check_error_rate, final_exit, reset_variables
    <3> QED
      BY <3>1
  <2> QED
    BY <2>1, <2>2, <2>3, <2>4, <2>5
<1>2. \A m \in Moves : /\ m[1] \in PCs /\ m[2] \in PCs
                       /\ Place(m[2]) < Place(m[1])
  BY DEF Place, PCs
<1> HIDE DEF Moves
<1>3. PICK m \in Moves : Goto(r, m[1], m[2])
  BY <1>1
<1> QED
  BY <1>2, <1>3, GotoGoesOn

\* What the loop and the flush may do costs something.
LEMMA TurnPays ==
    ASSUME TypeInv, NEW r \in Runs,
           transcode_step(r) \/ flush_encoders(r)
    PROVE  NoneWorse /\ Pays
<1> USE DEF TypeInv, TypeOK
<1>1. /\ pc' = pc /\ queue' = queue /\ ~stale
      /\ received_nb_signals' = received_nb_signals
      /\ decoded \in Nat /\ corrupt \in Nat /\ Len(queue) \in Nat
      /\ received_nb_signals \in Nat
  BY DEF transcode_step, flush_encoders, ui
<1>2. CASE check_decode_result(r)
  BY <1>1, <1>2 DEF check_decode_result, NoneWorse, Pays, Opened
<1>3. CASE write_packet(r)
  <2>1. PICK o \in output_files :
            out[o] = "open" /\ out' = [out EXCEPT ![o] = "broken"]
    BY <1>3 DEF write_packet
  <2>2. o \in Opened /\ o \notin Opened' /\ Opened' \subseteq Opened
    BY <2>1 DEF Opened
  <2>3. Opened' # Opened
    BY <2>2
  <2> QED
    BY <1>1, <1>3, <2>2, <2>3 DEF write_packet, NoneWorse, Pays
<1>4. CASE fatal_step(r)
  BY <1>1, <1>4 DEF fatal_step, NoneWorse, Pays, Opened
<1>5. ASSUME NEW o \in output_files \ finished, finished' = finished \cup {o},
             UNCHANGED <<stale, decoded, corrupt, out>>
      PROVE  NoneWorse /\ Pays
  <2>1. finished' # finished
    BY <1>5
  <2> QED
    BY <1>1, <1>5, <2>1 DEF NoneWorse, Pays, Opened
<1> QED
  BY <1>2, <1>3, <1>4, <1>5 DEF transcode_step, flush_encoders

LEMMA EnvironmentPays ==
    ASSUME TypeInv, onExecCmdResult \/ sigterm_handler
    PROVE  NoneWorse /\ Pays
<1> USE DEF TypeInv, TypeOK, tables, stats, results
<1>1. /\ pc' = pc /\ stale' = stale /\ finished' = finished
      /\ Opened' = Opened /\ decoded' = decoded /\ corrupt' = corrupt
      /\ decoded \in Nat /\ corrupt \in Nat /\ Len(queue) \in Nat
      /\ received_nb_signals \in Nat
  BY DEF onExecCmdResult, sigterm_handler, Opened
<1>2. CASE onExecCmdResult
  <2>1. Len(queue') < Len(queue) /\ received_nb_signals' = received_nb_signals
    BY <1>2 DEF onExecCmdResult
  <2> QED
    BY <1>1, <2>1 DEF NoneWorse, Pays
<1>3. CASE sigterm_handler
  BY <1>1, <1>3 DEF sigterm_handler, ui, NoneWorse, Pays
<1> QED
  BY <1>2, <1>3

\* While the process lives every step brings its commands nearer to their end,
\* however they overlap and whatever they meet.
THEOREM CommandsGoOn == Spec => CommandsAdvance
<1>1. TypeInv /\ [Next]_vars
          => [alive' => GoesOn \/ (NoneWorse /\ Pays)]_vars
  <2> SUFFICES ASSUME TypeInv, Next, alive'
               PROVE  GoesOn \/ (NoneWorse /\ Pays)
    OBVIOUS
  <2>1. ASSUME NEW r \in Runs, segfault(r) PROVE FALSE
    BY <2>1, Zenon DEF segfault, Crash
  <2>2. ASSUME NEW r \in Runs, execCmd(r) \/ run_ffmepg_cmd(r) \/ post(r)
        PROVE  GoesOn \/ (NoneWorse /\ Pays)
    BY <2>1, <2>2, MovingGoesOn, TurnPays DEF run_ffmepg_cmd
  <2> QED
    BY <2>2, EnvironmentPays DEF Next
<1> QED
  BY <1>1, TypeInvAlways, PTL DEF Spec, CommandsAdvance
=============================================================================
