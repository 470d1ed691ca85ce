------------------------------ MODULE HelperRun ------------------------------
(***************************************************************************)
(* One program run inside Docker with its streams copied by the CLI        *)
(* (internal/docker/ephemeral.go).                                         *)
(*                                                                         *)
(* RunEphemeral creates a throwaway container, feeds it the caller's file  *)
(* from one goroutine and copies its output from another, waits for it and *)
(* removes it.  `tx9 import` restores an archive into the agent volume     *)
(* that way, `tx9 logs export` fills a file.  ExecStream runs a program in *)
(* the agent's container; `tx9 backup` takes its tar from it.              *)
(*                                                                         *)
(* The streams are pipes with room for Cap pieces.  Requests fail or lose  *)
(* their answer, the attached connection breaks, the caller's files give   *)
(* errors, the context is cancelled, the program dies, the CLI is killed.  *)
(***************************************************************************)
EXTENDS Naturals

CONSTANTS
    Kinds,     \* calls made: subset of {"restore", "export", "stream"}
    Pieces,    \* pieces of the archive, and of an export's or tar's output
    Cap,       \* room in each direction of the connection
    MaxFaults  \* bound on failures of any kind

ASSUME HelperRunAssumption ==
    /\ Kinds \subseteq {"restore", "export", "stream"}
    /\ {Pieces, Cap, MaxFaults} \subseteq Nat /\ Cap > 0

VARIABLES
    kind,       \* the call
    sound,      \* the program can succeed on what it is given
    pc,         \* where the call is; its end is "success", "failure" or "dead"
    failed,     \* the call has an error
    status,     \* the exit code it has been told, 0 until then
    wait,       \* the wait request
    cancelled,  \* the caller's context
    helper,     \* the program and, for RunEphemeral, its container
    volume,     \* the agent volume
    conn,       \* the attached connection: "none", "open", "closed", "broken"
    broke,      \* history: the connection broke
    in,         \* the input copy
    out,        \* the output copy
    closed,     \* the caller's file is closed
    faults      \* failures so far

call == <<kind, sound, failed, status, wait, cancelled>>
vars == <<kind, sound, pc, failed, status, wait, cancelled, helper, volume, conn, broke,
          in, out, closed, faults>>

Ends == {"success", "failure", "dead"}

Helpers ==
    [st : {"none", "created", "running", "exited", "gone"}, exit : {0, 1},
     step : {"wipe", "extract", "warn", "arm", "verify", "promote", "tidy", "produce", "shut"},
     got : 0 .. Pieces, wrote : 0 .. Pieces, ended : BOOLEAN]
VolumeStates == [staged : 0 .. Pieces, armed : BOOLEAN, home : BOOLEAN]
InputCopies  == [at : {"none", "read", "write", "done"}, err : BOOLEAN, sent : 0 .. Pieces,
                 eof : BOOLEAN]
OutputCopies == [at : {"none", "read", "write", "done"}, err : BOOLEAN, recv : 0 .. Pieces]

TypeOK ==
    /\ kind \in Kinds /\ sound \in BOOLEAN /\ failed \in BOOLEAN /\ status \in {0, 1}
    /\ pc \in Ends \cup {"create", "attach", "reserve", "start", "select", "input", "output",
                         "join", "joining", "remove", "copy", "inspect", "return"}
    /\ wait \in {"none", "answered", "broken"} /\ cancelled \in BOOLEAN
    /\ helper \in Helpers /\ volume \in VolumeStates
    /\ conn \in {"none", "open", "closed", "broken"} /\ broke \in BOOLEAN
    /\ in \in InputCopies /\ out \in OutputCopies
    /\ closed \in BOOLEAN /\ faults \in 0 .. MaxFaults

Init ==
    /\ kind \in Kinds /\ sound \in BOOLEAN
    /\ pc = "create" /\ failed = FALSE /\ status = 0
    /\ wait = "none" /\ cancelled = FALSE
    /\ helper = [st |-> "none", exit |-> 0, got |-> 0, wrote |-> 0, ended |-> FALSE,
                 step |-> IF kind = "restore" THEN "wipe" ELSE "produce"]
    /\ volume = [staged |-> 0, armed |-> FALSE, home |-> FALSE]
    /\ conn = "none" /\ broke = FALSE
    /\ in = [at |-> "none", err |-> FALSE, sent |-> 0, eof |-> FALSE]
    /\ out = [at |-> "none", err |-> FALSE, recv |-> 0]
    /\ closed = FALSE /\ faults = 0

Fault == faults < MaxFaults /\ faults' = faults + 1

Goto(step)    == pc' = step /\ UNCHANGED <<call, faults>>
FailTo(step)  == pc' = step /\ failed' = TRUE
                 /\ UNCHANGED <<kind, sound, status, wait, cancelled>>
Streams       == <<conn, broke, in, out>>
Hang          == conn' = (IF conn = "open" THEN "closed" ELSE conn)

\* The program's end.
Exit(code) == helper' = [helper EXCEPT !.st = "exited", !.exit = code, !.ended = TRUE]

-----------------------------------------------------------------------------
(* The call.                                                               *)

\* The container (RunEphemeral) or the exec (ExecStream, which starts nothing
\* yet).  Without the answer there is no ID to remove.
Create ==
    /\ pc = "create"
    /\ LET made == IF kind = "stream" THEN helper ELSE [helper EXCEPT !.st = "created"]
       IN  \/ helper' = made /\ Goto("attach")
           \/ Fault /\ helper' \in {helper, made} /\ FailTo("return")
    /\ UNCHANGED <<volume, Streams, closed>>

\* Attaching to an exec starts it.
Attach ==
    /\ pc = "attach"
    /\ LET begun == IF kind = "stream" THEN [helper EXCEPT !.st = "running"] ELSE helper
       IN  \/ /\ helper' = begun /\ conn' = "open"
              /\ out' = IF kind = "stream" THEN [out EXCEPT !.at = "read"] ELSE out
              /\ Goto(IF kind = "stream" THEN "copy" ELSE "reserve")
           \/ /\ Fault /\ helper' \in {helper, begun}
              /\ FailTo(IF kind = "stream" THEN "return" ELSE "remove")
              /\ UNCHANGED <<conn, out>>
    /\ UNCHANGED <<volume, broke, in, closed>>

\* The wait is requested before the start.  Docker answers a wait for
\* WaitConditionNotRunning as soon as the container does not run, and counts one
\* that is created and not started among those: the answer is there at once.
Reserve ==
    /\ pc = "reserve"
    /\ pc' = "start"
    /\ \/ /\ helper.st # "running" /\ UNCHANGED faults
          /\ wait' = "answered" /\ status' = helper.exit
       \/ wait' = "broken" /\ Fault /\ UNCHANGED status
    /\ UNCHANGED <<kind, sound, failed, cancelled, helper, volume, Streams, closed>>

\* ContainerStart, then the two goroutines.
Start ==
    /\ pc = "start"
    /\ LET begun == [helper EXCEPT !.st = "running"]
       IN  \/ /\ helper' = begun /\ Goto("select")
              /\ in' = IF kind = "restore" THEN [in EXCEPT !.at = "read"] ELSE in
              /\ out' = [out EXCEPT !.at = "read"]
              /\ UNCHANGED conn
           \/ /\ Fault /\ helper' \in {helper, begun}
              /\ FailTo("remove") /\ Hang
              /\ UNCHANGED <<in, out>>
    /\ UNCHANGED <<volume, broke, closed>>

Quiet == UNCHANGED <<helper, volume, Streams, closed>>

\* First select: cancellation, the wait's error or its answer, in any order.
Select ==
    /\ pc = "select"
    /\ \/ wait = "answered" /\ Goto(IF kind = "restore" THEN "input" ELSE "output")
       \/ (cancelled \/ wait = "broken") /\ FailTo("join") /\ UNCHANGED faults
       \/ wait = "answered" /\ Fault /\ FailTo("join")
    /\ Quiet

\* Second select: the input copy's result.
Input ==
    /\ pc = "input"
    /\ \/ in.at = "done" /\ ~in.err /\ Goto("output")
       \/ (cancelled \/ (in.at = "done" /\ in.err)) /\ FailTo("join") /\ UNCHANGED faults
    /\ Quiet

\* Mutant: the end of the output is not awaited.
OutputSkipped ==
    /\ pc = "output"
    /\ Goto("join")
    /\ Quiet

\* Third select: the output copy's result.
Output ==
    /\ pc = "output"
    /\ \/ out.at = "done" /\ ~out.err /\ Goto("join")
       \/ (cancelled \/ (out.at = "done" /\ out.err)) /\ FailTo("join") /\ UNCHANGED faults
    /\ Quiet

\* The deferred calls: close the connection, join both copies, remove the
\* container with a deadline of its own.
Join ==
    /\ pc = "join"
    /\ Hang /\ Goto("joining")
    /\ UNCHANGED <<helper, volume, broke, in, out, closed>>

\* Mutant: only the output copy is joined.
JoinedOutput ==
    /\ pc = "joining" /\ out.at = "done"
    /\ Goto("remove")
    /\ Quiet

Joined ==
    /\ pc = "joining" /\ out.at = "done" /\ in.at \in {"none", "done"}
    /\ Goto("remove")
    /\ Quiet

Remove ==
    /\ pc = "remove"
    /\ LET removed == [helper EXCEPT !.st = "gone"]
       IN  \/ helper' = removed /\ Goto("return")
           \/ Fault /\ helper' \in {helper, removed} /\ FailTo("return")
    /\ Hang
    /\ UNCHANGED <<volume, broke, in, out, closed>>

\* ExecStream copies the output itself, then asks until the exec has ended.
Copied ==
    /\ pc = "copy" /\ out.at = "done"
    /\ IF out.err \/ cancelled THEN FailTo("return") /\ UNCHANGED faults ELSE Goto("inspect")
    /\ Quiet

Inspect ==
    /\ pc = "inspect"
    /\ \/ /\ helper.st = "exited" /\ status' = helper.exit
          /\ pc' = "return" /\ UNCHANGED <<failed, faults>>
       \/ /\ \/ cancelled /\ helper.st = "running" /\ UNCHANGED faults
             \/ Fault
          /\ failed' = TRUE /\ pc' = "return" /\ UNCHANGED status
    /\ UNCHANGED <<kind, sound, wait, cancelled>> /\ Quiet

\* The caller closes its file (an export syncs it first) and goes on: an import
\* starts the box or destroys it, an export keeps its file or removes it.
Return ==
    /\ pc = "return"
    /\ closed' = TRUE /\ Hang
    /\ \/ Goto(IF failed \/ status # 0 THEN "failure" ELSE "success")
       \/ kind = "export" /\ Fault /\ FailTo("failure")
    /\ UNCHANGED <<helper, volume, broke, in, out>>

Caller ==
    \/ Create \/ Attach \/ Reserve \/ Start \/ Select \/ Input \/ Output \/ Join \/ Joined
    \/ Remove \/ Copied \/ Inspect \/ Return

-----------------------------------------------------------------------------
(* The copies.                                                             *)

Copying == UNCHANGED <<call, pc, helper, volume, broke, closed>>

\* io.Copy is in a Read of the archive; at its end, or at an error, the
\* sending side of the connection is closed.
ReadInput ==
    /\ in.at = "read"
    /\ \/ in.sent < Pieces /\ in' = [in EXCEPT !.at = "write"] /\ UNCHANGED faults
       \/ /\ in.sent = Pieces /\ UNCHANGED faults
          /\ in' = [in EXCEPT !.at = "done", !.eof = TRUE, !.err = (conn # "open")]
       \/ Fault /\ in' = [in EXCEPT !.at = "done", !.eof = TRUE, !.err = TRUE]
    /\ UNCHANGED <<conn, out>> /\ Copying

\* A program that has ended may be noticed here or not.
WriteInput ==
    /\ in.at = "write"
    /\ \/ /\ conn = "open" /\ in.sent - helper.got < Cap
          /\ in' = [in EXCEPT !.at = "read", !.sent = @ + 1]
       \/ /\ conn # "open" \/ helper.st # "running"
          /\ in' = [in EXCEPT !.at = "done", !.eof = TRUE, !.err = TRUE]
    /\ UNCHANGED <<conn, out, faults>> /\ Copying

\* A connection that broke shows as an error or as a plain end, one that this
\* side closed as an error.
ReadOutput ==
    /\ out.at = "read"
    /\ \/ conn = "open" /\ out.recv < helper.wrote /\ out' = [out EXCEPT !.at = "write"]
       \/ /\ conn = "open" /\ out.recv = helper.wrote
          /\ helper.st \in {"exited", "gone"} \/ helper.step = "shut"
          /\ out' = [out EXCEPT !.at = "done"]
       \/ conn = "broken" /\ out' = [out EXCEPT !.at = "done"]
       \/ conn # "open" /\ out' = [out EXCEPT !.at = "done", !.err = TRUE]
    /\ UNCHANGED <<conn, in, faults>> /\ Copying

\* StdCopy is in a Write of the caller's file.
WriteOutput ==
    /\ out.at = "write"
    /\ \/ out' = [out EXCEPT !.at = "read", !.recv = @ + 1] /\ UNCHANGED faults
       \/ Fault /\ out' = [out EXCEPT !.at = "done", !.err = TRUE]
    /\ UNCHANGED <<conn, in>> /\ Copying

\* context.AfterFunc closes the connection.
CancelCloses ==
    /\ cancelled /\ conn = "open"
    /\ Hang
    /\ UNCHANGED <<in, out, faults>> /\ Copying

-----------------------------------------------------------------------------
(* The program.                                                            *)

Running(step) == helper.st = "running" /\ helper.step = step
Inside        == UNCHANGED <<call, pc, Streams, closed, faults>>
Step(step)     == helper' = [helper EXCEPT !.step = step]

\* Nobody reads what is written once the connection is gone.
Room == conn # "open" \/ helper.wrote - out.recv < Cap

\* Mutant: OpenStdin without StdinOnce, so that a client that goes away does
\* not end the program's input.
StdinEndsByClose == in.eof

\* The program's input ends when the client closes it or goes away.
StdinEnds == in.eof \/ conn # "open"

\* restoreStageScript: everything in the volume goes.
Wipe ==
    /\ Running("wipe")
    /\ volume' = [staged |-> 0, armed |-> FALSE, home |-> FALSE]
    /\ Step("extract") /\ Inside

\* tar extracts the next piece into the stage, and may have something to say.
Extract ==
    /\ Running("extract") /\ helper.got < in.sent
    /\ volume' = [volume EXCEPT !.staged = @ + 1]
    /\ \E step \in {"extract", "warn"} :
          helper' = [helper EXCEPT !.got = @ + 1, !.step = step]
    /\ Inside

Warn ==
    /\ Running("warn") /\ Room
    /\ helper' = [helper EXCEPT !.wrote = @ + 1, !.step = "extract"]
    /\ UNCHANGED volume /\ Inside

\* Mutant: a truncated archive is taken for a whole one.
ExtractEndsAnyway ==
    /\ Running("extract") /\ StdinEnds
    /\ helper.got = in.sent \/ conn # "open"
    /\ Step("arm")
    /\ UNCHANGED volume /\ Inside

\* tar at the end of its input, which an unfinished archive makes an error; what
\* was under way on a connection that is gone may be lost.
ExtractEnds ==
    /\ Running("extract") /\ StdinEnds
    /\ helper.got = in.sent \/ conn # "open"
    /\ IF helper.got = Pieces THEN Step("arm") ELSE Exit(1)
    /\ UNCHANGED volume /\ Inside

\* The quiesce and gateway markers, in the stage.
Arm ==
    /\ Running("arm")
    /\ volume' = [volume EXCEPT !.armed = TRUE]
    /\ Step("verify") /\ Inside

\* hermes-state verify on the staged home, under set -e.
VerifyStage ==
    /\ Running("verify")
    /\ IF sound THEN Step("promote") ELSE Exit(1)
    /\ UNCHANGED volume /\ Inside

\* mv: the staged home becomes the volume's home at once, the rest follows.
Promote ==
    /\ Running("promote")
    /\ volume' = [volume EXCEPT !.home = TRUE]
    /\ Step("tidy") /\ Inside

Tidy ==
    /\ Running("tidy")
    /\ Exit(0)
    /\ UNCHANGED volume /\ Inside

\* An export or a tar writes, and may fail in the middle.
Produce ==
    /\ Running("produce")
    /\ \/ helper.wrote < Pieces /\ Room /\ helper' = [helper EXCEPT !.wrote = @ + 1]
       \/ ~sound /\ Exit(1)
       \/ sound /\ helper.wrote = Pieces /\ (IF kind = "stream" THEN Step("shut") ELSE Exit(0))
    /\ UNCHANGED volume /\ Inside

\* An exec whose output has ended may still run, and fail.
Shut ==
    /\ Running("shut")
    /\ \E code \in {0, 1} : Exit(code)
    /\ UNCHANGED volume /\ Inside

Program ==
    \/ Wipe \/ Extract \/ Warn \/ ExtractEnds \/ Arm \/ VerifyStage \/ Promote \/ Tidy
    \/ Produce \/ Shut

-----------------------------------------------------------------------------
(* Failures.                                                               *)

\* No command cancels its context today; RunEphemeral is written for callers
\* that do.
Cancel ==
    /\ pc \notin Ends /\ ~cancelled /\ Fault
    /\ cancelled' = TRUE
    /\ UNCHANGED <<kind, sound, pc, failed, status, wait, helper, volume, Streams, closed>>

Break ==
    /\ conn = "open" /\ Fault
    /\ conn' = "broken" /\ broke' = TRUE
    /\ UNCHANGED <<call, pc, helper, volume, in, out, closed>>

\* Out of memory, docker rm -f, a full disk.
HelperDies ==
    /\ helper.st = "running" /\ Fault
    /\ Exit(1)
    /\ UNCHANGED <<call, pc, volume, Streams, closed>>

\* The CLI is killed: no deferred call runs, the kernel closes its files.
Kill ==
    /\ pc \notin Ends /\ Fault
    /\ pc' = "dead" /\ closed' = TRUE /\ Hang
    /\ in' = [in EXCEPT !.at = "none"] /\ out' = [out EXCEPT !.at = "none"]
    /\ UNCHANGED <<call, helper, volume, broke>>

Next ==
    \/ Caller \/ CancelCloses
    \/ ReadInput \/ WriteInput \/ ReadOutput \/ WriteOutput
    \/ Program
    \/ Cancel \/ Break \/ HelperDies \/ Kill

\* The caller's goroutines and the program run on.
Fairness ==
    /\ WF_vars(Caller) /\ WF_vars(CancelCloses)
    /\ WF_vars(ReadInput \/ WriteInput) /\ WF_vars(ReadOutput \/ WriteOutput)
    /\ WF_vars(Program)

Spec == Init /\ [][Next]_vars /\ Fairness

-----------------------------------------------------------------------------
(* Properties.                                                             *)

\* Once the call has returned and the caller closes its file, no goroutine is
\* in a Read or Write of it any more, whatever made the call return
\* (RunEphemeral, "Caller I/O finishes before return").
CallerIOFinished ==
    closed /\ pc # "dead" => in.at \in {"none", "done"} /\ out.at \in {"none", "done"}

\* The volume's home is only ever a whole archive, verified and with the
\* quiesce and gateway markers, even if the import was killed or lost its
\* connection in the middle and the script ran on without it.
OnlyWholeArchives ==
    volume.home => volume.staged = Pieces /\ volume.armed /\ sound

\* What a success means.  All the program wrote is in the caller's file and the
\* program has ended ("EOF only means the output attachment closed"), a throwaway
\* container is gone, and an exec ended with exit code 0.  A program that ended
\* with exit code 0 has done its work: the archive is promoted, or the whole output
\* is in the file.  That a throwaway container's program failed or was killed half-way
\* a success does not exclude (SuccessIsExitZero), nor, where the connection
\* broke, that the break was taken for the end.
SuccessIsComplete ==
    pc = "success" /\ ~broke =>
        /\ helper.ended /\ out.recv = helper.wrote
        /\ IF kind = "stream" THEN helper.exit = 0 ELSE helper.st = "gone"
        /\ helper.exit = 0 => IF kind = "restore" THEN volume.home ELSE out.recv = Pieces

\* A restore whose messages the caller's own output refuses: the input copy is
\* awaited first, and a tar that nobody reads from may stop reading it.
Muted == kind = "restore" /\ out.at = "done" /\ out.err /\ conn = "open"

\* The call ends, and so does the program it started, also one that a killed
\* or failing caller left behind (StdinOnce; both copies run side by side).
AllEnds ==
    /\ <>(pc \in Ends \/ Muted)
    /\ helper.st = "running" ~> helper.st # "running" \/ Muted

\* What RunEphemeral's comment promises, "It returns the container's exit
\* code", and what import relies on to start only a box that was restored.
SuccessIsExitZero ==
    pc = "success" => helper.exit = 0

=============================================================================
