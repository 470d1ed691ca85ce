--------------------------- MODULE HelperRun_proofs ---------------------------
(***************************************************************************)
(* Proofs about the two components that run another program and copy its   *)
(* streams: HelperRun, for any number of pieces, any room in the           *)
(* connection and any number of failures; and, last, LogCapture.           *)
(***************************************************************************)
EXTENDS HelperRun, LogCapture, TLAPS

\* What passes through a pipe: nothing is read that was not written before.
Pipes ==
    /\ in.at = "write" => in.sent < Pieces
    /\ helper.got <= in.sent /\ out.recv <= helper.wrote
    /\ out.at = "write" => out.recv < helper.wrote
    /\ conn = "broken" => broke

\* The restore script: it says at most one thing per piece it read, and each
\* step has the ones before it behind it.  A program that ended well has done all.
Script ==
    /\ kind = "restore" <=> helper.step \notin {"produce", "shut"}
    /\ kind = "restore" => helper.wrote <= helper.got
    /\ helper.step = "warn" => helper.wrote < helper.got
    /\ kind # "stream" => helper.step # "shut"
    /\ helper.step = "wipe" => helper.got = 0
    /\ kind = "restore" => volume.staged = helper.got
    /\ helper.step \in {"arm", "verify", "promote", "tidy"} => helper.got = Pieces
    /\ helper.step \in {"verify", "promote", "tidy"} => volume.armed
    /\ helper.step \in {"promote", "tidy"} => sound
    /\ volume.home <=> helper.step = "tidy"
    /\ helper.step = "shut" => helper.wrote = Pieces
    /\ helper.ended /\ helper.exit = 0 =>
          IF kind = "restore" THEN volume.home ELSE helper.wrote = Pieces

\* When the program and its container are there.
Life ==
    /\ helper.ended => helper.st \in {"exited", "gone"}
    /\ helper.st = "exited" => helper.ended
    /\ helper.st = "gone" => kind # "stream"
    /\ pc \in {"create", "attach"} /\ kind = "stream" => helper.st = "none"
    /\ pc \in {"create", "attach", "reserve", "start"} => helper.st \in {"none", "created"}
    /\ pc \in {"reserve", "start", "select", "input", "output", "join", "joining", "remove"}
          => kind # "stream"
    /\ pc \in {"copy", "inspect"} => kind = "stream"

\* When the copies run.
Copies ==
    /\ kind # "restore" => in.at = "none"
    /\ pc \in {"create", "attach", "reserve", "start"} => in.at = "none" /\ out.at = "none"
    /\ pc \in {"inspect", "remove", "return", "success", "failure"}
          => in.at \in {"none", "done"} /\ out.at \in {"none", "done"}
    /\ helper.st = "gone" => out.at \in {"none", "done"}
    /\ closed => pc \in Ends

\* What an output that ended without an error, and a call without one, mean.
Complete ==
    /\ out.at = "done" /\ ~out.err /\ ~broke =>
          out.recv = helper.wrote /\ (helper.ended \/ helper.step = "shut")
    /\ pc \in {"join", "joining", "remove", "inspect", "return", "success"} /\ ~failed
          => out.at = "done" /\ ~out.err
    /\ pc = "success" => ~failed /\ status = 0
    /\ pc \in {"return", "success"} /\ ~failed /\ kind = "stream"
          => helper.st = "exited" /\ status = helper.exit
    /\ pc \in {"return", "success"} /\ ~failed /\ kind # "stream" => helper.st = "gone"

Safe == Pipes /\ Script /\ Life /\ Copies /\ Complete
IInv == TypeOK /\ Safe

-----------------------------------------------------------------------------
(* Types.                                                                  *)

\* The counters of pieces are numbers.
LEMMA Numbers ==
    ASSUME TypeOK
    PROVE  /\ Pieces \in Nat /\ volume.staged \in 0 .. Pieces
           /\ helper.got \in 0 .. Pieces /\ helper.wrote \in 0 .. Pieces
           /\ in.sent \in 0 .. Pieces /\ out.recv \in 0 .. Pieces
BY HelperRunAssumption
   DEF HelperRunAssumption, TypeOK, Helpers, VolumeStates, InputCopies, OutputCopies

\* Assignments to the fields of the program, of the volume and of the copies.
LEMMA HelperUpdates ==
    ASSUME TypeOK
    PROVE  /\ \A st \in {"created", "running", "gone"} : [helper EXCEPT !.st = st] \in Helpers
           /\ \A step \in {"wipe", "extract", "warn", "arm", "verify", "promote", "tidy",
                           "produce", "shut"} : [helper EXCEPT !.step = step] \in Helpers
           /\ \A code \in {0, 1} :
                 [helper EXCEPT !.st = "exited", !.exit = code, !.ended = TRUE] \in Helpers
           /\ \A n \in 0 .. Pieces :
                 /\ [helper EXCEPT !.wrote = n] \in Helpers
                 /\ [helper EXCEPT !.wrote = n, !.step = "extract"] \in Helpers
                 /\ \A step \in {"extract", "warn"} :
                       [helper EXCEPT !.got = n, !.step = step] \in Helpers
BY DEF TypeOK, Helpers

LEMMA OtherUpdates ==
    ASSUME TypeOK
    PROVE  /\ \A n \in 0 .. Pieces : [volume EXCEPT !.staged = n] \in VolumeStates
           /\ [volume EXCEPT !.armed = TRUE] \in VolumeStates
           /\ [volume EXCEPT !.home = TRUE] \in VolumeStates
           /\ \A at \in {"none", "read", "write", "done"}, err \in BOOLEAN :
                 /\ [in EXCEPT !.at = at] \in InputCopies
                 /\ [in EXCEPT !.at = at, !.eof = TRUE, !.err = err] \in InputCopies
                 /\ [out EXCEPT !.at = at] \in OutputCopies
                 /\ [out EXCEPT !.at = at, !.err = err] \in OutputCopies
           /\ \A n \in 0 .. Pieces :
                 /\ [in EXCEPT !.at = "read", !.sent = n] \in InputCopies
                 /\ [out EXCEPT !.at = "read", !.recv = n] \in OutputCopies
BY DEF TypeOK, VolumeStates, InputCopies, OutputCopies

\* The types after a step of each process and of the environment.
LEMMA CallerTypes ==
    ASSUME IInv, Caller
    PROVE  TypeOK'
<1> USE DEF Caller, Create, Attach, Reserve, Start, Select, Input, Output, Join, Joined,
        Remove, Copied, Inspect, Return, call, Streams, Goto, FailTo, Quiet, Hang, Fault, IInv
<1>1. helper' \in Helpers
    BY HelperUpdates DEF TypeOK
<1>2. volume' \in VolumeStates
    BY DEF TypeOK
<1>3. in' \in InputCopies /\ out' \in OutputCopies
    BY OtherUpdates DEF TypeOK
<1>4. status' \in {0, 1} /\ faults' \in 0 .. MaxFaults
    BY HelperRunAssumption DEF HelperRunAssumption, TypeOK, Helpers
<1>5. /\ pc' \in Ends \cup {"create", "attach", "reserve", "start", "select", "input", "output",
                         "join", "joining", "remove", "copy", "inspect", "return"}
      /\ wait' \in {"none", "answered", "broken"}
      /\ conn' \in {"none", "open", "closed", "broken"}
    BY DEF TypeOK, Ends
<1>6. {kind'} \subseteq Kinds /\ {sound', failed', cancelled', broke', closed'} \subseteq BOOLEAN
    BY DEF TypeOK
<1> QED
    BY <1>1, <1>2, <1>3, <1>4, <1>5, <1>6 DEF TypeOK

LEMMA CopyTypes ==
    ASSUME IInv, CancelCloses \/ ReadInput \/ WriteInput \/ ReadOutput \/ WriteOutput
    PROVE  TypeOK'
<1> USE DEF CancelCloses, ReadInput, WriteInput, ReadOutput, WriteOutput, Copying, call, Fault,
        Hang, IInv
<1>n. /\ in.sent < Pieces /\ in.at = "write" => in.sent + 1 \in 0 .. Pieces
      /\ (conn # "open") \in BOOLEAN
    BY Numbers
<1>1. in' \in InputCopies
  <2>1. CASE ReadInput
      BY <2>1, <1>n, OtherUpdates DEF TypeOK
  <2>2. CASE WriteInput
      BY <2>2, <1>n, OtherUpdates DEF TypeOK, Safe, Pipes
  <2> QED
      BY <2>1, <2>2 DEF TypeOK
<1>2. out' \in OutputCopies
  <2>1. out.at = "write" => out.recv + 1 \in 0 .. Pieces
      BY Numbers DEF Safe, Pipes
  <2> QED
      BY <2>1, OtherUpdates DEF TypeOK
<1>3. faults' \in 0 .. MaxFaults
    BY HelperRunAssumption DEF HelperRunAssumption, TypeOK
<1> QED
    BY <1>1, <1>2, <1>3 DEF TypeOK

LEMMA ProgramTypes ==
    ASSUME IInv, Program
    PROVE  TypeOK'
<1> USE DEF Program, Wipe, Extract, Warn, ExtractEnds, Arm, VerifyStage, Promote, Tidy, Produce,
        Shut, Inside, call, Streams, Running, Step, Exit, Room, IInv
<1>1. helper' \in Helpers
  <2>1. CASE Extract
    <3>1. helper.got + 1 \in 0 .. Pieces
        BY <2>1, Numbers
    <3> QED
        BY <2>1, <3>1, HelperUpdates
  <2>2. CASE Warn
    <3>1. helper.wrote + 1 \in 0 .. Pieces
        BY <2>2, Numbers DEF Safe, Script
    <3> QED
        BY <2>2, <3>1, HelperUpdates
  <2>3. CASE Produce
    <3>1. helper.wrote < Pieces => helper.wrote + 1 \in 0 .. Pieces
        BY Numbers
    <3> QED
        BY <2>3, <3>1, HelperUpdates
  <2>4. CASE Wipe \/ ExtractEnds \/ Arm \/ VerifyStage \/ Promote \/ Tidy \/ Shut
      BY <2>4, HelperUpdates DEF TypeOK
  <2> QED
      BY <2>1, <2>2, <2>3, <2>4
<1>2. volume' \in VolumeStates
  <2>1. [staged |-> 0, armed |-> FALSE, home |-> FALSE] \in VolumeStates
      BY Numbers DEF VolumeStates
  <2>2. CASE Extract
    <3>1. volume.staged + 1 \in 0 .. Pieces
        BY <2>2, Numbers DEF Safe, Script
    <3> QED
        BY <2>2, <3>1, OtherUpdates
  <2> QED
      BY <2>1, <2>2, OtherUpdates DEF TypeOK
<1> QED
    BY <1>1, <1>2 DEF TypeOK

LEMMA FailureTypes ==
    ASSUME IInv, Cancel \/ Break \/ HelperDies \/ Kill
    PROVE  TypeOK'
<1> USE DEF Cancel, Break, HelperDies, Kill, call, Streams, Hang, Exit, Fault, IInv
<1>1. helper' \in Helpers /\ in' \in InputCopies /\ out' \in OutputCopies
    BY HelperUpdates, OtherUpdates DEF TypeOK
<1>2. faults' \in 0 .. MaxFaults
    BY HelperRunAssumption DEF HelperRunAssumption, TypeOK
<1>3. pc' \in Ends \cup {"create", "attach", "reserve", "start", "select", "input", "output",
                         "join", "joining", "remove", "copy", "inspect", "return"}
    BY DEF TypeOK, Ends
<1>4. conn' \in {"none", "open", "closed", "broken"} /\ volume' \in VolumeStates
    BY DEF TypeOK
<1>5. /\ kind' \in Kinds /\ status' \in {0, 1} /\ wait' \in {"none", "answered", "broken"}
      /\ {sound', failed', cancelled', broke', closed'} \subseteq BOOLEAN
    BY DEF TypeOK
<1> QED
    BY <1>1, <1>2, <1>3, <1>4, <1>5 DEF TypeOK

-----------------------------------------------------------------------------
(* The other parts of the invariant.                                       *)

\* The call changes where the program and its container are, never how far the
\* program got.
LEMMA CallerKeeps ==
    ASSUME IInv, Caller
    PROVE  Safe'
<1> USE DEF IInv, Safe, TypeOK, Helpers, InputCopies, OutputCopies,
        call, Streams, Goto, FailTo, Quiet, Hang, Fault
<1>1. /\ UNCHANGED <<kind, sound, volume, broke>>
      /\ \/ helper' = helper
         \/ \E st \in {"created", "running", "gone"} : helper' = [helper EXCEPT !.st = st]
      /\ in' = in \/ (pc = "start" /\ in' = [in EXCEPT !.at = "read"])
      /\ out' = out \/ (pc \in {"attach", "start"} /\ out' = [out EXCEPT !.at = "read"])
      /\ conn' = "broken" => conn = "broken"
    BY DEF Caller, Create, Attach, Reserve, Start, Select, Input, Output, Join,
           Joined, Remove, Copied, Inspect, Return
<1>2. Pipes'
    BY <1>1 DEF Pipes
<1>3. Script'
    BY <1>1 DEF Script
<1>4. CASE Create
  <2>1. Life' /\ Copies'
      BY <1>4 DEF Create, Life, Copies, Ends
  <2>2. Complete'
      BY <1>4 DEF Create, Life, Copies, Complete
  <2> QED
      BY <1>2, <1>3, <2>1, <2>2
<1>5. CASE Attach
  <2>1. Life' /\ Copies'
      BY <1>5 DEF Attach, Life, Copies, Ends
  <2>2. Complete'
      BY <1>5 DEF Attach, Life, Copies, Complete
  <2> QED
      BY <1>2, <1>3, <2>1, <2>2
<1>6. CASE Reserve
  <2>1. Life' /\ Copies'
      BY <1>6 DEF Reserve, Life, Copies, Ends
  <2>2. Complete'
      BY <1>6 DEF Reserve, Life, Copies, Complete
  <2> QED
      BY <1>2, <1>3, <2>1, <2>2
<1>7. CASE Start
  <2>1. Life' /\ Copies'
      BY <1>7 DEF Start, Life, Copies, Ends
  <2>2. Complete'
      BY <1>7 DEF Start, Life, Copies, Complete
  <2> QED
      BY <1>2, <1>3, <2>1, <2>2
<1>8. CASE Select
  <2>1. Life' /\ Copies'
      BY <1>8 DEF Select, Life, Copies, Ends
  <2>2. Complete'
      BY <1>8 DEF Select, Life, Copies, Complete
  <2> QED
      BY <1>2, <1>3, <2>1, <2>2
<1>9. CASE Input
  <2>1. Life' /\ Copies'
      BY <1>9 DEF Input, Life, Copies, Ends
  <2>2. Complete'
      BY <1>9 DEF Input, Life, Copies, Complete
  <2> QED
      BY <1>2, <1>3, <2>1, <2>2
<1>10. CASE Output
  <2>1. Life' /\ Copies'
      BY <1>10 DEF Output, Life, Copies, Ends
  <2>2. Complete'
      BY <1>10 DEF Output, Life, Copies, Complete
  <2> QED
      BY <1>2, <1>3, <2>1, <2>2
<1>11. CASE Join
  <2>1. Life' /\ Copies'
      BY <1>11 DEF Join, Life, Copies, Ends
  <2>2. Complete'
      BY <1>11 DEF Join, Life, Copies, Complete
  <2> QED
      BY <1>2, <1>3, <2>1, <2>2
<1>12. CASE Joined
  <2>1. Life' /\ Copies'
      BY <1>12 DEF Joined, Life, Copies, Ends
  <2>2. Complete'
      BY <1>12 DEF Joined, Life, Copies, Complete
  <2> QED
      BY <1>2, <1>3, <2>1, <2>2
<1>13. CASE Remove
  <2>1. Life' /\ Copies'
      BY <1>13 DEF Remove, Life, Copies, Ends
  <2>2. Complete'
      BY <1>13 DEF Remove, Life, Copies, Complete
  <2> QED
      BY <1>2, <1>3, <2>1, <2>2
<1>14. CASE Copied
  <2>1. Life' /\ Copies'
      BY <1>14 DEF Copied, Life, Copies, Ends
  <2>2. Complete'
      BY <1>14 DEF Copied, Life, Copies, Complete
  <2> QED
      BY <1>2, <1>3, <2>1, <2>2
<1>15. CASE Inspect
  <2>1. Life' /\ Copies'
      BY <1>15 DEF Inspect, Life, Copies, Ends
  <2>2. Complete'
      BY <1>15 DEF Inspect, Life, Copies, Complete
  <2> QED
      BY <1>2, <1>3, <2>1, <2>2
<1>16. CASE Return
  <2>1. Life' /\ Copies'
      BY <1>16 DEF Return, Life, Copies, Ends
  <2>2. Complete'
      BY <1>16 DEF Return, Life, Copies, Complete
  <2> QED
      BY <1>2, <1>3, <2>1, <2>2
<1> QED
    BY <1>4, <1>5, <1>6, <1>7, <1>8, <1>9, <1>10, <1>11, <1>12, <1>13,
       <1>14, <1>15, <1>16 DEF Caller

\* The copies read what is in the pipes and leave the program alone.
LEMMA CopiesKeep ==
    ASSUME IInv, CancelCloses \/ ReadInput \/ WriteInput \/ ReadOutput \/ WriteOutput
    PROVE  Safe'
<1>n. /\ Pieces \in Nat /\ volume.staged \in 0 .. Pieces
      /\ helper.got \in 0 .. Pieces /\ helper.wrote \in 0 .. Pieces
      /\ in.sent \in 0 .. Pieces /\ out.recv \in 0 .. Pieces
    BY Numbers DEF IInv
<1> USE <1>n DEF IInv, Safe, TypeOK, Helpers, InputCopies, OutputCopies, Copying, call, Fault, Hang
<1>1. UNCHANGED <<kind, sound, pc, failed, status, helper, volume, broke, closed>>
    BY DEF CancelCloses, ReadInput, WriteInput, ReadOutput, WriteOutput
<1>2. Script' /\ Life'
    BY <1>1 DEF Script, Life
<1>3. CASE CancelCloses
    BY <1>1, <1>2, <1>3 DEF CancelCloses, Pipes, Copies, Complete
<1>4. CASE ReadInput
  <2>1. /\ in'.at = "write" => in.sent < Pieces
        /\ in'.at \in {"write", "done"} /\ in.at = "read" /\ in'.sent = in.sent
      BY <1>4 DEF ReadInput
  <2> QED
      BY <1>1, <1>2, <1>4, <2>1 DEF ReadInput, Pipes, Copies, Complete
<1>5. CASE WriteInput
  <2>1. /\ in'.at \in {"read", "done"} /\ in.at = "write"
        /\ in'.sent = in.sent \/ in'.sent = in.sent + 1
      BY <1>5 DEF WriteInput
  <2>2. UNCHANGED <<conn, out>>
      BY <1>5 DEF WriteInput
  <2> QED
      BY <1>1, <1>2, <2>1, <2>2 DEF Pipes, Copies, Complete
<1>6. CASE ReadOutput
  <2>1. UNCHANGED <<conn, in>> /\ out'.recv = out.recv /\ out.at = "read"
      BY <1>6 DEF ReadOutput
  <2>2. out'.at \in {"write", "done"} /\ (out'.at = "write" => out.recv < helper.wrote)
      BY <1>6 DEF ReadOutput
  <2>3. Pipes' /\ Copies'
      BY <1>1, <2>1, <2>2 DEF Pipes, Copies
  <2>4. out'.at = "done" /\ ~out'.err /\ ~broke =>
           out.recv = helper.wrote /\ (helper.st \in {"exited", "gone"} \/ helper.step = "shut")
      BY <1>6 DEF ReadOutput, Pipes
  <2>5. helper.st \in {"exited", "gone"} => helper.ended
      BY <2>1 DEF Life, Copies
  <2> QED
      BY <1>1, <1>2, <2>1, <2>3, <2>4, <2>5 DEF Complete
<1>7. CASE WriteOutput
  <2>1. /\ UNCHANGED <<conn, in>> /\ out'.at \in {"read", "done"} /\ out.at = "write"
        /\ out'.recv = out.recv \/ out'.recv = out.recv + 1
        /\ out'.at = "done" => out'.err
      BY <1>7 DEF WriteOutput
  <2> QED
      BY <1>1, <1>2, <2>1 DEF Pipes, Copies, Complete
<1> QED
    BY <1>3, <1>4, <1>5, <1>6, <1>7

\* The program never touches the copies or the call.
LEMMA ProgramKeeps ==
    ASSUME IInv, Program
    PROVE  Safe'
<1>n. /\ Pieces \in Nat /\ volume.staged \in 0 .. Pieces
      /\ helper.got \in 0 .. Pieces /\ helper.wrote \in 0 .. Pieces
      /\ in.sent \in 0 .. Pieces /\ out.recv \in 0 .. Pieces
    BY Numbers DEF IInv
<1> USE <1>n DEF IInv, Safe, TypeOK, Helpers, VolumeStates, Inside, call, Streams, Running,
        Step, Exit, Room
<1>1. /\ UNCHANGED <<kind, sound, pc, failed, status, in, out, conn, broke, closed>>
      /\ helper.st = "running" /\ helper'.st # "gone"
    BY DEF Program, Wipe, Extract, Warn, ExtractEnds, Arm, VerifyStage, Promote, Tidy, Produce, Shut
<1>2. Copies'
    BY <1>1 DEF Copies
<1>3. CASE Wipe
  <2>1. Pipes' /\ Script'
      BY <1>1, <1>3 DEF Wipe, Pipes, Script, Life
  <2>2. Life' /\ Complete'
      BY <1>1, <1>3 DEF Wipe, Pipes, Script, Life, Complete
  <2> QED
      BY <1>2, <2>1, <2>2
<1>4. CASE Extract
  <2>1. Pipes' /\ Script'
      BY <1>1, <1>4 DEF Extract, Pipes, Script, Life
  <2>2. Life' /\ Complete'
      BY <1>1, <1>4 DEF Extract, Pipes, Script, Life, Complete
  <2> QED
      BY <1>2, <2>1, <2>2
<1>5. CASE Warn
  <2>1. Pipes' /\ Script'
      BY <1>1, <1>5 DEF Warn, Pipes, Script, Life
  <2>2. Life' /\ Complete'
      BY <1>1, <1>5 DEF Warn, Pipes, Script, Life, Complete
  <2> QED
      BY <1>2, <2>1, <2>2
<1>6. CASE ExtractEnds
  <2>1. CASE helper.got = Pieces /\ helper' = [helper EXCEPT !.step = "arm"]
      BY <1>1, <1>2, <1>6, <2>1 DEF ExtractEnds, Pipes, Script, Life, Complete
  <2>2. CASE helper' = [helper EXCEPT !.st = "exited", !.exit = 1, !.ended = TRUE]
      BY <1>1, <1>2, <1>6, <2>2 DEF ExtractEnds, Pipes, Script, Life, Complete
  <2> QED
      BY <1>6, <2>1, <2>2 DEF ExtractEnds
<1>7. CASE Arm
  <2>1. Pipes' /\ Script'
      BY <1>1, <1>7 DEF Arm, Pipes, Script, Life
  <2>2. Life' /\ Complete'
      BY <1>1, <1>7 DEF Arm, Pipes, Script, Life, Complete
  <2> QED
      BY <1>2, <2>1, <2>2
<1>8. CASE VerifyStage
  <2>1. CASE sound /\ helper' = [helper EXCEPT !.step = "promote"]
      BY <1>1, <1>2, <1>8, <2>1 DEF VerifyStage, Pipes, Script, Life, Complete
  <2>2. CASE helper' = [helper EXCEPT !.st = "exited", !.exit = 1, !.ended = TRUE]
      BY <1>1, <1>2, <1>8, <2>2 DEF VerifyStage, Pipes, Script, Life, Complete
  <2> QED
      BY <1>8, <2>1, <2>2 DEF VerifyStage
<1>9. CASE Promote
  <2>1. Pipes' /\ Script'
      BY <1>1, <1>9 DEF Promote, Pipes, Script, Life
  <2>2. Life' /\ Complete'
      BY <1>1, <1>9 DEF Promote, Pipes, Script, Life, Complete
  <2> QED
      BY <1>2, <2>1, <2>2
<1>10. CASE Tidy
  <2>1. Pipes' /\ Script'
      BY <1>1, <1>10 DEF Tidy, Pipes, Script, Life
  <2>2. Life' /\ Complete'
      BY <1>1, <1>10 DEF Tidy, Pipes, Script, Life, Complete
  <2> QED
      BY <1>2, <2>1, <2>2
<1>11. CASE Produce
  <2>1. CASE helper' = [helper EXCEPT !.wrote = helper.wrote + 1]
      BY <1>1, <1>2, <1>11, <2>1 DEF Produce, Pipes, Script, Life, Complete
  <2>2. CASE \E code \in {0, 1} :
                /\ code = 0 => helper.wrote = Pieces
                /\ helper' = [helper EXCEPT !.st = "exited", !.exit = code, !.ended = TRUE]
      BY <1>1, <1>2, <1>11, <2>2 DEF Produce, Pipes, Script, Life, Complete
  <2>3. CASE kind = "stream" /\ helper.wrote = Pieces /\ helper' = [helper EXCEPT !.step = "shut"]
      BY <1>1, <1>2, <1>11, <2>3 DEF Produce, Pipes, Script, Life, Complete
  <2> QED
      BY <1>11, <2>1, <2>2, <2>3 DEF Produce
<1>12. CASE Shut
  <2>1. Pipes' /\ Script'
      BY <1>1, <1>12 DEF Shut, Pipes, Script, Life
  <2>2. Life' /\ Complete'
      BY <1>1, <1>12 DEF Shut, Pipes, Script, Life, Complete
  <2> QED
      BY <1>2, <2>1, <2>2
<1> QED
    BY <1>3, <1>4, <1>5, <1>6, <1>7, <1>8, <1>9, <1>10, <1>11, <1>12 DEF Program

\* No failure undoes what the program or the copies have done.
LEMMA FailuresKeep ==
    ASSUME IInv, Cancel \/ Break \/ HelperDies \/ Kill
    PROVE  Safe'
<1> USE DEF IInv, Safe, TypeOK, Helpers, InputCopies, OutputCopies, call, Streams, Hang, Exit, Fault
<1>1. CASE Cancel
  <2>1. Pipes' /\ Script'
      BY <1>1 DEF Cancel, Pipes, Script
  <2>2. Life' /\ Copies'
      BY <1>1 DEF Cancel, Life, Copies, Ends
  <2>3. Complete'
      BY <1>1 DEF Cancel, Life, Complete, Ends
  <2> QED
      BY <2>1, <2>2, <2>3
<1>2. CASE Break
  <2>1. Pipes' /\ Script'
      BY <1>2 DEF Break, Pipes, Script
  <2>2. Life' /\ Copies'
      BY <1>2 DEF Break, Life, Copies, Ends
  <2>3. Complete'
      BY <1>2 DEF Break, Life, Complete, Ends
  <2> QED
      BY <2>1, <2>2, <2>3
<1>3. CASE HelperDies
  <2>1. Pipes' /\ Script'
      BY <1>3 DEF HelperDies, Pipes, Script
  <2>2. Life' /\ Copies'
      BY <1>3 DEF HelperDies, Life, Copies, Ends
  <2>3. Complete'
      BY <1>3 DEF HelperDies, Life, Complete, Ends
  <2> QED
      BY <2>1, <2>2, <2>3
<1>4. CASE Kill
  <2>1. Pipes' /\ Script'
      BY <1>4 DEF Kill, Pipes, Script
  <2>2. Life' /\ Copies'
      BY <1>4 DEF Kill, Life, Copies, Ends
  <2>3. Complete'
      BY <1>4 DEF Kill, Life, Complete, Ends
  <2> QED
      BY <2>1, <2>2, <2>3
<1> QED
    BY <1>1, <1>2, <1>3, <1>4

\* The invariant holds at first, after every step, and so always.
LEMMA IInvInit == Init => IInv
<1> SUFFICES ASSUME Init PROVE IInv
    OBVIOUS
<1> USE HelperRunAssumption DEF HelperRunAssumption, Init
<1>1. helper \in Helpers /\ volume \in VolumeStates /\ in \in InputCopies /\ out \in OutputCopies
    BY DEF Helpers, VolumeStates, InputCopies, OutputCopies
<1>2. 0 \in 0 .. MaxFaults
    OBVIOUS
<1>3. TypeOK
    BY <1>1, <1>2 DEF TypeOK, Ends
<1>4. Safe
    BY DEF Safe, Pipes, Script, Life, Copies, Complete, Ends
<1> QED
    BY <1>3, <1>4 DEF IInv

LEMMA IInvStep == IInv /\ [Next]_vars => IInv'
<1> SUFFICES ASSUME IInv, [Next]_vars PROVE IInv'
    OBVIOUS
<1>1. CASE UNCHANGED vars
  <2>1. TypeOK'
      BY <1>1 DEF vars, IInv, TypeOK
  <2>2. Safe'
      BY <1>1 DEF vars, IInv, Safe, Pipes, Script, Life, Copies, Complete
  <2> QED
      BY <2>1, <2>2 DEF IInv
<1>2. CASE Next
    BY <1>2, CallerTypes, CopyTypes, ProgramTypes, FailureTypes, CallerKeeps,
       CopiesKeep, ProgramKeeps, FailuresKeep DEF Next, IInv
<1> QED
    BY <1>1, <1>2

LEMMA IInvCorrect == Spec => []IInv
BY IInvInit, IInvStep, PTL DEF Spec

-----------------------------------------------------------------------------
(* The theorems.                                                           *)

\* Every variable of a run keeps its type, whatever fails and whenever.
THEOREM TypeCorrect == Spec => []TypeOK
BY IInvCorrect, PTL DEF IInv

\* RunEphemeral and ExecStream return only when no goroutine is in a Read or
\* Write of the caller's file.
THEOREM CallerIOCorrect == Spec => []CallerIOFinished
<1>1. IInv => CallerIOFinished
    BY DEF IInv, Safe, Copies, Ends, CallerIOFinished
<1> QED
    BY <1>1, IInvCorrect, PTL

\* The restore script promotes nothing but a whole, armed and verified archive.
THEOREM ArchivesCorrect == Spec => []OnlyWholeArchives
<1>1. IInv => OnlyWholeArchives
    BY DEF IInv, Safe, Script, OnlyWholeArchives
<1> QED
    BY <1>1, IInvCorrect, PTL

\* What a success of ExecStream and RunEphemeral means: the output is all there and
\* the program has ended, an exec well; one that ended well has done all its work.
THEOREM SuccessCorrect == Spec => []SuccessIsComplete
<1>1. IInv => SuccessIsComplete
    BY DEF IInv, Safe, Script, Life, Complete, SuccessIsComplete
<1> QED
    BY <1>1, IInvCorrect, PTL

-----------------------------------------------------------------------------
(* LogCapture: the supervisor that the gateway and every custom service    *)
(* run under, with and without a restart delay, for any number of starts.  *)

\* The number: it is the child's as long as there is a child, dead or alive,
\* and active_pgid is set exactly while the main thread is about that child.
Pinned ==
    /\ child # "none" => number = "ours"
    /\ main \in {"popen", "delay"} => child = "none"
    /\ main = "assigned" => child # "none"
    /\ armed => child # "none"
    /\ main \in {"popen", "assigned", "reap", "delay"} => ~armed
    /\ main \in {"honour", "handshake", "startFailed", "watch", "sweep", "drain", "finish",
               "abort", "disarm"} => armed

\* The life of the child: what the main thread knows about it is true.
LifeOfChild ==
    /\ main \in {"sweep", "drain", "finish", "disarm", "reap"} => child = "zombie"
    /\ main = "startFailed" => child = "failed"

\* The rest of its group exists only once the command has run.
Group ==
    /\ child \in {"shim", "guarded", "failed"} => ~kids
    /\ main \in {"disarm", "reap", "delay", "popen"} => ~kids

\* The launch repeats a signal that came too early for the handler.
Told ==
    /\ told = received
    /\ told /\ main \in {"handshake", "startFailed", "watch", "abort"} => termed

LogInv == CaptureTypeOK /\ Pinned /\ LifeOfChild /\ Group /\ Told /\ NoOrphan /\ ~stray

-----------------------------------------------------------------------------
(* Signals.                                                                *)

\* A signal goes to the child's group or to nobody.
LEMMA KillpgOurs ==
    ASSUME LogInv, NEW sig \in {"TERM", "KILL"}, Killpg(sig)
    PROVE  /\ child' \in Children /\ kids' \in BOOLEAN /\ termed' \in BOOLEAN
           /\ stray' = FALSE
           /\ child' = child \/ child' = "zombie"
           /\ child' = "none" <=> child = "none"
           /\ kids' => kids
           /\ child = "failed" /\ sig = "TERM" => child' = "failed"
           /\ termed => termed'
           /\ armed /\ sig = "TERM" => termed'
           /\ armed /\ sig = "KILL" => child' = "zombie" /\ ~kids'
           /\ ~armed => UNCHANGED <<child, kids, termed>>
<1>1. CASE ~armed
    BY <1>1 DEF Killpg, LogInv, CaptureTypeOK
<1>2. CASE armed
  <2>1. number = "ours" /\ child # "none"
      BY <1>2 DEF LogInv, Pinned
  <2>2. stray' = (stray \/ number = "foreign")
      BY <1>2 DEF Killpg
  <2>3. stray' = FALSE
      BY <2>1, <2>2 DEF LogInv
  <2>4. CASE sig = "TERM"
      BY <1>2, <2>1, <2>3, <2>4 DEF Killpg, LogInv, CaptureTypeOK, Children, Alive
  <2>5. CASE sig = "KILL"
      BY <1>2, <2>1, <2>3, <2>5 DEF Killpg, LogInv, CaptureTypeOK, Children, Alive
  <2> QED
      BY <2>4, <2>5
<1> QED
    BY <1>1, <1>2

-----------------------------------------------------------------------------
(* The steps.                                                              *)

LEMMA SignalKeeps == LogInv /\ Signal => LogInv'
<1> SUFFICES ASSUME LogInv, Signal PROVE LogInv'
    OBVIOUS
<1>1. Killpg("TERM")
    BY DEF Signal
<1> QED
    BY <1>1, KillpgOurs DEF Signal, LogInv, CaptureTypeOK, Pinned, LifeOfChild, Group, Told,
           NoOrphan, running

LEMMA LaunchKeeps ==
    ASSUME LogInv,
           Popen \/ Assign \/ Honour \/ Handshake \/ StartFailed
    PROVE  LogInv'
<1> USE DEF LogInv, CaptureTypeOK, Pinned, LifeOfChild, Group, Told, NoOrphan, running, Proceed,
       MainSteps, Children, Alive
<1>1. CASE Popen
  <2>1. starts' \in 0 .. MaxStarts
      BY <1>1, CaptureAssumption DEF Popen
  <2> QED
      BY <1>1, <2>1 DEF Popen
<1>2. CASE Assign
    BY <1>2 DEF Assign
<1>3. CASE Honour /\ received
    BY <1>3, KillpgOurs DEF Honour
<1>4. CASE Honour /\ ~received
    BY <1>4 DEF Honour
<1>5. CASE Handshake
    BY <1>5 DEF Handshake
<1>6. CASE StartFailed
    BY <1>6 DEF StartFailed
<1> QED
    BY <1>1, <1>2, <1>3, <1>4, <1>5, <1>6

LEMMA EndKeeps ==
    ASSUME LogInv, Watch \/ Sweep \/ Drain \/ Finish \/ Abort \/ Disarm
           \/ Reap \/ Delay
    PROVE  LogInv'
<1> USE DEF LogInv, CaptureTypeOK, Pinned, LifeOfChild, Group, Told, NoOrphan, running, Proceed,
       MainSteps, Children, Alive
<1>1. CASE Watch
    BY <1>1 DEF Watch
<1>2. CASE Sweep
    BY <1>2, KillpgOurs DEF Sweep
<1>3. CASE Drain
    BY <1>3 DEF Drain
<1>4. CASE Finish
    BY <1>4, KillpgOurs DEF Finish
<1>5. CASE Abort
    BY <1>5, KillpgOurs DEF Abort
<1>6. CASE Disarm
    BY <1>6 DEF Disarm
<1>7. CASE Reap
    BY <1>7 DEF Reap
<1>8. CASE Delay
    BY <1>8 DEF Delay
<1> QED
    BY <1>1, <1>2, <1>3, <1>4, <1>5, <1>6, <1>7, <1>8

\* The child, its group and the kernel.
LEMMA CommandKeeps ==
    ASSUME LogInv, Shim \/ Fork \/ Exits \/ Reacts \/ KidsExit \/ Killed
           \/ Reuse
    PROVE  LogInv'
<1> USE DEF LogInv, CaptureTypeOK, Pinned, LifeOfChild, Group, Told, NoOrphan, running, Proceed,
       MainSteps, Children, Alive
<1>1. CASE Guard
    BY <1>1 DEF Guard
<1>2. CASE Exec
    BY <1>2 DEF Exec
<1>3. CASE Fork
    BY <1>3 DEF Fork
<1>4. CASE Exits \/ Reacts
    BY <1>4 DEF Exits, Reacts
<1>5. CASE KidsExit
    BY <1>5 DEF KidsExit
<1>6. CASE Killed
    BY <1>6 DEF Killed
<1>7. CASE Reuse
    BY <1>7 DEF Reuse
<1> QED
    BY <1>1, <1>2, <1>3, <1>4, <1>5, <1>6, <1>7 DEF Shim

LEMMA LogInvInit == CaptureInit => LogInv
<1>1. 0 \in 0 .. MaxStarts
    BY CaptureAssumption
<1> QED
    BY <1>1 DEF CaptureInit, LogInv, CaptureTypeOK, Pinned, LifeOfChild, Group, Told, NoOrphan,
           running, MainSteps, Children,
           Alive

LEMMA LogInvStep == LogInv /\ [CaptureNext]_captureVars => LogInv'
<1> SUFFICES ASSUME LogInv, [CaptureNext]_captureVars PROVE LogInv'
    OBVIOUS
<1>1. CASE CaptureNext
    BY <1>1, SignalKeeps, LaunchKeeps, EndKeeps, CommandKeeps DEF CaptureNext, MainStep
<1>2. CASE UNCHANGED captureVars
    BY <1>2 DEF captureVars, LogInv, CaptureTypeOK, Pinned, LifeOfChild, Group, Told,
           NoOrphan, running
<1> QED
    BY <1>1, <1>2

LEMMA LogInvCorrect == CaptureSpec => []LogInv
BY LogInvInit, LogInvStep, PTL DEF CaptureSpec

-----------------------------------------------------------------------------
(* The theorems.                                                           *)

\* Every value of the state is of its kind.
THEOREM CaptureTypeCorrect == CaptureSpec => []CaptureTypeOK
BY LogInvCorrect, PTL DEF LogInv

\* However often the command is started again and whenever signals come, none
\* goes to a process group that is not its own (_reap_child, waitid).
THEOREM StrayCorrect == CaptureSpec => []NoStraySignal
<1>1. LogInv => NoStraySignal
    BY DEF LogInv, NoStraySignal
<1> QED
    BY <1>1, LogInvCorrect, PTL

\* The command never runs without its supervisor (parent_death_exec).
THEOREM OrphanCorrect == CaptureSpec => []NoOrphan
BY LogInvCorrect, PTL DEF LogInv

\* A signal that reached the supervisor has reached the command or is about to
\* (_forward_signal, run_once).
THEOREM SignalCorrect == CaptureSpec => []SignalReachesChild
<1>1. LogInv => SignalReachesChild
  <2> SUFFICES ASSUME LogInv, told, child = "command", running
               PROVE  termed \/ main \in {"assigned", "honour"}
      BY DEF SignalReachesChild
  <2>1. main \notin {"popen", "delay", "sweep", "drain", "finish", "disarm", "reap", "startFailed",
                   "gone"}
      BY DEF LogInv, Pinned, LifeOfChild, running
  <2> QED
      BY <2>1 DEF LogInv, CaptureTypeOK, MainSteps, Told
<1> QED
    BY <1>1, LogInvCorrect, PTL

\* A new start finds nothing of the group of the one before (run_once).
THEOREM LeftoversCorrect == CaptureSpec => []NoLeftovers
<1>1. LogInv => NoLeftovers
    BY DEF LogInv, Group, NoLeftovers
<1> QED
    BY <1>1, LogInvCorrect, PTL

-----------------------------------------------------------------------------
(* The supervisor as others see it: LogCapture implements ServiceCapture.  *)

Commanding == child = "command"

\* What a step of the supervisor or of its command comes to.
Seems ==
    \/ /\ Phase' = Phase /\ Commanding' = Commanding /\ told' = told
       /\ kids' = kids \/ (kids = TRUE /\ kids' = FALSE)
                      \/ (Commanding /\ kids = FALSE /\ kids' = TRUE)
    \/ Phase = "launch" /\ Phase' = "rest" /\ Commanding' /\ UNCHANGED <<told, kids>>
    \/ Phase = "launch" /\ Phase' = "rest" /\ Commanding' = Commanding /\ UNCHANGED <<told, kids>>
    \/ /\ Phase' = Phase /\ Commanding /\ ~Commanding' /\ told' = told
       /\ kids' \in {kids, FALSE}
    \/ /\ Phase = "rest" /\ ~Commanding /\ ~Commanding' /\ ~told /\ ~told'
       /\ ~kids /\ UNCHANGED kids
       /\ Restart /\ Phase' = "launch"
    \/ /\ Phase = "rest" /\ ~Commanding /\ ~Commanding' /\ told' = told
       /\ ~kids /\ UNCHANGED kids
       /\ told \/ ~Restart
       /\ Phase' = "gone"
    \/ /\ Phase \in {"launch", "rest"} /\ Phase' \in {"rest", Phase}
       /\ Commanding' = Commanding /\ told' = TRUE /\ UNCHANGED kids
    \/ /\ Phase \in {"launch", "rest"} /\ Phase' = "gone" /\ ~Commanding'
       /\ UNCHANGED <<told, kids>>

LEMMA SignalSeems == LogInv /\ Signal => Seems
<1> SUFFICES ASSUME LogInv, Signal PROVE Seems
    OBVIOUS
<1>1. Killpg("TERM")
    BY DEF Signal
<1>2. /\ child' = child \/ (child \in {"shim", "guarded"} /\ child' = "zombie")
      /\ kids' = kids
    BY <1>1 DEF Killpg
<1>3. main' = main /\ told' = TRUE /\ main # "gone"
    BY DEF Signal, running
<1> QED
    BY <1>2, <1>3 DEF Seems, Phase, Commanding, running, LogInv, Pinned

LEMMA LaunchSeems ==
    ASSUME LogInv, Popen \/ Assign \/ Honour \/ Handshake \/ StartFailed
    PROVE  Seems
<1> USE DEF Seems, Phase, Commanding, running, Proceed
<1>1. CASE Popen
    BY <1>1 DEF Popen, LogInv, Pinned
<1>2. CASE Assign
    BY <1>2 DEF Assign
<1>3. CASE Honour
  <2>1. /\ child' = child \/ (child \in {"shim", "guarded"} /\ child' = "zombie")
        /\ kids' = kids
      BY <1>3 DEF Honour, Killpg
  <2> QED
      BY <1>3, <2>1 DEF Honour
<1>4. CASE Handshake
    BY <1>4 DEF Handshake
<1>5. CASE StartFailed
    BY <1>5 DEF StartFailed, LogInv, LifeOfChild
<1> QED
    BY <1>1, <1>2, <1>3, <1>4, <1>5

LEMMA GroupEnds ==
    ASSUME LogInv, NEW sig \in {"TERM", "KILL"}, Killpg(sig)
    PROVE  kids' = kids \/ (kids = TRUE /\ kids' = FALSE)
BY DEF Killpg, LogInv, CaptureTypeOK

LEMMA EndSeems ==
    ASSUME LogInv, Watch \/ Sweep \/ Drain \/ Finish \/ Abort \/ Disarm \/ Reap \/ Delay
    PROVE  Seems
<1> USE DEF Seems, Phase, Commanding, running, Proceed
<1>1. CASE Watch \/ Drain \/ Disarm
    BY <1>1 DEF Watch, Drain, Disarm
<1>2. CASE Sweep \/ Finish
    BY <1>2, GroupEnds DEF Sweep, Finish, Killpg, LogInv, LifeOfChild
<1>3. CASE Abort
  <2>1. child' = child \/ child' = "zombie"
      BY <1>3, KillpgOurs DEF Abort
  <2>2. kids' = kids \/ (kids = TRUE /\ kids' = FALSE)
      BY <1>3, GroupEnds DEF Abort
  <2>3. child \in {"shim", "guarded"} => kids' = kids
      BY <2>2 DEF LogInv, Group
  <2> QED
      BY <1>3, <2>1, <2>2, <2>3 DEF Abort, LogInv, CaptureTypeOK
<1>4. CASE Reap
    BY <1>4 DEF Reap
<1>5. CASE Delay
    BY <1>5 DEF Delay, LogInv, Pinned, Told, Group
<1> QED
    BY <1>1, <1>2, <1>3, <1>4, <1>5

LEMMA CommandSeems ==
    ASSUME LogInv, Shim \/ Fork \/ Exits \/ Reacts \/ KidsExit \/ Killed \/ Reuse
    PROVE  Seems
<1> USE DEF Seems, Phase, Commanding, running, Proceed
<1>1. CASE Guard \/ Exec
    BY <1>1 DEF Guard, Exec, LogInv, Pinned
<1>2. CASE Exits \/ Reacts
    BY <1>2 DEF Exits, Reacts
<1>3. CASE Fork \/ KidsExit \/ Reuse
  <2>1. kids = TRUE \/ kids = FALSE
      BY DEF LogInv, CaptureTypeOK
  <2> QED
      BY <1>3, <2>1 DEF Fork, KidsExit, Reuse
<1>4. CASE Killed
    BY <1>4 DEF Killed
<1> QED
    BY <1>1, <1>2, <1>3, <1>4 DEF Shim

\* The one supervisor there is.
LEMMA OneCell ==
    ASSUME NEW x, NEW y
    PROVE  /\ [[c \in {"it"} |-> x] EXCEPT !["it"] = y] = [c \in {"it"} |-> y]
           /\ [c \in {"it"} |-> x]["it"] = x
OBVIOUS

LEMMA SeemsServing == Seems => [Service!Next]_(Service!vars)
<1> SUFFICES ASSUME Seems PROVE Service!Next \/ UNCHANGED Service!vars
    OBVIOUS
<1> USE DEF Service!Becomes, Service!Alive, Commanding
<1>1. CASE /\ Phase' = Phase /\ Commanding' = Commanding /\ told' = told
           /\ kids' = kids \/ (kids = TRUE /\ kids' = FALSE)
                          \/ (Commanding /\ kids = FALSE /\ kids' = TRUE)
  <2>1. CASE kids' = kids
      BY <1>1, <2>1 DEF Service!vars
  <2>2. CASE kids = TRUE /\ kids' = FALSE
    <3>1. Service!KinEnd("it")
        BY <1>1, <2>2, OneCell DEF Service!KinEnd
    <3> QED
        BY <3>1 DEF Service!Next
  <2>3. CASE Commanding /\ kids = FALSE /\ kids' = TRUE
    <3>1. Service!Forks("it")
        BY <1>1, <2>3, OneCell DEF Service!Forks
    <3> QED
        BY <3>1 DEF Service!Next
  <2> QED
      BY <1>1, <2>1, <2>2, <2>3
<1>2. CASE Phase = "launch" /\ Phase' = "rest" /\ Commanding' /\ UNCHANGED <<told, kids>>
  <2>1. Service!Launch("it")
      BY <1>2, OneCell DEF Service!Launch
  <2> QED
      BY <2>1 DEF Service!Next
<1>3. CASE Phase = "launch" /\ Phase' = "rest" /\ Commanding' = Commanding
           /\ UNCHANGED <<told, kids>>
  <2>1. Service!LaunchFails("it")
      BY <1>3, OneCell DEF Service!LaunchFails
  <2> QED
      BY <2>1 DEF Service!Next
<1>4. CASE /\ Phase' = Phase /\ Commanding /\ ~Commanding' /\ told' = told
           /\ kids' \in {kids, FALSE}
  <2>1. Service!KidEnds("it")
      BY <1>4, OneCell DEF Service!KidEnds
  <2> QED
      BY <2>1 DEF Service!Next
<1>5. CASE /\ Phase = "rest" /\ ~Commanding /\ ~Commanding' /\ ~told /\ ~told'
           /\ ~kids /\ UNCHANGED kids
           /\ Restart /\ Phase' = "launch"
  <2>1. Service!Again("it")
      BY <1>5, OneCell DEF Service!Again
  <2> QED
      BY <2>1 DEF Service!Next
<1>6. CASE /\ Phase = "rest" /\ ~Commanding /\ ~Commanding' /\ told' = told
           /\ ~kids /\ UNCHANGED kids
           /\ told \/ ~Restart
           /\ Phase' = "gone"
  <2>1. Service!Ends("it")
      BY <1>6, OneCell DEF Service!Ends
  <2> QED
      BY <2>1 DEF Service!Next
<1>7. CASE /\ Phase \in {"launch", "rest"} /\ Phase' \in {"rest", Phase}
           /\ Commanding' = Commanding /\ told' = TRUE /\ UNCHANGED kids
  <2>1. Service!Told("it")
      BY <1>7, OneCell DEF Service!Told
  <2> QED
      BY <2>1 DEF Service!Next
<1>8. CASE /\ Phase \in {"launch", "rest"} /\ Phase' = "gone" /\ ~Commanding'
           /\ UNCHANGED <<told, kids>>
  <2>1. Service!Killed("it")
      BY <1>8, OneCell DEF Service!Killed
  <2> QED
      BY <2>1 DEF Service!Next
<1> QED
    BY <1>1, <1>2, <1>3, <1>4, <1>5, <1>6, <1>7, <1>8 DEF Seems

\* Whatever interrupts it, a supervisor is to others what ServiceCapture says:
\* told to end it begins no other launch, it starts over or ends only when nothing
\* of its command's group is left, and its command never outlives it, however it
\* dies (capture_command, run_once, parent_death_exec).
THEOREM ServesCorrect == CaptureSpec => ServesAsPromised
<1>1. CaptureInit => Service!Init
    BY DEF CaptureInit, Service!Init, Phase, running
<1>2. LogInv /\ [CaptureNext]_captureVars => [Service!Next]_(Service!vars)
  <2> SUFFICES ASSUME LogInv, [CaptureNext]_captureVars PROVE [Service!Next]_(Service!vars)
      OBVIOUS
  <2>1. CASE CaptureNext
      BY <2>1, SignalSeems, LaunchSeems, EndSeems, CommandSeems, SeemsServing
         DEF CaptureNext, MainStep
  <2>2. CASE UNCHANGED captureVars
      BY <2>2 DEF captureVars, Service!vars, Phase, running
  <2> QED
      BY <2>1, <2>2
<1> QED
    BY <1>1, <1>2, LogInvCorrect, PTL DEF CaptureSpec, ServesAsPromised, Service!Spec

=============================================================================
