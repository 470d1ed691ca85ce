---------------------------- MODULE Backup_proofs ----------------------------
(***************************************************************************)
(* Proofs about Backup, for any number of backups, of changes of the data, *)
(* of archive names and of pieces of gpg's output.                         *)
(***************************************************************************)
EXTENDS Backup, TLAPS

Quiescing == {"checkpoint", "tar", "tarring", "validate", "encrypt", "verify", "stage",
              "staging", "link"}

\* Who is in charge of the box: a backup answers for a pause from the moment
\* it asked for it, and has an outcome only when it is over.
Charge ==
    /\ pc \in {"ask", "pause"} => ~weQuiesced
    /\ pc = "resume" => weQuiesced
    /\ outcome # "none" => pc = "idle"
    /\ pc # "idle" => started \in Backups

\* Without the user's doing, no writer runs while the box is quiesced by us,
\* so what is archived stays what it was.
Quiet ==
    weQuiesced /\ ~touched /\ pc \in Quiescing =>
        /\ ~writers
        /\ pc = "tarring" => from = data
        /\ pc \notin {"checkpoint", "tar", "tarring"} => from = to

\* Without the user's doing and with a true answer, a backup knows how it
\* found the box and has changed that only when it was active.
Found ==
    ~touched /\ ~lied =>
        /\ pc \in {"ask", "pause"} => paused = was
        /\ pc = "pause" => ~was
        /\ pc \in Quiescing => IF weQuiesced THEN ~was ELSE paused = was
        /\ pc = "resume" => ~was
        /\ outcome = "returned" => paused = was

\* The verification: the lister stops reading only at the end of the pipe, gpg
\* fails exactly on what breaks off, and what is not an archive is seen.
Pipe ==
    /\ ver.lister = "waiting" => ver.gpg = "closed"
    /\ ver.gpg \in {"off", "writing"} => ~ver.failed
    /\ ver.failed => cipher = "short"
    /\ pc = "verify" =>
        /\ cipher # "none"
        /\ cipher = "short" /\ ver.gpg \in {"ended", "reported", "closed"} => ver.failed
        /\ cipher = "foul" /\ ver.lister \in {"draining", "waiting"} => ver.bad

\* What goes to the shelf is sound, and complete when it goes there.
Sound ==
    /\ pc = "stage" => ~encrypt \/ cipher = "good"
    /\ pc \in {"staging", "link"} => staging[started].sound
    /\ pc = "link" => staging[started].state = "complete"

IInv == TypeOK /\ Charge /\ Quiet /\ Found /\ Pipe /\ Sound

-----------------------------------------------------------------------------
(* Types.                                                                  *)

LEMMA ArchiveUpdates ==
    /\ NoArchive \in Archive
    /\ \A a \in Archive : [a EXCEPT !.state = "complete"] \in Archive
    /\ \A f, t \in 0 .. MaxWrites, b \in BOOLEAN :
          [from |-> f, to |-> t, state |-> "partial", sound |-> b] \in Archive
<1>1. 0 \in 0 .. MaxWrites
    BY BackupAssumption DEF BackupAssumption
<1> QED
    BY <1>1 DEF NoArchive, Archive

LEMMA VerifyUpdates ==
    /\ NoVerify \in Verifies
    /\ [NoVerify EXCEPT !.gpg = "writing", !.lister = "listing"] \in Verifies
    /\ \A v \in Verifies :
          /\ v.left > 0 => [v EXCEPT !.left = @ - 1] \in Verifies
          /\ v.left > 0 =>
                [v EXCEPT !.left = @ - 1, !.lister = "draining", !.bad = TRUE] \in Verifies
          /\ \A b \in BOOLEAN : [v EXCEPT !.gpg = "ended", !.failed = b] \in Verifies
          /\ \A b \in BOOLEAN : [v EXCEPT !.lister = "draining", !.bad = b] \in Verifies
          /\ [v EXCEPT !.gpg = "reported"] \in Verifies
          /\ [v EXCEPT !.gpg = "closed"] \in Verifies
          /\ [v EXCEPT !.lister = "waiting"] \in Verifies
<1>1. MaxChunks \in 0 .. MaxChunks
    BY BackupAssumption DEF BackupAssumption
<1>2. ASSUME NEW v \in Verifies, v.left > 0 PROVE v.left - 1 \in 0 .. MaxChunks
    BY <1>2, BackupAssumption DEF BackupAssumption, Verifies
<1> QED
    BY <1>1, <1>2 DEF NoVerify, Verifies

\* The verification's steps change its record alone, except that its last one
\* goes on or gives up.
LEMMA TypeStep == IInv /\ [Next]_vars => TypeOK'
<1> SUFFICES ASSUME IInv, [Next]_vars PROVE TypeOK'
    OBVIOUS
<1> USE DEF IInv
<1>1. /\ paused' \in BOOLEAN /\ writers' \in BOOLEAN /\ weQuiesced' \in BOOLEAN
      /\ was' \in BOOLEAN /\ touched' \in BOOLEAN /\ lied' \in BOOLEAN /\ encrypt' \in BOOLEAN
    BY DEF TypeOK, Next, UserPause, UserResume, Write, BackupBegin, AskPaused, Pause,
       Checkpoint, TarBegins, TarEnds, Validate, Encrypt, Verify, Chunk, GpgEnds, Report,
       ClosePipe, Listed, Drained, Verified, Rest, StageBegins, StageEnds, LinkArchive, Resume,
       Kill, vars, box, hist, crypt, disk, PauseWorks, PauseFails, ResumeWorks, ResumeFails
<1>2. pc' \in Steps /\ outcome' \in {"none", "returned", "stuck", "killed"}
      /\ cipher' \in {"none", "good", "short", "foul"}
    BY DEF TypeOK, Next, UserPause, UserResume, Write, BackupBegin, AskPaused, Pause,
       Checkpoint, TarBegins, TarEnds, Validate, Encrypt, Verify, Chunk, GpgEnds, Report,
       ClosePipe, Listed, Drained, Verified, Rest, StageBegins, StageEnds, LinkArchive, Resume,
       Kill, vars, crypt, Steps, GiveUp, Goto
<1>3. data' \in 0 .. MaxWrites /\ started' \in 0 .. MaxBackups
  <2>1. data \in 0 .. MaxWrites /\ started \in 0 .. MaxBackups
        /\ MaxWrites \in Nat /\ MaxBackups \in Nat
      BY BackupAssumption DEF BackupAssumption, TypeOK
  <2>2. /\ data' = data \/ (data < MaxWrites /\ data' = data + 1)
        /\ started' = started \/ (started < MaxBackups /\ started' = started + 1)
      BY DEF Next, UserPause, UserResume, Write, BackupBegin, AskPaused, Pause,
         Checkpoint, TarBegins, TarEnds, Validate, Encrypt, Verify, Chunk, GpgEnds, Report,
         ClosePipe, Listed, Drained, Verified, Rest, StageBegins, StageEnds, LinkArchive, Resume,
         Kill, vars
  <2> QED
      BY <2>1, <2>2
<1>4. from' \in 0 .. MaxWrites /\ to' \in 0 .. MaxWrites
    BY DEF TypeOK, Next, UserPause, UserResume, Write, BackupBegin, AskPaused, Pause,
       Checkpoint, TarBegins, TarEnds, Validate, Encrypt, Verify, Chunk, GpgEnds, Report,
       ClosePipe, Listed, Drained, Verified, Rest, StageBegins, StageEnds, LinkArchive, Resume,
       Kill, vars
<1>5. ver' \in Verifies
  <2>1. ver \in Verifies
      BY DEF TypeOK
  <2>2. CASE GpgEnds
    <3>1. (cipher = "short" \/ ver.left > 0) \in BOOLEAN
        OBVIOUS
    <3> QED
        BY <2>1, <2>2, <3>1, VerifyUpdates DEF GpgEnds
  <2>3. CASE Listed
    <3>1. (cipher = "foul" \/ ver.left > 0) \in BOOLEAN
        OBVIOUS
    <3> QED
        BY <2>1, <2>3, <3>1, VerifyUpdates DEF Listed
  <2>4. CASE Chunk
      BY <2>1, <2>4, VerifyUpdates DEF Chunk
  <2>5. CASE Report \/ ClosePipe \/ Drained \/ Verified \/ Encrypt \/ BackupBegin
      BY <2>1, <2>5, VerifyUpdates DEF Report, ClosePipe, Drained, Verified, Encrypt, BackupBegin
  <2>6. CASE UNCHANGED ver
      BY <2>1, <2>6
  <2> QED
      BY <2>2, <2>3, <2>4, <2>5, <2>6
      DEF Next, Verify, UserPause, UserResume, Write, AskPaused, Pause, Checkpoint,
          TarBegins, TarEnds, Validate, StageBegins, StageEnds, LinkArchive, Resume, Kill, vars,
          crypt
<1>6. placed' \in [Names -> Archive] /\ staging' \in [Backups -> Archive]
  <2>1. placed \in [Names -> Archive] /\ staging \in [Backups -> Archive]
      BY DEF TypeOK
  <2>2. CASE StageBegins
    <3>1. (~encrypt \/ cipher = "good") \in BOOLEAN /\ {from, to} \subseteq 0 .. MaxWrites
        BY DEF TypeOK
    <3>2. [from |-> from, to |-> to, state |-> "partial",
           sound |-> ~encrypt \/ cipher = "good"] \in Archive
        BY <3>1, ArchiveUpdates
    <3> QED
        BY <2>1, <2>2, <3>2 DEF StageBegins
  <2>3. CASE StageEnds
    <3>1. started \in Backups
        BY <2>3 DEF StageEnds, Charge
    <3>2. [staging[started] EXCEPT !.state = "complete"] \in Archive
        BY <2>1, <3>1, ArchiveUpdates
    <3> QED
        BY <2>1, <2>3, <3>2, ArchiveUpdates DEF StageEnds
  <2>4. CASE LinkArchive
    <3>1. started \in Backups
        BY <2>4 DEF LinkArchive, Charge
    <3>2. staging[started] \in Archive
        BY <2>1, <3>1
    <3> QED
        BY <2>1, <2>4, <3>2, ArchiveUpdates DEF LinkArchive
  <2>5. CASE UNCHANGED disk
      BY <2>1, <2>5 DEF disk
  <2> QED
      BY <2>2, <2>3, <2>4, <2>5
      DEF Next, UserPause, UserResume, Write, BackupBegin, AskPaused, Pause, Checkpoint,
          TarBegins, TarEnds, Validate, Encrypt, Verify, Chunk, GpgEnds, Report, ClosePipe,
          Listed, Drained, Verified, Rest, Resume, Kill, vars, disk
<1> QED
    BY <1>1, <1>2, <1>3, <1>4, <1>5, <1>6 DEF TypeOK

-----------------------------------------------------------------------------
(* The parts of the invariant.                                             *)

LEMMA ChargeStep == IInv /\ [Next]_vars => Charge'
<1> SUFFICES ASSUME IInv, [Next]_vars PROVE Charge'
    OBVIOUS
<1> USE DEF IInv
<1>1. /\ pc' \in {"ask", "pause"} => ~weQuiesced'
      /\ pc' = "resume" => weQuiesced'
      /\ outcome' # "none" => pc' = "idle"
    BY DEF Charge, TypeOK, Next, UserPause, UserResume, Write, BackupBegin, AskPaused, Pause,
       Checkpoint, TarBegins, TarEnds, Validate, Encrypt, Verify, Chunk, GpgEnds, Report,
       ClosePipe, Listed, Drained, Verified, Rest, StageBegins, StageEnds, LinkArchive, Resume,
       Kill, vars, GiveUp, Goto, Verifying
<1>2. pc' # "idle" => started' \in Backups
  <2>1. CASE BackupBegin
      BY <2>1, BackupAssumption DEF BackupAssumption, BackupBegin, TypeOK, Backups
  <2>2. CASE ~BackupBegin
    <3>1. started' = started /\ (pc' # "idle" => pc # "idle")
        BY <2>2 DEF Next, UserPause, UserResume, Write, AskPaused, Pause,
           Checkpoint, TarBegins, TarEnds, Validate, Encrypt, Verify, Chunk, GpgEnds, Report,
           ClosePipe, Listed, Drained, Verified, Rest, StageBegins, StageEnds, LinkArchive,
           Resume, Kill, vars, Verifying
    <3> QED
        BY <3>1 DEF Charge
  <2> QED
      BY <2>1, <2>2
<1> QED
    BY <1>1, <1>2 DEF Charge

LEMMA QuietStep == IInv /\ [Next]_vars => Quiet'
<1> SUFFICES ASSUME IInv, [Next]_vars PROVE Quiet'
    OBVIOUS
<1> USE DEF IInv, Charge, Quiet, Quiescing
<1>1. CASE UserPause \/ UserResume
    BY <1>1 DEF UserPause, UserResume
<1>2. CASE Write \/ UNCHANGED vars
    BY <1>2 DEF Write, vars, box, hist
<1>3. CASE BackupBegin \/ AskPaused \/ Resume \/ Kill
    BY <1>3 DEF BackupBegin, AskPaused, Resume, Kill, Goto
<1>4. CASE Pause
    BY <1>4 DEF Pause, PauseWorks, Goto, hist
<1>5. CASE Checkpoint \/ TarBegins \/ TarEnds \/ Validate \/ Encrypt
    BY <1>5 DEF Checkpoint, TarBegins, TarEnds, Validate, Encrypt, Goto, GiveUp, hist, box
<1>6. CASE Verify
    BY <1>6 DEF Verify, Chunk, GpgEnds, Report, ClosePipe, Listed, Drained, Verified, Verifying,
       Rest, Goto, GiveUp, hist, box
<1>7. CASE StageBegins \/ StageEnds \/ LinkArchive
    BY <1>7 DEF StageBegins, StageEnds, LinkArchive, Goto, GiveUp, hist, box
<1> QED
    BY <1>1, <1>2, <1>3, <1>4, <1>5, <1>6, <1>7 DEF Next

LEMMA FoundStep == IInv /\ [Next]_vars => Found'
<1> SUFFICES ASSUME IInv, [Next]_vars PROVE Found'
    OBVIOUS
<1> USE DEF IInv, Charge, Found, Quiescing
<1>1. CASE UserPause \/ UserResume
    BY <1>1 DEF UserPause, UserResume
<1>2. CASE Write \/ UNCHANGED vars
    BY <1>2 DEF Write, vars, box, hist
<1>3. CASE BackupBegin \/ AskPaused \/ Kill
    BY <1>3 DEF BackupBegin, AskPaused, Kill, Goto, box, hist, TypeOK
<1>4. CASE Resume
    BY <1>4 DEF Resume, ResumeWorks, ResumeFails, hist, TypeOK
<1>5. CASE Pause
    BY <1>5 DEF Pause, PauseWorks, Goto, hist
<1>6. CASE Checkpoint \/ TarBegins \/ TarEnds \/ Validate \/ Encrypt
    BY <1>6 DEF Checkpoint, TarBegins, TarEnds, Validate, Encrypt, Goto, GiveUp, hist, box
<1>7. CASE Verify
    BY <1>7 DEF Verify, Chunk, GpgEnds, Report, ClosePipe, Listed, Drained, Verified, Verifying,
       Rest, Goto, GiveUp, hist, box
<1>8. CASE StageBegins \/ StageEnds \/ LinkArchive
    BY <1>8 DEF StageBegins, StageEnds, LinkArchive, Goto, GiveUp, hist, box
<1> QED
    BY <1>1, <1>2, <1>3, <1>4, <1>5, <1>6, <1>7, <1>8 DEF Next

LEMMA PipeStep == IInv /\ [Next]_vars => Pipe'
<1> SUFFICES ASSUME IInv, [Next]_vars PROVE Pipe'
    OBVIOUS
<1> USE DEF IInv, Pipe, TypeOK, Verifies
<1>1. CASE Chunk
    BY <1>1 DEF Chunk, Verifying, Rest
<1>2. CASE GpgEnds
  <2>1. ver.gpg = "writing" /\ ver.lister # "waiting" /\ (ver.left = 0 \/ cipher = "short")
      BY <1>2 DEF GpgEnds
  <2>2. ver.left = 0 => ~(ver.left > 0)
      OBVIOUS
  <2>3. (cipher = "short" \/ ver.left > 0) = (cipher = "short")
      BY <2>1, <2>2
  <2>4. (cipher = "short") \in BOOLEAN
      OBVIOUS
  <2>5. ver' = [ver EXCEPT !.gpg = "ended", !.failed = (cipher = "short")]
      BY <1>2, <2>3 DEF GpgEnds
  <2>6. /\ ver'.gpg = "ended" /\ ver'.failed = (cipher = "short")
        /\ ver'.lister = ver.lister /\ ver'.bad = ver.bad
      BY <2>5
  <2> QED
      BY <1>2, <2>1, <2>6 DEF GpgEnds, Verifying, Rest
<1>3. CASE Report \/ ClosePipe
    BY <1>3 DEF Report, ClosePipe, Verifying, Rest
<1>4. CASE Listed
    BY <1>4 DEF Listed, Verifying, Rest
<1>5. CASE Drained
    BY <1>5 DEF Drained, Verifying, Rest
<1>6. CASE Verified
    BY <1>6 DEF Verified, Verifying, Rest, NoVerify, GiveUp, Goto
<1>7. CASE BackupBegin
    BY <1>7 DEF BackupBegin, NoVerify
<1>8. CASE Encrypt
    BY <1>8 DEF Encrypt, NoVerify, GiveUp, Goto
<1>9. CASE UNCHANGED crypt /\ pc' # "verify"
    BY <1>9 DEF crypt
<1>10. CASE UNCHANGED <<crypt, pc>>
    BY <1>10 DEF crypt
<1>11. CASE AskPaused \/ Pause \/ Checkpoint \/ TarBegins \/ TarEnds \/ Validate \/ StageBegins
            \/ StageEnds \/ LinkArchive \/ Resume \/ Kill
    BY <1>9, <1>11 DEF AskPaused, Pause, Checkpoint, TarBegins, TarEnds, Validate, StageBegins,
       StageEnds, LinkArchive, Resume, Kill, Goto, GiveUp
<1> QED
    BY <1>1, <1>2, <1>3, <1>4, <1>5, <1>6, <1>7, <1>8, <1>10, <1>11
    DEF Next, Verify, UserPause, UserResume, Write, vars, crypt

LEMMA SoundStep == IInv /\ [Next]_vars => Sound'
<1> SUFFICES ASSUME IInv, [Next]_vars PROVE Sound'
    OBVIOUS
<1> USE DEF IInv, Sound
<1>1. CASE UNCHANGED <<staging, encrypt, cipher, pc, started>>
    BY <1>1
<1>2. CASE pc' \notin {"stage", "staging", "link"}
    BY <1>2
<1>3. CASE Validate
    BY <1>3 DEF Validate, Goto, GiveUp, crypt
<1>4. CASE Verified
  <2>1. CASE pc' = "stage"
    <3>1. cipher \notin {"short", "foul", "none"} /\ cipher' = cipher
        BY <1>4, <2>1 DEF Verified, Verifying, Rest, Pipe, GiveUp
    <3>2. cipher' = "good"
        BY <3>1 DEF TypeOK
    <3> QED
        BY <2>1, <3>2
  <2> QED
      BY <1>2, <1>4, <2>1 DEF Verified, Goto, GiveUp
<1>5. CASE StageBegins
  <2>1. started \in Backups /\ staging \in [Backups -> Archive]
      BY <1>5 DEF StageBegins, Charge, TypeOK
  <2> QED
      BY <1>5, <2>1 DEF StageBegins, Goto
<1>6. CASE StageEnds
  <2>1. started \in Backups /\ staging \in [Backups -> Archive]
      BY <1>6 DEF StageEnds, Charge, TypeOK
  <2> QED
      BY <1>6, <2>1 DEF StageEnds, Goto, GiveUp, Archive
<1>7. CASE Chunk \/ GpgEnds \/ Report \/ ClosePipe \/ Listed \/ Drained \/ UserPause \/ UserResume
           \/ Write \/ UNCHANGED vars
    BY <1>1, <1>7 DEF Chunk, GpgEnds, Report, ClosePipe, Listed, Drained, UserPause, UserResume,
       Write, vars, Rest, disk, crypt
<1> QED
    BY <1>2, <1>3, <1>4, <1>5, <1>6, <1>7 DEF Next, Verify, BackupBegin, AskPaused, Pause,
       Checkpoint, TarBegins, TarEnds, Encrypt, LinkArchive, Resume, Kill, Goto, GiveUp

-----------------------------------------------------------------------------
(* The invariant and the theorems.                                         *)

LEMMA IInvInit == Init => IInv
<1> SUFFICES ASSUME Init PROVE IInv
    OBVIOUS
<1>1. TypeOK
  <2>1. 0 \in 0 .. MaxWrites /\ 0 \in 0 .. MaxBackups
      BY BackupAssumption DEF BackupAssumption
  <2> QED
      BY <2>1, ArchiveUpdates, VerifyUpdates DEF Init, TypeOK, Steps
<1> QED
    BY <1>1 DEF Init, IInv, Charge, Quiet, Found, Pipe, Sound, NoVerify, Quiescing

LEMMA IInvCorrect == Spec => []IInv
<1>1. IInv /\ [Next]_vars => IInv'
    BY TypeStep, ChargeStep, QuietStep, FoundStep, PipeStep, SoundStep DEF IInv
<1> QED
    BY <1>1, IInvInit, PTL DEF Spec

\* Every value of the state is of its kind.
THEOREM TypeCorrect == Spec => []TypeOK
BY IInvCorrect, PTL DEF IInv

\* A backup that paused the box itself archives one version of the data, for
\* any number of changes and of the user's pauses (quiesceForBackup).
THEOREM SnapshotCorrect == Spec => []SnapshotConsistent
<1>1. IInv => SnapshotConsistent
    BY DEF IInv, Quiet, Quiescing, SnapshotConsistent
<1> QED
    BY <1>1, IInvCorrect, PTL

\* A backup that returns leaves the box paused or active as it found it, on
\* every path through its errors (the deferred resume of cmdBackup).
THEOREM RestCorrect == Spec => []RestPreserved
<1>1. IInv => RestPreserved
    BY DEF IInv, Found, RestPreserved
<1> QED
    BY <1>1, IInvCorrect, PTL

\* The passphrase is blamed only for a file that does not decrypt, however
\* long gpg's output is (VerifyEncrypted drains before it closes the pipe).
THEOREM BlameCorrect == Spec => []BlameIsRight
<1>1. IInv => BlameIsRight
    BY DEF IInv, Pipe, BlameIsRight
<1> QED
    BY <1>1, IInvCorrect, PTL

-----------------------------------------------------------------------------
(* The refinement of ArchiveShelf.                                         *)

LEMMA ShelfStep == IInv /\ [Next]_vars => [Shelf!Next]_placed
<1> SUFFICES ASSUME IInv, [Next]_vars PROVE [Shelf!Next]_placed
    OBVIOUS
<1>1. CASE LinkArchive
  <2>1. CASE UNCHANGED placed
      BY <2>1
  <2>2. CASE \E n \in Names : /\ placed[n] = NoArchive
                              /\ placed' = [placed EXCEPT ![n] = staging[started]]
    <3>1. started \in Backups /\ staging[started] \in Archive
        BY <1>1 DEF IInv, LinkArchive, Charge, TypeOK
    <3>2. staging[started].state = "complete" /\ staging[started].sound
        BY <1>1 DEF IInv, Sound, LinkArchive
    <3>3. PICK a \in {b \in Archive : b.state = "complete" /\ b.sound} : a = staging[started]
        BY <3>1, <3>2
    <3>4. \E n \in Names : Shelf!Place(n, a)
        BY <2>2, <3>3 DEF Shelf!Place
    <3> QED
        BY <3>4 DEF Shelf!Next
  <2> QED
      BY <1>1, <2>1, <2>2 DEF LinkArchive
<1>2. CASE ~LinkArchive
  <2>1. UNCHANGED placed
      BY <1>2 DEF Next, UserPause, UserResume, Write, BackupBegin, AskPaused, Pause,
         Checkpoint, TarBegins, TarEnds, Validate, Encrypt, Verify, Chunk, GpgEnds, Report,
         ClosePipe, Listed, Drained, Verified, Rest, StageBegins, StageEnds, Resume, Kill, vars,
         disk
  <2> QED
      BY <2>1
<1> QED
    BY <1>1, <1>2

\* Backup implements ArchiveShelf: a name gets a complete and sound archive in
\* one step and keeps it, through failures and kills (os.Link, VerifyEncrypted).
THEOREM BackupsCorrect == Spec => BackupsKept
<1>1. Init => Shelf!Init
    BY DEF Init, Shelf!Init
<1> QED
    BY <1>1, ShelfStep, IInvCorrect, PTL DEF Spec, BackupsKept, Shelf!Spec

===============================================================================
