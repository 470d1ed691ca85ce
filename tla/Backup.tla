------------------------------- MODULE Backup -------------------------------
(***************************************************************************)
(* tx9 backup: quiesce the box, tar its data while it is quiesced, place   *)
(* the archive under its final name, resume the box.                       *)
(*                                                                         *)
(* The per-box lock keeps other tx9 commands away (module BoxLifecycle),   *)
(* but not the box's own user, who pauses and resumes it with hb at any    *)
(* moment, nor the processes in the box that write to /data.  Every hb     *)
(* call goes through a Docker exec, which may fail before or after the     *)
(* command had its effect.  The process may be killed at every step.       *)
(***************************************************************************)
EXTENDS Naturals

CONSTANTS
    Names,      \* final archive names (box name and second of the clock)
    MaxChunks,  \* pieces gpg writes its output in
    MaxWrites,  \* bound on changes of /data
    MaxBackups  \* bound on backups started; also names the staging files

ASSUME BackupAssumption == {MaxChunks, MaxWrites, MaxBackups} \subseteq Nat

VARIABLES
    paused,    \* the quiesce marker
    writers,   \* Hermes or a custom service is running
    data,      \* version of /data
    placed,    \* final name -> what a reader finds there
    staging,   \* staging files: backup -> what it holds
    pc,        \* where the backup is
    weQuiesced, \* quiesceForBackup's answer
    from, to,  \* version of /data when tar began and when it ended
    started,   \* backups started
    was,       \* history: the box was paused when the backup took the lock
    touched,   \* history: the user ran hb pause or hb resume since then
    lied,      \* history: hb is-paused failed on a paused box
    encrypt,   \* this backup is encrypted
    cipher,    \* what gpg made: "good"; "short", which does not decrypt to
               \* its end; "foul", which decrypts to something else
    ver,       \* the verification under way
    outcome    \* history: how the latest backup ended

box  == <<paused, writers>>
disk == <<placed, staging>>
crypt == <<encrypt, cipher, ver>>
hist == <<was, touched, lied>>
vars == <<paused, writers, data, placed, staging, pc, weQuiesced, from, to,
          started, was, touched, lied, encrypt, cipher, ver, outcome>>

NoArchive == [from |-> 0, to |-> 0, state |-> "none", sound |-> FALSE]
Archive   == [from : 0 .. MaxWrites, to : 0 .. MaxWrites,
              state : {"none", "partial", "complete"}, sound : BOOLEAN]

\* gpg's side of the pipe, with what it has left to write, and the lister's.
NoVerify == [gpg |-> "off", left |-> MaxChunks, failed |-> FALSE,
             lister |-> "off", bad |-> FALSE]
Verifies == [gpg : {"off", "writing", "ended", "reported", "closed"},
             left : 0 .. MaxChunks, failed : BOOLEAN,
             lister : {"off", "listing", "draining", "waiting"}, bad : BOOLEAN]
Backups   == 1 .. MaxBackups
Steps     == {"idle", "ask", "pause", "checkpoint", "tar", "tarring",
              "validate", "encrypt", "verify", "stage", "staging", "link", "resume"}

TypeOK ==
    /\ paused \in BOOLEAN /\ writers \in BOOLEAN
    /\ data \in 0 .. MaxWrites
    /\ placed \in [Names -> Archive]
    /\ staging \in [Backups -> Archive]
    /\ pc \in Steps
    /\ weQuiesced \in BOOLEAN
    /\ from \in 0 .. MaxWrites /\ to \in 0 .. MaxWrites
    /\ started \in 0 .. MaxBackups
    /\ was \in BOOLEAN /\ touched \in BOOLEAN /\ lied \in BOOLEAN
    /\ encrypt \in BOOLEAN
    /\ cipher \in {"none", "good", "short", "foul"}
    /\ ver \in Verifies
    /\ outcome \in {"none", "returned", "stuck", "killed"}

Init ==
    /\ paused = FALSE /\ writers = TRUE
    /\ data = 0
    /\ placed = [n \in Names |-> NoArchive]
    /\ staging = [b \in Backups |-> NoArchive]
    /\ pc = "idle"
    /\ weQuiesced = FALSE
    /\ from = 0 /\ to = 0
    /\ started = 0
    /\ encrypt = FALSE /\ cipher = "none" /\ ver = NoVerify
    /\ was = FALSE /\ touched = FALSE /\ lied = FALSE /\ outcome = "none"

-----------------------------------------------------------------------------
(* hb inside the box.                                                      *)

\* hb pause: the marker, then the stops, then the checkpoint.  It may fail
\* at each of them; a stop that fails leaves a writer under the marker.
PauseWorks == paused' = TRUE /\ writers' = FALSE
PauseFails ==
    \/ UNCHANGED box
    \/ paused' = TRUE /\ writers' \in {writers, FALSE}

\* hb resume: remove the marker, then up.
ResumeWorks == paused' = FALSE /\ writers' = TRUE
ResumeFails == UNCHANGED box \/ (paused' = FALSE /\ writers' \in {writers, TRUE})

\* Somebody in the box runs them; nothing stops him during a backup.
UserPause ==
    /\ PauseWorks \/ PauseFails
    /\ touched' = TRUE
    /\ UNCHANGED <<data, disk, pc, weQuiesced, from, to, started, was, lied, outcome, crypt>>

UserResume ==
    /\ ResumeWorks \/ ResumeFails
    /\ touched' = TRUE
    /\ UNCHANGED <<data, disk, pc, weQuiesced, from, to, started, was, lied, outcome, crypt>>

Write ==
    /\ writers
    /\ data < MaxWrites
    /\ data' = data + 1
    /\ UNCHANGED <<box, disk, pc, weQuiesced, from, to, started, hist, outcome, crypt>>

-----------------------------------------------------------------------------
(* cmdBackup, under the box lock.                                          *)

\* Every return of the closure runs the deferred resume if it was armed.
GiveUp ==
    IF weQuiesced THEN pc' = "resume" /\ UNCHANGED outcome
                  ELSE pc' = "idle" /\ outcome' = "returned"

Goto(step) == pc' = step /\ UNCHANGED outcome

BackupBegin ==
    /\ pc = "idle"
    /\ started < MaxBackups
    /\ started' = started + 1
    /\ pc' = "ask" /\ outcome' = "none"
    /\ weQuiesced' = FALSE
    /\ was' = paused /\ touched' = FALSE /\ lied' = FALSE
    /\ encrypt' \in BOOLEAN /\ cipher' = "none" /\ ver' = NoVerify
    /\ UNCHANGED <<box, data, disk, from, to>>

\* quiesceForBackup: any error of hb is-paused reads as "not paused".
AskPaused ==
    /\ pc = "ask"
    /\ \/ paused /\ Goto("checkpoint") /\ UNCHANGED lied
       \/ ~paused /\ Goto("pause") /\ UNCHANGED lied
       \/ paused /\ Goto("pause") /\ lied' = TRUE
    /\ UNCHANGED <<box, data, disk, weQuiesced, from, to, started, was, touched, crypt>>

\* Mutant: a failed pause is not followed by a resume.
PauseNoResume ==
    /\ pc = "pause"
    /\ \/ PauseWorks /\ weQuiesced' = TRUE /\ Goto("checkpoint")
       \/ PauseFails /\ weQuiesced' = FALSE /\ pc' = "idle" /\ outcome' = "returned"
    /\ UNCHANGED <<data, disk, from, to, started, hist, crypt>>

\* Mutant: the result of the pause is ignored.
PauseUnchecked ==
    /\ pc = "pause"
    /\ weQuiesced' = TRUE
    /\ PauseWorks \/ PauseFails
    /\ Goto("checkpoint")
    /\ UNCHANGED <<data, disk, from, to, started, hist, crypt>>

\* The resume is armed whether or not the pause succeeded.
Pause ==
    /\ pc = "pause"
    /\ weQuiesced' = TRUE
    /\ \/ PauseWorks /\ Goto("checkpoint")
       \/ PauseFails /\ Goto("resume")
    /\ UNCHANGED <<data, disk, from, to, started, hist, crypt>>

\* verify-state --checkpoint and write-manifest.
Checkpoint ==
    /\ pc = "checkpoint"
    /\ Goto("tar") \/ GiveUp
    /\ UNCHANGED <<box, data, disk, weQuiesced, from, to, started, hist, crypt>>

TarBegins ==
    /\ pc = "tar"
    /\ from' = data
    /\ Goto("tarring")
    /\ UNCHANGED <<box, data, disk, weQuiesced, to, started, hist, crypt>>

\* tar may or may not notice that a file changed under it.
TarEnds ==
    /\ pc = "tarring"
    /\ to' = data
    /\ Goto("validate") \/ GiveUp
    /\ UNCHANGED <<box, data, disk, weQuiesced, from, started, hist, crypt>>

\* ValidateDataTar (module ImportArchive), on a private temporary file.
Validate ==
    /\ pc = "validate"
    /\ Goto(IF encrypt THEN "encrypt" ELSE "stage") \/ GiveUp
    /\ UNCHANGED <<box, data, disk, weQuiesced, from, to, started, hist, crypt>>

\* gpg may write a file it cannot read back, or one that holds something else.
Encrypt ==
    /\ pc = "encrypt"
    /\ \/ GiveUp /\ UNCHANGED <<cipher, ver>>
       \/ /\ Goto("verify")
          /\ cipher' \in {"good", "short", "foul"}
          /\ ver' = [NoVerify EXCEPT !.gpg = "writing", !.lister = "listing"]
    /\ UNCHANGED <<box, data, disk, weQuiesced, from, to, started, hist, encrypt>>

-----------------------------------------------------------------------------
(* VerifyEncrypted: gpg decrypts into a pipe in a goroutine of its own,    *)
(* while the command lists what comes out of it.                           *)

Verifying == pc = "verify"
\* What every step of the verification leaves alone.
Rest == <<box, data, disk, weQuiesced, from, to, started, hist, encrypt, cipher>>

\* The pipe holds nothing: gpg writes when the other end reads.  The lister
\* may see at any point that this is no archive, and then only drains.
Chunk ==
    /\ Verifying
    /\ ver.gpg = "writing" /\ ver.left > 0
    /\ ver.lister \in {"listing", "draining"}
    /\ \/ ver' = [ver EXCEPT !.left = @ - 1]
       \/ /\ cipher = "foul" /\ ver.lister = "listing"
          /\ ver' = [ver EXCEPT !.left = @ - 1, !.lister = "draining", !.bad = TRUE]
    /\ UNCHANGED <<pc, outcome, Rest>>

\* gpg ends: at the end of its output, where the file breaks off, or because
\* nobody reads any more, which looks like a failure of its own.
GpgEnds ==
    /\ Verifying
    /\ ver.gpg = "writing"
    /\ ver.left = 0 \/ cipher = "short" \/ ver.lister = "waiting"
    /\ ver' = [ver EXCEPT !.gpg = "ended",
                          !.failed = cipher = "short" \/ ver.left > 0]
    /\ UNCHANGED <<pc, outcome, Rest>>

\* Mutant: the channel has no buffer, so the report waits for its reader.
ReportUnbuffered ==
    /\ Verifying
    /\ ver.gpg = "ended" /\ ver.lister = "waiting"
    /\ ver' = [ver EXCEPT !.gpg = "reported"]
    /\ UNCHANGED <<pc, outcome, Rest>>

Report ==
    /\ Verifying
    /\ ver.gpg = "ended"
    /\ ver' = [ver EXCEPT !.gpg = "reported"]
    /\ UNCHANGED <<pc, outcome, Rest>>

ClosePipe ==
    /\ Verifying
    /\ ver.gpg = "reported"
    /\ ver' = [ver EXCEPT !.gpg = "closed"]
    /\ UNCHANGED <<pc, outcome, Rest>>

\* listTarGz reads the stream to its end, checksum included.
Listed ==
    /\ Verifying
    /\ ver.lister = "listing" /\ ver.gpg = "closed"
    /\ ver' = [ver EXCEPT !.lister = "draining", !.bad = cipher = "foul" \/ ver.left > 0]
    /\ UNCHANGED <<pc, outcome, Rest>>

\* Mutant: the pipe is closed without draining it.
DrainedEarly ==
    /\ Verifying
    /\ ver.lister = "draining"
    /\ ver' = [ver EXCEPT !.lister = "waiting"]
    /\ UNCHANGED <<pc, outcome, Rest>>

Drained ==
    /\ Verifying
    /\ ver.lister = "draining" /\ ver.gpg = "closed"
    /\ ver' = [ver EXCEPT !.lister = "waiting"]
    /\ UNCHANGED <<pc, outcome, Rest>>

Verified ==
    /\ Verifying
    /\ ver.lister = "waiting" /\ ver.gpg \in {"reported", "closed"}
    /\ IF ver.failed \/ ver.bad THEN GiveUp ELSE Goto("stage")
    /\ ver' = NoVerify
    /\ UNCHANGED Rest

Verify == Chunk \/ GpgEnds \/ Report \/ ClosePipe \/ Listed \/ Drained \/ Verified

-----------------------------------------------------------------------------
\* writeTx9Staged: an exclusive hidden file, removed if it stays incomplete.
StageBegins ==
    /\ pc = "stage"
    /\ staging' = [staging EXCEPT ![started] = [from |-> from, to |-> to, state |-> "partial",
                                                sound |-> ~encrypt \/ cipher = "good"]]
    /\ Goto("staging")
    /\ UNCHANGED <<box, data, placed, weQuiesced, from, to, started, hist, crypt>>

StageEnds ==
    /\ pc = "staging"
    /\ \/ staging' = [staging EXCEPT ![started].state = "complete"] /\ Goto("link")
       \/ staging' = [staging EXCEPT ![started] = NoArchive] /\ GiveUp
    /\ UNCHANGED <<box, data, placed, weQuiesced, from, to, started, hist, crypt>>

\* Mutant: rename instead of link, replacing whatever is there.
RenameArchive ==
    /\ pc = "link"
    /\ \E n \in Names : placed' = [placed EXCEPT ![n] = staging[started]]
    /\ staging' = [staging EXCEPT ![started] = NoArchive]
    /\ GiveUp
    /\ UNCHANGED <<box, data, weQuiesced, from, to, started, hist, crypt>>

\* os.Link fails if the name is taken; the staging file goes either way.  The
\* clock's local time can repeat, so any name may come up.
LinkArchive ==
    /\ pc = "link"
    /\ \/ \E n \in Names : /\ placed[n] = NoArchive
                           /\ placed' = [placed EXCEPT ![n] = staging[started]]
       \/ UNCHANGED placed
    /\ staging' = [staging EXCEPT ![started] = NoArchive]
    /\ GiveUp
    /\ UNCHANGED <<box, data, weQuiesced, from, to, started, hist, crypt>>

\* The deferred resume only warns when it fails.
Resume ==
    /\ pc = "resume"
    /\ pc' = "idle"
    /\ \/ ResumeWorks /\ outcome' = "returned"
       \/ ResumeFails /\ outcome' = "stuck"
    /\ UNCHANGED <<data, disk, weQuiesced, from, to, started, hist, crypt>>

\* The process is killed: no deferred call runs.
Kill ==
    /\ pc # "idle"
    /\ pc' = "idle" /\ outcome' = "killed"
    /\ UNCHANGED <<box, data, disk, weQuiesced, from, to, started, hist, crypt>>

-----------------------------------------------------------------------------
Next ==
    \/ UserPause \/ UserResume \/ Write
    \/ BackupBegin \/ AskPaused \/ Pause \/ Checkpoint \/ TarBegins \/ TarEnds
    \/ Validate \/ Encrypt \/ Verify \/ StageBegins \/ StageEnds \/ LinkArchive \/ Resume \/ Kill

\* gpg and the command are processes that run: a verification proceeds.
Spec == Init /\ [][Next]_vars /\ WF_vars(Verify)

-----------------------------------------------------------------------------
(* Properties.                                                             *)

\* A backup that paused the box itself archives one version of /data: nothing
\* it captured changed between the first and the last byte, unless the box's
\* user resumed it meanwhile (quiesceForBackup, hb pause's order).
SnapshotConsistent ==
    pc \in {"validate", "encrypt", "verify", "stage", "staging", "link"} /\ weQuiesced /\ ~touched
        => from = to

\* A backup that returns, with success or with any error, leaves the box as
\* it was: paused if it was paused, active if it was active.  Only a failed
\* resume, which warns, and a lost answer of hb is-paused are exempt.
RestPreserved ==
    outcome = "returned" /\ ~touched /\ ~lied => paused = was

\* A name gets its archive in one step, sound whatever gpg made of it, and
\* keeps it: nobody sees a half-written one, and no backup replaces or removes
\* another (VerifyEncrypted before writeTx9Staged, os.Link).
Shelf == INSTANCE ArchiveShelf WITH
    shelf <- placed, Nothing <- NoArchive,
    Restorable <- {a \in Archive : a.state = "complete" /\ a.sound}
BackupsKept == Shelf!Spec

\* The passphrase is blamed only for a file that does not decrypt, never
\* because the command stopped reading (VerifyEncrypted's comment on draining).
BlameIsRight ==
    ver.failed => cipher = "short"

\* Every verification ends, by the result of gpg, of the listing or of a kill:
\* the two never wait for each other (the buffered channel, the drain).
VerifyEnds == pc = "verify" ~> pc # "verify"

\* What the README says of saves: they quiesce the gateway, so nothing writes
\* while the data is archived.
SavesQuiesce ==
    pc = "tarring" /\ ~touched => ~writers

=============================================================================
