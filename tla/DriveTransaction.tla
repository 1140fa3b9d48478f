--------------------------- MODULE DriveTransaction ---------------------------
(***************************************************************************)
(* drivefs.BoundedTransactionalCopy: a source is copied, within a byte     *)
(* limit, into a private staging directory and published by a hard link.   *)
(*                                                                         *)
(* Every system call may fail, the context may end, the process may die    *)
(* between any two calls, and other processes use the same parent          *)
(* directory: they create the destination, or rename the staging directory *)
(* and put one of another user in its place.  Bytes are counted, not       *)
(* represented; a buffer holds Buffer of them (32 KiB in the code).        *)
(***************************************************************************)
EXTENDS Naturals, FiniteSets

CONSTANTS Limit,      \* the byte limit of the copy
          MaxSource,  \* longest source considered
          Buffer,     \* bytes of the copy buffer
          MaxEmpty,   \* empty reads tolerated (100 in the code)
          Depth       \* directories between "/" and the parent, "/" included

ASSUME TransactionAssumption ==
  /\ Limit \in Nat \ {0} /\ MaxSource \in Nat
  /\ Buffer \in Nat \ {0} /\ MaxEmpty \in Nat \ {0} /\ Depth \in Nat \ {0}

VARIABLES
  at,         \* the next system call
  err,        \* the error to return: FALSE for nil
  canceled,   \* ctx.Err() # nil
  held,       \* descriptors of the confined chain still open
  dirFd,      \* the staging directory is open
  fileFd,     \* the output file is open
  stage,      \* the staging name: "absent", "ours", "theirs" (another user's)
  dest,       \* the destination: "absent", "theirs" or "ours"
  output,     \* the staged file: "absent", "open" or "closed"
  source,     \* length of the source
  read,       \* bytes taken from the source
  written,    \* bytes in the staged file
  remaining,  \* the loop variable of copyBounded
  empty,      \* emptyReads
  published   \* history: bytes behind the destination when it was linked

copyVars == <<source, read, written, remaining, empty>>
fdVars == <<held, dirFd, fileFd>>
fsVars == <<stage, dest, output, published>>
copyState == <<at, err, canceled, fdVars, fsVars, copyVars>>

Calls == {"enter", "open_chain", "stat_destination", "mkdir_stage", "stat_stage",
          "open_stage", "check_stage", "create_output", "read", "close_output",
          "publish", "abort_output", "unlink_output", "close_stage",
          "recheck_stage", "rmdir_stage", "close_chain", "returned", "dead"}

CopyTypeOK ==
  /\ at \in Calls /\ err \in BOOLEAN /\ canceled \in BOOLEAN
  /\ held \in 0 .. Depth /\ dirFd \in BOOLEAN /\ fileFd \in BOOLEAN
  /\ stage \in {"absent", "ours", "theirs"}
  /\ dest \in {"absent", "ours", "theirs"}
  /\ output \in {"absent", "open", "closed"}
  /\ source \in 0 .. MaxSource /\ read \in 0 .. MaxSource
  /\ written \in 0 .. Limit /\ remaining \in 0 .. Limit
  /\ empty \in 0 .. MaxEmpty /\ published \in 0 .. Limit

CopyInit ==
  /\ at = "enter" /\ err = FALSE /\ canceled = FALSE
  /\ held = 0 /\ dirFd = FALSE /\ fileFd = FALSE
  /\ stage = "absent" /\ dest \in {"absent", "theirs"} /\ output = "absent"
  /\ source \in 0 .. MaxSource
  /\ read = 0 /\ written = 0 /\ remaining = Limit /\ empty = 0
  /\ published = 0

\* The function returns e at this point and runs the deferred calls from
\* next on; an error already in hand is kept (errors.Join).
Leave(next, e) == at' = next /\ err' = (err \/ e)

Go(next) == at' = next /\ UNCHANGED err

-----------------------------------------------------------------------------
(* withConfinedParent: the chain of directories is opened from "/" down.   *)

\* Arguments, limit, paths and an ended context are refused before any call.
enter ==
  /\ at = "enter"
  /\ \/ ~canceled /\ Go("open_chain")
     \/ Leave("returned", TRUE)
  /\ UNCHANGED <<canceled, fdVars, fsVars, copyVars>>

\* One more directory of the chain is opened; the last one is the parent.
openChain ==
  /\ at = "open_chain"
  /\ \/ /\ held' = held + 1
        /\ Go(IF held + 1 = Depth THEN "stat_destination" ELSE "open_chain")
     \/ /\ UNCHANGED held
        /\ Leave("close_chain", TRUE)
  /\ UNCHANGED <<canceled, dirFd, fileFd, fsVars, copyVars>>

\* The deferred closes of the chain; a close error is joined.
closeChain ==
  /\ at = "close_chain"
  /\ IF held > 0 THEN /\ held' = held - 1
                      /\ \E e \in BOOLEAN : Leave("close_chain", e)
     ELSE UNCHANGED held /\ Go("returned")
  /\ UNCHANGED <<canceled, dirFd, fileFd, fsVars, copyVars>>

-----------------------------------------------------------------------------
(* writeTransactional.                                                     *)

statDestination ==
  /\ at = "stat_destination"
  /\ \/ dest = "absent" /\ Go("mkdir_stage")
     \/ Leave("close_chain", TRUE)
  /\ UNCHANGED <<canceled, fdVars, fsVars, copyVars>>

mkdirStage ==
  /\ at = "mkdir_stage"
  /\ \/ stage = "absent" /\ stage' = "ours" /\ Go("stat_stage")
     \/ UNCHANGED stage /\ Leave("close_chain", TRUE)
  /\ UNCHANGED <<canceled, fdVars, dest, output, published, copyVars>>

\* The identity to clean up is recorded; without it nothing is cleaned up.
statStage ==
  /\ at = "stat_stage"
  /\ \/ stage = "ours" /\ Go("open_stage")
     \/ Leave("close_chain", TRUE)
  /\ UNCHANGED <<canceled, fdVars, fsVars, copyVars>>

openStage ==
  /\ at = "open_stage"
  /\ \/ stage # "absent" /\ dirFd' = TRUE
        /\ Go(IF stage = "ours" THEN "create_output" ELSE "check_stage")
     \/ UNCHANGED dirFd /\ Leave("recheck_stage", TRUE)
  /\ UNCHANGED <<canceled, held, fileFd, fsVars, copyVars>>

\* The opened directory is not the one that was created: refuse.
refuseSubstitute ==
  /\ at = "check_stage"
  /\ Leave("close_stage", TRUE)
  /\ UNCHANGED <<canceled, fdVars, fsVars, copyVars>>

\* The descriptor is ours from here on, whatever the name becomes.
createOutput ==
  /\ at = "create_output"
  /\ \/ output' = "open" /\ fileFd' = TRUE /\ Go("read")
     \/ UNCHANGED <<output, fileFd>> /\ Leave("close_stage", TRUE)
  /\ UNCHANGED <<canceled, held, dirFd, stage, dest, published, copyVars>>

\* Size of the next read: one byte past the limit tells a source of exactly
\* Limit bytes from a longer one.
readSize ==
  IF remaining = 0 THEN 1 ELSE IF remaining < Buffer THEN remaining ELSE Buffer

\* What one Read can deliver: less than asked for, nothing at all, or the last
\* bytes of the source.
Chunks == {n \in 0 .. readSize : n <= source - read}

\* A turn that fails: the context has ended, Read or Write failed, or a byte
\* past the limit was read.  Part of the chunk may have been written.
copyFails ==
  /\ \E n \in Chunks :
       /\ read' = read + n
       /\ \E w \in 0 .. n : w <= remaining /\ written' = written + w
  /\ Leave("abort_output", TRUE)
  /\ UNCHANGED <<remaining, empty>>

\* A turn that writes n bytes and finds the end of the source (ends) or not.
\* empties is emptyReads after a read of nothing.
copyChunk(n, ends, empties) ==
  /\ read' = read + n /\ written' = written + n /\ remaining' = remaining - n
  /\ empty' = IF n > 0 THEN 0 ELSE empties
  /\ IF ends THEN Go("close_output")
     ELSE IF empty' >= MaxEmpty THEN Leave("abort_output", TRUE)
     ELSE Go("read")

\* One turn of the loop of copyBounded.  EOF comes with the last bytes or in a
\* read of its own.
Turn(ends, empties) ==
  /\ at = "read"
  /\ \/ /\ ~canceled
        /\ \E n \in Chunks : n <= remaining /\ \E end \in ends[n] : copyChunk(n, end, empties)
     \/ copyFails
  /\ UNCHANGED <<canceled, fdVars, fsVars, source>>

\* EOF is possible once everything has been read.
Ends == [n \in 0 .. Limit + Buffer |-> IF read + n = source THEN BOOLEAN ELSE {FALSE}]

\* A bug: a full file ends the copy, without the probe for more.
copyBoundedNoProbe ==
  Turn([Ends EXCEPT ![remaining] = {TRUE}], empty + 1)

\* A bug: after too many empty reads the count starts over.
copyBoundedSpins == Turn(Ends, (empty + 1) % MaxEmpty)

copyBounded == Turn(Ends, empty + 1)

\* Closed before publication, so that a delayed write error is seen.  The
\* context is not looked at again.
closeOutput ==
  /\ at = "close_output"
  /\ fileFd' = FALSE /\ output' = "closed"
  /\ \/ Go("publish")
     \/ Leave("unlink_output", TRUE)
  /\ UNCHANGED <<canceled, held, dirFd, stage, dest, published, copyVars>>

\* linkat publishes the staged file; it refuses a name in use.
Link(replaces) ==
  /\ at = "publish"
  /\ \/ /\ dest = "absent" \/ replaces
        /\ dest' = "ours" /\ published' = written
        /\ Go("unlink_output")
     \/ UNCHANGED <<dest, published>> /\ Leave("unlink_output", TRUE)
  /\ UNCHANGED <<canceled, fdVars, stage, output, copyVars>>

\* A bug: rename(2) instead of linkat replaces an existing destination.
publishRenames == Link(TRUE)

publish == Link(FALSE)

-----------------------------------------------------------------------------
(* The deferred calls, in reverse order.                                   *)

\* A bug: the deferred close is skipped on abort.
abortOutputLeaks ==
  /\ at = "abort_output"
  /\ Leave("unlink_output", TRUE)
  /\ UNCHANGED <<canceled, fdVars, fsVars, copyVars>>

abortOutput ==
  /\ at = "abort_output"
  /\ fileFd' = FALSE /\ output' = "closed"
  /\ Leave("unlink_output", TRUE)
  /\ UNCHANGED <<canceled, held, dirFd, stage, dest, published, copyVars>>

unlinkOutput ==
  /\ at = "unlink_output"
  /\ \/ output' = "absent" /\ Go("close_stage")
     \/ UNCHANGED output /\ Leave("close_stage", TRUE)
  /\ UNCHANGED <<canceled, fdVars, stage, dest, published, copyVars>>

\* The directory descriptor is closed; the deferred cleanup comes next.
CloseStage(next) ==
  /\ at = "close_stage"
  /\ dirFd' = FALSE
  /\ \E e \in BOOLEAN : Leave(next, e)
  /\ UNCHANGED <<canceled, held, fileFd, fsVars, copyVars>>

closeStage == CloseStage("recheck_stage")

\* checkStage: only the directory that was created is removed.
checkStage ==
  /\ at = "recheck_stage"
  /\ \/ stage = "ours" /\ Go("rmdir_stage")
     \/ Leave("close_chain", TRUE)
  /\ UNCHANGED <<canceled, fdVars, fsVars, copyVars>>

\* rmdir fails on a directory that is not empty.
rmdirStage ==
  /\ at = "rmdir_stage"
  /\ \/ (stage = "theirs" \/ (stage = "ours" /\ output = "absent"))
        /\ stage' = "absent" /\ Go("close_chain")
     \/ UNCHANGED stage /\ Leave("close_chain", TRUE)
  /\ UNCHANGED <<canceled, fdVars, dest, output, published, copyVars>>

-----------------------------------------------------------------------------
(* The environment.                                                        *)

Running == at \notin {"returned", "dead"}

Cancel ==
  /\ Running /\ ~canceled /\ canceled' = TRUE
  /\ UNCHANGED <<at, err, fdVars, fsVars, copyVars>>

\* Another process creates, or removes, a file of its own at the destination.
UseDestination ==
  /\ Running
  /\ \/ dest = "absent" /\ dest' = "theirs"
     \/ dest = "theirs" /\ dest' = "absent"
  /\ UNCHANGED <<at, err, canceled, fdVars, stage, output, published, copyVars>>

\* Another process renames the stage away and may put its own there.
SubstituteStage ==
  /\ Running /\ stage = "ours"
  /\ stage' \in {"absent", "theirs"}
  /\ UNCHANGED <<at, err, canceled, fdVars, dest, output, published, copyVars>>

\* The process dies; its descriptors are closed by the system.
Crash ==
  /\ Running /\ at' = "dead"
  /\ held' = 0 /\ dirFd' = FALSE /\ fileFd' = FALSE
  /\ UNCHANGED <<err, canceled, fsVars, copyVars>>

Done == ~Running /\ UNCHANGED copyState

Step ==
  \/ enter \/ openChain \/ closeChain \/ statDestination \/ mkdirStage \/ statStage
  \/ openStage \/ refuseSubstitute \/ createOutput \/ copyBounded \/ closeOutput
  \/ publish \/ abortOutput \/ unlinkOutput \/ closeStage \/ checkStage \/ rmdirStage

CopyNext == Step \/ Cancel \/ UseDestination \/ SubstituteStage \/ Crash \/ Done

CopySpec == CopyInit /\ [][CopyNext]_copyState

\* Every system call and every Read of the source returns; a blocked Read is
\* outside the promise of the code.
CopyFairSpec == CopySpec /\ WF_copyState(Step)

-----------------------------------------------------------------------------
(* Properties.                                                             *)

\* What is visible at the destination is the whole source and nothing else, at
\* every moment and after a crash; the staged file never exceeds the limit, and
\* the source is read at most one byte past it.
NeverPartial ==
  /\ dest = "ours" => published = source /\ published <= Limit
  /\ written <= Limit /\ read <= Limit + 1

\* A file of another process is never replaced.
NeverReplaces == [][dest = "theirs" => dest' # "ours"]_copyState

\* nil means published and tidy: no staged file and no staging directory of
\* this transaction is left behind under any name it still had.  Whatever fails,
\* no descriptor of the chain, the stage or the file survives the return.
ReturnIsClean ==
  /\ at = "returned" /\ ~err => dest = "ours" /\ output = "absent" /\ stage # "ours"
  /\ ~Running => held = 0 /\ ~dirFd /\ ~fileFd

\* The copy always comes to an end.
CopyReturns == <>(~Running)
=============================================================================
