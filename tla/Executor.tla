------------------------------ MODULE Executor ------------------------------
(***************************************************************************)
(* execute_command: the shell command writes into a log file opened by the *)
(* script ("w+b") and passed as the child's stdout; after p.wait() the     *)
(* script takes the file position as the size, seeks back Limit bytes      *)
(* (65536 in the code) and reads to the end, then decodes the bytes as     *)
(* UTF-8.  Parent and child share one open file description, so they      *)
(* share its offset, and a writer the command left in the background      *)
(* keeps writing at that offset after the shell has exited.  stderr is    *)
(* handled by the same code on a second file and is not repeated here.    *)
(* Bytes are abstracted to their UTF-8 class: "a" a one-byte character,   *)
(* "l" the lead byte and "c" the continuation byte of a two-byte one.     *)
(***************************************************************************)
EXTENDS Naturals, Sequences, SequencesExt

CONSTANTS
  Limit,       \* the 65536 of execute_command
  MaxBytes,    \* bound on the bytes written by the command
  BgChoices    \* whether the command leaves a background writer behind

ASSUME Limit \in Nat \ {0} /\ MaxBytes \in Nat

VARIABLES
  content,   \* the bytes of the log file
  off,       \* the shared file offset
  produced,  \* history: every byte written, in order
  fg,        \* the shell started by Popen: "none", "running", "exited"
  spawned,   \* the command started a background writer
  bg,        \* a background writer still holds the file
  pc,        \* the script inside execute_command
  size,      \* out_size
  result     \* out_buf

vars == <<content, off, produced, fg, spawned, bg, pc, size, result>>

Chars == {<<"a">>, <<"l", "c">>}
Bytes == {"a", "l", "c"}
MaxOf(x, y) == IF x >= y THEN x ELSE y

(* write(2) of a character at the shared offset, without O_APPEND.        *)
WriteAt(b) ==
  /\ Len(produced) + Len(b) <= MaxBytes
  /\ content' = [i \in 1..MaxOf(Len(content), off + Len(b)) |->
                   IF off < i /\ i <= off + Len(b) THEN b[i - off]
                   ELSE content[i]]
  /\ off' = off + Len(b)
  /\ produced' = produced \o b

(* bytes.decode('utf-8') succeeds.                                         *)
RECURSIVE Utf8Valid(_)
Utf8Valid(s) ==
  \/ s = <<>>
  \/ Head(s) = "a" /\ Utf8Valid(Tail(s))
  \/ Len(s) >= 2 /\ s[1] = "l" /\ s[2] = "c" /\ Utf8Valid(SubSeq(s, 3, Len(s)))

-----------------------------------------------------------------------------
Init ==
  /\ content = <<>>
  /\ off = 0
  /\ produced = <<>>
  /\ fg = "none"
  /\ spawned \in BgChoices
  /\ bg = FALSE
  /\ pc = "popen"
  /\ size = 0
  /\ result = <<>>

(* p = Popen(command, shell=True, ...): the shell starts, or Popen raises *)
(* (for instance when no process can be forked) and execute_command       *)
(* raises with it.                                                         *)
Popen ==
  /\ pc = "popen"
  /\ \/ fg' = "running" /\ bg' = spawned /\ pc' = "wait"
     \/ pc' = "raised" /\ UNCHANGED <<fg, bg>>
  /\ UNCHANGED <<content, off, produced, spawned, size, result>>

ForegroundWrite ==
  /\ fg = "running"
  /\ \E b \in Chars : WriteAt(b)
  /\ UNCHANGED <<fg, spawned, bg, pc, size, result>>

ForegroundExit ==
  /\ fg = "running"
  /\ fg' = "exited"
  /\ UNCHANGED <<content, off, produced, spawned, bg, pc, size, result>>

BackgroundWrite ==
  /\ bg
  /\ \E b \in Chars : WriteAt(b)
  /\ UNCHANGED <<fg, spawned, bg, pc, size, result>>

BackgroundExit ==
  /\ bg
  /\ bg' = FALSE
  /\ UNCHANGED <<content, off, produced, fg, spawned, pc, size, result>>

(* Mutation: the call waits for every writer of the output to finish, as *)
(* reading a pipe to end of file (communicate) would.                     *)
WaitForWriters ==
  /\ pc = "wait"
  /\ fg = "exited"
  /\ ~bg
  /\ pc' = "tell"
  /\ UNCHANGED <<content, off, produced, fg, spawned, bg, size, result>>

(* status = p.wait(); the flushes have nothing buffered on this side.     *)
Wait ==
  /\ pc = "wait"
  /\ fg = "exited"
  /\ pc' = "tell"
  /\ UNCHANGED <<content, off, produced, fg, spawned, bg, size, result>>

(* out_size = out_pipe.tell()                                              *)
TellSize ==
  /\ pc = "tell"
  /\ size' = off
  /\ pc' = "seek"
  /\ UNCHANGED <<content, off, produced, fg, spawned, bg, result>>

(* Mutations: the seek keeps one byte too few; the seek is not clamped.   *)
SeekBackOffByOne ==
  /\ pc = "seek"
  /\ off' = MaxOf(size - Limit + 1, 0)
  /\ pc' = "read"
  /\ UNCHANGED <<content, produced, fg, spawned, bg, size, result>>

SeekBackUnclamped ==
  /\ pc = "seek"
  /\ off' = size - Limit
  /\ pc' = "read"
  /\ UNCHANGED <<content, produced, fg, spawned, bg, size, result>>

(* out_pipe.seek(max(out_size-65536, 0), 0)                               *)
SeekBack ==
  /\ pc = "seek"
  /\ off' = MaxOf(size - Limit, 0)
  /\ pc' = "read"
  /\ UNCHANGED <<content, produced, fg, spawned, bg, size, result>>

(* out_buf = out_pipe.read()                                               *)
ReadTail ==
  /\ pc = "read"
  /\ result' = SubSeq(content, off + 1, Len(content))
  /\ off' = Len(content)
  /\ pc' = "done"
  /\ UNCHANGED <<content, produced, fg, spawned, bg, size>>

(* execute_command has returned (or raised) and nothing writes any more.  *)
Returned ==
  /\ pc \in {"done", "raised"}
  /\ ~bg
  /\ UNCHANGED vars

Next ==
  \/ Popen
  \/ ForegroundWrite \/ ForegroundExit
  \/ BackgroundWrite \/ BackgroundExit
  \/ Wait \/ TellSize \/ SeekBack \/ ReadTail
  \/ Returned

Spec == Init /\ [][Next]_vars

(* The script's own steps are weakly fair, and so is the shell's exit:    *)
(* the call is only expected to return for a command that terminates      *)
(* (p.wait() has no timeout).  A writer the command left in the           *)
(* background is not: it may keep the log file open for ever.             *)
ScriptSteps == Popen \/ Wait \/ TellSize \/ SeekBack \/ ReadTail

FairSpec == Spec /\ WF_vars(ScriptSteps) /\ WF_vars(ForegroundExit)

-----------------------------------------------------------------------------
TypeOK ==
  /\ content \in Seq(Bytes)
  /\ off \in 0..MaxBytes
  /\ produced \in Seq(Bytes)
  /\ fg \in {"none", "running", "exited"}
  /\ spawned \in BOOLEAN
  /\ bg \in BOOLEAN
  /\ pc \in {"popen", "wait", "tell", "seek", "read", "done", "raised"}
  /\ size \in 0..MaxBytes
  /\ result \in Seq(Bytes)

(* The reference: the suffix of everything the command produced whose     *)
(* length is the smaller of Limit and the output's length.                *)
LastBytes(n) ==
  CHOOSE s \in {SubSeq(produced, k, Len(produced)) : k \in 1..Len(produced) + 1} :
    Len(s) = IF Len(produced) < n THEN Len(produced) ELSE n

(* The tell/seek/read arithmetic of execute_command returns exactly the   *)
(* last Limit bytes a command that leaves no writer behind wrote,         *)
(* whatever their number.                                                  *)
TailIsLastBytes == pc = "done" /\ ~spawned => result = LastBytes(Limit)

DecodeSucceeds ==
  pc = "done" /\ Utf8Valid(produced) => Utf8Valid(result)

(* execute_command returns (or raises) once the shell it started has      *)
(* exited, even while a background child of the command still holds the   *)
(* log file: p.wait() waits for the shell alone, and the output is read    *)
(* from a file, not from a pipe that stays open while any writer lives.   *)
CallReturns == <>(pc \in {"done", "raised"})
=============================================================================
