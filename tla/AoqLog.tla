------------------------------- MODULE AoqLog -------------------------------
(***************************************************************************)
(* The log of -x and the recovery of -r: aoqlog.c with the save timer and  *)
(* the signal handler of aoq-server.c.                                     *)
(*                                                                         *)
(* A request is a line of the log.  It is written in pieces, of which a    *)
(* signal, a full disk or stdio may separate any two; Width pieces make a  *)
(* chunk.  What the queues hold is a function of the lines that were       *)
(* executed (AoqService), so ran, the sequence of these, stands for it: a  *)
(* client's request is its line, a line of the log whatever it holds.      *)
(* The file, stdio's buffer and aoqlog->log are sequences of pieces.       *)
(* The one thread is at pc; kill_signal may interrupt it anywhere and does *)
(* not return.                                                             *)
(***************************************************************************)
EXTENDS Integers, Sequences, SequencesExt

CONSTANTS
  Request,     \* requests that parse_args accepts
  Size,        \* pieces of each request
  Breaks,      \* its pieces that end in a newline, though not the last
  Width,       \* pieces of a chunk
  Threshold,   \* the 100000 bytes below which the timer does not save
  Block,       \* stdio keeps back less than this
  NULL,
  MaxPieces, MaxStarts   \* bounds: of the log, and of starts

ASSUME SizeAssumption == Size \in [Request -> Nat \ {0}]
ASSUME BreaksAssumption == Breaks \in [Request -> SUBSET Nat]
ASSUME WidthAssumption == {Width, Threshold, Block} \subseteq Nat \ {0}
ASSUME NullAssumption == NULL \notin Request

VARIABLES
  pc,          \* what the thread does
  req, copied, \* the request being logged, and how much of it was copied
  log, len,    \* aoqlog->log up to its first NUL, and aoqlog->len
  stdio, file, \* what fprintf was given and write(2) was not; the file
  ran,         \* the lines executed, from the log or from a client
  starts,      \* number of starts
  issued,      \* history: the file as it was opened and what was logged since
  clean,       \* history: nothing has happened that the log does not survive
  kept,        \* history: how the server went down, and what it had run
  was          \* history: what the last recovery ran

vars == <<pc, req, copied, log, len, stdio, file, ran, starts, issued, clean, kept, was>>
disk == <<stdio, file>>
memory == <<req, copied, log, len>>
history == <<issued, clean, kept, was>>

Record(r) == [i \in 1..Size[r] |-> <<r, i>>]
Plain(r) == Breaks[r] = {}
EndsLine(p) == p[2] = Size[p[1]] \/ p[2] \in Breaks[p[1]]

(* MUTANT: the length test takes short requests for torn ones.             *)
BugCommand(line) == IF Len(line) <= 2 THEN <<>> ELSE <<line>>

(* execute_command_line: no line is executed that is shorter than a head,  *)
(* any other is for what it is.                                            *)
Command(line) ==
  IF Len(line) = 1 /\ line[1][2] = 1 /\ Size[line[1][1]] > 1 THEN <<>> ELSE <<line>>

(* recovery_from_aoflog: fgets line by line, the last one may be unfinished. *)
Unread == [line |-> <<>>, done |-> <<>>]

Read(got, p) ==
  IF EndsLine(p)
    THEN [line |-> <<>>, done |-> got.done \o Command(Append(got.line, p))]
    ELSE [line |-> Append(got.line, p), done |-> got.done]

Reading(f) ==
  LET got[n \in 0..Len(f)] == IF n = 0 THEN Unread ELSE Read(got[n - 1], f[n])
  IN  got[Len(f)]

Replay(f) ==
  LET got == Reading(f)
  IN  IF got.line = <<>> THEN got.done ELSE got.done \o Command(got.line)

Torn(f) == f # <<>> /\ ~EndsLine(f[Len(f)])

Nothing == [how |-> "none", ran |-> <<>>]

Init ==
  /\ pc = "down"
  /\ req = NULL /\ copied = 0 /\ log = <<>> /\ len = 0
  /\ stdio = <<>> /\ file = <<>>
  /\ ran = <<>> /\ starts = 0
  /\ issued = <<>> /\ clean = TRUE /\ kept = Nothing /\ was = <<>>

-----------------------------------------------------------------------------
(* writeAoqLog: a chunk is copied behind the others, then counted.         *)
CopyPiece(r, i) ==
  /\ log' = Append(log, <<r, i>>)
  /\ issued' = Append(issued, <<r, i>>)
  /\ copied' = i
  /\ pc' = IF i % Width = 0 \/ i = Size[r] THEN "count" ELSE "copy"

Begin(r) ==
  /\ pc = "idle"
  /\ Len(file) + Len(stdio) + Len(log) + Size[r] <= MaxPieces
  /\ req' = r
  /\ CopyPiece(r, 1)
  /\ clean' = (clean /\ Plain(r))
  /\ UNCHANGED <<len, disk, ran, starts, kept, was>>

Copy ==
  /\ pc = "copy"
  /\ CopyPiece(req, copied + 1)
  /\ UNCHANGED <<req, len, disk, ran, starts, clean, kept, was>>

(* MUTANT: the size of the chunk is counted, not what is in it.            *)
BugCount ==
  /\ pc = "count"
  /\ len' = len + Width
  /\ pc' = IF copied = Size[req] THEN "logged" ELSE "copy"
  /\ UNCHANGED <<req, copied, log, disk, ran, starts, history>>

Count ==
  /\ pc = "count"
  /\ len' = Len(log)
  /\ pc' = IF copied = Size[req] THEN "logged" ELSE "copy"
  /\ UNCHANGED <<req, copied, log, disk, ran, starts, history>>

(* Only then does the handler run.                                         *)
Handle ==
  /\ pc = "logged"
  /\ ran' = Append(ran, Record(req))
  /\ pc' = "idle" /\ req' = NULL /\ copied' = 0
  /\ UNCHANGED <<log, len, disk, starts, history>>

-----------------------------------------------------------------------------
(* MUTANT: what stdio holds goes out behind what it is given.              *)
BugWriteOut ==
  LET all == file \o log \o stdio IN
    \E cut \in Len(file)..Len(all) :
      /\ Len(all) - cut < Block
      /\ file' = SubSeq(all, 1, cut)
      /\ stdio' = SubSeq(all, cut + 1, Len(all))

(* saveAoqLog: fprintf, which writes up to the first NUL whatever len is.  *)
WriteOut ==
  LET all == file \o stdio \o log IN
    \E cut \in Len(file)..Len(all) :
      /\ Len(all) - cut < Block
      /\ file' = SubSeq(all, 1, cut)
      /\ stdio' = SubSeq(all, cut + 1, Len(all))

(* fprintf failed after it wrote some of it: the file is closed and opened *)
(* again and the buffer kept.                                              *)
WriteFails ==
  LET all == file \o stdio \o log IN
    /\ Len(all) <= MaxPieces
    /\ \E cut \in Len(file)..Len(all) - 1 : file' = SubSeq(all, 1, cut)
    /\ stdio' = <<>>
    /\ clean' = FALSE

(* MUTANT: a threshold the buffer does not reach.                          *)
BugTimerNeverSaves ==
  /\ pc = "idle"
  /\ len > MaxPieces
  /\ WriteOut
  /\ pc' = "clear"
  /\ UNCHANGED <<memory, ran, starts, history>>

TimerSave ==
  /\ pc = "idle"
  /\ len >= Threshold
  /\ WriteOut
  /\ pc' = "clear"
  /\ UNCHANGED <<memory, ran, starts, history>>

TimerFails ==
  /\ pc = "idle"
  /\ len >= Threshold
  /\ WriteFails
  /\ UNCHANGED <<pc, memory, ran, starts, issued, kept, was>>

(* memset and len = 0.  A signal between the two finds an empty string.    *)
Clear ==
  /\ pc = "clear"
  /\ log' = <<>> /\ len' = 0
  /\ pc' = "idle"
  /\ UNCHANGED <<req, copied, disk, ran, starts, history>>

-----------------------------------------------------------------------------
(* kill_signal.  A record half copied goes out as it is, and what was      *)
(* written and not yet cleared goes out again.  Another signal interrupts  *)
(* the handler as well, up to its last step.                               *)
Orderly == pc \in {"idle", "logged", "close"}

Stopping == pc \in {"sigclear", "close"}

Ran == IF Stopping THEN kept.ran
       ELSE IF req = NULL THEN ran ELSE Append(ran, Record(req))

(* MUTANT: the handler calls saveAoqLog(0).                               *)
BugSignal ==
  /\ pc # "down"
  /\ Len(file) + Len(stdio) + Len(log) <= MaxPieces
  /\ req' = NULL /\ copied' = 0
  /\ \/ len < Threshold /\ pc' = "close" /\ UNCHANGED disk /\ clean' = (clean /\ Orderly)
     \/ len >= Threshold /\ pc' = "sigclear" /\ WriteOut /\ clean' = (clean /\ Orderly)
     \/ len >= Threshold /\ pc' = "close" /\ WriteFails
  /\ kept' = [how |-> IF clean' THEN "stop"
                      ELSE IF clean /\ pc' = "sigclear" THEN "killed" ELSE "none",
              ran |-> Ran]
  /\ UNCHANGED <<log, len, ran, starts, issued, was>>

Signal ==
  /\ pc # "down"
  /\ Len(file) + Len(stdio) + Len(log) <= MaxPieces
  /\ req' = NULL /\ copied' = 0
  /\ \/ len = 0 /\ pc' = "close" /\ UNCHANGED disk /\ clean' = (clean /\ Orderly)
     \/ len > 0 /\ pc' = "sigclear" /\ WriteOut /\ clean' = (clean /\ Orderly)
     \/ len > 0 /\ pc' = "close" /\ WriteFails
  /\ kept' = [how |-> IF clean' THEN "stop"
                      ELSE IF clean /\ pc' = "sigclear" THEN "killed" ELSE "none",
              ran |-> Ran]
  /\ UNCHANGED <<log, len, ran, starts, issued, was>>

SigClear ==
  /\ pc = "sigclear"
  /\ log' = <<>> /\ len' = 0
  /\ pc' = "close"
  /\ UNCHANGED <<req, copied, disk, ran, starts, history>>

(* MUTANT: exit without fclose, as _exit would do.                         *)
BugClose ==
  /\ pc = "close"
  /\ stdio' = <<>>
  /\ UNCHANGED <<file, clean, kept>>
  /\ pc' = "down" /\ log' = <<>> /\ len' = 0 /\ ran' = <<>>
  /\ UNCHANGED <<req, copied, starts, issued, was>>

(* fclose, which may find the disk full, and exit.                         *)
Close ==
  /\ pc = "close"
  /\ stdio' = <<>>
  /\ \/ file' = file \o stdio /\ UNCHANGED <<clean, kept>>
     \/ \E n \in 0..Len(stdio) - 1 :
          /\ file' = file \o SubSeq(stdio, 1, n)
          /\ clean' = FALSE /\ kept' = Nothing
  /\ pc' = "down" /\ log' = <<>> /\ len' = 0 /\ ran' = <<>>
  /\ UNCHANGED <<req, copied, starts, issued, was>>

(* kill -9, or a handler that fails: both buffers are gone.                *)
Crash ==
  /\ pc # "down"
  /\ pc' = "down"
  /\ stdio' = <<>> /\ log' = <<>> /\ len' = 0 /\ req' = NULL /\ copied' = 0
  /\ kept' = IF ~clean THEN Nothing
             ELSE [how |-> "crash", ran |-> Ran]
  /\ clean' = FALSE
  /\ ran' = <<>>
  /\ UNCHANGED <<file, starts, issued, was>>

-----------------------------------------------------------------------------
(* initAoqLog opens the file to append, so the history begins anew with    *)
(* what is there.  A line left unfinished will be continued by the next.   *)
Open ==
  /\ pc = "down" /\ pc' = "idle"
  /\ starts < MaxStarts /\ starts' = starts + 1
  /\ issued' = file
  /\ kept' = Nothing
  /\ UNCHANGED <<memory, disk>>

(* MUTANT: the log is opened with "wb+".                                   *)
BugRecover ==
  /\ pc = "down" /\ pc' = "idle"
  /\ starts < MaxStarts /\ starts' = starts + 1
  /\ issued' = <<>> /\ file' = <<>>
  /\ kept' = Nothing
  /\ ran' = Replay(file)
  /\ was' = ran'
  /\ clean' = ~Torn(file)
  /\ UNCHANGED <<memory, stdio>>

Recover ==
  /\ Open
  /\ ran' = Replay(file)
  /\ was' = ran'
  /\ clean' = ~Torn(file)

(* A start without -r leaves the old records in the log.                   *)
StartEmpty ==
  /\ Open
  /\ ran' = <<>>
  /\ clean' = (file = <<>>)
  /\ UNCHANGED was

Next ==
  \/ \E r \in Request : Begin(r)
  \/ Copy \/ Count \/ Handle
  \/ TimerSave \/ TimerFails \/ Clear
  \/ Signal \/ SigClear \/ Close \/ Crash
  \/ Recover \/ StartEmpty

Spec == Init /\ [][Next]_vars

(* The thread goes on with what it has begun; the timer is served between  *)
(* requests, and the disk is not full for ever.                            *)
FairSpec ==
  /\ Spec
  /\ WF_vars(Copy) /\ WF_vars(Count) /\ WF_vars(Handle) /\ WF_vars(Clear)
  /\ WF_vars(SigClear) /\ WF_vars(Close)
  /\ SF_vars(TimerSave)

-----------------------------------------------------------------------------
Piece == UNION {{<<r, i>> : i \in 1..Size[r]} : r \in Request}
Executed == Seq(Piece)

(* The types.  Half a request is in hand exactly while it is being logged  *)
(* or waits for its handler, and no more is counted than was copied.       *)
TypeOK ==
  /\ pc \in {"down", "idle", "copy", "count", "logged", "clear", "sigclear", "close"}
  /\ req \in Request \cup {NULL}
  /\ (req # NULL) = (pc \in {"copy", "count", "logged"})
  /\ IF req = NULL THEN copied = 0 ELSE copied \in 1..Size[req]
  /\ {log, stdio, file, issued} \subseteq Seq(Piece)
  /\ len \in 0..Len(log)
  /\ ran \in Seq(Executed) /\ was \in Seq(Executed)
  /\ starts \in Nat /\ clean \in BOOLEAN
  /\ kept \in [how : {"none", "stop", "killed", "crash"}, ran : Seq(Executed)]

(* The file, stdio's buffer and the log buffer together are the bytes of   *)
(* the requests, each once and in order, across timers, orderly stops and  *)
(* restarts; between fprintf and the clearing the buffer is a copy.        *)
LogExact ==
  clean => issued = IF pc \in {"clear", "sigclear"} THEN file \o stdio
                    ELSE file \o stdio \o log

(* Replaying what has been logged so far would give the state the server   *)
(* is in: a handler and its record are never one without the other between *)
(* two requests.                                                           *)
ReplayIsState ==
  clean /\ pc = "idle" => Replay(file \o stdio \o log) = ran

(* After a stop by a signal that found no request half logged and no save  *)
(* half done, -r brings back everything, with the request that had been    *)
(* logged and not executed.                                                *)
StopKeepsAll ==
  [][Recover /\ kept.how = "stop" => ran' = kept.ran]_vars

(* The help text asks for killall, pkill or kill to stop the server and    *)
(* warns of kill -9 only.  This is what such a stop should mean: whenever  *)
(* the signal comes, recovery gives the requests executed, with or without *)
(* the one in progress.                                                    *)
KillKeepsAll ==
  [][Recover /\ kept.how \in {"stop", "killed"} =>
       ran' \in {kept.ran, SubSeq(kept.ran, 1, Len(kept.ran) - 1)}]_vars

(* A crash costs the last requests and no other: -r brings back some of    *)
(* the first, and then at most the beginning of the next.                  *)
CrashKeepsPrefix ==
  [][Recover /\ kept.how = "crash" =>
       \E n \in 0..Len(kept.ran) :
         \/ ran' = SubSeq(kept.ran, 1, n)
         \/ /\ n < Len(kept.ran)
            /\ \E k \in 1..Len(kept.ran[n + 1]) - 1 :
                 ran' = Append(SubSeq(kept.ran, 1, n), SubSeq(kept.ran[n + 1], 1, k))]_vars

(* Without the last line if it has no end.                                 *)
Settled(lines) ==
  IF lines # <<>> /\ Torn(lines[Len(lines)]) THEN SubSeq(lines, 1, Len(lines) - 1) ELSE lines

(* Whatever happens, also a torn or doubled record, a full disk or starts  *)
(* without -r: what one recovery has brought back every later one does.    *)
(* Only a line without an end, executed as it is, becomes another with the *)
(* record that is written behind it, which is lost.                        *)
RecoveryExtends == [][IsPrefix(Settled(was), was')]_vars

(* A buffer over the threshold does not stay: the timer empties it, unless *)
(* the server goes down first or a callback does not return.               *)
FullBufferIsSaved == (len >= Threshold) ~> (len < Threshold)
=============================================================================
