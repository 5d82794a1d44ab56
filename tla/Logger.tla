---------------------------------- MODULE Logger --------------------------------
(***************************************************************************)
(* The log file of src/logger.c: threads that write lines to it through    *)
(* one stdio stream and, before each line, cut off the oldest lines of a   *)
(* file that has grown past max_line bytes.  Nothing keeps the threads     *)
(* apart -- the mutex is commented out -- but the stream locks itself for  *)
(* each call.  The process may be killed between any two calls.            *)
(***************************************************************************)
EXTENDS Integers, Sequences, FiniteSets, SequencesExt

CONSTANTS
    Thread,
    Lens,       \* lengths of the lines that are logged, with their '\n'
    default_line,   \* max_line as it is set at first, 81920 in the code
    Bounds,     \* what max_line may be set to, an int
    del_cnt,    \* the bytes to cut off, 1024 in the code
    Level,      \* levels that are logged at, or set as the highest
    MaxLines    \* bound on the lines

(* What a user of the module owes it. *)
LoggerAssumption ==
    /\ IsFiniteSet(Thread) /\ Lens \subseteq Nat \ {0}
    /\ default_line \in Nat /\ Bounds \subseteq Int /\ del_cnt \in Nat
    /\ Level \subseteq 1..5 /\ MaxLines \in Nat

VARIABLES
    file,           \* bytes of the log file: <<line, place in it, is it the '\n'>>
    max_level,      \* levels above it are not logged
    max_line,       \* bytes of the file, in spite of its name
    log_file,       \* the stream is open
    buf,            \* its bytes that are not written yet
    pc, size, cnt,  \* of each thread: where it is, st_size, what remains
    asserted,       \* threads whose assertion has failed: they log that and exit
    lines,          \* lines logged so far
    logged,         \* history: the bytes of the lines, but for those lost in a crash
    top_line,           \* history: the largest max_line so far
    raced,          \* history: the file changed between fstat and ftruncate of a thread
    halved,         \* history: a crash between memmove and ftruncate
    ruined          \* history: a cut of a file that is too short for it

settings == <<max_level, max_line, top_line>>
loggerVars ==
    <<file, log_file, buf, pc, size, cnt, asserted, lines, logged, raced, halved, ruined, settings>>

LoggerInit ==
    /\ file = <<>> /\ log_file = FALSE /\ buf = <<>>
    /\ max_level = 0 /\ max_line = default_line /\ top_line = default_line
    /\ pc = [t \in Thread |-> "idle"]
    /\ size = [t \in Thread |-> 0] /\ cnt = [t \in Thread |-> 0]
    /\ lines = 0 /\ logged = <<>>
    /\ raced = FALSE /\ halved = FALSE /\ ruined = FALSE /\ asserted = {}

LineOf(i, n) == [j \in 1..n |-> <<i, j, j = n>>]

(* t changes the file while another thread relies on its size.                  *)
Changes(t) ==
    raced' = (raced \/ (file' # file /\ \E u \in Thread \ {t} : pc[u] \in {"move", "truncate"}))

(* fflush, and what other calls do of it. *)
Flush == file' = file \o buf /\ buf' = <<>>

Going == ~raced /\ ~halved /\ ~ruined
Go(t, from, to) == Going /\ pc[t] = from /\ pc' = [pc EXCEPT ![t] = to]

--------------------------------------------------------------------------------
DEBUG_LOG == 4

(* vlog_message begins, with a log file, and writeback_file flushes it.  Behind *)
(* a level that it does not accept, the assertion logs that it failed: that is  *)
(* the line then, at ERR_LOG.                                                   *)
vlog_message(t, level) ==
    /\ level <= max_level
    /\ Go(t, "idle", "stat")
    /\ log_file /\ lines < MaxLines
    /\ Flush /\ Changes(t)
    /\ asserted' = IF level > DEBUG_LOG THEN asserted \cup {t} ELSE asserted
    /\ UNCHANGED <<log_file, size, cnt, lines, logged, halved, ruined, settings>>

(* fstat *)
Stat(t) ==
    /\ Go(t, "stat", IF Len(file) <= max_line THEN "write" ELSE "move")
    /\ size' = [size EXCEPT ![t] = Len(file)]
    /\ UNCHANGED <<file, log_file, buf, cnt, asserted, lines, logged, raced, halved, ruined, settings>>

(* Mutant: exactly del_cnt bytes are cut off. *)
HeadAtCount == del_cnt

(* Where what is kept begins: behind the first '\n' that del_cnt bytes precede. *)
HeadAt == del_cnt + SelectInSeq(SubSeq(file, del_cnt + 1, Len(file)), LAMBDA b : b[3])

(* memmove: the end of the file stays as it is behind what is moved. *)
Move(t) ==
    /\ Go(t, "move", "truncate") /\ size[t] > del_cnt
    /\ cnt' = [cnt EXCEPT ![t] = size[t] - HeadAt]
    /\ file' = SubSeq(file, HeadAt + 1, size[t]) \o SubSeq(file, size[t] - HeadAt + 1, Len(file))
    /\ Changes(t)
    /\ UNCHANGED <<log_file, buf, size, asserted, lines, logged, halved, ruined, settings>>

(* In a file of no more than del_cnt bytes the place lies behind the end, and   *)
(* the count to move is negative; of an empty one mmap fails, and so it does    *)
(* for the message that logs this, without end.                                 *)
Ruin(t) ==
    /\ Going /\ pc[t] = "move" /\ size[t] <= del_cnt
    /\ ruined' = TRUE
    /\ UNCHANGED <<file, log_file, buf, pc, size, cnt, asserted, lines, logged, raced, halved, settings>>

Truncate(t) ==
    /\ Go(t, "truncate", "seek")
    /\ file' = SubSeq(file, 1, cnt[t])
    /\ Changes(t)
    /\ UNCHANGED <<log_file, buf, size, cnt, asserted, lines, logged, halved, ruined, settings>>

(* fseek flushes too. *)
Seek(t) ==
    /\ Go(t, "seek", "write")
    /\ Flush /\ Changes(t)
    /\ UNCHANGED <<log_file, size, cnt, asserted, lines, logged, halved, ruined, settings>>

(* fprintf, whose bytes stay in the stream or not: with always_flush_log_file   *)
(* or when they fill the buffer, they do not.  (Lines are not longer than the   *)
(* buffer, and that it fills in the middle of one is left out.)                 *)
Write(t, n, flushed) ==
    /\ Go(t, "write", IF t \in asserted THEN "exit" ELSE "idle")
    /\ lines < MaxLines
    /\ LET line == LineOf(lines + 1, n)
       IN /\ IF flushed THEN file' = file \o buf \o line /\ buf' = <<>>
             ELSE buf' = buf \o line /\ UNCHANGED file
          /\ logged' = logged \o line
    /\ lines' = lines + 1
    /\ size' = [size EXCEPT ![t] = 0] /\ cnt' = [cnt EXCEPT ![t] = 0]
    /\ Changes(t)
    /\ UNCHANGED <<log_file, asserted, halved, ruined, settings>>

--------------------------------------------------------------------------------
(* open_log_file, of the one file or of none, set_max_log_level and              *)
(* set_max_log_line, while no thread is in vlog_message; fclose flushes, and     *)
(* "a+" goes on behind what there is.                                            *)
Quiet == Going /\ \A t \in Thread : pc[t] = "idle"

open_log_file(open) ==
    /\ Quiet /\ (log_file \/ open)
    /\ log_file' = open
    /\ Flush
    /\ UNCHANGED <<pc, size, cnt, asserted, lines, logged, raced, halved, ruined, settings>>

Set(level, line) ==
    /\ Quiet
    /\ max_level' = level /\ max_line' = line
    /\ top_line' = IF line > top_line THEN line ELSE top_line
    /\ UNCHANGED <<file, log_file, buf, pc, size, cnt, asserted, lines, logged, raced, halved, ruined>>

set_max_log_level(level) == Set(level, max_line)
set_max_log_line(line) == Set(max_level, line)

(* The process ends, and starts again later. *)
Ends ==
    /\ halved' = \E t \in Thread : pc[t] = "truncate"
    /\ buf' = <<>> /\ log_file' = FALSE /\ max_level' = 0 /\ max_line' = default_line
    /\ pc' = [t \in Thread |-> "idle"] /\ asserted' = {}
    /\ size' = [t \in Thread |-> 0] /\ cnt' = [t \in Thread |-> 0]
    /\ UNCHANGED <<lines, top_line, ruined>>

(* What the stream still holds is lost. *)
Killed ==
    /\ log_file /\ Going
    /\ Ends
    /\ logged' = SubSeq(logged, 1, Len(logged) - Len(buf))
    /\ UNCHANGED <<file, raced>>

(* _assert: exit(1) flushes the stream. *)
Exit(t) ==
    /\ pc[t] = "exit" /\ Going
    /\ Ends
    /\ file' = file \o buf
    /\ UNCHANGED <<logged, raced>>

LoggerNext ==
    \/ \E t \in Thread :
          \/ \E level \in Level : vlog_message(t, level)
          \/ Stat(t) \/ Move(t) \/ Ruin(t) \/ Truncate(t) \/ Seek(t) \/ Exit(t)
          \/ \E n \in Lens, flushed \in BOOLEAN : Write(t, n, flushed)
    \/ \E open \in BOOLEAN : open_log_file(open)
    \/ \E level \in Level : set_max_log_level(level)
    \/ \E line \in Bounds : set_max_log_line(line)
    \/ Killed

LoggerSpec == LoggerInit /\ [][LoggerNext]_loggerVars

--------------------------------------------------------------------------------
Trimming == \E t \in Thread : pc[t] = "truncate"
Sound == Going /\ ~Trimming

LatestLines ==
    /\ IsSuffix(file \o buf, logged)
    /\ LET gone == Len(logged) - Len(file \o buf) IN gone > 0 => logged[gone][3]

(* A cut is only sure to take del_cnt + 1 bytes.  So the bytes of a line behind  *)
(* that many are not counted; most lines have none.  The heaviest line, of none  *)
(* when there are no lines:                                                      *)
Weight(s) == Cardinality({i \in 1..Len(s) : s[i][2] <= del_cnt + 1})
LineWeights == {IF n <= del_cnt THEN n ELSE del_cnt + 1 : n \in Lens}
Heaviest == {n \in LineWeights : \A m \in LineWeights : m <= n}

SizeBounded ==
    \A n \in Heaviest : Weight(file \o buf) <= top_line + n * Cardinality(Thread)

(* The file, and what is on its way to it, are the latest lines, whole and in   *)
(* their order, also behind a restart; lines are only missing at the front, and *)
(* the whole stays within the largest max_line and a line of each thread, the   *)
(* bytes of long lines not counted.  A max_line from del_cnt on never makes a   *)
(* count negative.  Excepted are a crash between the two steps of a cut, and    *)
(* threads that write to the file, or cut it, while another one is about to cut *)
(* it.                                                                          *)
LogKept ==
    /\ Sound => LatestLines /\ SizeBounded
    /\ ruined => max_line < del_cnt

(* The inductive invariant behind it.  `all` ends in s, and before it a line does.  *)
Byte == Nat \X Nat \X BOOLEAN

Latest(s, all) ==
    /\ Len(s) <= Len(all)
    /\ \A i \in 1..Len(s) : s[i] = all[Len(all) - Len(s) + i]
    /\ Len(s) < Len(all) => all[Len(all) - Len(s)][3]

Whole(s) == s # <<>> => s[Len(s)][3]

(* From the beginning of s on, and from behind each '\n', places count from 1. *)
Lined(s) ==
    \A p \in 0..Len(s) : (p = 0 \/ s[p][3]) => \A i \in 1..Len(s) - p : s[p + i][2] <= i

(* Threads that rely on the size of the file, that have a line to write yet     *)
(* behind their look at the size, and that have written since the last flush.   *)
Cutting(t) == pc[t] \in {"move", "truncate"}
Due == {t \in Thread : pc[t] \in {"seek", "write"}}
Done == {t \in Thread : pc[t] \in {"idle", "exit"}}

(* s, which is the file or will be when it is cut, is as it should be with what *)
(* the stream holds behind it, and has room for `due` lines within `most` bytes. *)
Kept(s, rest, all, due, most) ==
    /\ Whole(s) /\ Lined(s) /\ Latest(s \o rest, all)
    /\ \A n \in Heaviest : Weight(s) + Weight(rest) + n * due <= most + n * Cardinality(Thread)

Alone(t) == \A u \in Thread \ {t} : ~Cutting(u)

(* The size that a thread relies on is that of the file... *)
Measured == \A t \in Thread : Cutting(t) => size[t] = Len(file) /\ max_line < Len(file)

(* ...and what it cuts the file to has room for its own line, too. *)
CutToFit ==
    \A t \in Thread : pc[t] = "truncate" =>
        /\ cnt[t] < Len(file)
        /\ Alone(t) => Kept(SubSeq(file, 1, cnt[t]), buf, logged, Cardinality(Due) + 1, top_line)

LoggerTypeOK ==
    /\ file \in Seq(Byte) /\ buf \in Seq(Byte) /\ logged \in Seq(Byte)
    /\ pc \in [Thread -> {"idle", "stat", "move", "truncate", "seek", "write", "exit"}]
    /\ size \in [Thread -> Nat] /\ cnt \in [Thread -> Nat]
    /\ lines \in Nat
    /\ max_line \in Int /\ top_line \in Nat /\ max_line <= top_line /\ default_line <= top_line

Intact ==
    /\ Whole(file) /\ Whole(buf) /\ Lined(buf)
    /\ Measured
    /\ CutToFit
    /\ ~Trimming => Kept(file, buf, logged, Cardinality(Due), top_line)
    /\ \A n \in Heaviest : Weight(buf) <= n * Cardinality(Done)

LoggerInv ==
    /\ LoggerTypeOK
    /\ Going => Intact
    /\ ruined => max_line < del_cnt

(* logger.c:157 asserts that what is logged has one of the levels up to         *)
(* DEBUG_LOG; logger.h has TRACE_LOG above it.                                  *)
LevelsInRange == asserted = {}
================================================================================
