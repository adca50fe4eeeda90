------------------------------- MODULE LogFollow -------------------------------
(***************************************************************************)
(* The log of one task (runtime/log_buffer.rs) and a terminal that follows *)
(* it (tui/mod.rs): a bounded buffer whose lines are numbered from 1 and   *)
(* start over when it is cleared, and a follower that asks for the lines   *)
(* after the last one it has, one request at a time, while its user moves  *)
(* to other tasks and back.  It starts with the lines that the answer to   *)
(* its Register brought, whose generation it does not know.                *)
(***************************************************************************)
EXTENDS Naturals, SequencesExt

CONSTANTS
    NoSeq,      \* no cursor, no generation, nothing asked
    MaxLines,   \* MAX_LOG_LINES
    SnapshotTail, \* lines of a task in the answer to Register
    CacheLimit, \* LOG_CACHE_LIMIT
    MaxSeq,     \* bound: lines of one generation
    MaxClears   \* bound: times the log is cleared

ASSUME LogBounds ==
    /\ MaxLines \in Nat \ {0} /\ CacheLimit \in Nat \ {0}
    /\ SnapshotTail \in 1..CacheLimit
    /\ MaxSeq \in Nat /\ MaxClears \in Nat /\ NoSeq \notin Nat

VARIABLES
    logGen, logNext,    \* LogBuffer.generation and next_seq
    shown,              \* App.logs: the generation and number of each line
    shownGen, cursor,   \* App.log_generation and last_log_seq
    asked,              \* the request under way, then its reply
    away,               \* another task is selected
    seen,               \* history: generation and next_seq of the last reply shown
    view                \* history: how what is shown came about, see Views

logVars == <<logGen, logNext, shown, shownGen, cursor, asked, away, seen, view>>

\* "whole": nothing is shown, or what is was asked for without a cursor or came with a reset;
\* "snapshot": it began with the snapshot; "blind": so it did, and the first reply that went on
\* with it was of another generation, which the follower could not know;
\* "older": it began with a reply that was asked for with the cursor of a view that is gone.
Views == {"whole", "snapshot", "blind", "older"}

Line(n) == [gen |-> logGen, seq |-> n]
First(next) == IF next > MaxLines THEN next - MaxLines + 1 ELSE 1
LinesAfter(after) == [n \in 1..(logNext - after) |-> Line(after + n)]
LastOf(s, n) == SubSeq(s, Len(s) - Min({n, Len(s)}) + 1, Len(s))

\* LogBuffer::snapshot.  All lines for a reader without a cursor, or with one of another time.
Behind(after) == after > logNext \/ (logNext > 0 /\ after < First(logNext) - 1)

Snapshot(after) ==
    LET behind == after # NoSeq /\ Behind(after)
        from == IF after = NoSeq \/ behind THEN First(logNext) - 1 ELSE after
        \* Lines that were dropped cannot be sent.
        candidates == LinesAfter(Max({from, First(logNext) - 1}))
    IN  [kind |-> "reply", after |-> after, gen |-> logGen, next |-> logNext,
         reset |-> behind \/ (after # NoSeq /\ Len(candidates) > CacheLimit),
         lines |-> LastOf(candidates, CacheLimit)]

LogTypeOK ==
    /\ logGen \in 0..MaxClears /\ logNext \in 0..MaxSeq
    /\ shown \in Seq([gen : 0..MaxClears, seq : 1..MaxSeq]) /\ Len(shown) <= CacheLimit
    /\ shownGen \in 0..MaxClears \cup {NoSeq} /\ cursor \in 1..MaxSeq \cup {NoSeq}
    /\ asked = NoSeq \/ asked.kind \in {"request", "reply"}
    /\ away \in BOOLEAN /\ view \in Views

LastSeq(lines) == IF lines = <<>> THEN NoSeq ELSE Last(lines).seq

\* App::new, of the answer to Register: TaskRuntime::snapshot has no generation.
LogInit ==
    /\ logGen = 0 /\ logNext \in 0..MaxSeq
    /\ shown = LastOf(LinesAfter(First(logNext) - 1), SnapshotTail)
    /\ shownGen = NoSeq /\ cursor = LastSeq(shown)
    /\ asked = NoSeq /\ away = FALSE
    /\ seen = <<0, 0>> /\ view = IF shown = <<>> THEN "whole" ELSE "snapshot"
-----------------------------------------------------------------------------
(* The task's side: its readers push, a restart or a user clears. *)

follower == <<shown, shownGen, cursor, away, seen, view>>

Push == logNext < MaxSeq /\ logNext' = logNext + 1 /\ UNCHANGED <<logGen, asked, follower>>

Clear ==
    /\ logGen < MaxClears /\ logGen' = logGen + 1 /\ logNext' = 0
    /\ UNCHANGED <<asked, follower>>

Answer ==
    /\ asked # NoSeq /\ asked.kind = "request"
    /\ asked' = Snapshot(asked.after)
    /\ UNCHANGED <<logGen, logNext, follower>>
-----------------------------------------------------------------------------
(* The follower's side. *)

Ask ==
    /\ ~away /\ asked = NoSeq
    /\ asked' = [kind |-> "request", after |-> cursor]
    /\ UNCHANGED <<logGen, logNext, follower>>

\* merge_logs.
Replaces_AnyGeneration == asked.reset \/ cursor = NoSeq
Replaces == asked.reset \/ cursor = NoSeq \/ (shownGen # NoSeq /\ shownGen # asked.gen)
Merged == LastOf(IF Replaces THEN asked.lines ELSE shown \o asked.lines, CacheLimit)

\* The reply of a task that is not selected is dropped; the one of a task that was left and
\* selected again is not.
Merge ==
    /\ asked # NoSeq /\ asked.kind = "reply"
    /\ asked' = NoSeq
    /\ IF away THEN UNCHANGED follower
       ELSE /\ shown' = Merged
            /\ shownGen' = asked.gen
            /\ cursor' = LastSeq(Merged)
            /\ seen' = <<asked.gen, asked.next>>
            /\ view' = IF asked.reset \/ asked.after = NoSeq THEN "whole"
                       ELSE IF Replaces THEN "older"
                       ELSE IF shownGen = NoSeq /\ Last(shown).gen # asked.gen THEN "blind"
                       ELSE view
            /\ UNCHANGED away
    /\ UNCHANGED <<logGen, logNext>>

\* The daemon answers with an error, or not within REQUEST_TIMEOUT.
Fails == asked # NoSeq /\ asked' = NoSeq /\ UNCHANGED <<logGen, logNext, follower>>

\* select: reset_logs on the way out and on the way back.
Select ==
    /\ away' = ~away
    /\ shown' = <<>> /\ shownGen' = NoSeq /\ cursor' = NoSeq /\ seen' = <<0, 0>>
    /\ view' = "whole"
    /\ UNCHANGED <<logGen, logNext, asked>>

LogNext == Push \/ Clear \/ Answer \/ Ask \/ Merge \/ Fails \/ Select

LogSpec == LogInit /\ [][LogNext]_logVars
-----------------------------------------------------------------------------
(* Properties. *)

\* What is shown is one stretch of lines: no number twice and none left out in between.  They
\* are lines of one generation, none of a log that was cleared before (snapshot's reset,
\* merge_logs and the one request at a time); but the generation of the snapshot is not known,
\* so if the log is cleared and grows beyond the cursor before the first reply, that reply's
\* lines are shown after those of the cleared log ("blind").  Otherwise the view ends where the
\* log ended at the last reply, and begins as early as the buffers and the snapshot allow,
\* unless the reply had been asked for with the cursor of a view that is gone ("older"): the
\* log was cleared and grew beyond that cursor, or the user left the task and came back.
ShownFollowsTheLog ==
    /\ \A i \in DOMAIN shown : i > 1 =>
          /\ shown[i].seq = shown[i - 1].seq + 1
          /\ view # "blind" => shown[i].gen = shown[i - 1].gen
    /\ view \in {"whole", "snapshot"} /\ shownGen # NoSeq =>
          /\ seen[2] > 0 => shown # <<>> /\ Last(shown) = [gen |-> seen[1], seq |-> seen[2]]
          /\ Len(shown) >= Min({IF view = "whole" THEN CacheLimit ELSE SnapshotTail,
                                seen[2], MaxLines})
=============================================================================
