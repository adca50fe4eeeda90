--------------------------- MODULE Services_proofs ---------------------------
(***************************************************************************)
(* The five parts of a daemon that share no state: what each of them       *)
(* promises, proved of every behaviour of its specification.               *)
(***************************************************************************)
EXTENDS LogFollow, TaskMetrics, Scaling, Access, Notifications,
        TLAPS, SequenceTheorems, FiniteSetTheorems

-------------------------------------------------------------------------------
(* LogFollow. *)

\* The n lines that end with line last, where line k is of generation gens[k].
Generations == [Nat -> Nat]
Stretch(gens, last, n) == [i \in 1..n |-> [gen |-> gens[last - n + i], seq |-> last - n + i]]
Always(gen) == [k \in Nat |-> gen]
Lines == [gen : Nat, seq : Nat]

Reply(r) ==
    /\ r.gen \in Nat /\ r.next \in Nat /\ r.after \in Nat \cup {NoSeq} /\ r.reset \in BOOLEAN
    /\ \E n \in 0..CacheLimit :
         /\ n <= r.next /\ r.lines = Stretch(Always(r.gen), r.next, n)
         /\ IF r.reset \/ r.after = NoSeq THEN n >= Min({CacheLimit, r.next, MaxLines})
            ELSE r.after + n = r.next

\* What ShownFollowsTheLog rests on: a request is made with the cursor, unless the view is gone
\* since; a reply holds the last lines of its log, as many as it must; and so does the view, of
\* the log that the last reply was about.
AskedInv ==
    asked # NoSeq =>
         /\ asked.kind \in {"request", "reply"}
         /\ asked.after \in Nat \cup {NoSeq}
         /\ cursor # NoSeq => asked.after = cursor
         /\ asked.kind = "reply" => Reply(asked)

\* The lines of a view that is not blind are of one generation, once that is known, of the
\* generation of the last reply; until then the view is the snapshot.
OneGeneration(gens) ==
    view # "blind" => \E g \in Nat : gens = Always(g) /\ (shownGen # NoSeq => g = shownGen)
Needed == IF view = "whole" THEN CacheLimit ELSE SnapshotTail
StillTheSnapshot(n) ==
    shownGen = NoSeq => view = "snapshot" /\ n >= Min({SnapshotTail, cursor, MaxLines})
Shows(gens, n) ==
    n <= cursor /\ shown = Stretch(gens, cursor, n) /\ OneGeneration(gens) /\ StillTheSnapshot(n)
ViewInv ==
    /\ cursor = NoSeq => shown = <<>>
    /\ cursor # NoSeq =>
         /\ cursor \in Nat /\ shownGen \in Nat \cup {NoSeq}
         /\ \E gens \in Generations, n \in 1..CacheLimit : Shows(gens, n)
         /\ shownGen # NoSeq => seen = <<shownGen, cursor>>
    /\ view \in {"whole", "snapshot"} /\ shownGen # NoSeq =>
          /\ seen[2] > 0 => cursor # NoSeq
          /\ Len(shown) >= Min({Needed, seen[2], MaxLines})

LogInv ==
    /\ logGen \in Nat /\ logNext \in Nat /\ view \in Views
    /\ AskedInv
    /\ ViewInv

LEMMA MaxOfTwo ==
  ASSUME NEW a \in Int, NEW b \in Int
  PROVE  Max({a, b}) = IF a >= b THEN a ELSE b
<1>1. \E x \in {a, b} : \A y \in {a, b} : x >= y
  OBVIOUS
<1>2. Max({a, b}) \in {a, b} /\ \A y \in {a, b} : Max({a, b}) >= y
  BY <1>1 DEF Max
<1>3. QED
  BY <1>2

LEMMA MinOfTwo ==
  ASSUME NEW a \in Int, NEW b \in Int
  PROVE  Min({a, b}) = IF a <= b THEN a ELSE b
<1>1. \E x \in {a, b} : \A y \in {a, b} : x <= y
  OBVIOUS
<1>2. Min({a, b}) \in {a, b} /\ \A y \in {a, b} : Min({a, b}) <= y
  BY <1>1 DEF Min
<1>3. QED
  BY <1>2

LEMMA MinOfThree ==
  ASSUME NEW a \in Int, NEW b \in Int, NEW c \in Int
  PROVE  /\ Min({a, b, c}) \in {a, b, c} /\ Min({a, b, c}) \in Int
         /\ Min({a, b, c}) <= a /\ Min({a, b, c}) <= b /\ Min({a, b, c}) <= c
<1>1. \E x \in {a, b, c} : \A y \in {a, b, c} : x <= y
  OBVIOUS
<1>2. Min({a, b, c}) \in {a, b, c} /\ \A y \in {a, b, c} : Min({a, b, c}) <= y
  BY <1>1 DEF Min
<1>3. QED
  BY <1>2

LEMMA AlwaysThat ==
  ASSUME NEW gen \in Nat
  PROVE  Always(gen) \in Generations /\ \A k \in Nat : Always(gen)[k] = gen
BY DEF Always, Generations

LEMMA StretchIsASequence ==
  ASSUME NEW gens \in Generations, NEW last \in Nat, NEW n \in 0..last
  PROVE  /\ Stretch(gens, last, n) \in Seq(Lines) /\ Len(Stretch(gens, last, n)) = n
         /\ \A i \in 1..n : Stretch(gens, last, n)[i] = [gen |-> gens[last - n + i], seq |-> last - n + i]
         /\ n = 0 => Stretch(gens, last, n) = <<>>
         /\ n > 0 => Last(Stretch(gens, last, n)) = [gen |-> gens[last], seq |-> last]
<1> DEFINE s == Stretch(gens, last, n)
<1>1. ASSUME NEW i \in 1..n PROVE [gen |-> gens[last - n + i], seq |-> last - n + i] \in Lines
  <2>1. last - n + i \in Nat
    OBVIOUS
  <2>2. gens[last - n + i] \in Nat
    BY <2>1 DEF Generations
  <2>3. QED
    BY <2>1, <2>2 DEF Lines
<1>2. s \in [1..n -> Lines] /\ n \in Nat
  <2> DEFINE e(i) == [gen |-> gens[last - n + i], seq |-> last - n + i]
  <2>1. s = [i \in 1..n |-> e(i)] /\ \A i \in 1..n : e(i) \in Lines
    BY <1>1 DEF Stretch
  <2>. HIDE DEF e, s
  <2>2. QED
    BY <2>1
<1>3. s \in Seq(Lines)
  <2>. HIDE DEF s
  <2>1. s \in UNION {[1..k -> Lines] : k \in Nat}
    BY <1>2, Zenon
  <2>2. QED
    BY <2>1, SeqDef, Zenon
<1>4. Len(s) = n
  <2>1. Len(s) \in Nat /\ DOMAIN s = 1..Len(s)
    BY <1>3, LenProperties
  <2>2. DOMAIN s = 1..n
    BY <1>2
  <2>3. QED
    BY <1>2, <2>1, <2>2
<1>5. \A i \in 1..n : s[i] = [gen |-> gens[last - n + i], seq |-> last - n + i]
  BY DEF Stretch
<1>6. n = 0 => s = <<>>
  BY <1>3, <1>4, EmptySeq
<1>7. n > 0 => Last(s) = [gen |-> gens[last], seq |-> last]
  <2>1. n > 0 => n \in 1..n /\ last - n + n = last
    OBVIOUS
  <2>2. Last(s) = s[n]
    BY <1>4 DEF Last
  <2>3. QED
    BY <1>5, <2>1, <2>2
<1>. HIDE DEF s
<1>8. QED
  BY <1>3, <1>4, <1>5, <1>6, <1>7 DEF s

LEMMA LastOfStretch ==
  ASSUME NEW gens \in Generations, NEW last \in Nat, NEW n \in 0..last, NEW c \in Nat
  PROVE  LastOf(Stretch(gens, last, n), c) = Stretch(gens, last, IF n <= c THEN n ELSE c)
<1> DEFINE s == Stretch(gens, last, n)
           m == IF n <= c THEN n ELSE c
           t == Stretch(gens, last, m)
<1>1. m \in 0..n /\ m \in 0..last /\ m \in Nat /\ n \in Nat /\ n \in Int /\ n - m + 1 \in Int
  OBVIOUS
<1>2. /\ s \in Seq(Lines) /\ Len(s) = n /\ t \in Seq(Lines) /\ Len(t) = m
      /\ \A i \in 1..n : s[i] = [gen |-> gens[last - n + i], seq |-> last - n + i]
      /\ \A i \in 1..m : t[i] = [gen |-> gens[last - m + i], seq |-> last - m + i]
  BY <1>1, StretchIsASequence
<1>3. Min({c, Len(s)}) = m
  <2>1. Min({c, n}) = IF c <= n THEN c ELSE n
    BY <1>1, MinOfTwo
  <2>2. QED
    BY <1>1, <1>2, <2>1
<1>. HIDE DEF s, t, m
<1>4. LastOf(s, c) = SubSeq(s, n - m + 1, n)
  BY <1>2, <1>3 DEF LastOf
<1>5. /\ SubSeq(s, n - m + 1, n) \in Seq(Lines) /\ Len(SubSeq(s, n - m + 1, n)) = m
      /\ \A i \in 1..m : SubSeq(s, n - m + 1, n)[i] = s[n - m + i]
  <2>1. \A i \in n - m + 1..n : s[i] \in Lines
    BY <1>1, <1>2, ElementOfSeq
  <2>2. \A i \in 1..m : n - m + 1 + i - 1 = n - m + i
    BY <1>1
  <2>3. QED
    BY <1>1, <2>1, <2>2, SubSeqProperties
<1>6. ASSUME NEW i \in 1..m PROVE s[n - m + i] = t[i]
  <2>1. n - m + i \in 1..n /\ last - n + (n - m + i) = last - m + i
    BY <1>1
  <2>2. QED
    BY <1>2, <2>1
<1>7. SubSeq(s, n - m + 1, n) = t
  <2>1. \A i \in 1..m : SubSeq(s, n - m + 1, n)[i] = t[i]
    BY <1>5, <1>6
  <2>. DEFINE u == SubSeq(s, n - m + 1, n)
  <2>2. u \in Seq(Lines) /\ t \in Seq(Lines) /\ Len(u) = Len(t) /\ \A i \in 1..Len(u) : u[i] = t[i]
    BY <1>2, <1>5, <2>1
  <2>. HIDE DEF u
  <2>3. u = t
    BY <2>2, SeqEqual
  <2>4. QED
    BY <2>3 DEF u
<1>8. QED
  BY <1>4, <1>7 DEF s, t, m

\* Up to a line as one says, from there on as another does.
Then(before, last, after) == [k \in Nat |-> IF k <= last THEN before[k] ELSE after[k]]

LEMMA ThenIsGenerations ==
  ASSUME NEW before \in Generations, NEW last \in Nat, NEW after \in Generations
  PROVE  /\ Then(before, last, after) \in Generations
         /\ \A k \in Nat : Then(before, last, after)[k] = IF k <= last THEN before[k] ELSE after[k]
         /\ before = after => Then(before, last, after) = after
BY DEF Then, Generations

\* Two sequences, one after the other.
LEMMA Joined ==
  ASSUME NEW S, NEW a \in Seq(S), NEW b \in Seq(S), NEW n, NEW m, Len(a) = n, Len(b) = m
  PROVE  /\ a \o b \in Seq(S) /\ Len(a \o b) = n + m
         /\ \A i \in 1..n + m : (a \o b)[i] = IF i <= n THEN a[i] ELSE b[i - n]
BY ConcatProperties

LEMMA StretchGoesOn ==
  ASSUME NEW before \in Generations, NEW after \in Generations,
         NEW last \in Nat, NEW n \in 0..last, NEW more \in Nat
  PROVE  Stretch(before, last, n) \o Stretch(after, last + more, more)
            = Stretch(Then(before, last, after), last + more, n + more)
<1> DEFINE a == Stretch(before, last, n)
           next == last + more
           gens == Then(before, last, after)
           b == Stretch(after, next, more)
           c == a \o b
           s == Stretch(gens, next, n + more)
<1>1. /\ n \in Nat /\ n + more \in Nat /\ next \in Nat
      /\ more \in 0..next /\ n + more \in 0..next
  OBVIOUS
<1>2. gens \in Generations /\ \A k \in Nat : gens[k] = IF k <= last THEN before[k] ELSE after[k]
  BY ThenIsGenerations
<1>. HIDE DEF gens
<1>3. /\ a \in Seq(Lines) /\ Len(a) = n /\ b \in Seq(Lines) /\ Len(b) = more
      /\ s \in Seq(Lines) /\ Len(s) = n + more
      /\ \A i \in 1..n : a[i] = [gen |-> before[last - n + i], seq |-> last - n + i]
      /\ \A i \in 1..more : b[i] = [gen |-> after[next - more + i], seq |-> next - more + i]
      /\ \A i \in 1..n + more :
            s[i] = [gen |-> gens[next - (n + more) + i], seq |-> next - (n + more) + i]
  BY <1>1, <1>2, StretchIsASequence
<1>. HIDE DEF a, b, c, s
<1>4. /\ c \in Seq(Lines) /\ Len(c) = n + more
      /\ \A i \in 1..n + more : c[i] = IF i <= n THEN a[i] ELSE b[i - n]
  <2>1. a \in Seq(Lines) /\ Len(a) = n /\ b \in Seq(Lines) /\ Len(b) = more
    BY <1>3
  <2>2. QED
    BY <2>1, Joined DEF c
<1>5. ASSUME NEW i \in 1..n + more PROVE c[i] = s[i]
  <2>1. CASE i <= n
    <3>1. i \in 1..n
      BY <1>1, <2>1
    <3>2. c[i] = a[i]
      BY <1>4, <2>1
    <3>3. PICK k \in Nat : k = last - n + i /\ k = next - (n + more) + i /\ k <= last
      BY <1>1, <2>1
    <3>4. a[i] = [gen |-> before[k], seq |-> k] /\ s[i] = [gen |-> gens[k], seq |-> k]
      BY <1>3, <3>1, <3>3
    <3>5. gens[k] = before[k]
      BY <1>2, <3>3
    <3>6. QED
      BY <3>2, <3>4, <3>5
  <2>2. CASE i > n
    <3>1. i - n \in 1..more
      BY <1>1, <2>2
    <3>2. PICK k \in Nat : k = next - more + (i - n) /\ k = next - (n + more) + i /\ ~(k <= last)
      BY <1>1, <2>2
    <3>3. b[i - n] = [gen |-> after[k], seq |-> k]
      BY <1>3, <3>1, <3>2
    <3>4. c[i] = b[i - n]
      BY <1>1, <1>4, <2>2
    <3>5. s[i] = [gen |-> gens[k], seq |-> k]
      BY <1>3, <3>2
    <3>6. gens[k] = after[k]
      BY <1>2, <3>2
    <3>7. QED
      BY <3>3, <3>4, <3>5, <3>6
  <2>3. i <= n \/ i > n
    BY <1>1
  <2>4. QED
    BY <2>1, <2>2, <2>3, Zenon
<1>6. c = s
  BY <1>3, <1>4, <1>5, SeqEqual
<1>7. QED
  BY <1>6 DEF a, b, c, s, gens

LEMMA LinesAfterAreAStretch ==
  ASSUME logNext \in Nat, NEW x \in 0..logNext
  PROVE  LinesAfter(x) = Stretch(Always(logGen), logNext, logNext - x)
<1>1. ASSUME NEW i \in 1..(logNext - x)
      PROVE  Line(x + i) = [gen |-> Always(logGen)[logNext - (logNext - x) + i],
                            seq |-> logNext - (logNext - x) + i]
  <2>1. x + i = logNext - (logNext - x) + i /\ x + i \in Nat
    OBVIOUS
  <2>2. Always(logGen)[x + i] = logGen
    BY <2>1 DEF Always
  <2>3. QED
    BY <2>1, <2>2 DEF Line
<1>2. QED
  BY <1>1 DEF LinesAfter, Stretch

LEMMA SnapshotIsAReply ==
  ASSUME LogInv, NEW after \in Nat \cup {NoSeq}
  PROVE  Reply(Snapshot(after)) /\ Snapshot(after).kind = "reply" /\ Snapshot(after).after = after
<1> DEFINE d == First(logNext) - 1
           behind == after # NoSeq /\ Behind(after)
           from == IF after = NoSeq \/ behind THEN d ELSE after
           x == Max({from, d})
           n == logNext - x
           k == IF n <= CacheLimit THEN n ELSE CacheLimit
           r == Snapshot(after)
<1>1. logGen \in Nat /\ logNext \in Nat /\ CacheLimit \in Nat /\ MaxLines \in Nat
  BY LogBounds DEF LogInv
<1>2. d \in 0..logNext /\ d \in Nat /\ logNext - d = IF logNext > MaxLines THEN MaxLines ELSE logNext
  BY <1>1, LogBounds DEF First
<1>3. /\ x \in 0..logNext
      /\ after = NoSeq \/ behind => x = d
      /\ ~(after = NoSeq \/ behind) => x = after
  <2>1. CASE after = NoSeq \/ behind
    <3>1. from = d
      BY <2>1
    <3>2. Max({d, d}) = d
      BY <1>2, MaxOfTwo
    <3>3. QED
      BY <1>2, <2>1, <3>1, <3>2
  <2>2. CASE ~(after = NoSeq \/ behind)
    <3>1. from = after /\ after \in Nat /\ after <= logNext /\ (logNext > 0 => after >= d)
      BY <1>1, <1>2, <2>2 DEF Behind
    <3>2. after >= d
      BY <1>1, <1>2, <3>1
    <3>3. Max({after, d}) = after
      BY <1>2, <3>1, <3>2, MaxOfTwo
    <3>4. QED
      BY <1>1, <2>2, <3>1, <3>3
  <2>3. QED
    BY <2>1, <2>2
<1>4. n \in 0..logNext /\ n \in Nat /\ k \in 0..CacheLimit /\ k <= logNext
  <2>. HIDE DEF x
  <2>1. QED
    BY <1>1, <1>3
<1>5. LinesAfter(x) = Stretch(Always(logGen), logNext, n) /\ Len(LinesAfter(x)) = n
  <2>1. LinesAfter(x) = Stretch(Always(logGen), logNext, n)
    BY <1>1, <1>3, LinesAfterAreAStretch
  <2>. HIDE DEF n
  <2>2. Len(Stretch(Always(logGen), logNext, n)) = n
    <3>1. Always(logGen) \in Generations /\ n \in 0..logNext
      BY <1>1, <1>4, AlwaysThat
    <3>2. QED
      BY <1>1, <3>1, StretchIsASequence, Zenon
  <2>3. QED
    BY <2>1, <2>2
<1>6. LastOf(LinesAfter(x), CacheLimit) = Stretch(Always(logGen), logNext, k)
  BY <1>1, <1>4, <1>5, AlwaysThat, LastOfStretch
<1>7. /\ r.kind = "reply" /\ r.after = after /\ r.gen = logGen /\ r.next = logNext
      /\ r.reset = (behind \/ (after # NoSeq /\ Len(LinesAfter(x)) > CacheLimit))
      /\ r.lines = LastOf(LinesAfter(x), CacheLimit)
  BY DEF Snapshot
<1>. HIDE DEF r
<1>8. r.reset \in BOOLEAN
  BY <1>7
<1>9. IF r.reset \/ r.after = NoSeq THEN k >= Min({CacheLimit, r.next, MaxLines})
      ELSE r.after + k = r.next
  <2> DEFINE m == Min({CacheLimit, logNext, MaxLines})
  <2>1. m \in Nat /\ m <= CacheLimit /\ m <= logNext /\ m <= MaxLines
    <3>1. /\ m \in {CacheLimit, logNext, MaxLines} /\ m \in Int
          /\ m <= CacheLimit /\ m <= logNext /\ m <= MaxLines
      <4>1. CacheLimit \in Int /\ logNext \in Int /\ MaxLines \in Int
        BY <1>1
      <4>2. QED
        BY <4>1, MinOfThree
    <3>2. QED
      BY <1>1, <3>1
  <2>. HIDE DEF m, x
  <2>2. CASE after = NoSeq \/ behind
    <3>1. n = logNext - d
      BY <1>3, <2>2
    <3>2. k >= m
      BY <1>1, <1>2, <2>1, <3>1
    <3>3. QED
      BY <1>7, <2>2, <3>2 DEF m
  <2>3. CASE ~(after = NoSeq \/ behind) /\ n > CacheLimit
    <3>1. k >= m
      BY <1>1, <1>4, <2>1, <2>3
    <3>2. r.reset
      BY <1>5, <1>7, <2>3
    <3>3. QED
      BY <1>7, <3>1, <3>2 DEF m
  <2>4. CASE ~(after = NoSeq \/ behind) /\ ~(n > CacheLimit)
    <3>1. ~r.reset /\ r.after # NoSeq
      BY <1>5, <1>7, <2>4
    <3>2. k = n /\ x = after /\ after \in Nat
      BY <1>1, <1>3, <1>4, <2>4
    <3>3. after + k = logNext
      BY <1>1, <3>2
    <3>4. QED
      BY <1>7, <3>1, <3>3
  <2>5. QED
    BY <2>2, <2>3, <2>4
<1>10. r.lines = Stretch(Always(r.gen), r.next, k)
  BY <1>6, <1>7
<1>11. Reply(r)
  <2>. HIDE DEF k
  <2>1. QED
    BY <1>1, <1>4, <1>7, <1>8, <1>9, <1>10 DEF Reply
<1>12. QED
  BY <1>7, <1>11 DEF r

LEMMA AnswerStep == ASSUME LogInv, Answer PROVE LogInv'
<1>1. /\ asked # NoSeq /\ asked.kind = "request" /\ asked.after \in Nat \cup {NoSeq}
      /\ asked' = Snapshot(asked.after)
      /\ cursor # NoSeq => asked.after = cursor
      /\ UNCHANGED <<logGen, logNext, shown, shownGen, cursor, away, seen, view>>
  BY DEF Answer, LogInv, AskedInv, follower
<1>2. Reply(asked') /\ asked'.kind = "reply" /\ asked'.after = asked.after
  BY <1>1, SnapshotIsAReply
<1>3. AskedInv'
  BY <1>1, <1>2 DEF AskedInv, Reply
<1>4. ViewInv'
  BY <1>1 DEF LogInv, ViewInv, Shows, OneGeneration, StillTheSnapshot, Needed
<1>5. QED
  BY <1>1, <1>3, <1>4 DEF LogInv

\* After a reply that leaves n lines up to the end of its log in view.
LEMMA NewView ==
  ASSUME LogInv, UNCHANGED <<logGen, logNext>>, asked' = NoSeq,
         NEW gens \in Generations, NEW gen \in Nat, NEW next \in Nat, NEW n \in 0..CacheLimit,
         n <= next, shown' = Stretch(gens, next, n), shownGen' = gen, seen' = <<gen, next>>,
         cursor' = LastSeq(shown'), view' \in Views,
         view' # "blind" => gens = Always(gen),
         view' \in {"whole", "snapshot"} => n >= Min({Needed', next, MaxLines})
  PROVE  LogInv'
<1>1. /\ n \in Nat /\ n \in 0..next /\ CacheLimit \in Nat \ {0} /\ MaxLines \in Nat \ {0}
      /\ SnapshotTail \in Nat \ {0} /\ gen # NoSeq
  BY LogBounds
<1>2. /\ Len(shown') = n /\ (n = 0 => shown' = <<>>)
      /\ n > 0 => Last(shown') = [gen |-> gens[next], seq |-> next]
  BY <1>1, StretchIsASequence, Zenon
<1>3. n > 0 => shown' # <<>>
  BY <1>1, <1>2, EmptySeq
<1>4. CASE n = 0
  <2>1. cursor' = NoSeq /\ shown' = <<>>
    BY <1>2, <1>4 DEF LastSeq
  <2>2. Min({Needed', next, MaxLines}) \in {Needed', next, MaxLines} /\ Needed' # 0
    <3>1. Needed' \in Int /\ next \in Int /\ MaxLines \in Int /\ Needed' # 0
      BY <1>1 DEF Needed
    <3>2. QED
      BY <3>1, MinOfThree
  <2>3. view' \in {"whole", "snapshot"} => next = 0
    <3>1. ASSUME view' \in {"whole", "snapshot"}, next # 0 PROVE FALSE
      <4>1. Min({Needed', next, MaxLines}) \in Nat \ {0}
        BY <1>1, <2>2, <3>1 DEF Needed
      <4>2. QED
        BY <1>4, <3>1, <4>1
    <3>2. QED
      BY <3>1
  <2>4. ViewInv'
    BY <1>2, <2>1, <2>3 DEF ViewInv
  <2>5. AskedInv'
    BY DEF AskedInv
  <2>6. QED
    BY <2>4, <2>5 DEF LogInv
<1>5. CASE n > 0
  <2>1. cursor' = next /\ cursor' # NoSeq
    BY <1>2, <1>3, <1>5, LogBounds DEF LastSeq
  <2>2. n \in 1..CacheLimit /\ Shows(gens, n)'
    BY <1>1, <1>5, <2>1 DEF Shows, OneGeneration, StillTheSnapshot
  <2>3. ViewInv'
    BY <1>1, <1>2, <2>1, <2>2 DEF ViewInv
  <2>4. AskedInv'
    BY DEF AskedInv
  <2>5. QED
    BY <2>3, <2>4 DEF LogInv
<1>6. QED
  BY <1>1, <1>4, <1>5

\* The reply replaces the view: what is shown are its lines.
LEMMA MergeReplaces ==
  ASSUME LogInv, Merge, ~away, Replaces
  PROVE  LogInv'
<1>1. /\ Reply(asked) /\ asked' = NoSeq
      /\ shown' = Merged /\ shownGen' = asked.gen /\ cursor' = LastSeq(Merged)
      /\ seen' = <<asked.gen, asked.next>>
      /\ view' = IF asked.reset \/ asked.after = NoSeq THEN "whole" ELSE "older"
      /\ UNCHANGED <<logGen, logNext>>
  BY DEF Merge, LogInv, AskedInv
<1>2. PICK gen \in Nat, next \in Nat : gen = asked.gen /\ next = asked.next
  BY <1>1 DEF Reply
<1>3. PICK n \in 0..CacheLimit :
         /\ n <= next /\ asked.lines = Stretch(Always(gen), next, n)
         /\ asked.reset \/ asked.after = NoSeq => n >= Min({CacheLimit, next, MaxLines})
  BY <1>1, <1>2 DEF Reply
<1>4. n \in 0..next /\ CacheLimit \in Nat /\ n <= CacheLimit /\ Always(gen) \in Generations
  BY <1>3, LogBounds, AlwaysThat
<1>5. Merged = Stretch(Always(gen), next, n)
  <2>1. Merged = LastOf(Stretch(Always(gen), next, n), CacheLimit)
    BY <1>3 DEF Merged
  <2>2. QED
    BY <1>4, <2>1, LastOfStretch
<1>6. view' \in Views /\ (view' \in {"whole", "snapshot"} => n >= Min({Needed', next, MaxLines}))
  BY <1>1, <1>3 DEF Views, Needed
<1>7. QED
  BY <1>1, <1>2, <1>3, <1>4, <1>5, <1>6, NewView

\* The reply goes on where the view ends.
LEMMA MergeGoesOn ==
  ASSUME LogInv, Merge, ~away, ~Replaces
  PROVE  LogInv'
<1>1. /\ Reply(asked) /\ asked' = NoSeq
      /\ shown' = Merged /\ shownGen' = asked.gen /\ cursor' = LastSeq(Merged)
      /\ seen' = <<asked.gen, asked.next>>
      /\ UNCHANGED <<logGen, logNext>>
      /\ cursor # NoSeq /\ ~asked.reset /\ asked.after = cursor
      /\ view' = IF shownGen = NoSeq /\ Last(shown).gen # asked.gen THEN "blind" ELSE view
      /\ view \in Views
  BY DEF Merge, LogInv, AskedInv, Replaces
<1>2. PICK gen \in Nat, next \in Nat : gen = asked.gen /\ next = asked.next
  BY <1>1 DEF Reply
<1>3. PICK n \in 0..CacheLimit :
         asked.lines = Stretch(Always(gen), next, n) /\ asked.after + n = next
  BY <1>1, <1>2 DEF Reply
<1>4. /\ cursor \in Nat /\ shownGen \in {gen, NoSeq} /\ cursor + n = next /\ gen # NoSeq
      /\ shownGen # NoSeq => seen = <<gen, cursor>>
  BY <1>1, <1>2, <1>3, LogBounds DEF LogInv, ViewInv, Replaces
<1>5. PICK old \in Generations, h \in 1..CacheLimit : Shows(old, h)
  BY <1>1 DEF LogInv, ViewInv
<1>6. h <= cursor /\ shown = Stretch(old, cursor, h) /\ OneGeneration(old) /\ StillTheSnapshot(h)
  BY <1>5 DEF Shows
<1>7. /\ n \in Nat /\ h \in Nat /\ h >= 1 /\ h \in 0..cursor /\ h + n \in 0..next
      /\ CacheLimit \in Nat /\ CacheLimit >= 1 /\ MaxLines \in Nat /\ SnapshotTail \in 1..CacheLimit
  BY <1>4, <1>6, LogBounds
<1>8. Len(shown) = h /\ Last(shown) = [gen |-> old[cursor], seq |-> cursor]
  <2>1. PICK c \in Nat : c = cursor
    BY <1>4
  <2>2. h \in 0..c /\ h > 0
    BY <1>7, <2>1
  <2>3. Len(Stretch(old, c, h)) = h /\ Last(Stretch(old, c, h)) = [gen |-> old[c], seq |-> c]
    BY <2>2, StretchIsASequence
  <2>4. QED
    BY <1>6, <2>1, <2>3
<1> DEFINE k == IF h + n <= CacheLimit THEN h + n ELSE CacheLimit
           gens == Then(old, cursor, Always(gen))
<1>9. gens \in Generations /\ Always(gen) \in Generations /\ (old = Always(gen) => gens = Always(gen))
  BY <1>4, AlwaysThat, ThenIsGenerations
<1>10. Merged = Stretch(gens, next, k)
  <2>1. shown \o asked.lines = Stretch(gens, next, h + n)
    <3>1. PICK c \in Nat : c = cursor
      BY <1>4
    <3>2. n \in Nat /\ h \in 0..c
      BY <1>7, <3>1
    <3>3. Stretch(old, c, h) \o Stretch(Always(gen), c + n, n) = Stretch(Then(old, c, Always(gen)), c + n, h + n)
      BY <1>9, <3>2, StretchGoesOn
    <3>4. QED
      BY <1>3, <1>4, <1>6, <3>1, <3>3
  <2>2. Merged = LastOf(Stretch(gens, next, h + n), CacheLimit)
    BY <2>1 DEF Merged
  <2>. HIDE DEF gens
  <2>3. QED
    BY <1>7, <1>9, <2>2, LastOfStretch
<1>11. k \in 0..CacheLimit /\ k <= next
  BY <1>7
<1>12. ASSUME view' # "blind" PROVE gens = Always(gen)
  <2>1. view # "blind" /\ (shownGen = NoSeq => Last(shown).gen = gen)
    BY <1>1, <1>2, <1>12
  <2>2. PICK g \in Nat : old = Always(g) /\ (shownGen # NoSeq => g = shownGen)
    BY <1>6, <2>1 DEF OneGeneration
  <2>3. Last(shown).gen = g
    BY <1>4, <1>8, <2>2, AlwaysThat
  <2>4. g = gen
    BY <1>4, <2>1, <2>2, <2>3
  <2>5. QED
    BY <1>9, <2>2, <2>4
<1>13. ASSUME view' \in {"whole", "snapshot"} PROVE k >= Min({Needed', next, MaxLines})
  <2>1. view' = view /\ Needed' = Needed /\ Needed \in Nat /\ Needed <= CacheLimit
    BY <1>1, <1>7, <1>13 DEF Needed
  <2>2. h >= Min({Needed, cursor, MaxLines})
    <3>1. CASE shownGen # NoSeq
      <4>1. seen[2] = cursor
        BY <1>4, <3>1
      <4>2. Len(shown) >= Min({Needed, seen[2], MaxLines})
        BY <1>13, <2>1, <3>1 DEF LogInv, ViewInv
      <4>3. QED
        BY <1>8, <4>1, <4>2
    <3>2. CASE shownGen = NoSeq
      BY <1>6, <3>2 DEF StillTheSnapshot, Needed
    <3>3. QED
      BY <3>1, <3>2
  <2>. DEFINE need == Needed
  <2>3. need \in Nat /\ need <= CacheLimit /\ h >= Min({need, cursor, MaxLines})
    BY <2>1, <2>2
  <2>. HIDE DEF need
  <2>4. Min({need, cursor, MaxLines}) \in {need, cursor, MaxLines}
    <3>1. need \in Int /\ cursor \in Int /\ MaxLines \in Int
      BY <1>4, <1>7, <2>3
    <3>2. QED
      BY <3>1, MinOfThree
  <2>5. LET m == Min({need, next, MaxLines})
        IN  m <= need /\ m <= next /\ m <= MaxLines /\ m \in Int
    <3>1. need \in Int /\ next \in Int /\ MaxLines \in Int
      BY <1>7, <2>3
    <3>2. QED
      BY <3>1, MinOfThree
  <2>6. k >= Min({need, next, MaxLines})
    BY <1>4, <1>7, <2>3, <2>4, <2>5
  <2>7. QED
    BY <2>1, <2>6 DEF need
<1>. HIDE DEF k, gens
<1>14. view' \in Views
  BY <1>1 DEF Views
<1>15. QED
  BY <1>1, <1>2, <1>9, <1>10, <1>11, <1>12, <1>13, <1>14, NewView

\* The snapshot that the follower starts with.
LEMMA LogInvInit == ASSUME LogInit PROVE LogInv
<1> DEFINE d == First(logNext) - 1
           n == logNext - d
           m == IF n <= SnapshotTail THEN n ELSE SnapshotTail
<1>1. /\ logGen = 0 /\ logNext \in Nat /\ asked = NoSeq /\ shownGen = NoSeq
      /\ shown = LastOf(LinesAfter(d), SnapshotTail) /\ cursor = LastSeq(shown)
      /\ view = IF shown = <<>> THEN "whole" ELSE "snapshot"
  BY LogBounds DEF LogInit
<1>2. /\ SnapshotTail \in Nat /\ SnapshotTail \in 1..CacheLimit /\ MaxLines \in Nat \ {0}
      /\ CacheLimit \in Nat
  BY LogBounds
<1>3. d \in 0..logNext /\ d \in Nat /\ n = IF logNext > MaxLines THEN MaxLines ELSE logNext
  BY <1>1, <1>2 DEF First
<1>4. Always(0) \in Generations
  BY AlwaysThat
<1>5. LinesAfter(d) = Stretch(Always(0), logNext, n)
  BY <1>1, <1>3, LinesAfterAreAStretch
<1>6. n \in 0..logNext /\ m \in 0..logNext /\ m <= SnapshotTail
  BY <1>1, <1>2, <1>3
<1>7. shown = Stretch(Always(0), logNext, m)
  BY <1>1, <1>2, <1>4, <1>5, <1>6, LastOfStretch
<1>8. m >= Min({SnapshotTail, logNext, MaxLines})
  <2>1. LET x == Min({SnapshotTail, logNext, MaxLines})
        IN  x <= SnapshotTail /\ x <= logNext /\ x <= MaxLines /\ x \in Int
    <3>1. SnapshotTail \in Int /\ logNext \in Int /\ MaxLines \in Int
      BY <1>1, <1>2
    <3>2. QED
      BY <3>1, MinOfThree
  <2>2. QED
    BY <1>1, <1>2, <1>3, <2>1
<1>. HIDE DEF m
<1>9. /\ Len(shown) = m /\ (m = 0 => shown = <<>>)
      /\ m > 0 => Last(shown) = [gen |-> Always(0)[logNext], seq |-> logNext]
  BY <1>1, <1>4, <1>6, <1>7, StretchIsASequence, Zenon
<1>10. AskedInv /\ view \in Views
  BY <1>1 DEF AskedInv, Views
<1>11. CASE m = 0
  BY <1>1, <1>9, <1>10, <1>11 DEF LogInv, ViewInv, LastSeq
<1>12. CASE m > 0
  <2>1. shown # <<>>
    BY <1>6, <1>9, <1>12, EmptySeq
  <2>2. cursor = logNext /\ view = "snapshot"
    BY <1>1, <1>9, <1>12, <2>1 DEF LastSeq
  <2>3. cursor # NoSeq
    BY <1>1, <2>2, LogBounds
  <2>4. OneGeneration(Always(0)) /\ StillTheSnapshot(m)
    BY <1>1, <1>8, <2>2 DEF OneGeneration, StillTheSnapshot
  <2>5. m \in 1..CacheLimit /\ Shows(Always(0), m)
    BY <1>1, <1>2, <1>6, <1>7, <1>12, <2>2, <2>4 DEF Shows
  <2>6. ViewInv
    BY <1>1, <1>4, <2>2, <2>3, <2>5 DEF ViewInv
  <2>7. QED
    BY <1>1, <1>10, <2>6 DEF LogInv
<1>13. QED
  BY <1>6, <1>11, <1>12

LEMMA LogInvariant == LogSpec => []LogInv
<1>1. LogInit => LogInv
  BY LogInvInit
<1>2. LogInv /\ [LogNext]_logVars => LogInv'
  <2>1. ASSUME LogInv, Push \/ Clear \/ UNCHANGED logVars PROVE LogInv'
    <3>1. UNCHANGED <<shown, shownGen, cursor, asked, away, seen, view>>
      BY <2>1 DEF Push, Clear, logVars, follower
    <3>2. logGen' \in Nat /\ logNext' \in Nat
      BY <2>1 DEF LogInv, Push, Clear, logVars
    <3>3. AskedInv'
      BY <2>1, <3>1 DEF LogInv, AskedInv, Reply
    <3>4. ViewInv'
      BY <2>1, <3>1 DEF LogInv, ViewInv, Shows, OneGeneration, StillTheSnapshot, Needed
    <3>5. QED
      BY <2>1, <3>1, <3>2, <3>3, <3>4 DEF LogInv
  <2>2. ASSUME LogInv, Ask \/ Fails PROVE LogInv'
    <3>1. UNCHANGED <<logGen, logNext, shown, shownGen, cursor, away, seen, view>>
      BY <2>2 DEF Ask, Fails, follower
    <3>2. AskedInv'
      <4>1. cursor \in Nat \cup {NoSeq}
        BY <2>2 DEF LogInv, ViewInv
      <4>2. CASE Ask
        BY <3>1, <4>1, <4>2 DEF Ask, AskedInv
      <4>3. CASE Fails
        BY <4>3 DEF Fails, AskedInv
      <4>4. QED
        BY <2>2, <4>2, <4>3
    <3>3. ViewInv'
      BY <2>2, <3>1 DEF LogInv, ViewInv, Shows, OneGeneration, StillTheSnapshot, Needed
    <3>4. QED
      BY <2>2, <3>1, <3>2, <3>3 DEF LogInv
  <2>3. ASSUME LogInv, Merge PROVE LogInv'
    <3>1. CASE away
      <4>1. asked' = NoSeq /\ UNCHANGED <<logGen, logNext, shown, shownGen, cursor, away, seen, view>>
        BY <2>3, <3>1 DEF Merge, follower
      <4>2. AskedInv'
        BY <4>1 DEF AskedInv
      <4>3. ViewInv'
        BY <2>3, <4>1 DEF LogInv, ViewInv, Shows, OneGeneration, StillTheSnapshot, Needed
      <4>4. QED
        BY <2>3, <4>1, <4>2, <4>3 DEF LogInv
    <3>2. QED
      BY <2>3, <3>1, MergeReplaces, MergeGoesOn
  <2>4. ASSUME LogInv, Select PROVE LogInv'
    <3>1. /\ shown' = <<>> /\ shownGen' = NoSeq /\ cursor' = NoSeq /\ seen' = <<0, 0>>
          /\ view' = "whole" /\ UNCHANGED <<logGen, logNext, asked>>
      BY <2>4 DEF Select
    <3>2. AskedInv'
      BY <2>4, <3>1 DEF LogInv, AskedInv, Reply
    <3>3. ViewInv'
      BY <3>1 DEF ViewInv
    <3>4. QED
      BY <2>4, <3>1, <3>2, <3>3 DEF LogInv, Views
  <2>5. QED
    BY <2>1, <2>2, <2>3, <2>4, AnswerStep DEF LogNext
<1>3. QED
  BY <1>1, <1>2, PTL DEF LogSpec

\* The terminal shows one stretch of lines, of one generation unless it began with a snapshot
\* whose log was cleared unseen, up to where the log was at the last reply and as long as the
\* buffers and the snapshot allow (App::new, merge_logs, LogBuffer::snapshot).
THEOREM LogIsFollowed == LogSpec => []ShownFollowsTheLog
<1>1. ASSUME LogInv PROVE ShownFollowsTheLog
  <2>1. CASE cursor = NoSeq
    <3>1. shown = <<>>
      BY <1>1, <2>1 DEF LogInv, ViewInv
    <3>2. QED
      BY <1>1, <2>1, <3>1 DEF LogInv, ViewInv, ShownFollowsTheLog, Needed
  <2>2. CASE cursor # NoSeq
    <3>1. PICK gens \in Generations, n \in 1..CacheLimit :
                n <= cursor /\ shown = Stretch(gens, cursor, n) /\ OneGeneration(gens)
      BY <1>1, <2>2 DEF LogInv, ViewInv, Shows
    <3>2. /\ n \in 0..cursor /\ n > 0 /\ cursor \in Nat
          /\ shownGen # NoSeq => seen = <<shownGen, cursor>>
      BY <1>1, <2>2, <3>1, LogBounds DEF LogInv, ViewInv
    <3>3. /\ shown \in Seq(Lines) /\ Len(shown) = n
          /\ \A i \in 1..n : shown[i] = [gen |-> gens[cursor - n + i], seq |-> cursor - n + i]
          /\ Last(shown) = [gen |-> gens[cursor], seq |-> cursor]
      BY <3>1, <3>2, StretchIsASequence, Zenon
    <3>4. DOMAIN shown = 1..n /\ shown # <<>>
      BY <3>2, <3>3, LenProperties, EmptySeq
    <3>5. view # "blind" => \A k \in Nat : \A l \in Nat : gens[k] = gens[l]
      BY <3>1, AlwaysThat DEF OneGeneration
    <3>6. view # "blind" /\ shownGen # NoSeq => gens[cursor] = shownGen
      BY <3>1, <3>2, AlwaysThat DEF OneGeneration
    <3>7. ASSUME NEW i \in 1..n, i > 1
          PROVE  /\ shown[i].seq = shown[i - 1].seq + 1
                 /\ view # "blind" => shown[i].gen = shown[i - 1].gen
      <4>1. /\ i - 1 \in 1..n /\ cursor - n + (i - 1) + 1 = cursor - n + i
            /\ cursor - n + i \in Nat /\ cursor - n + (i - 1) \in Nat
        BY <3>2, <3>7
      <4>2. shown[i - 1] = [gen |-> gens[cursor - n + (i - 1)], seq |-> cursor - n + (i - 1)]
        BY <3>3, <4>1
      <4>3. shown[i] = [gen |-> gens[cursor - n + i], seq |-> cursor - n + i]
        BY <3>3
      <4>4. view # "blind" => gens[cursor - n + i] = gens[cursor - n + (i - 1)]
        BY <3>5, <4>1
      <4>5. QED
        BY <4>1, <4>2, <4>3, <4>4
    <3>8. view \in {"whole", "snapshot"} /\ shownGen # NoSeq =>
              /\ Len(shown) >= Min({Needed, seen[2], MaxLines})
              /\ Last(shown) = [gen |-> seen[1], seq |-> seen[2]]
      BY <1>1, <3>2, <3>3, <3>6 DEF LogInv, ViewInv
    <3>9. QED
      BY <3>4, <3>7, <3>8 DEF ShownFollowsTheLog, Needed
  <2>3. QED
    BY <2>1, <2>2
<1>2. QED
  BY <1>1, LogInvariant, PTL

-------------------------------------------------------------------------------
(* TaskMetrics. *)

Identity == [pid : Nat, gen : 0..MaxGeneration, hist : 1..MaxHistory + 1, life : 1..MaxLives]
Tags == [hist : 1..MaxHistory + 1, life : 1..MaxLives]
Kept == [running : BOOLEAN, samples : SUBSET Tags, marks : SUBSET Tags]

\* The numbers of the processes of one life of a task.
OfLife(pid, l) == l * (MaxGeneration + 1) <= pid /\ pid < (l + 1) * (MaxGeneration + 1)
Owned(x) == x.pid # 0 => OfLife(x.pid, x.life)

\* What was kept since the last clear of the metrics, if it is of this life of the task.
Between(tag, l, from) == tag.life = l.life => from <= tag.hist /\ tag.hist <= l.hist

\* What ClearedStaysCleared rests on: a process tells its task's life, so an observation that
\* is still current is of the task that is there now; and no tag is of a life to come.
MetricsInv ==
    /\ life \in [MetricTask -> Identity \cup {NoEntry}]
    /\ lives \in [MetricTask -> 0..MaxLives]
    /\ since \in [MetricTask -> 1..MaxHistory + 1]
    /\ kept \in [MetricTask -> Kept \cup {NoEntry}]
    /\ targets \in [MetricTask -> Identity \cup {NoEntry}]
    /\ \A t \in MetricTask :
         /\ life[t] # NoEntry =>
               life[t].life = lives[t] /\ Owned(life[t]) /\ since[t] <= life[t].hist
         /\ targets[t] # NoEntry => Owned(targets[t])
         /\ kept[t] # NoEntry => \A tag \in kept[t].samples \cup kept[t].marks : tag.life <= lives[t]
         /\ sampling = "observed" /\ observed[t] # NoEntry =>
               targets[t] # NoEntry /\ observed[t] = targets[t] /\ targets[t].pid # 0
    /\ ClearedStaysCleared

LEMMA LifeOfProcess ==
  ASSUME NEW l \in Nat, NEW m \in Nat, NEW pid \in Nat, OfLife(pid, l), OfLife(pid, m)
  PROVE  l = m
<1> DEFINE G == MaxGeneration + 1
<1>1. G \in Nat \ {0}
  BY MetricsBounds
<1>2. ASSUME NEW a \in Nat, NEW b \in Nat, a < b, OfLife(pid, a), OfLife(pid, b) PROVE FALSE
  <2>1. (a + 1) * G <= b * G
    <3>. HIDE DEF G
    <3>1. PICK d \in Nat : b = (a + 1) + d
      <4>1. b - (a + 1) \in Nat /\ b = (a + 1) + (b - (a + 1))
        BY <1>2
      <4>2. QED
        BY <4>1
    <3>2. b * G = (a + 1) * G + d * G
      BY <1>1, <3>1
    <3>3. d * G \in Nat /\ (a + 1) * G \in Nat
      BY <1>1
    <3>4. QED
      BY <3>2, <3>3
  <2>2. (a + 1) * G \in Nat /\ b * G \in Nat
    BY <1>1
  <2>3. QED
    BY <1>2, <2>1, <2>2 DEF OfLife
<1>3. QED
  BY <1>2

\* A start gives the task a process of its life.
LEMMA ProcessOfLife ==
  ASSUME MetricsInv, NEW t \in MetricTask, life[t] # NoEntry, life[t].gen < MaxGeneration
  PROVE  Process(t) \in Nat /\ OfLife(Process(t), life[t].life)
<1> DEFINE G == MaxGeneration + 1
           l == life[t].life
           g == life[t].gen
<1>1. life[t] \in Identity
  BY DEF MetricsInv
<1>2. l \in Nat /\ g \in Nat /\ g < G /\ G \in Nat /\ Process(t) = l * G + g
  BY <1>1, MetricsBounds DEF Identity, Process
<1>. HIDE DEF G, l, g
<1>3. l * G \in Nat /\ (l + 1) * G = l * G + G
  BY <1>2
<1>4. Process(t) \in Nat /\ l * G <= Process(t) /\ Process(t) < (l + 1) * G
  BY <1>2, <1>3
<1>5. QED
  BY <1>4 DEF OfLife, G, l

\* Where a start and a restart leave a task, with whichever history.
LEMMA AfterRestart ==
  ASSUME MetricsInv, NEW t \in MetricTask, life[t] # NoEntry, NEW h \in 1..MaxHistory + 1
  PROVE  /\ /\ NotStarted(t, h) \in Identity /\ Owned(NotStarted(t, h))
            /\ NotStarted(t, h).life = life[t].life /\ NotStarted(t, h).hist = h
         /\ life[t].gen < MaxGeneration =>
            /\ Started(t, h) \in Identity /\ Owned(Started(t, h))
            /\ Started(t, h).life = life[t].life /\ Started(t, h).hist = h
<1>1. life[t] \in Identity
  BY DEF MetricsInv
<1>2. NotStarted(t, h) \in Identity /\ Owned(NotStarted(t, h))
      /\ NotStarted(t, h).life = life[t].life /\ NotStarted(t, h).hist = h
  BY <1>1 DEF NotStarted, Identity, Owned
<1>3. ASSUME life[t].gen < MaxGeneration
      PROVE  /\ Started(t, h) \in Identity /\ Owned(Started(t, h))
             /\ Started(t, h).life = life[t].life /\ Started(t, h).hist = h
  <2>1. life[t].gen + 1 \in 0..MaxGeneration
    BY <1>1, <1>3, MetricsBounds DEF Identity
  <2>2. Process(t) \in Nat /\ OfLife(Process(t), life[t].life)
    BY <1>3, ProcessOfLife
  <2>3. QED
    BY <1>1, <2>1, <2>2 DEF Started, Identity, Owned
<1>4. QED
  BY <1>2, <1>3

\* A step that touches one task, and leaves the sampler alone.
Touches(t) ==
    /\ UNCHANGED sampler
    /\ life' = [life EXCEPT ![t] = life'[t]] /\ life'[t] \in Identity \cup {NoEntry}
    /\ lives' = [lives EXCEPT ![t] = lives'[t]] /\ lives'[t] \in 0..MaxLives
    /\ since' = [since EXCEPT ![t] = since'[t]] /\ since'[t] \in 1..MaxHistory + 1
    /\ kept' = [kept EXCEPT ![t] = kept'[t]] /\ kept'[t] \in Kept \cup {NoEntry}

LEMMA OneTask ==
  ASSUME MetricsInv, NEW t \in MetricTask, Touches(t),
         life'[t] # NoEntry =>
             life'[t].life = lives'[t] /\ Owned(life'[t]) /\ since'[t] <= life'[t].hist,
         kept'[t] # NoEntry => \A tag \in kept'[t].samples \cup kept'[t].marks :
             tag.life <= lives'[t] /\ (life'[t] # NoEntry => Between(tag, life'[t], since'[t]))
  PROVE  MetricsInv'
<1>1. /\ life' \in [MetricTask -> Identity \cup {NoEntry}] /\ lives' \in [MetricTask -> 0..MaxLives]
      /\ kept' \in [MetricTask -> Kept \cup {NoEntry}] /\ since' \in [MetricTask -> 1..MaxHistory + 1]
      /\ targets' = targets /\ observed' = observed /\ sampling' = sampling
  BY DEF MetricsInv, sampler, Touches
<1>2. \A u \in MetricTask \ {t} :
          life'[u] = life[u] /\ lives'[u] = lives[u] /\ kept'[u] = kept[u] /\ since'[u] = since[u]
  BY DEF MetricsInv, Touches
<1>3. ASSUME NEW u \in MetricTask
      PROVE  /\ life'[u] # NoEntry =>
                   life'[u].life = lives'[u] /\ Owned(life'[u]) /\ since'[u] <= life'[u].hist
             /\ kept'[u] # NoEntry => \A tag \in kept'[u].samples \cup kept'[u].marks :
                   tag.life <= lives'[u] /\ (life'[u] # NoEntry => Between(tag, life'[u], since'[u]))
  <2>1. CASE u = t
    BY <2>1
  <2>2. CASE u # t
    BY <1>2, <2>2 DEF MetricsInv, ClearedStaysCleared, Between
  <2>3. QED
    BY <2>1, <2>2
<1>4. ClearedStaysCleared'
  BY <1>3 DEF ClearedStaysCleared, Between
<1>5. QED
  BY <1>1, <1>3, <1>4 DEF MetricsInv, Owned, OfLife

\* The tags that are kept of a task are of its life and before.
LEMMA KeptTags ==
  ASSUME MetricsInv, NEW t \in MetricTask
  PROVE  /\ Metrics(t) \in Kept
         /\ \A tag \in Metrics(t).samples \cup Metrics(t).marks :
              /\ tag \in Tags /\ tag.life <= lives[t]
              /\ life[t] # NoEntry => Between(tag, life[t], since[t])
<1>1. CASE kept[t] = NoEntry
  BY <1>1 DEF Metrics, NoMetrics, Kept
<1>2. CASE kept[t] # NoEntry
  <2>1. Metrics(t) = kept[t] /\ kept[t] \in Kept
    BY <1>2 DEF Metrics, MetricsInv
  <2>2. \A tag \in kept[t].samples \cup kept[t].marks : tag \in Tags
    BY <2>1 DEF Kept
  <2>3. QED
    BY <1>2, <2>1, <2>2 DEF MetricsInv, ClearedStaysCleared, Between
<1>3. QED
  BY <1>1, <1>2

LEMMA AddStep == ASSUME MetricsInv, NEW t \in MetricTask, Add(t) PROVE MetricsInv'
<1>1. /\ lives[t] \in 0..MaxLives /\ lives[t] < MaxLives /\ MaxLives \in Nat
      /\ kept[t] \in Kept \cup {NoEntry} /\ MaxHistory \in Nat
  BY MetricsBounds DEF Add, MetricsInv
<1>2. /\ New(t) \in Identity /\ New(t).life = lives[t] + 1 /\ Owned(New(t)) /\ New(t).hist = 1
      /\ lives[t] + 1 \in 0..MaxLives
  BY <1>1, MetricsBounds DEF New, Identity, Owned
<1>3. kept' = [kept EXCEPT ![t] = kept[t]]
  BY DEF Add, MetricsInv
<1>4. kept[t] # NoEntry => \A tag \in kept[t].samples \cup kept[t].marks : tag.life < lives[t] + 1 /\ tag.life \in Nat
  BY <1>1 DEF MetricsInv, Kept, Tags
<1>5. life'[t] = New(t) /\ lives'[t] = lives[t] + 1 /\ kept'[t] = kept[t] /\ since'[t] = 1
  BY DEF Add, MetricsInv
<1>6. Touches(t)
  <2>1. /\ UNCHANGED sampler /\ life' = [life EXCEPT ![t] = life'[t]]
        /\ lives' = [lives EXCEPT ![t] = lives'[t]] /\ since' = [since EXCEPT ![t] = since'[t]]
    BY <1>5 DEF Add
  <2>2. since'[t] \in 1..MaxHistory + 1
    BY <1>1, <1>5
  <2>3. QED
    BY <1>1, <1>2, <1>3, <1>5, <2>1, <2>2 DEF Touches
<1>7. kept'[t] # NoEntry => \A tag \in kept'[t].samples \cup kept'[t].marks :
          tag.life <= lives'[t] /\ tag.life # life'[t].life
  BY <1>1, <1>2, <1>4, <1>5
<1>8. QED
  BY <1>2, <1>5, <1>6, <1>7, OneTask DEF Between

\* A step after which a task's life is the same as it was, and its history no older; if anything
\* of it is kept, then that since the same clear.
LEMMA SameLife ==
  ASSUME MetricsInv, NEW t \in MetricTask, Touches(t), lives'[t] = lives[t],
         life'[t] # NoEntry => /\ life[t] # NoEntry /\ life'[t].life = life[t].life
                               /\ Owned(life'[t]) /\ since'[t] <= life'[t].hist,
         \/ kept'[t] = NoEntry
         \/ /\ kept'[t] = kept[t] /\ since'[t] = since[t]
            /\ life'[t] # NoEntry => life[t].hist <= life'[t].hist
  PROVE  MetricsInv'
<1>1. lives[t] \in 0..MaxLives /\ (life[t] # NoEntry => life[t].life = lives[t])
  BY DEF MetricsInv
<1>2. ASSUME kept'[t] # NoEntry, NEW tag \in kept'[t].samples \cup kept'[t].marks
      PROVE  tag.life <= lives'[t] /\ (life'[t] # NoEntry => Between(tag, life'[t], since'[t]))
  <2>1. kept'[t] = kept[t] /\ kept[t] \in Kept /\ since'[t] = since[t]
    BY <1>2 DEF MetricsInv
  <2>2. tag \in Tags /\ tag.life <= lives[t]
    BY <1>2, <2>1 DEF MetricsInv, Kept
  <2>3. ASSUME life'[t] # NoEntry PROVE Between(tag, life'[t], since'[t])
    <3>1. life[t] # NoEntry /\ life'[t].life = life[t].life /\ life[t].hist <= life'[t].hist
      BY <1>2, <2>3
    <3>2. life[t] \in Identity /\ life'[t] \in Identity
      BY <2>3, <3>1 DEF MetricsInv, Touches
    <3>3. life[t].hist \in Int /\ life'[t].hist \in Int /\ tag.hist \in Int
      BY <2>2, <3>2 DEF Identity, Tags
    <3>4. tag.life = life[t].life => since[t] <= tag.hist /\ tag.hist <= life[t].hist
      BY <1>2, <2>1, <3>1 DEF MetricsInv, ClearedStaysCleared
    <3>5. QED
      BY <2>1, <3>1, <3>3, <3>4 DEF Between
  <2>4. QED
    BY <2>2, <2>3
<1>3. QED
  BY <1>1, <1>2, OneTask

LEMMA DropStep ==
  ASSUME MetricsInv, NEW t \in MetricTask, Drop(t) \/ RemoveMetrics(t) PROVE MetricsInv'
<1>1. CASE Drop(t)
  <2>1. /\ Touches(t) /\ lives'[t] = lives[t] /\ life'[t] = NoEntry /\ kept'[t] = kept[t]
        /\ since'[t] = since[t]
    BY <1>1 DEF Drop, MetricsInv, Touches
  <2>2. QED
    BY <2>1, SameLife
<1>2. CASE RemoveMetrics(t)
  <2>1. /\ Touches(t) /\ lives'[t] = lives[t] /\ life'[t] = life[t] /\ kept'[t] = NoEntry
        /\ since'[t] = since[t]
    BY <1>2 DEF RemoveMetrics, MetricsInv, Touches
  <2>2. life[t] # NoEntry => Owned(life[t]) /\ since[t] <= life[t].hist
    BY DEF MetricsInv
  <2>3. QED
    BY <2>1, <2>2, SameLife
<1>3. QED
  BY <1>1, <1>2

\* A start and an end change the process, a start the generation too.
LEMMA StartStep ==
  ASSUME MetricsInv, NEW t \in MetricTask, StartTask(t) \/ EndTask(t) PROVE MetricsInv'
<1> DEFINE l == life'[t]
<1>1. /\ life[t] # NoEntry /\ life[t] \in Identity /\ Owned(life[t]) /\ life[t].life = lives[t]
      /\ lives' = [lives EXCEPT ![t] = lives[t]] /\ kept' = [kept EXCEPT ![t] = kept[t]]
      /\ lives[t] \in 0..MaxLives /\ kept[t] \in Kept \cup {NoEntry} /\ UNCHANGED sampler
      /\ since' = [since EXCEPT ![t] = since[t]] /\ since[t] \in 1..MaxHistory + 1
      /\ since[t] <= life[t].hist
  BY DEF StartTask, EndTask, MetricsInv
<1>2. /\ life' = [life EXCEPT ![t] = l] /\ l \in Identity /\ Owned(l)
      /\ l.life = life[t].life /\ l.hist = life[t].hist
  <2>1. CASE StartTask(t)
    <3>1. Process(t) \in Nat /\ OfLife(Process(t), life[t].life)
      BY <2>1, ProcessOfLife DEF StartTask
    <3>2. life' = [life EXCEPT ![t] = [life[t] EXCEPT !.pid = Process(t), !.gen = life[t].gen + 1]]
      BY <2>1 DEF StartTask
    <3>3. life[t].gen + 1 \in 0..MaxGeneration
      BY <1>1, <2>1, MetricsBounds DEF StartTask, Identity
    <3>4. QED
      BY <1>1, <3>1, <3>2, <3>3 DEF MetricsInv, Identity, Owned
  <2>2. CASE EndTask(t)
    <3>1. life' = [life EXCEPT ![t] = [life[t] EXCEPT !.pid = 0]]
      BY <2>2 DEF EndTask
    <3>2. QED
      BY <1>1, <3>1 DEF MetricsInv, Identity, Owned
  <2>3. QED
    BY <2>1, <2>2
<1>. HIDE DEF l
<1>3. /\ life'[t] = l /\ lives'[t] = lives[t] /\ kept'[t] = kept[t] /\ since'[t] = since[t]
      /\ Touches(t)
  BY <1>1, <1>2 DEF MetricsInv, Touches
<1>4. life[t].hist <= l.hist
  BY <1>1, <1>2 DEF Identity
<1>5. QED
  BY <1>1, <1>2, <1>3, <1>4, SameLife

LEMMA RestartStep ==
  ASSUME MetricsInv, NEW t \in MetricTask, Restart(t) PROVE MetricsInv'
<1> DEFINE l == Started(t, life[t].hist)
           m == [Metrics(t) EXCEPT !.marks = Metrics(t).marks \cup {Tag(t)}]
<1>1. /\ life[t] # NoEntry /\ life[t].gen < MaxGeneration /\ life[t] \in Identity
      /\ life[t].life = lives[t] /\ lives' = [lives EXCEPT ![t] = lives[t]]
      /\ since' = [since EXCEPT ![t] = since[t]] /\ since[t] \in 1..MaxHistory + 1
      /\ since[t] <= life[t].hist /\ lives[t] \in 0..MaxLives /\ UNCHANGED sampler
  BY DEF Restart, Restartable, MetricsInv
<1>2. life' = [life EXCEPT ![t] = l] /\ kept' = [kept EXCEPT ![t] = m]
  BY DEF Restart
<1>3. l \in Identity /\ Owned(l) /\ l.life = lives[t] /\ l.hist = life[t].hist
  <2>1. life[t].hist \in 1..MaxHistory + 1
    BY <1>1 DEF Identity
  <2>2. QED
    BY <1>1, <2>1, AfterRestart
<1>4. Tag(t) \in Tags /\ Tag(t).life = lives[t] /\ Tag(t).hist = life[t].hist
  BY <1>1 DEF Tag, Tags, Identity
<1>5. m \in Kept /\ m.samples = Metrics(t).samples /\ m.marks = Metrics(t).marks \cup {Tag(t)}
  BY <1>4, KeptTags DEF Kept
<1>6. \A tag \in m.samples \cup m.marks : tag.life <= lives[t] /\ Between(tag, l, since[t])
  <2>1. lives[t] <= lives[t] /\ life[t].hist <= life[t].hist
    BY <1>1 DEF Identity
  <2>2. QED
    BY <1>1, <1>3, <1>4, <1>5, <2>1, KeptTags DEF Between
<1>. HIDE DEF l, m
<1>7. /\ life'[t] = l /\ lives'[t] = lives[t] /\ since'[t] = since[t] /\ kept'[t] = m
      /\ Touches(t)
  BY <1>1, <1>2, <1>3, <1>5 DEF MetricsInv, Touches
<1>8. QED
  BY <1>1, <1>3, <1>6, <1>7, OneTask

\* What clears the history and the metrics starts anew from there.
LEMMA ClearStep ==
  ASSUME MetricsInv, NEW t \in MetricTask, RestartCleared(t) \/ ClearHistory(t) PROVE MetricsInv'
<1> DEFINE l == life'[t]
           h == life[t].hist + 1
<1>1. /\ life[t] # NoEntry /\ life[t] \in Identity /\ Owned(life[t]) /\ life[t].life = lives[t]
      /\ lives' = [lives EXCEPT ![t] = lives[t]] /\ kept' = [kept EXCEPT ![t] = NoEntry]
      /\ since' = [since EXCEPT ![t] = h] /\ lives[t] \in 0..MaxLives /\ UNCHANGED sampler
      /\ h \in 1..MaxHistory + 1 /\ h <= h
  BY MetricsBounds DEF RestartCleared, Restartable, Clearable, ClearHistory, MetricsInv, Identity
<1>2. life' = [life EXCEPT ![t] = l] /\ l \in Identity /\ Owned(l) /\ l.life = life[t].life /\ l.hist = h
  <2>1. CASE RestartCleared(t)
    <3>1. life' = [life EXCEPT ![t] = Started(t, h)] /\ life[t].gen < MaxGeneration
      BY <2>1 DEF RestartCleared, Restartable
    <3>2. life'[t] = Started(t, h)
      BY <3>1 DEF MetricsInv
    <3>. HIDE DEF h
    <3>3. QED
      BY <1>1, <3>1, <3>2, AfterRestart
  <2>2. CASE ClearHistory(t)
    <3>1. life' = [life EXCEPT ![t] = [life[t] EXCEPT !.hist = h]]
      BY <2>2 DEF ClearHistory
    <3>. HIDE DEF h
    <3>2. QED
      BY <1>1, <3>1 DEF MetricsInv, Identity, Owned
  <2>3. QED
    BY <2>1, <2>2
<1>. HIDE DEF l, h
<1>3. /\ life'[t] = l /\ lives'[t] = lives[t] /\ since'[t] = h /\ kept'[t] = NoEntry
      /\ Touches(t)
  BY <1>1, <1>2 DEF MetricsInv, Touches
<1>4. QED
  BY <1>1, <1>2, <1>3, SameLife

\* A restart that fails leaves the metrics, and the history as it was or one further.
LEMMA FailStep ==
  ASSUME MetricsInv, NEW t \in MetricTask, RestartFails(t) \/ RestartClearedFails(t)
  PROVE  MetricsInv'
<1>1. /\ life[t] # NoEntry /\ life[t] \in Identity /\ life[t].life = lives[t]
      /\ lives' = [lives EXCEPT ![t] = lives[t]] /\ kept' = [kept EXCEPT ![t] = kept[t]]
      /\ since' = [since EXCEPT ![t] = since[t]] /\ since[t] \in 1..MaxHistory + 1
      /\ since[t] <= life[t].hist /\ lives[t] \in 0..MaxLives /\ kept[t] \in Kept \cup {NoEntry}
      /\ UNCHANGED sampler
  BY DEF RestartFails, RestartClearedFails, Clearable, MetricsInv
<1>2. PICK h \in 1..MaxHistory + 1 :
         /\ life[t].hist <= h
         /\ \/ life' = [life EXCEPT ![t] = NotStarted(t, h)]
            \/ life[t].gen < MaxGeneration /\ life' = [life EXCEPT ![t] = Started(t, h)]
  <2>1. life[t].hist \in 1..MaxHistory + 1 /\ life[t].hist <= life[t].hist
    BY <1>1 DEF Identity
  <2>2. CASE RestartFails(t)
    BY <2>1, <2>2 DEF RestartFails, Restartable
  <2>3. CASE RestartClearedFails(t)
    <3>1. life[t].hist + 1 \in 1..MaxHistory + 1 /\ life[t].hist <= life[t].hist + 1
      BY <2>1, <2>3, MetricsBounds DEF RestartClearedFails, Clearable
    <3>2. QED
      BY <2>3, <3>1 DEF RestartClearedFails, Restartable
  <2>4. QED
    BY <2>2, <2>3
<1>3. PICK l \in Identity : /\ life' = [life EXCEPT ![t] = l] /\ Owned(l)
                            /\ l.life = life[t].life /\ l.hist = h
  BY <1>1, <1>2, AfterRestart
<1>4. /\ life'[t] = l /\ lives'[t] = lives[t] /\ since'[t] = since[t] /\ kept'[t] = kept[t]
      /\ Touches(t)
  BY <1>1, <1>3 DEF MetricsInv, Touches
<1>5. since[t] <= l.hist /\ life[t].hist <= l.hist
  <2>1. life[t].hist \in Int /\ since[t] \in Int /\ h \in Int
    BY <1>1, <1>2 DEF Identity
  <2>2. QED
    BY <1>1, <1>2, <1>3, <2>1
<1>6. QED
  BY <1>1, <1>3, <1>4, <1>5, SameLife

\* What was observed of a task that is still current is of its present life and history.
LEMMA AppliedTags ==
  ASSUME MetricsInv, NEW t \in MetricTask, sampling = "observed", Current(t), t \in Listed
  PROVE  /\ Applied(t) \in Kept
         /\ \A tag \in Applied(t).samples \cup Applied(t).marks :
              tag.life <= lives[t] /\ Between(tag, life[t], since[t])
<1>1. CASE observed[t] = NoEntry
  <2>1. Applied(t) = [Metrics(t) EXCEPT !.running = FALSE]
    BY <1>1 DEF Applied
  <2>2. QED
    BY <2>1, KeptTags DEF Kept, Current
<1>2. CASE observed[t] # NoEntry
  <2> DEFINE new == [hist |-> observed[t].hist, life |-> observed[t].life]
  <2>1. /\ life[t] # NoEntry /\ life[t] \in Identity /\ Owned(life[t]) /\ life[t].life = lives[t]
        /\ targets[t] \in Identity /\ Owned(targets[t]) /\ observed[t] = targets[t]
        /\ targets[t].pid # 0 /\ life[t].pid = targets[t].pid /\ life[t].hist = targets[t].hist
    BY <1>2 DEF MetricsInv, Current
  <2>2. targets[t].life = life[t].life
    <3>1. life[t].life \in Nat /\ targets[t].life \in Nat /\ life[t].pid \in Nat
      BY <2>1 DEF Identity
    <3>2. QED
      BY <2>1, <3>1, LifeOfProcess DEF Owned
  <2>3. new \in Tags /\ new.hist = life[t].hist /\ new.life = life[t].life
    BY <2>1, <2>2 DEF Identity, Tags
  <2>. HIDE DEF new
  <2>4. Applied(t) = [Metrics(t) EXCEPT !.running = TRUE, !.samples = Metrics(t).samples \cup {new}]
    BY <1>2 DEF Applied, new
  <2>5. /\ Applied(t) \in Kept
        /\ Applied(t).samples = Metrics(t).samples \cup {new} /\ Applied(t).marks = Metrics(t).marks
    <3>1. Metrics(t) \in Kept /\ TRUE \in BOOLEAN
      BY KeptTags
    <3>2. QED
      BY <2>3, <2>4, <3>1 DEF Kept
  <2>6. lives[t] <= lives[t] /\ since[t] <= life[t].hist /\ life[t].hist <= life[t].hist
    BY <2>1 DEF MetricsInv, Identity
  <2>7. \A tag \in Applied(t).samples \cup Applied(t).marks :
              tag.life <= lives[t] /\ Between(tag, life[t], since[t])
    BY <2>1, <2>3, <2>5, <2>6, KeptTags DEF Between
  <2>8. QED
    BY <2>5, <2>7
<1>3. QED
  BY <1>1, <1>2

LEMMA RecordStep == ASSUME MetricsInv, Record PROVE MetricsInv'
<1>1. /\ sampling = "observed" /\ sampling' = "asleep"
      /\ life' = life /\ lives' = lives /\ since' = since
      /\ targets' = targets /\ observed' = observed
  BY DEF Record
<1>2. ASSUME NEW t \in MetricTask, kept'[t] # NoEntry
      PROVE  /\ kept'[t] \in Kept
             /\ \A tag \in kept'[t].samples \cup kept'[t].marks :
                  tag.life <= lives[t] /\ (life[t] # NoEntry => Between(tag, life[t], since[t]))
  <2>1. kept'[t] = IF t \notin Listed \/ life[t] = NoEntry THEN NoEntry
                   ELSE IF Current(t) THEN Applied(t) ELSE kept[t]
    BY DEF Record
  <2>2. CASE Current(t) /\ t \in Listed
    BY <1>1, <1>2, <2>1, <2>2, AppliedTags
  <2>3. CASE kept'[t] = kept[t]
    BY <1>2, <2>3 DEF MetricsInv, ClearedStaysCleared, Between
  <2>4. QED
    BY <1>2, <2>1, <2>2, <2>3
<1>3. kept' \in [MetricTask -> Kept \cup {NoEntry}]
  <2>1. kept' = [t \in MetricTask |-> kept'[t]]
    BY DEF Record
  <2>2. QED
    BY <1>2, <2>1
<1>4. ClearedStaysCleared'
  BY <1>1, <1>2 DEF ClearedStaysCleared, Between
<1>5. QED
  BY <1>1, <1>2, <1>3, <1>4 DEF MetricsInv, Owned

LEMMA ListStep == ASSUME MetricsInv, List \/ Observe PROVE MetricsInv'
<1>1. CASE List
  <2>1. kept' = kept \/ kept' = [t \in MetricTask |-> NoEntry]
    BY <1>1 DEF List
  <2>2. kept' \in [MetricTask -> Kept \cup {NoEntry}]
    BY <2>1 DEF MetricsInv
  <2>3. \A t \in MetricTask : kept'[t] # NoEntry => kept'[t] = kept[t]
    BY <2>1
  <2>4. life' = life /\ lives' = lives /\ since' = since /\ targets' = life /\ sampling' # "observed"
    BY <1>1 DEF List
  <2>5. QED
    BY <2>2, <2>3, <2>4 DEF MetricsInv, Owned, ClearedStaysCleared
<1>2. CASE Observe
  <2>1. life' = life /\ lives' = lives /\ since' = since /\ targets' = targets /\ kept' = kept
    BY <1>2 DEF Observe
  <2>2. PICK found \in SUBSET {t \in Listed : Current(t) /\ targets[t].pid # 0} :
            observed' = [t \in MetricTask |-> IF t \in found THEN targets[t] ELSE NoEntry]
    BY <1>2 DEF Observe
  <2>3. \A t \in MetricTask : observed'[t] # NoEntry =>
            targets[t] # NoEntry /\ observed'[t] = targets[t] /\ targets[t].pid # 0
    BY <2>2 DEF Listed
  <2>4. QED
    BY <2>1, <2>3 DEF MetricsInv, Owned, ClearedStaysCleared
<1>3. QED
  BY <1>1, <1>2

\* Metrics that were cleared stay cleared, and none are ahead of the task's history
\* (record_task_metrics_for_targets, daemon/sampler.rs), for any number of tasks, restarts that
\* start them or fail to, removals and registrations while the sampler looks away.
THEOREM ClearedForGood == MetricsSpec => []ClearedStaysCleared
<1>1. MetricsInit => MetricsInv
  BY MetricsBounds DEF MetricsInit, MetricsInv, ClearedStaysCleared
<1>2. ASSUME MetricsInv, [MetricsNext]_metricsVars PROVE MetricsInv'
  <2>1. ASSUME NEW t \in MetricTask,
               \/ Add(t) \/ Drop(t) \/ RemoveMetrics(t) \/ StartTask(t) \/ EndTask(t)
               \/ Restart(t) \/ RestartCleared(t) \/ ClearHistory(t)
               \/ RestartFails(t) \/ RestartClearedFails(t)
        PROVE  MetricsInv'
    BY <1>2, <2>1, AddStep, DropStep, StartStep, RestartStep, ClearStep, FailStep
  <2>2. CASE UNCHANGED metricsVars
    BY <1>2, <2>2 DEF metricsVars, MetricsInv, Owned, ClearedStaysCleared
  <2>3. QED
    BY <1>2, <2>1, <2>2, ListStep, RecordStep DEF MetricsNext
<1>3. MetricsInv => ClearedStaysCleared
  BY DEF MetricsInv
<1>4. QED
  BY <1>1, <1>2, <1>3, PTL DEF MetricsSpec

-------------------------------------------------------------------------------
(* Scaling. *)

PolicyRow == [watch : Watched, enabled : BOOLEAN, last : Nat \cup {Never}]
Entry == [id : Policy, row : PolicyRow]
Action == [at : Nat, recorded : BOOLEAN]
Fetched == [at : Nat, levels : [Policy -> Levels]]

\* A row of a policy has the time of its last action, if that could be recorded.
HasLast(row, action) == action # Never /\ action.recorded => row.last = action.at

\* The last n that were measured of a policy.
LastMeasured(p, n, level) ==
    /\ n <= Len(measured[p])
    /\ \A i \in Len(measured[p]) - n + 1..Len(measured[p]) : measured[p][i] = level

\* What the properties of the evaluator rest on: the rows it goes through, each policy's once, have
\* the time of the last action, if it was recorded, however the table was edited since; a streak is that many last
\* measurements.
ScalingInv ==
    /\ round \in Nat
    /\ policy \in [Policy -> PolicyRow \cup {Never}]
    /\ acted \in [Policy -> Action \cup {Never}]
    /\ above \in [Policy -> Nat] /\ below \in [Policy -> Nat]
    /\ measured \in [Policy -> Seq(Levels)]
    /\ fetched \in [Remote -> Fetched \cup {Never}]
    /\ todo \in Seq(Entry)
    /\ \A p \in Policy : policy[p] # Never => HasLast(policy[p], acted[p])
    /\ \A i \in 1..Len(todo) : HasLast(todo[i].row, acted[todo[i].id])
    /\ \A i, j \in 1..Len(todo) : todo[i].id = todo[j].id => i = j
    /\ \A p \in Policy : LastMeasured(p, above[p], "above") /\ LastMeasured(p, below[p], "below")

\* A round goes through the policies of a set in some order, each once.
LEMMA SomeOrder ==
  ASSUME NEW S, IsFiniteSet(S)
  PROVE  /\ Cardinality(S) \in Nat
         /\ SetToSeq(S) \in [1..Cardinality(S) -> S]
         /\ \A i, j \in 1..Cardinality(S) : SetToSeq(S)[i] = SetToSeq(S)[j] => i = j
<1>1. Cardinality(S) \in Nat /\ ExistsBijection(1..Cardinality(S), S)
  BY FS_CardinalityType
<1>2. PICK f : f \in Bijection(1..Cardinality(S), S)
  BY <1>1 DEF ExistsBijection
<1>3. f \in [1..Cardinality(S) -> S] /\ IsInjective(f)
  BY <1>2 DEF Bijection, Injection, IsInjective
<1>4. SetToSeq(S) \in [1..Cardinality(S) -> S] /\ IsInjective(SetToSeq(S))
  BY <1>3 DEF SetToSeq
<1>5. QED
  BY <1>1, <1>4 DEF IsInjective

LEMMA StartRoundStep == ASSUME ScalingInv, StartRound PROVE ScalingInv'
<1> DEFINE on == {p \in Policy : policy[p] # Never /\ policy[p].enabled}
           n == Cardinality(on)
           order == SetToSeq(on)
           entry(i) == [id |-> order[i], row |-> policy[order[i]]]
<1>1. todo' = [i \in 1..n |-> entry(i)] /\ round' = round + 1
      /\ UNCHANGED <<policy, above, below, measured, acted>>
  BY DEF StartRound
<1>2. on \in SUBSET Policy /\ IsFiniteSet(on)
  BY ScalingBounds, FS_Subset
<1>3. n \in Nat /\ order \in [1..n -> on] /\ \A i, j \in 1..n : order[i] = order[j] => i = j
  BY <1>2, SomeOrder
<1>4. ASSUME NEW i \in 1..n PROVE entry(i) \in Entry /\ HasLast(entry(i).row, acted[entry(i).id])
  <2>1. order[i] \in Policy /\ policy[order[i]] # Never
    BY <1>3
  <2>2. policy[order[i]] \in PolicyRow /\ HasLast(policy[order[i]], acted[order[i]])
    BY <2>1 DEF ScalingInv
  <2>3. QED
    BY <2>1, <2>2 DEF Entry
<1>. HIDE DEF n, order
<1>5. todo' \in [1..n -> Entry]
  BY <1>1, <1>4
<1>6. todo' \in Seq(Entry) /\ Len(todo') = n
  <2>1. todo' \in Seq(Entry)
    BY <1>3, <1>5, SeqDef
  <2>2. DOMAIN todo' = 1..n /\ DOMAIN todo' = 1..Len(todo') /\ Len(todo') \in Nat
    BY <1>5, <2>1, LenProperties
  <2>3. QED
    BY <1>3, <2>1, <2>2
<1>7. /\ \A i \in 1..n : HasLast(todo'[i].row, acted[todo'[i].id])
      /\ \A i, j \in 1..n : todo'[i].id = todo'[j].id => i = j
  BY <1>1, <1>3, <1>4
<1>8. \A p \in Policy : /\ (LastMeasured(p, above[p], "above"))'
                        /\ (LastMeasured(p, below[p], "below"))'
  BY <1>1 DEF ScalingInv, LastMeasured
<1>9. round' \in Nat /\ fetched' = fetched
  BY DEF StartRound, ScalingInv
<1>10. QED
  BY <1>1, <1>6, <1>7, <1>8, <1>9 DEF ScalingInv

\* What is left of a round after its first policy.
LEMMA RestOfTheRound ==
  ASSUME ScalingInv, todo # <<>>, todo' = Tail(todo)
  PROVE  /\ Head(todo) \in Entry /\ HasLast(Head(todo).row, acted[Head(todo).id])
         /\ todo' \in Seq(Entry)
         /\ \A i \in 1..Len(todo') : /\ HasLast(todo'[i].row, acted[todo'[i].id])
                                     /\ todo'[i].id # Head(todo).id /\ todo'[i] \in Entry
         /\ \A i, j \in 1..Len(todo') : todo'[i].id = todo'[j].id => i = j
<1>1. /\ todo \in Seq(Entry) /\ Len(todo) \in Nat \ {0} /\ Head(todo) = todo[1] /\ todo' \in Seq(Entry)
      /\ Len(todo') = Len(todo) - 1 /\ \A i \in 1..Len(todo') : todo'[i] = todo[i + 1]
  BY HeadTailProperties, EmptySeq DEF ScalingInv
<1>2. \A i \in 1..Len(todo') : i + 1 \in 1..Len(todo) /\ i + 1 # 1
  BY <1>1
<1>3. 1 \in 1..Len(todo)
  BY <1>1
<1>4. Head(todo) \in Entry /\ HasLast(Head(todo).row, acted[Head(todo).id])
  BY <1>1, <1>3, ElementOfSeq DEF ScalingInv
<1>5. ASSUME NEW i \in 1..Len(todo')
      PROVE  /\ HasLast(todo'[i].row, acted[todo'[i].id])
             /\ todo'[i].id # Head(todo).id /\ todo'[i] \in Entry
  BY <1>1, <1>2, <1>3, ElementOfSeq DEF ScalingInv
<1>6. ASSUME NEW i \in 1..Len(todo'), NEW j \in 1..Len(todo'), todo'[i].id = todo'[j].id
      PROVE  i = j
  <2>1. i + 1 = j + 1
    BY <1>1, <1>2, <1>6 DEF ScalingInv
  <2>2. QED
    BY <2>1
<1>7. QED
  BY <1>1, <1>4, <1>5, <1>6

\* What an evaluation changes; it acts only on a cooled down policy and a streak.
Evaluated(p, levels) ==
    LET row == Head(todo).row
        level == levels[p]
        out == Above(p, level)
        in == Below(p, level)
    IN  /\ measured' = [measured EXCEPT ![p] = Append(@, level)]
        /\ fetched' \in {fetched, [fetched EXCEPT ![row.watch] = [at |-> round, levels |-> levels]]}
        /\ above'[p] \in {0, out} /\ above' = [above EXCEPT ![p] = above'[p]]
        /\ below'[p] \in {0, in} /\ below' = [below EXCEPT ![p] = below'[p]]
        /\ \/ UNCHANGED <<acted, policy>>
           \/ /\ \E recorded \in BOOLEAN :
                    /\ acted' = [acted EXCEPT ![p] = [at |-> round, recorded |-> recorded]]
                    /\ policy' = IF recorded /\ policy[p] # Never THEN [policy EXCEPT ![p].last = round]
                                 ELSE policy
              /\ CooledDown(row)
              /\ \/ scaled[p] = FALSE /\ out >= Threshold
                 \/ scaled[p] = TRUE /\ in >= Threshold

LEMMA EvaluateDoes ==
  ASSUME ScalingInv, Evaluate
  PROVE  \E levels \in [Policy -> Levels] : Evaluated(Head(todo).id, levels)
<1> DEFINE entry == Head(todo)
           p == entry.id
           w == entry.row.watch
<1>1. PICK levels \in Seen(w) :
         LET level == levels[p]
             out == Above(p, level)
             in == Below(p, level)
             scaleOut == Fires(entry.row, out)
             scaleIn == Fires(entry.row, in)
         IN  /\ fetched' = IF w = "self" \/ Fresh(w) THEN fetched
                           ELSE [fetched EXCEPT ![w] = [at |-> round, levels |-> levels]]
             /\ measured' = [measured EXCEPT ![p] = Append(@, level)]
             /\ above' = [above EXCEPT ![p] = IF scaleOut \/ scaleIn THEN 0 ELSE out]
             /\ below' = [below EXCEPT ![p] = IF scaleOut \/ scaleIn THEN 0 ELSE in]
             /\ IF scaleOut THEN Scale(p, TRUE)
                ELSE IF scaleIn THEN Scale(p, FALSE)
                ELSE UNCHANGED <<acted, policy, scaled>>
  BY DEF Evaluate
<1>. SUFFICES Evaluated(p, levels) /\ levels \in [Policy -> Levels]
  OBVIOUS
<1> DEFINE level == levels[p]
           out == Above(p, level)
           in == Below(p, level)
           scaleOut == Fires(entry.row, out)
           scaleIn == Fires(entry.row, in)
<1>2. p \in Policy /\ todo # <<>>
  BY RestOfTheRound DEF Evaluate, Entry
<1>3. /\ measured' = [measured EXCEPT ![p] = Append(@, level)]
      /\ above' = [above EXCEPT ![p] = IF scaleOut \/ scaleIn THEN 0 ELSE out]
      /\ below' = [below EXCEPT ![p] = IF scaleOut \/ scaleIn THEN 0 ELSE in]
  BY <1>1
<1>4. /\ above'[p] \in {0, out} /\ above' = [above EXCEPT ![p] = above'[p]]
      /\ below'[p] \in {0, in} /\ below' = [below EXCEPT ![p] = below'[p]]
  <2>. HIDE DEF out, in, scaleOut, scaleIn, entry, level
  <2>1. QED
    BY <1>2, <1>3 DEF ScalingInv
<1>5. \/ UNCHANGED <<acted, policy>>
      \/ /\ \E recorded \in BOOLEAN :
               /\ acted' = [acted EXCEPT ![p] = [at |-> round, recorded |-> recorded]]
               /\ policy' = IF recorded /\ policy[p] # Never THEN [policy EXCEPT ![p].last = round]
                            ELSE policy
         /\ CooledDown(entry.row)
         /\ \/ scaled[p] = FALSE /\ out >= Threshold
            \/ scaled[p] = TRUE /\ in >= Threshold
  <2>1. CASE scaleOut
    <3>1. Scale(p, TRUE)
      BY <1>1, <2>1
    <3>2. CooledDown(entry.row) /\ out >= Threshold
      BY <2>1 DEF Fires
    <3>3. QED
      BY <3>1, <3>2 DEF Scale
  <2>2. CASE ~scaleOut /\ scaleIn
    <3>1. Scale(p, FALSE)
      BY <1>1, <2>2
    <3>2. CooledDown(entry.row) /\ in >= Threshold
      BY <2>2 DEF Fires
    <3>3. QED
      BY <3>1, <3>2 DEF Scale
  <2>3. CASE ~scaleOut /\ ~scaleIn
    BY <1>1, <2>3
  <2>4. QED
    BY <2>1, <2>2, <2>3
<1>6. levels \in [Policy -> Levels]
  <2>1. Fresh(w) => fetched[w] \in Fetched
    BY DEF Fresh, ScalingInv
  <2>2. Fresh(w) => fetched[w].levels \in [Policy -> Levels]
    BY <2>1 DEF Fetched
  <2>3. QED
    BY <1>1, <2>2 DEF Seen
<1>7. fetched' \in {fetched, [fetched EXCEPT ![w] = [at |-> round, levels |-> levels]]}
  BY <1>1
<1>8. QED
  BY <1>3, <1>4, <1>5, <1>6, <1>7 DEF Evaluated

\* An evaluation makes a streak one longer or ends it.
LEMMA StreaksAreMeasured ==
  ASSUME ScalingInv, NEW p \in Policy, NEW level \in Levels,
         measured' = [measured EXCEPT ![p] = Append(@, level)],
         NEW q \in Policy, NEW n \in Nat, NEW m \in Nat, NEW of \in Levels,
         LastMeasured(q, n, of),
         IF q = p THEN m = 0 \/ (m = n + 1 /\ level = of) ELSE m = n
  PROVE  (LastMeasured(q, m, of))' /\ (q = p => measured'[q] = Append(measured[q], level))
<1>1. measured \in [Policy -> Seq(Levels)]
  BY DEF ScalingInv
<1>2. CASE q # p
  BY <1>1, <1>2 DEF LastMeasured
<1>3. CASE q = p
  <2> DEFINE l == Len(measured[p])
  <2>1. measured'[p] = Append(measured[p], level) /\ measured[p] \in Seq(Levels)
    BY <1>1
  <2>2. /\ l \in Nat /\ Len(measured'[p]) = l + 1
        /\ \A i \in 1..l : measured'[p][i] = measured[p][i]
        /\ measured'[p][l + 1] = level
    BY <2>1, AppendProperties, LenProperties
  <2>. HIDE DEF l
  <2>3. CASE m = 0
    <3>1. \A i \in (l + 1) - 0 + 1..l + 1 : FALSE
      BY <2>2
    <3>2. QED
      BY <1>3, <2>1, <2>2, <2>3, <3>1 DEF LastMeasured
  <2>4. CASE m = n + 1 /\ level = of
    <3>1. n <= l /\ \A i \in l - n + 1..l : measured[p][i] = of
      BY <1>3 DEF LastMeasured, l
    <3>2. ASSUME NEW i \in (l + 1) - m + 1..l + 1 PROVE measured'[p][i] = of
      <4>1. i = l + 1 \/ (i \in l - n + 1..l /\ i \in 1..l)
        BY <2>2, <2>4, <3>1
      <4>2. QED
        BY <2>2, <2>4, <3>1, <4>1
    <3>3. m <= l + 1
      BY <2>2, <2>4, <3>1
    <3>4. QED
      BY <1>3, <2>1, <2>2, <3>2, <3>3 DEF LastMeasured
  <2>5. QED
    BY <1>3, <2>1, <2>3, <2>4
<1>4. QED
  BY <1>2, <1>3

LEMMA EvaluateStep == ASSUME ScalingInv, Evaluate PROVE ScalingInv'
<1> DEFINE p == Head(todo).id
           w == Head(todo).row.watch
<1>1. PICK levels \in [Policy -> Levels] : Evaluated(p, levels)
  BY EvaluateDoes
<1> DEFINE level == levels[p]
<1>2. /\ todo # <<>> /\ todo' = Tail(todo) /\ round' = round
  BY DEF Evaluate
<1>3. /\ p \in Policy /\ w \in Watched /\ todo' \in Seq(Entry)
      /\ \A i \in 1..Len(todo') : HasLast(todo'[i].row, acted[todo'[i].id]) /\ todo'[i].id # p /\ todo'[i].id \in Policy
      /\ \A i, j \in 1..Len(todo') : todo'[i].id = todo'[j].id => i = j
  BY <1>2, RestOfTheRound DEF Entry, PolicyRow
<1>. HIDE DEF p, w
<1>0. level \in Levels
  BY <1>1, <1>3
<1>4. /\ above[p] \in Nat /\ below[p] \in Nat /\ above'[p] \in Nat /\ below'[p] \in Nat
      /\ above' \in [Policy -> Nat] /\ below' \in [Policy -> Nat]
      /\ above'[p] = 0 \/ (above'[p] = above[p] + 1 /\ level = "above")
      /\ below'[p] = 0 \/ (below'[p] = below[p] + 1 /\ level = "below")
      /\ \A q \in Policy \ {p} : above'[q] = above[q] /\ below'[q] = below[q]
  <2>1. /\ above'[p] \in {0, Above(p, level)} /\ above' = [above EXCEPT ![p] = above'[p]]
        /\ below'[p] \in {0, Below(p, level)} /\ below' = [below EXCEPT ![p] = below'[p]]
    BY <1>1 DEF Evaluated
  <2>2. above \in [Policy -> Nat] /\ below \in [Policy -> Nat]
    BY DEF ScalingInv
  <2>. HIDE DEF level
  <2>3. /\ above'[p] = 0 \/ (above'[p] = above[p] + 1 /\ level = "above")
        /\ below'[p] = 0 \/ (below'[p] = below[p] + 1 /\ level = "below")
    BY <2>1 DEF Above, Below
  <2>4. above[p] \in Nat /\ below[p] \in Nat
    BY <1>3, <2>2
  <2>5. above'[p] \in Nat /\ below'[p] \in Nat
    BY <2>3, <2>4
  <2>6. /\ above' = [above EXCEPT ![p] = above'[p]]
        /\ below' = [below EXCEPT ![p] = below'[p]]
    BY <2>1
  <2>7. QED
    BY <1>3, <2>2, <2>3, <2>4, <2>5, <2>6
<1>5. measured' = [measured EXCEPT ![p] = Append(@, level)]
  BY <1>1 DEF Evaluated
<1>. HIDE DEF level
<1>6. ASSUME NEW q \in Policy
      PROVE  (LastMeasured(q, above[q], "above"))' /\ (LastMeasured(q, below[q], "below"))'
  <2>1. /\ LastMeasured(q, above[q], "above") /\ LastMeasured(q, below[q], "below")
        /\ above[q] \in Nat /\ below[q] \in Nat /\ above'[q] \in Nat /\ below'[q] \in Nat
    BY <1>4 DEF ScalingInv
  <2>2. "above" \in Levels /\ "below" \in Levels
    BY DEF Levels
  <2>3. ASSUME NEW n \in Nat, NEW m \in Nat, NEW of \in Levels, LastMeasured(q, n, of),
               IF q = p THEN m = 0 \/ (m = n + 1 /\ level = of) ELSE m = n
        PROVE  (LastMeasured(q, m, of))'
    BY <1>0, <1>3, <1>5, <2>3, StreaksAreMeasured
  <2>4. IF q = p THEN above'[q] = 0 \/ (above'[q] = above[q] + 1 /\ level = "above")
                 ELSE above'[q] = above[q]
    BY <1>4
  <2>5. IF q = p THEN below'[q] = 0 \/ (below'[q] = below[q] + 1 /\ level = "below")
                 ELSE below'[q] = below[q]
    BY <1>4
  <2>6. PICK m \in Nat : m = above'[q]
    BY <2>1
  <2>7. PICK k \in Nat : k = below'[q]
    BY <2>1
  <2>8. (LastMeasured(q, m, "above"))' /\ (LastMeasured(q, k, "below"))'
    BY <2>1, <2>2, <2>3, <2>4, <2>5, <2>6, <2>7
  <2>9. QED
    BY <2>6, <2>7, <2>8 DEF LastMeasured
<1>7. measured' \in [Policy -> Seq(Levels)]
  BY <1>0, <1>3, <1>5, AppendProperties DEF ScalingInv
<1>8. /\ acted' \in [Policy -> Action \cup {Never}] /\ policy' \in [Policy -> PolicyRow \cup {Never}]
      /\ \A q \in Policy : policy'[q] # Never => HasLast(policy'[q], acted'[q])
      /\ \A q \in Policy \ {p} : acted'[q] = acted[q]
  <2>1. CASE UNCHANGED <<acted, policy>>
    BY <2>1 DEF ScalingInv
  <2>2. ASSUME NEW recorded \in BOOLEAN,
               acted' = [acted EXCEPT ![p] = [at |-> round, recorded |-> recorded]],
               policy' = IF recorded /\ policy[p] # Never THEN [policy EXCEPT ![p].last = round] ELSE policy
        PROVE  /\ acted' \in [Policy -> Action \cup {Never}] /\ policy' \in [Policy -> PolicyRow \cup {Never}]
               /\ \A q \in Policy : policy'[q] # Never => HasLast(policy'[q], acted'[q])
               /\ \A q \in Policy \ {p} : acted'[q] = acted[q]
    <3>1. /\ acted \in [Policy -> Action \cup {Never}] /\ policy \in [Policy -> PolicyRow \cup {Never}]
          /\ round \in Nat /\ \A q \in Policy : policy[q] # Never => HasLast(policy[q], acted[q])
      BY DEF ScalingInv
    <3>2. policy[p] # Never => [policy[p] EXCEPT !.last = round] \in PolicyRow
                               /\ [policy[p] EXCEPT !.last = round].last = round
      BY <1>3, <3>1 DEF PolicyRow
    <3> DEFINE action == [at |-> round, recorded |-> recorded]
    <3>3. action \in Action /\ action.at = round /\ action.recorded = recorded
      BY <3>1 DEF Action
    <3>. HIDE DEF action
    <3>4. /\ acted' \in [Policy -> Action \cup {Never}] /\ acted'[p] = action
          /\ \A q \in Policy \ {p} : acted'[q] = acted[q]
      BY <1>3, <2>2, <3>1, <3>3 DEF action
    <3>5. /\ policy' \in [Policy -> PolicyRow \cup {Never}]
          /\ recorded /\ policy'[p] # Never => policy'[p].last = round
          /\ \A q \in Policy \ {p} : policy'[q] = policy[q]
      BY <1>3, <2>2, <3>1, <3>2
    <3>6. \A q \in Policy : policy'[q] # Never => HasLast(policy'[q], acted'[q])
      BY <3>1, <3>3, <3>4, <3>5 DEF HasLast
    <3>7. QED
      BY <3>4, <3>5, <3>6
  <2>3. QED
    BY <1>1, <2>1, <2>2 DEF Evaluated
<1>9. \A i \in 1..Len(todo') : HasLast(todo'[i].row, acted'[todo'[i].id])
  BY <1>3, <1>8
<1>10. fetched' \in [Remote -> Fetched \cup {Never}]
  <2>1. fetched' \in {fetched, [fetched EXCEPT ![w] = [at |-> round, levels |-> levels]]}
    BY <1>1 DEF Evaluated, w
  <2>2. fetched \in [Remote -> Fetched \cup {Never}] /\ round \in Nat
    BY DEF ScalingInv
  <2>3. [at |-> round, levels |-> levels] \in Fetched
    BY <1>1, <2>2 DEF Fetched
  <2>4. QED
    BY <2>1, <2>2, <2>3
<1>11. QED
  BY <1>2, <1>3, <1>4, <1>6, <1>7, <1>8, <1>9, <1>10 DEF ScalingInv

LEMMA EditStep ==
  ASSUME ScalingInv, NEW p \in Policy, Update(p) \/ Delete(p) \/ Moves(p)
  PROVE  ScalingInv'
<1>1. UNCHANGED <<todo, round, above, below, measured, acted>>
  BY DEF Update, Delete, Moves, evaluator
<1>0. fetched' \in [Remote -> Fetched \cup {Never}]
  <2>1. fetched \in [Remote -> Fetched \cup {Never}]
    BY DEF ScalingInv
  <2>2. CASE Rethink(p)
    <3>1. PICK level \in Levels :
             fetched' = [w \in Remote |-> IF fetched[w] = Never THEN Never
                                          ELSE [fetched[w] EXCEPT !.levels[p] = level]]
      BY <2>2 DEF Rethink
    <3>2. ASSUME NEW w \in Remote, fetched[w] # Never
          PROVE  [fetched[w] EXCEPT !.levels[p] = level] \in Fetched
      BY <2>1, <3>2 DEF Fetched
    <3>3. QED
      BY <3>1, <3>2
  <2>3. QED
    BY <2>1, <2>2 DEF Update, Delete, Moves
<1>2. /\ policy' \in [Policy -> PolicyRow \cup {Never}]
      /\ \A q \in Policy : policy'[q] # Never => HasLast(policy'[q], acted[q])
  <2>1. CASE Update(p)
    <3>1. PICK w \in Watched, on \in BOOLEAN :
             policy' = [policy EXCEPT ![p].watch = w, ![p].enabled = on]
      BY <2>1 DEF Update
    <3>2. policy[p] \in PolicyRow /\ policy \in [Policy -> PolicyRow \cup {Never}] /\ HasLast(policy[p], acted[p])
      BY <2>1 DEF Update, ScalingInv
    <3>3. /\ policy'[p] \in PolicyRow /\ policy'[p].last = policy[p].last
          /\ policy' = [policy EXCEPT ![p] = policy'[p]]
      BY <3>1, <3>2 DEF PolicyRow
    <3>4. QED
      BY <3>2, <3>3 DEF ScalingInv, HasLast
  <2>2. CASE Delete(p)
    BY <2>2 DEF Delete, ScalingInv
  <2>3. CASE Moves(p)
    BY <2>3 DEF Moves, ScalingInv
  <2>4. QED
    BY <2>1, <2>2, <2>3
<1>3. QED
  BY <1>0, <1>1, <1>2 DEF ScalingInv, LastMeasured

LEMMA ScalingInvariant == ScalingSpec => []ScalingInv
<1>1. ScalingInit => ScalingInv
  <2>. SUFFICES ASSUME ScalingInit PROVE ScalingInv
    OBVIOUS
  <2>1. policy \in [Policy -> PolicyRow \cup {Never}] /\ \A p \in Policy : policy[p].last = Never
    <3>1. policy \in [Policy -> {[watch |-> w, enabled |-> TRUE, last |-> Never] : w \in Watched}]
      BY DEF ScalingInit
    <3>2. ASSUME NEW p \in Policy PROVE policy[p] \in PolicyRow /\ policy[p].last = Never
      <4>1. PICK w \in Watched : policy[p] = [watch |-> w, enabled |-> TRUE, last |-> Never]
        <5>1. policy[p] \in {[watch |-> w, enabled |-> TRUE, last |-> Never] : w \in Watched}
          BY <3>1
        <5>2. QED
          BY <5>1
      <4>2. policy[p] \in PolicyRow
        BY <4>1 DEF PolicyRow
      <4>3. QED
        BY <4>1, <4>2
    <3>3. QED
      BY <3>1, <3>2
  <2>2. /\ above \in [Policy -> Nat] /\ below \in [Policy -> Nat]
        /\ \A p \in Policy : above[p] = 0 /\ below[p] = 0 /\ measured[p] = <<>> /\ acted[p] = Never
        /\ acted \in [Policy -> Action \cup {Never}] /\ fetched \in [Remote -> {Never}] /\ round = 0 /\ todo = <<>>
    BY DEF ScalingInit
  <2>3. measured \in [Policy -> Seq(Levels)] /\ todo \in Seq(Entry) /\ Len(todo) = 0
    BY <2>2, EmptySeq DEF ScalingInit
  <2>4. \A p \in Policy : Len(measured[p]) = 0
    BY <2>2, EmptySeq
  <2>5. \A p \in Policy : LastMeasured(p, above[p], "above") /\ LastMeasured(p, below[p], "below")
    BY <2>2, <2>4 DEF LastMeasured
  <2>6. QED
    BY <2>1, <2>2, <2>3, <2>5 DEF ScalingInv, HasLast
<1>2. ScalingInv /\ [ScalingNext]_scalingVars => ScalingInv'
  <2>1. ASSUME ScalingInv, PassOver PROVE ScalingInv'
    <3>1. todo # <<>> /\ todo' = Tail(todo) /\ UNCHANGED <<policy, round, above, below, fetched, measured, acted>>
      BY <2>1 DEF PassOver
    <3>2. QED
      BY <2>1, <3>1, RestOfTheRound DEF ScalingInv, LastMeasured
  <2>2. ASSUME ScalingInv, UNCHANGED scalingVars PROVE ScalingInv'
    BY <2>2 DEF ScalingInv, LastMeasured, scalingVars
  <2>3. QED
    BY <2>1, <2>2, StartRoundStep, EvaluateStep, EditStep DEF ScalingNext
<1>3. QED
  BY <1>1, <1>2, PTL DEF ScalingSpec

\* Only an evaluation acts.
LEMMA OnlyEvaluateActs ==
  ASSUME ScalingInv, [ScalingNext]_scalingVars
  PROVE  acted' = acted \/ Evaluate
BY DEF ScalingNext, Update, Delete, Moves, StartRound, PassOver, evaluator, scalingVars

\* Between two actions of a policy, of which the first could be recorded, lies its cooldown,
\* whatever users do to the policy (CooldownIsKept).
THEOREM CooldownsAreKept == ScalingSpec => CooldownIsKept
<1>1. ASSUME ScalingInv, [ScalingNext]_scalingVars,
             NEW p \in Policy, acted'[p] # acted[p], acted[p] # Never, acted[p].recorded
      PROVE  acted'[p].at - acted[p].at >= Cooldown
  <2>1. Evaluate
    BY <1>1, OnlyEvaluateActs
  <2>2. PICK levels \in [Policy -> Levels] : Evaluated(Head(todo).id, levels)
    BY <1>1, <2>1, EvaluateDoes
  <2>3. Head(todo).id \in Policy /\ HasLast(Head(todo).row, acted[Head(todo).id])
    BY <1>1, <2>1, RestOfTheRound DEF Evaluate, Entry
  <2>4. PICK recorded \in BOOLEAN :
           /\ acted' = [acted EXCEPT ![Head(todo).id] = [at |-> round, recorded |-> recorded]]
           /\ CooledDown(Head(todo).row)
    BY <1>1, <2>2 DEF Evaluated
  <2>5. p = Head(todo).id /\ acted'[p].at = round /\ acted[p].at \in Nat /\ round \in Nat
    BY <1>1, <2>3, <2>4 DEF ScalingInv, Action
  <2>6. Head(todo).row.last = acted[p].at
    BY <1>1, <2>3, <2>5 DEF HasLast
  <2>7. acted[p].at # Never
    BY <2>5, ScalingBounds
  <2>8. QED
    BY <2>4, <2>5, <2>6, <2>7 DEF CooledDown
<1>2. ASSUME ScalingInv, [ScalingNext]_scalingVars
      PROVE  [\A p \in Policy : acted'[p] # acted[p] /\ acted[p] # Never /\ acted[p].recorded =>
                  acted'[p].at - acted[p].at >= Cooldown]_scalingVars
  BY <1>1, <1>2
<1>3. QED
  BY <1>2, ScalingInvariant, PTL DEF ScalingSpec, CooldownIsKept

\* A policy starts a task on Threshold measurements above, and stops it on as many below, all of
\* them its last (ActsOnAStreak).
THEOREM ActionsFollowAStreak == ScalingSpec => ActsOnAStreak
<1>1. ASSUME ScalingInv, ScalingInv', [ScalingNext]_scalingVars, NEW p \in Policy, acted'[p] # acted[p]
      PROVE  LET last == Len(measured'[p])
                 level == IF scaled[p] THEN "below" ELSE "above"
             IN  /\ last >= Threshold
                 /\ \A i \in last - Threshold + 1..last : measured'[p][i] = level
  <2>1. Evaluate
    BY <1>1, OnlyEvaluateActs
  <2>2. PICK levels \in [Policy -> Levels] : Evaluated(Head(todo).id, levels)
    BY <1>1, <2>1, EvaluateDoes
  <2> DEFINE level == levels[Head(todo).id]
  <2>3. Head(todo).id \in Policy
    BY <1>1, <2>1, RestOfTheRound DEF Evaluate, Entry
  <2>4. /\ \E recorded \in BOOLEAN :
              acted' = [acted EXCEPT ![Head(todo).id] = [at |-> round, recorded |-> recorded]]
        /\ measured' = [measured EXCEPT ![Head(todo).id] = Append(@, level)]
        /\ \/ scaled[Head(todo).id] = FALSE /\ Above(Head(todo).id, level) >= Threshold
           \/ scaled[Head(todo).id] = TRUE /\ Below(Head(todo).id, level) >= Threshold
    BY <1>1, <2>2 DEF Evaluated
  <2>5. p = Head(todo).id /\ level \in Levels
    BY <1>1, <2>2, <2>3, <2>4 DEF ScalingInv
  <2>. HIDE DEF level
  <2>6. ASSUME NEW of \in {"above", "below"}, NEW n \in Nat, LastMeasured(p, n, of), level = of, n + 1 >= Threshold
        PROVE  /\ Len(measured'[p]) >= Threshold
               /\ \A i \in Len(measured'[p]) - Threshold + 1..Len(measured'[p]) : measured'[p][i] = of
    <3>1. of \in Levels /\ n + 1 \in Nat
      BY DEF Levels
    <3>2. \A m \in Nat : m = n + 1 => (LastMeasured(p, m, of))'
      BY <1>1, <2>4, <2>5, <2>6, <3>1, StreaksAreMeasured
    <3>3. /\ n + 1 <= Len(measured'[p])
          /\ \A i \in Len(measured'[p]) - (n + 1) + 1..Len(measured'[p]) : measured'[p][i] = of
      BY <3>1, <3>2 DEF LastMeasured
    <3>4. Len(measured'[p]) \in Nat /\ Threshold \in Nat
      BY <1>1, LenProperties, ScalingBounds DEF ScalingInv
    <3>5. QED
      BY <2>6, <3>3, <3>4
  <2>7. CASE scaled[p] = FALSE /\ Above(p, level) >= Threshold
    <3>1. level = "above" /\ above[p] + 1 >= Threshold
      BY <2>7, ScalingBounds DEF Above
    <3>2. above[p] \in Nat /\ LastMeasured(p, above[p], "above")
      BY <1>1 DEF ScalingInv
    <3>3. /\ Len(measured'[p]) >= Threshold
          /\ \A i \in Len(measured'[p]) - Threshold + 1..Len(measured'[p]) : measured'[p][i] = "above"
      BY <2>6, <3>1, <3>2
    <3>4. QED
      BY <2>7, <3>3
  <2>8. CASE scaled[p] = TRUE /\ Below(p, level) >= Threshold
    <3>1. level = "below" /\ below[p] + 1 >= Threshold
      BY <2>8, ScalingBounds DEF Below
    <3>2. below[p] \in Nat /\ LastMeasured(p, below[p], "below")
      BY <1>1 DEF ScalingInv
    <3>3. /\ Len(measured'[p]) >= Threshold
          /\ \A i \in Len(measured'[p]) - Threshold + 1..Len(measured'[p]) : measured'[p][i] = "below"
      BY <2>6, <3>1, <3>2
    <3>4. QED
      BY <2>8, <3>3
  <2>9. QED
    BY <2>4, <2>5, <2>7, <2>8
<1>2. ASSUME ScalingInv, ScalingInv', [ScalingNext]_scalingVars
      PROVE  [\A p \in Policy : acted'[p] # acted[p] =>
                  LET last == Len(measured'[p])
                      level == IF scaled[p] THEN "below" ELSE "above"
                  IN  /\ last >= Threshold
                      /\ \A i \in last - Threshold + 1..last : measured'[p][i] = level]_scalingVars
  BY <1>1, <1>2
<1>3. QED
  BY <1>2, ScalingInvariant, PTL DEF ScalingSpec, ActsOnAStreak

-------------------------------------------------------------------------------
(* Access. *)

Requests == [state : {"none"}] \cup
            [state : {"arrived", "checking", "admitted", "refused"}, by : Bearer]

\* What the two properties of the access key rest on: only a daemon that serves has a request,
\* and one that is on its way and would be let in now has met a moment when it was to be.
AccessInv ==
    /\ auth \in Settings /\ copy \in [{"daemon", "cli"} -> Settings]
    /\ daemon \in Daemons
    /\ request \in Requests
    /\ ~Serving => request.state = "none"
    /\ WouldBe(auth, credential) => excuse
    /\ AdmittedForAReason
    /\ SomeoneCanLogIn

LEMMA WriteSettingsStep == ASSUME AccessInv, WriteSettings PROVE AccessInv'
<1>1. copy.cli \in Settings
  BY DEF AccessInv
<1>2. auth' \in Settings
  <2>1. CASE command \in {"generate", "setKey"}
    BY <2>1, <1>1 DEF WriteSettings, Settings
  <2>2. CASE command \in {"enable", "enableAfterKey"}
    BY <2>2, <1>1 DEF WriteSettings, Written, Settings
  <2>3. CASE command = "disable"
    <3>1. auth' = [enabled |-> FALSE, key |-> NoKey]
      BY <2>3 DEF WriteSettings, Written
    <3>2. QED
      BY <3>1 DEF Settings
  <2>4. QED
    BY <2>1, <2>2, <2>3 DEF WriteSettings
<1>3. SomeoneCanLogIn'
  <2>1. CASE command \in {"generate", "setKey"}
    BY <2>1, <1>1, KeysAreKeys DEF WriteSettings, Settings, SomeoneCanLogIn
  <2>2. CASE command \in {"enable", "enableAfterKey"}
    BY <2>2 DEF WriteSettings, SomeoneCanLogIn
  <2>3. CASE command = "disable"
    BY <2>3 DEF WriteSettings, Written, SomeoneCanLogIn
  <2>4. QED
    BY <2>1, <2>2, <2>3 DEF WriteSettings
<1>4. /\ (WouldBe(auth, credential))' => excuse'
      /\ AdmittedForAReason'
  BY DEF AccessInv, WriteSettings, Excused, WouldBe, AdmittedForAReason
<1>5. QED
  BY <1>2, <1>3, <1>4 DEF AccessInv, WriteSettings, Serving

LEMMA ServeStep == ASSUME AccessInv, Serve PROVE AccessInv'
<1>1. /\ copy.daemon \in Settings /\ request = [state |-> "none"]
      /\ request' = request /\ UNCHANGED <<copy, excuse>>
  BY DEF AccessInv, Serve, Serving, Requests
<1>2. auth' \in Settings /\ daemon' \in {"down", "serving"} /\ SomeoneCanLogIn'
  BY <1>1 DEF Serve, Settings, SomeoneCanLogIn, AccessInv
<1>3. QED
  BY <1>1, <1>2 DEF AccessInv, Daemons, Serving, WouldBe, AdmittedForAReason

LEMMA RequestStep ==
  ASSUME AccessInv,
         ReadSettings \/ CheckCredential \/ Answered \/ \E by \in Bearer : Arrive(by)
  PROVE  AccessInv'
<1>1. request \in Requests /\ UNCHANGED <<auth, copy, daemon, command, credential>>
  BY DEF AccessInv, ReadSettings, CheckCredential, Answered, Arrive
<1>2. CASE ReadSettings
  BY <1>1, <1>2 DEF AccessInv, ReadSettings, Requests, Serving, WouldBe, AdmittedForAReason, SomeoneCanLogIn
<1>3. CASE CheckCredential
  BY <1>1, <1>3 DEF AccessInv, CheckCredential, Requests, Serving, WouldBe, AdmittedForAReason, SomeoneCanLogIn
<1>4. CASE Answered
  BY <1>1, <1>4 DEF AccessInv, Answered, Requests, Serving, WouldBe, AdmittedForAReason, SomeoneCanLogIn
<1>5. ASSUME NEW by \in Bearer, Arrive(by) PROVE AccessInv'
  BY <1>1, <1>5 DEF AccessInv, Arrive, Requests, Serving, WouldBe, AdmittedForAReason, SomeoneCanLogIn
<1>6. QED
  BY <1>2, <1>3, <1>4, <1>5

LEMMA CredentialStep ==
  ASSUME AccessInv, NEW c \in Credential, Issue(c) \/ End(c)
  PROVE  AccessInv'
<1>1. CASE Issue(c)
  BY <1>1 DEF AccessInv, Issue, Serving, Excused, WouldBe, AdmittedForAReason, SomeoneCanLogIn
<1>2. CASE End(c)
  <2>1. \A d : credential'[d] = "valid" => credential[d] = "valid"
    BY <1>2 DEF End
  <2>2. (WouldBe(auth, credential))' => WouldBe(auth, credential)
    BY <1>2, <2>1 DEF End, WouldBe, Good
  <2>3. QED
    BY <1>2, <2>2 DEF AccessInv, End, Serving, AdmittedForAReason, SomeoneCanLogIn
<1>3. QED
  BY <1>1, <1>2

LEMMA OtherAccessStep ==
  ASSUME AccessInv, Rereads \/ StopDaemon \/ Start \/ Ends \/ (\E what \in Commands : Run(what))
  PROVE  AccessInv'
<1>1. auth \in Settings /\ copy \in [{"daemon", "cli"} -> Settings] /\ UNCHANGED <<auth, credential>>
  BY DEF AccessInv, Rereads, StopDaemon, Start, Ends, Run
<1>2. CASE Rereads
  BY <1>1, <1>2 DEF AccessInv, Rereads, Serving, WouldBe, AdmittedForAReason, SomeoneCanLogIn
<1>3. CASE StopDaemon
  <2>1. CASE Stop
    BY <1>1, <1>3, <2>1 DEF AccessInv, StopDaemon, Stop, Daemons, Requests, WouldBe, AdmittedForAReason, SomeoneCanLogIn
  <2>2. CASE Serving /\ daemon' = "unstopped" /\ UNCHANGED <<request, excuse>>
    BY <1>1, <1>3, <2>2 DEF AccessInv, StopDaemon, Daemons, Serving, WouldBe, AdmittedForAReason, SomeoneCanLogIn
  <2>3. CASE ~Serving /\ UNCHANGED <<daemon, request, excuse>>
    BY <1>1, <1>3, <2>3 DEF AccessInv, StopDaemon, Serving, WouldBe, AdmittedForAReason, SomeoneCanLogIn
  <2>4. QED
    BY <1>3, <2>1, <2>2, <2>3 DEF StopDaemon
<1>4. CASE Start
  BY <1>1, <1>4 DEF AccessInv, Start, Daemons, Serving, WouldBe, AdmittedForAReason, SomeoneCanLogIn
<1>5. CASE Ends
  BY <1>1, <1>5 DEF AccessInv, Ends, Stop, Daemons, Requests, WouldBe, AdmittedForAReason, SomeoneCanLogIn
<1>6. ASSUME NEW what \in Commands, Run(what) PROVE AccessInv'
  BY <1>1, <1>6 DEF AccessInv, Run, Serving, WouldBe, AdmittedForAReason, SomeoneCanLogIn
<1>7. QED
  BY <1>2, <1>3, <1>4, <1>5, <1>6

LEMMA AccessInvariant == AccessSpec => []AccessInv
<1>1. AccessInit => AccessInv
  BY DEF AccessInit, AccessInv, Settings, Daemons, Requests, WouldBe, AdmittedForAReason, SomeoneCanLogIn
<1>2. AccessInv /\ [AccessNext]_accessVars => AccessInv'
  <2>1. ASSUME AccessInv, AccessNext PROVE AccessInv'
    BY <2>1, WriteSettingsStep, ServeStep, RequestStep, CredentialStep, OtherAccessStep
    DEF AccessNext
  <2>2. ASSUME AccessInv, UNCHANGED accessVars PROVE AccessInv'
    BY <2>2 DEF AccessInv, accessVars, Serving, WouldBe, AdmittedForAReason, SomeoneCanLogIn
  <2>3. QED
    BY <2>1, <2>2
<1>3. QED
  BY <1>1, <1>2, PTL DEF AccessSpec

\* A request is carried out only if since it arrived there was a moment at which authentication
\* was off or its credential or key good (AdmittedForAReason).
THEOREM AdmittedWithReason == AccessSpec => []AdmittedForAReason
<1>1. AccessInv => AdmittedForAReason
  BY DEF AccessInv
<1>2. QED
  BY <1>1, AccessInvariant, PTL

\* A daemon that demands a credential has a key to log in with, but until it was stopped, or could
\* not be, after authentication was turned on (SomeoneCanLogIn).
THEOREM LoginIsPossible == AccessSpec => []SomeoneCanLogIn
<1>1. AccessInv => SomeoneCanLogIn
  BY DEF AccessInv
<1>2. QED
  BY <1>1, AccessInvariant, PTL

-------------------------------------------------------------------------------
(* Notifications. *)

LEMMA LeastNatural ==
  ASSUME NEW S, S \subseteq Nat, S # {}
  PROVE  \E n \in S : \A m \in S : n <= m
<1>1. PICK n \in S : \A m \in S : <<m, n>> \notin OpToRel(<, Nat)
  BY NatLessThanWellFounded, WFMin, Zenon
<1>2. \A m \in S : ~(m < n)
  BY <1>1 DEF OpToRel
<1>3. QED
  BY <1>2

NoticeRow == [id : Nat, of : Pair, at : 0..MaxTime, read : BOOLEAN]
Emissions == [matched : SUBSET Pair, recorded : SUBSET NoticeRow, failed : SUBSET Pair, taken : SUBSET Event]
Numbered(rows) ==
    /\ rows \subseteq NoticeRow /\ IsFiniteSet(rows)
    /\ \A m, n \in rows : m.id = n.id => m = n

\* What became of a row that was recorded: it is still there, or the inbox is full of later ones.
Settled(n) ==
    \/ \E k \in inbox : k.id = n.id
    \/ Cardinality(inbox) = Limit /\ \A k \in inbox : Later(k, n)

\* What EveryMatchIsKept rests on: a match is still to be recorded, or could not be, or was and is
\* settled.
NoticeInv ==
    /\ nextRow \in Nat /\ clock \in 0..MaxTime
    /\ Numbered(inbox) /\ Cardinality(inbox) <= Limit
    /\ \A n \in inbox : n.id < nextRow
    /\ \A b \in batch : b.of \in Pair
    /\ emitted \in Emissions
    /\ \A n \in emitted.recorded : \A k \in inbox : k.id = n.id => k.at = n.at
    /\ \A n \in emitted.recorded : n.id < nextRow /\ Settled(n)
    /\ \A m \in emitted.matched \ emitted.failed :
          (\E b \in batch : b.of = m) \/ (\E n \in emitted.recorded : n.of = m)

LEMMA LaterIsATotalOrder ==
  ASSUME NEW rows, Numbered(rows), NEW m \in rows, NEW n \in rows
  PROVE  /\ ~Later(m, m)
         /\ m # n => (Later(m, n) <=> ~Later(n, m))
         /\ \A k \in rows : Later(k, m) /\ Later(m, n) => Later(k, n)
BY NoticeBounds DEF Later, Numbered, NoticeRow

\* Of rows that are numbered one is the earliest.
LEMMA EarliestRow ==
  ASSUME NEW rows, Numbered(rows), rows # {}
  PROVE  \E d \in rows : \A m \in rows \ {d} : Later(m, d)
<1>1. PICK t \in {n.at : n \in rows} : \A u \in {n.at : n \in rows} : t <= u
  <2>1. {n.at : n \in rows} \subseteq Nat /\ {n.at : n \in rows} # {}
    BY NoticeBounds DEF Numbered, NoticeRow
  <2>2. QED
    BY <2>1, LeastNatural
<1> DEFINE first == {n \in rows : n.at = t}
<1>2. PICK i \in {n.id : n \in first} : \A j \in {n.id : n \in first} : i <= j
  <2>1. {n.id : n \in first} \subseteq Nat /\ {n.id : n \in first} # {}
    BY <1>1 DEF Numbered, NoticeRow
  <2>2. QED
    BY <2>1, LeastNatural
<1>3. PICK d \in first : d.id = i
  BY <1>2
<1>4. ASSUME NEW m \in rows \ {d} PROVE Later(m, d)
  <2>1. m.at \in Nat /\ d.at = t /\ t \in Nat /\ m.id \in Nat /\ d.id \in Nat /\ m.id # d.id /\ t <= m.at
    BY <1>1, <1>3, <1>4, NoticeBounds DEF Numbered, NoticeRow
  <2>2. m.at = t => d.id <= m.id
    BY <1>2, <1>3
  <2>3. QED
    BY <2>1, <2>2 DEF Later
<1>5. QED
  BY <1>3, <1>4

\* The rows that an insertion leaves are all of them, or all but the earliest of Limit + 1.
LEMMA NewestRows ==
  ASSUME NEW rows, Numbered(rows), Cardinality(rows) <= Limit + 1
  PROVE  \/ Newest(rows) = rows /\ Cardinality(rows) <= Limit
         \/ \E d \in rows : /\ Newest(rows) = rows \ {d} /\ Cardinality(rows \ {d}) = Limit
                            /\ \A m \in rows \ {d} : Later(m, d)
<1> DEFINE over(n) == {m \in rows : Later(m, n)}
<1>1. IsFiniteSet(rows) /\ Cardinality(rows) \in Nat /\ Limit \in Nat
  BY FS_CardinalityType, NoticeBounds DEF Numbered
<1>2. ASSUME NEW n \in rows
      PROVE  Cardinality(over(n)) \in Nat /\ Cardinality(over(n)) < Cardinality(rows)
  <2>1. over(n) \in SUBSET (rows \ {n})
    BY LaterIsATotalOrder
  <2>2. IsFiniteSet(rows \ {n}) /\ Cardinality(rows \ {n}) = Cardinality(rows) - 1
    BY <1>1, FS_RemoveElement
  <2>3. IsFiniteSet(over(n)) /\ Cardinality(over(n)) <= Cardinality(rows \ {n})
    BY <2>1, <2>2, FS_Subset
  <2>4. Cardinality(over(n)) \in Nat
    BY <2>3, FS_CardinalityType
  <2>5. QED
    BY <1>1, <2>2, <2>3, <2>4
<1>3. CASE Cardinality(rows) <= Limit
  <2>1. \A n \in rows : Cardinality(over(n)) < Limit
    BY <1>1, <1>2, <1>3
  <2>2. QED
    BY <1>3, <2>1 DEF Newest
<1>4. CASE Cardinality(rows) = Limit + 1
  <2>1. rows # {}
    BY <1>1, <1>4, FS_EmptySet
  <2>2. PICK d \in rows : \A m \in rows \ {d} : Later(m, d)
    BY <2>1, EarliestRow
  <2>3. IsFiniteSet(rows \ {d}) /\ Cardinality(rows \ {d}) = Limit
    BY <1>1, <1>4, FS_RemoveElement
  <2>4. over(d) = rows \ {d}
    BY <2>2, LaterIsATotalOrder
  <2>5. ASSUME NEW n \in rows \ {d} PROVE Cardinality(over(n)) < Limit
    <3>1. ~Later(d, n)
      BY <2>2, LaterIsATotalOrder
    <3>2. over(n) \in SUBSET ((rows \ {d}) \ {n})
      BY <3>1, LaterIsATotalOrder
    <3>3. IsFiniteSet((rows \ {d}) \ {n}) /\ Cardinality((rows \ {d}) \ {n}) = Limit - 1
      BY <2>3, FS_RemoveElement
    <3>4. Cardinality(over(n)) <= Limit - 1 /\ Cardinality(over(n)) \in Nat
      BY <1>2, <3>2, <3>3, FS_Subset
    <3>5. QED
      BY <1>1, <3>4
  <2>6. ~(Cardinality(over(d)) < Limit)
    BY <1>1, <2>3, <2>4
  <2>7. Newest(rows) = rows \ {d}
    BY <2>5, <2>6 DEF Newest
  <2>8. QED
    BY <2>2, <2>3, <2>7
<1>5. QED
  BY <1>1, <1>3, <1>4

LEMMA InsertStep ==
  ASSUME NoticeInv, NEW match \in batch, Insert(match.of), batch' = batch \ {match}, UNCHANGED clock
  PROVE  NoticeInv'
<1> DEFINE x == NewRow(match.of)
           rows == inbox \cup {x}
<1>1. emitted' = [emitted EXCEPT !.recorded = @ \cup {x}]
  BY DEF Insert
<1>2. /\ x \in NoticeRow /\ x.id = nextRow /\ x.of = match.of /\ nextRow \in Nat
      /\ match.of \in Pair /\ nextRow' = nextRow + 1 /\ inbox' = Newest(rows)
  BY DEF NoticeInv, NewRow, NoticeRow, Insert
<1>. HIDE DEF x
<1>3. /\ emitted'.recorded = emitted.recorded \cup {x} /\ emitted'.matched = emitted.matched
      /\ emitted'.failed = emitted.failed /\ emitted' \in Emissions
  BY <1>1, <1>2 DEF NoticeInv, Emissions
<1>4. Numbered(rows) /\ Cardinality(rows) <= Limit + 1 /\ \A n \in rows : n.id < nextRow'
  <2>1. \A n \in inbox : n.id \in Nat /\ n.id < nextRow
    BY DEF NoticeInv, Numbered, NoticeRow
  <2>2. IsFiniteSet(inbox) /\ Cardinality(inbox) \in Nat /\ Cardinality(inbox) <= Limit
    <3>1. IsFiniteSet(inbox) /\ Cardinality(inbox) <= Limit
      BY DEF NoticeInv, Numbered
    <3>2. QED
      BY <3>1, FS_CardinalityType
  <2>3. IsFiniteSet(rows) /\ Cardinality(rows) <= Limit + 1
    <3>1. /\ IsFiniteSet(rows)
          /\ Cardinality(rows) = IF x \in inbox THEN Cardinality(inbox) ELSE Cardinality(inbox) + 1
      BY <2>2, FS_AddElement
    <3>2. QED
      BY <2>2, <3>1, NoticeBounds
  <2>4. \A m, n \in rows : m.id = n.id => m = n
    BY <1>2, <2>1 DEF NoticeInv, Numbered
  <2>5. rows \subseteq NoticeRow /\ \A n \in rows : n.id < nextRow'
    BY <1>2, <2>1 DEF NoticeInv, Numbered
  <2>6. QED
    BY <2>3, <2>4, <2>5 DEF Numbered
<1>5. Numbered(inbox') /\ Cardinality(inbox') <= Limit /\ inbox' \subseteq rows
  <2>1. CASE Newest(rows) = rows /\ Cardinality(rows) <= Limit
    BY <1>2, <1>4, <2>1
  <2>2. ASSUME NEW d \in rows, Newest(rows) = rows \ {d}, Cardinality(rows \ {d}) = Limit
        PROVE  Numbered(inbox') /\ Cardinality(inbox') <= Limit /\ inbox' \subseteq rows
    <3>1. IsFiniteSet(rows \ {d})
      BY <1>4, FS_RemoveElement DEF Numbered
    <3>2. inbox' = rows \ {d} /\ Numbered(rows \ {d})
      BY <1>2, <1>4, <2>2, <3>1 DEF Numbered
    <3>3. Cardinality(inbox') = Limit
      BY <2>2, <3>2
    <3>4. QED
      BY <3>2, <3>3, NoticeBounds DEF Numbered
  <2>3. QED
    BY <1>4, <2>1, <2>2, NewestRows
<1>6. \A n \in emitted'.recorded : \A k \in rows : k.id = n.id => k.at = n.at
  <2>1. ASSUME NEW n \in emitted.recorded PROVE n.id # x.id
    BY <1>2, <2>1 DEF NoticeInv, NoticeRow
  <2>2. ASSUME NEW k \in inbox PROVE k.id # x.id
    BY <1>2, <2>2 DEF NoticeInv, Numbered, NoticeRow
  <2>3. QED
    BY <1>3, <2>1, <2>2 DEF NoticeInv
<1>7. ASSUME NEW n \in emitted'.recorded PROVE (Settled(n))'
  <2>1. \/ \E k \in rows : k.id = n.id
        \/ Cardinality(inbox) = Limit /\ \A k \in inbox : Later(k, n)
    BY <1>3 DEF NoticeInv, Settled
  <2>2. n \in NoticeRow
    BY <1>3 DEF Emissions
  <2>3. CASE Newest(rows) = rows /\ Cardinality(rows) <= Limit
    <3>1. CASE \E k \in rows : k.id = n.id
      BY <1>2, <2>3, <3>1 DEF Settled
    <3>2. CASE Cardinality(inbox) = Limit /\ \A k \in inbox : Later(k, n)
      <4>1. x \notin inbox
        BY <1>2 DEF NoticeInv, Numbered, NoticeRow
      <4>2. Cardinality(rows) = Limit + 1
        BY <3>2, <4>1, FS_AddElement DEF NoticeInv, Numbered
      <4>3. QED
        BY <2>3, <4>2, NoticeBounds
    <3>3. QED
      BY <2>1, <3>1, <3>2
  <2>4. ASSUME NEW d \in rows, Newest(rows) = rows \ {d}, Cardinality(rows \ {d}) = Limit,
               \A m \in rows \ {d} : Later(m, d)
        PROVE  (Settled(n))'
    <3>1. CASE \E k \in rows \ {d} : k.id = n.id
      BY <1>2, <2>4, <3>1 DEF Settled
    <3>2. CASE d.id = n.id
      <4>1. d.at = n.at
        BY <1>6, <3>2
      <4>2. \A k \in rows \ {d} : Later(k, n)
        BY <2>4, <3>2, <4>1 DEF Later
      <4>3. QED
        BY <1>2, <2>4, <4>2 DEF Settled, Later
    <3>3. CASE Cardinality(inbox) = Limit /\ \A k \in inbox : Later(k, n)
      <4>1. ASSUME NEW k \in rows \ {d} PROVE Later(k, n)
        <5>1. CASE k \in inbox
          BY <3>3, <5>1
        <5>2. CASE k = x
          <6>1. d \in inbox /\ Later(d, n) /\ Later(k, d)
            BY <2>4, <3>3, <4>1, <5>2
          <6>2. /\ k.at \in Nat /\ d.at \in Nat /\ n.at \in Nat
                /\ k.id \in Nat /\ d.id \in Nat /\ n.id \in Nat
            BY <1>4, <2>2, <6>1, NoticeBounds DEF Numbered, NoticeRow
          <6>3. QED
            BY <6>1, <6>2 DEF Later
        <5>3. QED
          BY <4>1, <5>1, <5>2
      <4>2. QED
        BY <1>2, <2>4, <4>1 DEF Settled, Later
    <3>4. QED
      BY <2>1, <3>1, <3>2, <3>3
  <2>5. QED
    BY <1>4, <2>3, <2>4, NewestRows
<1>8. ASSUME NEW m \in emitted'.matched \ emitted'.failed
      PROVE  (\E b \in batch' : b.of = m) \/ (\E n \in emitted'.recorded : n.of = m)
  BY <1>2, <1>3 DEF NoticeInv
<1>9. /\ nextRow' \in Nat /\ clock' \in 0..MaxTime
      /\ \A n \in inbox' : n.id < nextRow'
      /\ \A n \in emitted'.recorded : n.id < nextRow'
      /\ \A b \in batch' : b.of \in Pair
      /\ \A n \in emitted'.recorded : \A k \in inbox' : k.id = n.id => k.at = n.at
  <2>1. nextRow' \in Nat /\ clock' \in 0..MaxTime /\ \A b \in batch' : b.of \in Pair
    BY <1>2, <1>3 DEF NoticeInv
  <2>2. \A n \in emitted'.recorded : n.id < nextRow'
    BY <1>2, <1>3 DEF NoticeInv, Emissions, NoticeRow
  <2>3. QED
    BY <2>1, <2>2, <1>4, <1>5, <1>6
<1>10. QED
  BY <1>3, <1>5, <1>7, <1>8, <1>9 DEF NoticeInv

LEMMA RecordNextStep == ASSUME NoticeInv, RecordNext PROVE NoticeInv'
<1>1. PICK match \in batch :
         /\ Insert(match.of) \/ InsertFails(match.of)
         /\ batch' = batch \ {match} /\ UNCHANGED clock
  BY DEF RecordNext
<1>2. CASE InsertFails(match.of)
  <2>1. /\ UNCHANGED <<inbox, nextRow, clock>> /\ match.of \in Pair
        /\ emitted' = [emitted EXCEPT !.failed = @ \cup {match.of}]
    BY <1>1, <1>2 DEF InsertFails, NoticeInv
  <2>2. /\ emitted' \in Emissions /\ emitted'.recorded = emitted.recorded
        /\ emitted'.matched = emitted.matched /\ emitted'.failed = emitted.failed \cup {match.of}
    BY <2>1 DEF NoticeInv, Emissions
  <2>3. ASSUME NEW m \in emitted'.matched \ emitted'.failed
        PROVE  (\E b \in batch' : b.of = m) \/ (\E n \in emitted'.recorded : n.of = m)
    BY <1>1, <2>2 DEF NoticeInv
  <2>4. QED
    BY <1>1, <2>1, <2>2, <2>3 DEF NoticeInv, Settled
<1>3. QED
  BY <1>1, <1>2, InsertStep

\* Reading changes no row's number, time or subject.
LEMMA Marked ==
  ASSUME NoticeInv, UNCHANGED <<nextRow, clock, batch, emitted>>,
         NEW f \in [inbox -> NoticeRow], inbox' = {f[m] : m \in inbox},
         \A m \in inbox : f[m].id = m.id /\ f[m].at = m.at
  PROVE  NoticeInv'
<1>1. f \in Bijection(inbox, inbox')
  <2>1. f \in [inbox -> inbox'] /\ \A m \in inbox : f[m] \in inbox'
    BY DEF NoticeInv
  <2>2. \A m, n \in inbox : f[m] = f[n] => m = n
    BY DEF NoticeInv, Numbered
  <2>3. QED
    BY <2>1, <2>2 DEF Bijection, Injection, Surjection, IsInjective
<1>2. IsFiniteSet(inbox') /\ Cardinality(inbox') = Cardinality(inbox)
  BY <1>1, FS_Bijection DEF ExistsBijection, NoticeInv, Numbered
<1>3. Numbered(inbox') /\ \A n \in inbox' : n.id < nextRow'
  BY <1>2 DEF NoticeInv, Numbered
<1>4. ASSUME NEW n \in emitted.recorded
      PROVE  (Settled(n))' /\ \A k \in inbox' : k.id = n.id => k.at = n.at
  <2>1. Settled(n) /\ \A k \in inbox : k.id = n.id => k.at = n.at
    BY DEF NoticeInv
  <2>2. \A m \in inbox : Later(f[m], n) <=> Later(m, n)
    BY DEF Later
  <2>3. QED
    BY <1>2, <2>1, <2>2 DEF Settled, Later
<1>5. QED
  BY <1>2, <1>3, <1>4 DEF NoticeInv

LEMMA MarkSteps ==
  ASSUME NoticeInv, MarkAllRead \/ (\E n \in inbox : MarkRead(n))
  PROVE  NoticeInv'
<1>0. \A m \in inbox : LET r == [m EXCEPT !.read = TRUE]
                       IN  r \in NoticeRow /\ r.id = m.id /\ r.at = m.at /\ m \in NoticeRow
  <2>1. \A m \in NoticeRow : LET r == [m EXCEPT !.read = TRUE]
                            IN  r \in NoticeRow /\ r.id = m.id /\ r.at = m.at
    BY DEF NoticeRow
  <2>2. QED
    BY <2>1 DEF NoticeInv, Numbered
<1>1. CASE MarkAllRead
  <2> DEFINE f == [m \in inbox |-> [m EXCEPT !.read = TRUE]]
  <2>1. f \in [inbox -> NoticeRow] /\ \A m \in inbox : f[m].id = m.id /\ f[m].at = m.at
    BY <1>0
  <2>2. inbox' = {f[m] : m \in inbox} /\ UNCHANGED <<nextRow, clock, batch, emitted>>
    BY <1>1 DEF MarkAllRead
  <2>. HIDE DEF f
  <2>3. QED
    BY <2>1, <2>2, Marked
<1>2. ASSUME NEW n \in inbox, MarkRead(n) PROVE NoticeInv'
  <2> DEFINE f == [m \in inbox |-> IF m.id = n.id THEN [m EXCEPT !.read = TRUE] ELSE m]
  <2>1. f \in [inbox -> NoticeRow] /\ \A m \in inbox : f[m].id = m.id /\ f[m].at = m.at
    BY <1>0
  <2>2. inbox' = {f[m] : m \in inbox} /\ UNCHANGED <<nextRow, clock, batch, emitted>>
    BY <1>2 DEF MarkRead
  <2>. HIDE DEF f
  <2>3. QED
    BY <2>1, <2>2, Marked
<1>3. QED
  BY <1>1, <1>2

LEMMA EmitStep == ASSUME NoticeInv, NEW events \in SUBSET Event, Emit(events) PROVE NoticeInv'
<1> DEFINE matches == {m \in Pair : LET row == rules[m[1]]
                                    IN  /\ m[2] \in events
                                        /\ row # NoRow /\ row.enabled /\ m[2] \in row.events}
<1>1. /\ batch' = batch \cup {[of |-> m, hook |-> rules[m[1]].hook] : m \in matches}
      /\ emitted' = [emitted EXCEPT !.matched = @ \cup matches, !.taken = @ \cup events]
      /\ UNCHANGED <<inbox, nextRow, clock>>
  BY DEF Emit
<1>2. matches \subseteq Pair
  OBVIOUS
<1>. HIDE DEF matches
<1>3. ASSUME NEW m \in matches PROVE \E b \in batch' : b.of = m
  <2>1. [of |-> m, hook |-> rules[m[1]].hook] \in batch'
    BY <1>1
  <2>2. QED
    BY <2>1
<1>4. \A b \in batch' : b.of \in Pair
  BY <1>1, <1>2 DEF NoticeInv
<1>5. /\ emitted' \in Emissions /\ emitted'.failed = emitted.failed
      /\ emitted'.matched = emitted.matched \cup matches /\ emitted'.recorded = emitted.recorded
  BY <1>1, <1>2 DEF NoticeInv, Emissions
<1>6. ASSUME NEW m \in emitted'.matched \ emitted'.failed
      PROVE  (\E b \in batch' : b.of = m) \/ (\E n \in emitted'.recorded : n.of = m)
  BY <1>1, <1>3, <1>5 DEF NoticeInv
<1>7. QED
  BY <1>1, <1>4, <1>5, <1>6 DEF NoticeInv, Settled

LEMMA NoticeInvariant == NoticeSpec => []NoticeInv
<1>1. NoticeInit => NoticeInv
  BY FS_EmptySet, NoticeBounds DEF NoticeInit, NoticeInv, Numbered, Emissions
<1>2. NoticeInv /\ [NoticeNext]_noticeVars => NoticeInv'
  <2>1. ASSUME NoticeInv,
               \/ \E r \in Rule : ChangeRule(r)
               \/ \E m \in Pair : Deliver(m)
               \/ SetClock
               \/ UNCHANGED noticeVars
        PROVE  NoticeInv'
    <3>1. UNCHANGED <<inbox, nextRow, batch, emitted>> /\ clock' \in 0..MaxTime
      BY <2>1 DEF ChangeRule, Deliver, SetClock, noticeVars, NoticeInv
    <3>2. QED
      BY <2>1, <3>1 DEF NoticeInv, Settled
  <2>2. QED
    BY <2>1, MarkSteps, EmitStep, RecordNextStep DEF NoticeNext
<1>3. QED
  BY <1>1, <1>2, PTL DEF NoticeSpec

\* Each event is recorded for each rule that matched it, unless its own insertion fails or is yet
\* to come, and its row is in the inbox or the inbox is full of later ones, whatever the clock, the
\* users and other passes did (EveryMatchIsKept).
THEOREM MatchesAreKept == NoticeSpec => []EveryMatchIsKept
<1>1. ASSUME NoticeInv PROVE EveryMatchIsKept
  <2>1. ASSUME NEW m \in emitted.matched \ emitted.failed, ~\E match \in batch : match.of = m
        PROVE  \E n \in emitted.recorded :
                  /\ n.of = m
                  /\ \/ \E k \in inbox : k.id = n.id
                     \/ Cardinality({k \in inbox : Later(k, n)}) = Limit
    <3>1. PICK n \in emitted.recorded : n.of = m
      BY <1>1, <2>1 DEF NoticeInv
    <3>2. Settled(n)
      BY <1>1 DEF NoticeInv
    <3>3. (\A k \in inbox : Later(k, n)) => {k \in inbox : Later(k, n)} = inbox
      OBVIOUS
    <3>4. QED
      BY <3>1, <3>2, <3>3 DEF Settled
  <2>2. QED
    BY <2>1 DEF EveryMatchIsKept
<1>2. QED
  BY <1>1, NoticeInvariant, PTL

===============================================================================
