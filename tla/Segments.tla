------------------------------- MODULE Segments -------------------------------
(***************************************************************************)
(* dcpp/Segment.h and the segment arithmetic of dcpp/QueueItem: which part *)
(* of a file to ask for next, and how the parts that are done are kept.    *)
(*                                                                         *)
(* A segment is <<start, end>>, its end excluded; `done` is a set of them, *)
(* as std::set<Segment> is, ordered by start and then by size.  A build    *)
(* with clang keeps a vector in the order of arrival, which addSegment()   *)
(* then consolidates as if it were in that order: not modelled.            *)
(***************************************************************************)
EXTENDS Naturals, SequencesExt

NoSegment == <<0, 0>>

Length(s) == s[2] - s[1]

Overlaps(s, t) == s[1] < t[2] /\ t[1] < s[2]

\* The units of the file that a set of segments covers.
Units(segs) == UNION {s[1]..(s[2] - 1) : s \in segs}

Lesser(a, b) == IF a < b THEN a ELSE b

RoundDown(n, block) == n - (n % block)

RoundUp(n, block) == RoundDown(n + block - 1, block)

Before(s, t) == s[1] < t[1] \/ (s[1] = t[1] /\ s[2] < t[2])

\* The first and the last segment of a set.
Earliest(segs) == CHOOSE s \in segs : \A t \in segs : t = s \/ Before(s, t)

Latest(segs) == CHOOSE s \in segs : \A t \in segs : t = s \/ Before(t, s)

\* QueueItem::isFinished().
IsFinished(done, size) == done = {<<0, size>>}

\* Mutant: segments that only touch are kept apart.
Consolidated_Touching(parts, s) ==
    IF parts # <<>> /\ Last(parts)[2] > s[1]
    THEN Append(Front(parts), <<Last(parts)[1], s[2]>>)
    ELSE Append(parts, s)

\* One step of the loop that consolidates: a segment that reaches the next
\* one is replaced, with it, by what lies between its start and that one's end.
Consolidated(parts, s) ==
    IF parts # <<>> /\ Last(parts)[2] >= s[1]
    THEN Append(Front(parts), <<Last(parts)[1], s[2]>>)
    ELSE Append(parts, s)

\* What the loop makes of a set of segments, which it goes through in order.
Consolidation(segs) ==
    MapThenFoldSet(LAMBDA s, parts : Consolidated(parts, s), <<>>, LAMBDA s : s, Latest, segs)

\* QueueItem::addSegment().
AddSegment(done, s) == ToSet(Consolidation(done \cup {s}))

\* Mutant: a block that a download works on counts as free.
Free_Busy(start, length, size, block, done, busy) ==
    LET end == Lesser(size, start + length) IN
    IF length <= block
    THEN \A d \in done : ~ (d[1] <= start /\ end <= d[2])
    ELSE \A d \in done : ~Overlaps(<<start, end>>, d)

\* Mutant: a single block is refused when any part of it is done.
Free_Partial(start, length, size, block, done, busy) ==
    LET end == Lesser(size, start + length) IN
    /\ \A d \in done : ~Overlaps(<<start, end>>, d)
    /\ \A b \in busy : ~Overlaps(<<start, end>>, b)

\* May a download of that length begin there?  A single block is only refused
\* when it is done in full, a longer run when any part of it is done.
Free(start, length, size, block, done, busy) ==
    LET end == Lesser(size, start + length) IN
    /\ IF length <= block
       THEN \A d \in done : ~ (d[1] <= start /\ end <= d[2])
       ELSE \A d \in done : ~Overlaps(<<start, end>>, d)
    /\ \A b \in busy : ~Overlaps(<<start, end>>, b)

\* Mutant: the last segment is not cut at the end of the file.
SegmentedNext_PastEnd(size, block, wanted, done, busy) ==
    LET starts == {n \in 0..(size - 1) : n % block = 0}
        lengths == {n \in 1..wanted : n % block = 0}
        open == {s \in starts : \E n \in lengths : Free(s, n, size, block, done, busy)}
        start == CHOOSE s \in open : \A t \in open : s <= t
    IN  IF open = {} THEN NoSegment ELSE <<start, start + block>>

\* The segmented branch of QueueItem::getNextSegment(): the first block that
\* is free, and as many of the `wanted` ones from there on as are.
SegmentedNext(size, block, wanted, done, busy) ==
    LET starts == {n \in 0..(size - 1) : n % block = 0}
        lengths == {n \in 1..wanted : n % block = 0}
        open == {s \in starts : \E n \in lengths : Free(s, n, size, block, done, busy)}
        start == CHOOSE s \in open : \A t \in open : s <= t
        fitting == {n \in lengths : Free(start, n, size, block, done, busy)}
        length == CHOOSE n \in fitting : \A m \in fitting : m <= n
    IN  IF open = {} THEN NoSegment ELSE <<start, Lesser(size, start + length)>>

\* The other branch, without SETTING(SEGMENTED_DL): the first gap.
SingleNext(size, block, done, busy) ==
    LET first == Earliest(done)
        later == done \ {first}
        gap == CASE done = {} -> <<0, size>>
                 [] done # {} /\ first[1] > 0 -> <<0, RoundUp(first[1], block)>>
                 [] OTHER -> <<RoundDown(first[2], block),
                               IF later # {} THEN RoundUp(Earliest(later)[1], block) ELSE size>>
    IN  IF busy # {} THEN NoSegment ELSE <<gap[1], Lesser(size, gap[2])>>
=============================================================================
