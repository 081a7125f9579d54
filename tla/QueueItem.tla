------------------------------- MODULE QueueItem -------------------------------
(***************************************************************************)
(* One file of the queue and the downloads that work on it, byte by byte:  *)
(* each takes the segment dcpp/QueueItem gives it, writes it, and reports  *)
(* the whole of it or the blocks it got before it failed.                  *)
(***************************************************************************)
EXTENDS Segments, FiniteSets

CONSTANTS
    Size,          \* of the file
    TreeBlock,     \* the block size of its hash tree
    Chunks,        \* the segment sizes a connection may want, in blocks
    Downloaders    \* the connections

ASSUME QueueItemAssumption ==
    /\ Size \in Nat \ {0} /\ TreeBlock \in 1..Size
    /\ Chunks \subseteq Nat \ {0} /\ Chunks # {}

VARIABLES
    done,     \* the segments the item counts as done
    flight,   \* what the connections that download are at
    stored,   \* the bytes that are in the temporary file
    hasTree,  \* HashManager::getTree() finds the tree
    segmented \* SETTING(SEGMENTED_DL)

vars == <<done, flight, stored, hasTree, segmented>>
config == <<hasTree, segmented>>

File == 0..(Size - 1)
Ranges == {s \in File \X (1..Size) : s[1] < s[2]}

TypeOK ==
    /\ done \subseteq Ranges /\ stored \subseteq File /\ {hasTree, segmented} \subseteq BOOLEAN
    /\ DOMAIN flight \subseteq Downloaders
    /\ \A d \in DOMAIN flight : /\ flight[d].seg \in Ranges
                                /\ flight[d].block \in {TreeBlock, Size}
                                /\ flight[d].pos \in 0..Length(flight[d].seg)

\* A new item, or one whose download an older version stopped anywhere.
Init ==
    /\ \E n \in 0..(Size - 1) :
           /\ done = IF n = 0 THEN {} ELSE {<<0, n>>}
           /\ stored = 0..(n - 1)
    /\ flight = <<>> /\ hasTree \in BOOLEAN /\ segmented \in BOOLEAN

\* Without the tree the root is the tree of a single block.
Block == IF hasTree THEN TreeBlock ELSE Size

Busy == {flight[d].seg : d \in DOMAIN flight}

getNextSegment(wanted) ==
    IF segmented THEN SegmentedNext(Size, Block, wanted, done, Busy)
                 ELSE SingleNext(Size, Block, done, Busy)

Without(d) == [e \in DOMAIN flight \ {d} |-> flight[e]]

Start(d) ==
    /\ d \notin DOMAIN flight /\ ~IsFinished(done, Size)
    /\ \E n \in Chunks :
           LET seg == getNextSegment(IF hasTree THEN n * Block ELSE Block) IN
           /\ Length(seg) > 0
           /\ flight' = [e \in DOMAIN flight \cup {d} |->
                            IF e = d THEN [seg |-> seg, block |-> Block, pos |-> 0] ELSE flight[e]]
    /\ UNCHANGED <<done, stored, config>>

Data(d) ==
    /\ d \in DOMAIN flight /\ flight[d].pos < Length(flight[d].seg)
    /\ stored' = stored \cup {flight[d].seg[1] + flight[d].pos}
    /\ flight' = [flight EXCEPT ![d].pos = @ + 1]
    /\ UNCHANGED <<done, config>>

Finish(d) ==
    /\ d \in DOMAIN flight /\ flight[d].pos = Length(flight[d].seg)
    /\ done' = AddSegment(done, flight[d].seg)
    /\ flight' = Without(d)
    /\ UNCHANGED <<stored, config>>

\* Mutant: the partial block at the end counts as done.
Fail_RoundsUp(d) ==
    LET f == flight[d]
        downloaded == RoundUp(f.pos, f.block)
    IN
    /\ d \in DOMAIN flight /\ f.pos < Length(f.seg)
    /\ done' = IF downloaded > 0
               THEN AddSegment(done, <<f.seg[1], Lesser(f.seg[2], f.seg[1] + downloaded)>>) ELSE done
    /\ flight' = Without(d)
    /\ UNCHANGED <<stored, config>>

\* "mark partially downloaded chunk, but align it to block size".
Fail(d) ==
    LET f == flight[d]
        downloaded == RoundDown(f.pos, f.block)
    IN
    /\ d \in DOMAIN flight /\ f.pos < Length(f.seg)
    /\ done' = IF downloaded > 0
               THEN AddSegment(done, <<f.seg[1], f.seg[1] + downloaded>>) ELSE done
    /\ flight' = Without(d)
    /\ UNCHANGED <<stored, config>>

\* Another source delivers the tree; the hash database is rebuilt or lost,
\* and with it the trees of files that are not shared.
TreeArrives == ~hasTree /\ hasTree' = TRUE /\ UNCHANGED <<done, flight, stored, segmented>>

TreeVanishes ==
    /\ hasTree /\ hasTree' = FALSE
    /\ UNCHANGED <<done, flight, stored, segmented>>

\* The user changes the setting.
ChangeSetting == segmented' = ~segmented /\ UNCHANGED <<done, flight, stored, hasTree>>

Next ==
    \/ \E d \in Downloaders : Start(d) \/ Data(d) \/ Finish(d) \/ Fail(d)
    \/ TreeArrives \/ TreeVanishes \/ ChangeSetting

Spec == Init /\ [][Next]_vars

\* Free connections take what there is to take, and the sources send.
FairSpec ==
    Spec /\ \A d \in Downloaders : WF_vars(Start(d)) /\ WF_vars(Data(d)) /\ WF_vars(Finish(d))

-----------------------------------------------------------------------------
(* Properties.                                                             *)

\* No two downloads fetch the same byte, or write to the same place.
NoByteTwice ==
    \A d, e \in DOMAIN flight : d # e => ~Overlaps(flight[d].seg, flight[e].seg)

\* What counts as done has been written.
DoneIsStored == Units(done) \subseteq stored

\* What is done stays done, whatever segments are consolidated with it.
NothingForgotten == [][Units(done) \subseteq Units(done')]_vars

\* Whatever pieces failures leave behind, once they stop the file gets
\* finished: some free block is always found while bytes are missing, and when
\* none is missing the pieces have become the one segment isFinished() wants.
GetsFinished ==
    <>[][\A d \in Downloaders : ~Fail(d)]_vars => <>IsFinished(done, Size)

\* FetchedFile, with the bytes that the segments cover.
Fetched == INSTANCE FetchedFile WITH
    Bytes <- File,
    done <- Units(done),
    claim <- [d \in Downloaders |-> IF d \in DOMAIN flight THEN Units({flight[d].seg}) ELSE {}],
    complete <- IsFinished(done, Size)

\* However the segments are chosen, rounded and consolidated, the downloads do
\* what FetchedFile says: bytes go to one connection at a time, what is done
\* arrived, and isFinished() tells when the last one is done.
FetchedSpec == Fetched!Spec
=============================================================================
