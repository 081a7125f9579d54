----------------------------- MODULE DownloadQueue -----------------------------
(***************************************************************************)
(* dcpp/QueueManager: the files to download, the users that have them, and *)
(* what is done of each; kept three times over: by target (fileQueue), by  *)
(* user (userQueue, running) and on disk (the temporary files, Queue.xml). *)
(*                                                                         *)
(* Every operation holds the mutex cs while it changes the queue, but the  *)
(* socket threads, the user interface, the timer and the Rechecker thread  *)
(* interleave, and an operation finds its item again by target: it may     *)
(* have been removed, moved or replaced since.  add() looks for a file at  *)
(* the target before it takes cs, move() and loadQueue() not at all.  The  *)
(* items are files whose hash tree is known, counted in blocks of the      *)
(* tree; file lists are not modelled.                                      *)
(***************************************************************************)
EXTENDS Segments, FiniteSets

CONSTANTS
    Targets,      \* the paths files are downloaded to
    FileName,     \* the last component of each
    Roots,        \* the files there are, by TTH
    Users,        \* the users that have them
    Passive,      \* those that cannot connect to us, nor we to them
    Size,         \* of every file, in blocks
    Items,        \* the addresses of QueueItem objects
    KeepFinished, \* SETTING(KEEP_FINISHED_FILES)
    Operations,   \* bound: what happens besides downloading
    Wanted,       \* bound: the pairs <<target, file>> that are queued
    NoItem, NoName

ASSUME DownloadQueueAssumption ==
    /\ Passive \subseteq Users /\ Size \in Nat \ {0} /\ KeepFinished \in BOOLEAN
    /\ Operations \subseteq {"remove", "removeSource", "detach", "pause", "move", "hurry",
                             "recheck", "recheckRaces", "restart", "crash", "diskFull",
                             "overwrite"}
    /\ NoItem \notin Items /\ NoName \notin {FileName[t] : t \in Targets} \X Roots /\ Roots # {}

VARIABLES
    fileQueue,    \* the item of every target
    item,         \* the QueueItem objects
    userQueue,    \* the pairs <<item, user>> in the lists by user
    running,      \* the item each user is downloading, as UserQueue knows it
    dirty,        \* the queue has changed since it was saved
    download,     \* the Download of every user that has one
    closing,      \* the users whose download is told to end
    disk,         \* the temporary files: the blocks written to each
    final,        \* the files at the targets: which file each of their blocks is of
    saved,        \* Queue.xml
    rechecker     \* where the Rechecker thread is

queueVars == <<fileQueue, item, userQueue, running>>
fileVars == <<disk, final>>
vars == <<queueVars, dirty, download, closing, fileVars, saved, rechecker>>

-----------------------------------------------------------------------------
Blocks == 0..(Size - 1)
Names == {FileName[t] : t \in Targets} \X Roots   \* getTempName()
Segs == Nat \X Nat

ItemRecords ==
    [tth: Roots, done: SUBSET Segs, paused: BOOLEAN, sources: SUBSET Users,
     bad: SUBSET Users, downloads: SUBSET Users, temp: Names \cup {NoName}]

NewItem(r) ==
    [tth |-> r, done |-> {}, paused |-> FALSE, sources |-> {}, bad |-> {},
     downloads |-> {}, temp |-> NoName]

Freed == NewItem(CHOOSE r \in Roots : TRUE)

Downloads ==
    [path: Targets, temp: Names \cup {NoName}, tth: Roots, seg: Segs, pos: Nat,
     file: {"none", "open", "lost"}]

Live == {fileQueue[t] : t \in Targets} \ {NoItem}

TypeOK ==
    /\ fileQueue \in [Targets -> Items \cup {NoItem}]
    /\ item \in [Items -> ItemRecords]
    /\ userQueue \subseteq Items \X Users
    /\ running \in [Users -> Items \cup {NoItem}]
    /\ dirty \in BOOLEAN
    /\ DOMAIN download \subseteq Users /\ closing \subseteq DOMAIN download
    /\ \A u \in DOMAIN download : download[u] \in Downloads
    /\ DOMAIN disk \subseteq Names /\ \A n \in DOMAIN disk : disk[n] \subseteq Blocks
    /\ DOMAIN final \subseteq Targets
    /\ \A t \in DOMAIN final : final[t] \in UNION {[written -> Roots] : written \in SUBSET Blocks}
    /\ DOMAIN saved \subseteq Targets
    /\ rechecker.pc \in {"idle", "tree", "read", "judge"}

\* At some targets somebody else has put a file, of this content or another.
Init ==
    /\ fileQueue = [t \in Targets |-> NoItem] /\ item = [i \in Items |-> Freed]
    /\ userQueue = {} /\ running = [u \in Users |-> NoItem]
    /\ dirty = FALSE /\ download = <<>> /\ closing = {}
    /\ disk = <<>> /\ saved = <<>>
    /\ \E there \in SUBSET Targets : final \in [there -> {[b \in Blocks |-> r] : r \in Roots}]
    /\ rechecker = [pc |-> "idle"]

-----------------------------------------------------------------------------
(* Helpers.                                                                *)

Without(f, x) == [y \in DOMAIN f \ {x} |-> f[y]]
With(f, x, v) == [y \in DOMAIN f \cup {x} |-> IF y = x THEN v ELSE f[y]]

Finished(i) == IsFinished(item[i].done, Size)
TargetOf(i) == CHOOSE t \in Targets : fileQueue[t] = i

\* QueueItem::getTempTarget() computes the name when there is none, but not
\* while a file is at the target: that one is then written to.
TempName(i) ==
    IF item[i].temp # NoName THEN item[i].temp
    ELSE IF TargetOf(i) \in DOMAIN final THEN NoName
    ELSE <<FileName[TargetOf(i)], item[i].tth>>

\* The segments of the downloads an item counts as its own.
Busy(i) == {download[u].seg : u \in item[i].downloads \cap DOMAIN download}

\* Downloads that write to a file which is deleted or moved away go on
\* writing, but not to what is found under that name.
Orphaned(name) ==
    [u \in DOMAIN download |->
        IF download[u].temp = name /\ name # NoName /\ download[u].file = "open"
        THEN [download[u] EXCEPT !.file = "lost"] ELSE download[u]]

\* So do those that write to the file which it replaces.
Replaced(name, t) ==
    [u \in DOMAIN download |->
        IF download[u].temp = NoName /\ download[u].path = t /\ download[u].file = "open"
        THEN [download[u] EXCEPT !.file = "lost"] ELSE Orphaned(name)[u]]

\* moveFile() of a temporary file that is there; what is at the target is replaced.
MovesTo(name, t) ==
    /\ final' = With(final, t, [b \in disk[name] |-> name[2]])
    /\ disk' = Without(disk, name)

\* Mutant: the users' downloads of the item stay in `running`.
UserQueueRemove_KeepsRunning(i) ==
    /\ userQueue' = userQueue \ ({i} \X item[i].sources)
    /\ UNCHANGED running

\* UserQueue::remove(): its users have nothing to do with the item any more.
UserQueueRemove(i) ==
    /\ userQueue' = userQueue \ ({i} \X item[i].sources)
    /\ running' = [u \in Users |->
                      IF running[u] = i /\ u \in item[i].sources THEN NoItem ELSE running[u]]

\* FileQueue::remove().
FileQueueRemove(i) ==
    /\ fileQueue' = [fileQueue EXCEPT ![TargetOf(i)] = NoItem]
    /\ item' = [item EXCEPT ![i] = Freed]

-----------------------------------------------------------------------------
(* Items and sources.                                                      *)

\* A passive user is remembered as a bad source of a passive client.
Sourced(it, u) ==
    IF u \in Passive
    THEN [it EXCEPT !.bad = @ \cup {u}]
    ELSE [it EXCEPT !.sources = @ \cup {u}, !.bad = @ \ {u}]

\* Mutant: a source of a paused item is not listed.
PutSource_NotPaused(i, it, u) ==
    /\ item' = [item EXCEPT ![i] = Sourced(it, u)]
    /\ userQueue' = IF u \in Passive \/ IsFinished(it.done, Size) \/ it.paused
                    THEN userQueue ELSE userQueue \cup {<<i, u>>}
    /\ dirty' = TRUE

\* The end of addSource(), for an item that is or becomes `it`.
PutSource(i, it, u) ==
    /\ item' = [item EXCEPT ![i] = Sourced(it, u)]
    /\ userQueue' = IF u \in Passive \/ IsFinished(it.done, Size)
                    THEN userQueue ELSE userQueue \cup {<<i, u>>}
    /\ dirty' = TRUE

\* Without "recheckRaces" the queue is left alone while an item is rechecked.
Quiet == "recheckRaces" \in Operations \/ rechecker.pc = "idle"

\* Without "overwrite" no item is moved from or to a path at which there is a
\* file: move() does not look.
Vacant(t) == "overwrite" \in Operations \/ t \notin DOMAIN final

\* Without "hurry" nobody queues or moves to a target while a download of an
\* earlier item to it, or to the same temporary file, is not over.
Settled(t, r) ==
    \/ "hurry" \in Operations
    \/ \A u \in DOMAIN download :
           download[u].path # t /\ download[u].temp # <<FileName[t], r>>

Unused(i) ==
    i \notin Live /\ \A u \in Users : <<i, u>> \notin userQueue /\ running[u] # i

\* Mutant: the same file may be queued a second time.
Add_Twice(t, r, u) ==
    /\ <<t, r>> \in Wanted /\ fileQueue[t] = NoItem /\ Settled(t, r) /\ Quiet
    /\ \E i \in Items :
           /\ Unused(i)
           /\ fileQueue' = [fileQueue EXCEPT ![t] = i]
           /\ PutSource(i, NewItem(r), u)
    /\ UNCHANGED <<running, download, closing, fileVars, saved, rechecker>>

\* add() of a file that is not queued, to this target or another.  When it
\* looked, before the lock, there was no file at the target; now there may be.
Add(t, r, u) ==
    /\ <<t, r>> \in Wanted /\ fileQueue[t] = NoItem /\ Settled(t, r) /\ Quiet
    /\ \A i \in Live : item[i].tth # r
    /\ \E i \in Items :
           /\ Unused(i)
           /\ fileQueue' = [fileQueue EXCEPT ![t] = i]
           /\ PutSource(i, NewItem(r), u)
    /\ UNCHANGED <<running, download, closing, fileVars, saved, rechecker>>

\* add() of one that is queued, readd(), matchListing(), a search result.
\* Whether a bad source is accepted depends on its flags and the caller.
AddSource(i, u) ==
    /\ i \in Live /\ u \notin item[i].sources
    /\ PutSource(i, item[i], u)
    /\ UNCHANGED <<fileQueue, running, download, closing, fileVars, saved, rechecker>>

\* Mutant: what is running goes on.
RemoveItem_NoDisconnect(t) ==
    LET i == fileQueue[t]
        idle == item[i].downloads = {}
    IN
    /\ "remove" \in Operations /\ i # NoItem /\ Quiet
    /\ closing' = IF idle THEN closing \cup item[i].downloads ELSE closing
    /\ disk' = IF idle THEN Without(disk, TempName(i)) ELSE disk
    /\ download' = IF idle THEN Orphaned(TempName(i)) ELSE download
    /\ IF Finished(i) THEN UNCHANGED <<userQueue, running>> ELSE UserQueueRemove(i)
    /\ FileQueueRemove(i)
    /\ dirty' = TRUE
    /\ UNCHANGED <<final, saved, rechecker>>

\* remove(): what is running is told to end, and leaves its file to that.
RemoveItem(t) ==
    LET i == fileQueue[t]
        idle == item[i].downloads = {}
    IN
    /\ "remove" \in Operations /\ i # NoItem /\ Quiet
    /\ closing' = closing \cup item[i].downloads
    /\ disk' = IF idle THEN Without(disk, TempName(i)) ELSE disk
    /\ download' = IF idle THEN Orphaned(TempName(i)) ELSE download
    /\ IF Finished(i) THEN UNCHANGED <<userQueue, running>> ELSE UserQueueRemove(i)
    /\ FileQueueRemove(i)
    /\ dirty' = TRUE
    /\ UNCHANGED <<final, saved, rechecker>>

DropSource(it, u) ==
    [it EXCEPT !.sources = @ \ {u}, !.bad = @ \cup {u}, !.downloads = @ \ {u}]

\* Without "detach" no user is dropped while it downloads.
Detachable(u) == "detach" \in Operations \/ u \notin DOMAIN download

\* removeSource() of one target; on(FileNotAvailable) ends the download itself.
RemoveSource(t, u) ==
    LET i == fileQueue[t] IN
    /\ "removeSource" \in Operations /\ i # NoItem /\ u \in item[i].sources /\ Detachable(u)
    /\ IF running[u] = i
       THEN running' = [running EXCEPT ![u] = NoItem] /\ closing' = closing \cup {u}
       ELSE UNCHANGED <<running, closing>>
    /\ userQueue' = IF Finished(i) THEN userQueue ELSE userQueue \ {<<i, u>>}
    /\ item' = [item EXCEPT ![i] = DropSource(@, u)]
    /\ dirty' = TRUE
    /\ UNCHANGED <<fileQueue, download, fileVars, saved, rechecker>>

\* What getNext() can return: an item nobody downloads, or one with a free block.
Offers(i) ==
    item[i].downloads = {} \/ SegmentedNext(Size, 1, 1, item[i].done, Busy(i)) # NoSegment

\* removeSource() of a user: first what getNext() returns until it returns
\* nothing, then the item the user is downloading, if it still is.
RemoveUser(u) ==
    LET listed == {i \in Live : <<i, u>> \in userQueue /\ Offers(i)}
        rest == {running[u]} \ (listed \cup {NoItem})
    IN
    /\ "removeSource" \in Operations /\ listed \cup rest # {} /\ Detachable(u)
    /\ item' = [i \in Items |-> IF i \in listed \cup rest THEN DropSource(item[i], u) ELSE item[i]]
    /\ userQueue' = userQueue \ ((listed \cup rest) \X {u})
    /\ running' = IF running[u] \in listed \cup rest THEN [running EXCEPT ![u] = NoItem] ELSE running
    /\ closing' = IF rest # {} THEN closing \cup {u} ELSE closing
    /\ dirty' = TRUE
    /\ UNCHANGED <<fileQueue, download, fileVars, saved, rechecker>>

\* setPriority(), to PAUSED or from it: the users' lists are left and entered again.
SetPriority(t, p) ==
    LET i == fileQueue[t] IN
    /\ "pause" \in Operations /\ i # NoItem /\ item[i].paused # p /\ ~Finished(i)
    /\ item' = [item EXCEPT ![i].paused = p]
    /\ userQueue' = userQueue \cup ({i} \X item[i].sources)
    /\ dirty' = TRUE
    /\ UNCHANGED <<fileQueue, running, download, closing, fileVars, saved, rechecker>>

\* move() to a target that is free.  Another item there would have to be the
\* same file to be merged with, and add() never queues a file twice.
Move(s, t) ==
    LET i == fileQueue[s] IN
    /\ "move" \in Operations /\ i # NoItem /\ fileQueue[t] = NoItem /\ Vacant(s) /\ Vacant(t)
    /\ item[i].downloads = {} /\ Settled(t, item[i].tth) /\ Quiet
    /\ fileQueue' = [fileQueue EXCEPT ![s] = NoItem, ![t] = i]
    /\ dirty' = TRUE
    /\ UNCHANGED <<item, userQueue, running, download, closing, fileVars, saved, rechecker>>

-----------------------------------------------------------------------------
(* Downloads.                                                              *)

\* getDownload(): done is only believed while the temporary file is there.
\* The order of a user's items and the length of the segment are left open.
GetDownload(u) ==
    /\ u \notin DOMAIN download /\ Quiet
    /\ \E i \in Live, wanted \in 1..Size :
           LET name == TempName(i)
               done == IF name \in DOMAIN disk THEN item[i].done ELSE {}
               seg == SegmentedNext(Size, 1, wanted, done, Busy(i))
           IN
           /\ <<i, u>> \in userQueue /\ ~item[i].paused /\ Offers(i)
           /\ download' = With(download, u, [path |-> TargetOf(i), temp |-> name, tth |-> item[i].tth,
                                             seg |-> seg, pos |-> 0, file |-> "none"])
           /\ item' = [item EXCEPT ![i].temp = name, ![i].done = done,
                                   ![i].downloads = @ \cup {u}]
           /\ running' = [running EXCEPT ![u] = i]
    /\ UNCHANGED <<fileQueue, userQueue, dirty, closing, fileVars, saved, rechecker>>

\* setFile(): only the first block may create the file.
SetFile(u) ==
    LET d == download[u] IN
    /\ u \in DOMAIN download /\ d.file = "none" /\ fileQueue[d.path] # NoItem
    /\ \/ d.temp \in DOMAIN disk \cup {NoName}
          /\ UNCHANGED fileVars
       \/ d.seg[1] = 0 /\ d.temp \notin DOMAIN disk \cup {NoName}
          /\ disk' = With(disk, d.temp, {}) /\ UNCHANGED final
    /\ download' = [download EXCEPT ![u].file = "open"]
    /\ UNCHANGED <<queueVars, dirty, closing, saved, rechecker>>

\* A block goes to the temporary file, or into the file at the target.
Data(u) ==
    LET d == download[u]
        b == d.seg[1] + d.pos
    IN
    /\ u \in DOMAIN download /\ d.file # "none" /\ d.pos < Length(d.seg)
    /\ disk' = IF d.file = "open" /\ d.temp # NoName THEN [disk EXCEPT ![d.temp] = @ \cup {b}] ELSE disk
    /\ final' = IF d.file = "open" /\ d.temp = NoName
                THEN [final EXCEPT ![d.path] = With(@, b, d.tth)] ELSE final
    /\ download' = [download EXCEPT ![u].pos = @ + 1]
    /\ UNCHANGED <<queueVars, dirty, closing, saved, rechecker>>

\* Mutant: what was told to end still is when it has.
Put_StillClosing(u) == dirty' = TRUE /\ UNCHANGED <<closing, saved, rechecker>>

\* Every way out of putDownload() ends with these.
Put(u) == closing' = closing \ {u} /\ dirty' = TRUE /\ UNCHANGED <<saved, rechecker>>

\* The item was removed meanwhile: so is the file.
PutGone(u) ==
    /\ fileQueue[download[u].path] = NoItem
    /\ disk' = Without(disk, download[u].temp)
    /\ download' = Without(Orphaned(download[u].temp), u)
    /\ UNCHANGED <<queueVars, final>>
    /\ Put(u)

\* UserQueue::removeDownload() on an item that is or becomes `it`.
RemoveDownload(i, it, u) ==
    /\ item' = [item EXCEPT ![i] = [it EXCEPT !.downloads = @ \ {u}]]
    /\ running' = [running EXCEPT ![u] = NoItem]
    /\ UNCHANGED <<fileQueue, userQueue>>

\* The last missing segment: the file is moved to its target, and the item
\* leaves the users' lists, and the queue unless finished ones are kept.
Complete(u, i, done) ==
    LET d == download[u]
        kept == [item[i] EXCEPT !.done = done,
                     !.downloads = {v \in @ : ~(running[v] = i /\ v \in item[i].sources)}]
    IN
    /\ IF d.temp \in DOMAIN disk
       THEN /\ MovesTo(d.temp, d.path)
            /\ download' = Without(Replaced(d.temp, d.path), u)
       ELSE download' = Without(download, u) /\ UNCHANGED fileVars
    /\ UserQueueRemove(i)
    /\ IF KeepFinished
       THEN item' = [item EXCEPT ![i] = kept] /\ UNCHANGED fileQueue
       ELSE FileQueueRemove(i)

\* putDownload(d, true).
Finish(u) ==
    LET d == download[u]
        i == fileQueue[d.path]
        done == AddSegment(item[i].done, d.seg)
    IN
    /\ u \in DOMAIN download /\ d.file # "none" /\ d.pos = Length(d.seg)
    /\ \/ PutGone(u)
       \/ /\ i # NoItem /\ IsFinished(done, Size)
          /\ Complete(u, i, done)
          /\ Put(u)
       \/ /\ i # NoItem /\ ~IsFinished(done, Size)
          /\ RemoveDownload(i, [item[i] EXCEPT !.done = done], u)
          /\ download' = Without(download, u)
          /\ UNCHANGED fileVars
          /\ Put(u)

\* Mutant: what has arrived of a segment is rounded up to blocks.
PutFailed_RoundsUp(u, got) ==
    LET d == download[u]
        i == fileQueue[d.path]
        it == [item[i] EXCEPT
                   !.temp = IF item[i].done = {} THEN NoName ELSE @,
                   !.done = AddSegment(@, <<d.seg[1], d.seg[1] + got + 1>>)]
    IN
    \/ PutGone(u)
    \/ /\ i # NoItem
       /\ RemoveDownload(i, it, u)
       /\ download' = Without(download, u)
       /\ UNCHANGED fileVars
       /\ Put(u)

\* putDownload(d, false), with what it says it got.
PutFailed(u, got) ==
    LET d == download[u]
        i == fileQueue[d.path]
        it == [item[i] EXCEPT
                   !.temp = IF item[i].done = {} THEN NoName ELSE @,
                   !.done = IF got > 0 THEN AddSegment(@, <<d.seg[1], d.seg[1] + got>>) ELSE @]
    IN
    \/ PutGone(u)
    \/ /\ i # NoItem
       /\ RemoveDownload(i, it, u)
       /\ download' = Without(download, u)
       /\ UNCHANGED fileVars
       /\ Put(u)

\* When the disk is full: blocks are counted when the buffer takes them, and
\* when a later write fails the last one may not have left it; when the flush
\* at the end fails resetPos() forgets them all.
Lost(d) ==
    IF "diskFull" \notin Operations \/ d.file # "open" THEN {}
    ELSE {n \in {d.pos + 1} : n < Length(d.seg)} \cup {n \in {0} : d.pos = Length(d.seg)}

\* The connection fails or is closed, the request is refused, the file cannot
\* be opened or written; a segment that has arrived in full is handled first.
Fail(u) ==
    LET d == download[u] IN
    /\ u \in DOMAIN download
    /\ \E got \in {n \in {d.pos} : d.file = "none" \/ n < Length(d.seg)} \cup Lost(d) :
           PutFailed(u, got)

-----------------------------------------------------------------------------
(* Queue.xml.                                                              *)

Entry(i) ==
    [tth |-> item[i].tth, done |-> item[i].done, paused |-> item[i].paused,
     sources |-> item[i].sources, temp |-> IF item[i].done = {} THEN NoName ELSE TempName(i)]

Image == [t \in {t \in Targets : fileQueue[t] # NoItem} |-> Entry(fileQueue[t])]

\* saveQueue(), from the timer or at the end of the program.
Save ==
    /\ dirty /\ dirty' = FALSE
    /\ saved' = Image
    /\ item' = [i \in Items |-> IF i \in Live THEN [item[i] EXCEPT !.temp =
                                    IF item[i].done = {} THEN @ ELSE TempName(i)] ELSE item[i]]
    /\ UNCHANGED <<fileQueue, userQueue, running, download, closing, fileVars, rechecker>>

\* QueueLoader skips the segments that do not lie in the file.
Loaded(e) == {s \in e.done : s[2] <= Size}

\* The program ends and loadQueue() of the next run reads what was saved:
\* what the last saveQueue() of an orderly end wrote, or an older one.  Without
\* "crash" the older one misses no item that was removed, finished or queued
\* again, and no reset of what is done.
Restart ==
    /\ "restart" \in Operations
    /\ \/ "crash" \in Operations
       \/ \A t \in DOMAIN saved : /\ fileQueue[t] # NoItem
                                  /\ saved[t].tth = item[fileQueue[t]].tth
                                  /\ Units(saved[t].done) \subseteq Units(item[fileQueue[t]].done)
                                  /\ saved[t].temp \in {NoName, item[fileQueue[t]].temp}
                                  /\ Finished(fileQueue[t]) => IsFinished(Loaded(saved[t]), Size)
    /\ \E where \in [DOMAIN saved -> Items] :
           /\ \A s, t \in DOMAIN saved : where[s] = where[t] => s = t
           /\ fileQueue' = [t \in Targets |-> IF t \in DOMAIN saved THEN where[t] ELSE NoItem]
           /\ item' = [i \in Items |->
                          IF \E t \in DOMAIN saved : where[t] = i
                          THEN LET e == saved[CHOOSE t \in DOMAIN saved : where[t] = i] IN
                               [NewItem(e.tth) EXCEPT !.done = Loaded(e), !.paused = e.paused,
                                    !.sources = e.sources, !.temp = e.temp]
                          ELSE Freed]
           /\ userQueue' = UNION {{where[t]} \X saved[t].sources :
                                     t \in {t \in DOMAIN saved : ~IsFinished(Loaded(saved[t]), Size)}}
    /\ running' = [u \in Users |-> NoItem]
    /\ dirty' = FALSE /\ download' = <<>> /\ closing' = {}
    /\ rechecker' = [pc |-> "idle"]
    /\ UNCHANGED <<fileVars, saved>>

-----------------------------------------------------------------------------
(* The Rechecker thread.                                                   *)

\* The file is there, and nobody downloads it.  Without "recheckRaces" it is
\* not one that is whole and only got stuck.
RecheckBegin(t) ==
    LET i == fileQueue[t] IN
    /\ "recheck" \in Operations /\ rechecker.pc = "idle"
    /\ i # NoItem /\ TempName(i) \in DOMAIN disk /\ item[i].downloads = {}
    /\ "recheckRaces" \in Operations \/ ~Finished(i)
    /\ item' = [item EXCEPT ![i].temp = TempName(i)]
    /\ rechecker' = [pc |-> "tree", target |-> t, tth |-> item[i].tth]
    /\ UNCHANGED <<fileQueue, userQueue, running, dirty, download, closing, fileVars, saved>>

\* Its item is looked up again, and forgets what is done.
RecheckClear ==
    LET t == rechecker.target
        i == fileQueue[t]
    IN
    /\ rechecker.pc = "tree"
    /\ IF i = NoItem
       THEN rechecker' = [pc |-> "idle"] /\ UNCHANGED item
       ELSE /\ item' = [item EXCEPT ![i].done = {}, ![i].temp = TempName(i)]
            /\ rechecker' = [pc |-> "read", target |-> t, tth |-> rechecker.tth, file |-> TempName(i)]
    /\ UNCHANGED <<fileQueue, userQueue, running, dirty, download, closing, fileVars, saved>>

\* Mutant: the size of the file is all that is looked at.
RecheckRead_SizeOnly ==
    /\ rechecker.pc = "read"
    /\ rechecker' = [pc |-> "judge", target |-> rechecker.target, tth |-> rechecker.tth,
                     good |-> IF rechecker.file \in DOMAIN disk /\ rechecker.file[2] = rechecker.tth
                              THEN Blocks ELSE {}]
    /\ UNCHANGED <<queueVars, dirty, download, closing, fileVars, saved>>

\* The file is read without the lock.
RecheckRead ==
    /\ rechecker.pc = "read"
    /\ rechecker' = [pc |-> "judge", target |-> rechecker.target, tth |-> rechecker.tth,
                     good |-> IF rechecker.file \in DOMAIN disk /\ rechecker.file[2] = rechecker.tth
                              THEN disk[rechecker.file] ELSE {}]
    /\ UNCHANGED <<queueVars, dirty, download, closing, fileVars, saved>>

\* moveStuckFile(): every block was good.
MoveStuckFile(i) ==
    LET name == TempName(i) IN
    /\ IF name \in DOMAIN disk
       THEN /\ MovesTo(name, TargetOf(i))
            /\ download' = Replaced(name, TargetOf(i))
       ELSE UNCHANGED <<fileVars, download>>
    /\ IF Finished(i) THEN UserQueueRemove(i) ELSE UNCHANGED <<userQueue, running>>
    /\ IF KeepFinished
       THEN /\ item' = [item EXCEPT ![i].done = AddSegment(@, <<0, Size>>)]
            /\ UNCHANGED fileQueue
       ELSE FileQueueRemove(i)
    /\ UNCHANGED dirty

\* The two nested loops advance `pos` with every pair of leaves compared: the
\* good block b is found at the pair (b, b).
MarkGood(i, good) ==
    /\ item' = [item EXCEPT ![i].done =
                   FoldSet(LAMBDA b, done : AddSegment(done, <<b * (Size + 1), b * (Size + 1) + 1>>),
                           @, good)]
    /\ dirty' = TRUE
    /\ UNCHANGED <<fileQueue, userQueue, running, fileVars, download>>

RecheckJudge ==
    LET i == fileQueue[rechecker.target] IN
    /\ rechecker.pc = "judge"
    /\ rechecker' = [pc |-> "idle"]
    /\ \/ i = NoItem /\ UNCHANGED <<queueVars, dirty, download, fileVars>>
       \/ i # NoItem /\ rechecker.good = Blocks /\ MoveStuckFile(i)
       \/ i # NoItem /\ rechecker.good # Blocks /\ MarkGood(i, rechecker.good)
    /\ UNCHANGED <<closing, saved>>

-----------------------------------------------------------------------------
UserInterface ==
    \/ \E t \in Targets, r \in Roots, u \in Users : Add(t, r, u)
    \/ \E i \in Items, u \in Users : AddSource(i, u)
    \/ \E t \in Targets : RemoveItem(t) \/ RecheckBegin(t)
    \/ \E t \in Targets, u \in Users : RemoveSource(t, u)
    \/ \E t \in Targets, p \in BOOLEAN : SetPriority(t, p)
    \/ \E s, t \in Targets : Move(s, t)
    \/ \E u \in Users : RemoveUser(u)

Connection(u) ==
    GetDownload(u) \/ SetFile(u) \/ Data(u) \/ Finish(u) \/ Fail(u)

Next ==
    \/ UserInterface
    \/ \E u \in Users : Connection(u)
    \/ Save \/ Restart
    \/ RecheckClear \/ RecheckRead \/ RecheckJudge

Spec == Init /\ [][Next]_vars

-----------------------------------------------------------------------------
(* Properties.                                                             *)

\* An item that is not finished is in the list of each of its sources: a user
\* it is missing from would never be asked for it.
NothingUnlisted ==
    \A i \in Live : Finished(i) \/ \A u \in item[i].sources : <<i, u>> \in userQueue

\* "All queue items indexed by user (this is a cache for the FileQueue
\* really...)": what a user's list holds is in the file queue; otherwise it is
\* a pointer to a deleted item.
UserQueueIsCache ==
    /\ \A p \in userQueue : p[1] \in Live
    /\ \A u \in Users : running[u] \in Live \cup {NoItem}

\* `running` and the downloads of the items tell the same.
RunningMatches ==
    \A u \in Users, i \in Items :
        running[u] = i <=> i \in Live /\ u \in item[i].downloads

\* A file is queued once, so that two items never share its temporary file.
OneItemPerFile ==
    \A s, t \in Targets :
        s # t /\ fileQueue[s] # NoItem /\ fileQueue[t] # NoItem
        => item[fileQueue[s]].tth # item[fileQueue[t]].tth

\* What counts as done is in the temporary file, while there is one, or in the
\* file at the target where the item is written to that: a block that is not is
\* never asked for again, and the file would be corrupt.
DoneIsOnDisk ==
    \A i \in Live :
        LET done == Units(item[i].done) \cap Blocks
            there == final[TargetOf(i)]
        IN
        /\ ~Finished(i) /\ TempName(i) \in DOMAIN disk => done \subseteq disk[TempName(i)]
        /\ ~Finished(i) /\ TempName(i) = NoName =>
               \A b \in done : b \in DOMAIN there /\ there[b] = item[i].tth

Whole(r) == [b \in Blocks |-> r]

\* What ends an item: the last missing segment, or a recheck that finds all.
Finishes(u) ==
    LET d == download[u] IN
    /\ Finish(u) /\ fileQueue[d.path] # NoItem
    /\ IsFinished(AddSegment(item[fileQueue[d.path]].done, d.seg), Size)

Restores == RecheckJudge /\ fileQueue[rechecker.target] # NoItem /\ rechecker.good = Blocks

\* The file that is at the target when an item is reported as finished is whole,
\* and each block of it is of the file that was queued.
FinishedIsWhole ==
    [][/\ \A u \in DOMAIN download : Finishes(u) =>
              final'[download[u].path] = Whole(item[fileQueue[download[u].path]].tth)
       /\ Restores => final'[rechecker.target] = Whole(item[fileQueue[rechecker.target]].tth)]_vars

\* A download whose user is not a source any more is told to end.
DroppedIsDisconnected ==
    \A u \in DOMAIN download : running[u] = NoItem => u \in closing
=============================================================================
