-------------------------- MODULE DownloadQueueProofs --------------------------
(***************************************************************************)
(* What holds of the queued files for any number of targets, files, users  *)
(* and items.  The first part, up to OneItemPerFileHolds, is for whatever  *)
(* happens to them (every member of Operations); the second one is of the  *)
(* steps that are Orderly, without the races of which the model shows that *)
(* they break what is claimed; the third one, about the files on disk, is  *)
(* of those that are Orderly and Intact.                                   *)
(***************************************************************************)
EXTENDS DownloadQueue, FiniteSetTheorems, WellFoundedInduction, TLAPS

USE DEF queueVars, fileVars

\* The items are records, kept by their addresses.
Keyed(its) == DOMAIN its = Items /\ \A i \in Items : "tth" \in DOMAIN its[i]

Indexed == fileQueue \in [Targets -> Items \cup {NoItem}]

\* What putDownload() and the Rechecker look their item up by is a target.
Placed(downloads) ==
    \A u \in DOMAIN downloads : "path" \in DOMAIN downloads[u] /\ downloads[u].path \in Targets

Aimed == rechecker.pc # "idle" => rechecker.target \in Targets

\* Queue.xml holds each file once, too.
SavedOnce ==
    /\ DOMAIN saved \subseteq Targets
    /\ \A s, t \in DOMAIN saved : s # t => saved[s].tth # saved[t].tth

QInv == Keyed(item) /\ Indexed /\ Placed(download) /\ Aimed /\ SavedOnce /\ OneItemPerFile

-----------------------------------------------------------------------------
\* Whatever else of the items changes: each keeps its file and its target.
LEMMA SameFiles ==
    ASSUME QInv, UNCHANGED fileQueue, \A i \in Items : item'[i].tth = item[i].tth
    PROVE  Indexed' /\ OneItemPerFile'
<1>1. \A t \in Targets : fileQueue[t] # NoItem => fileQueue[t] \in Items
  BY DEF QInv, Indexed
<1> QED
  BY <1>1 DEF QInv, Indexed, OneItemPerFile

\* FileQueue::remove() leaves the others as they are: no two share an item.
LEMMA Removing ==
    ASSUME QInv, NEW t \in Targets, fileQueue[t] # NoItem, FileQueueRemove(fileQueue[t])
    PROVE  Keyed(item') /\ Indexed' /\ OneItemPerFile'
<1>1. PICK i \in Items : i = fileQueue[t]
  BY DEF QInv, Indexed
<1>2. TargetOf(i) = t
  <2>1. TargetOf(i) \in Targets /\ fileQueue[TargetOf(i)] = i
    BY <1>1 DEF TargetOf
  <2> QED
    BY <1>1, <2>1 DEF QInv, OneItemPerFile
<1>3. /\ fileQueue' = [fileQueue EXCEPT ![t] = NoItem]
      /\ item' = [item EXCEPT ![i] = Freed]
  BY <1>1, <1>2 DEF FileQueueRemove
<1>4. Keyed(item')
  BY <1>3 DEF QInv, Keyed, Freed, NewItem
<1>5. Indexed'
  BY <1>3 DEF QInv, Indexed
<1>6. ASSUME NEW s \in Targets, fileQueue'[s] # NoItem
      PROVE  /\ fileQueue'[s] = fileQueue[s] /\ fileQueue[s] # NoItem
             /\ item'[fileQueue[s]] = item[fileQueue[s]]
  <2>1. s # t /\ fileQueue'[s] = fileQueue[s]
    BY <1>3, <1>6 DEF QInv, Indexed
  <2>2. fileQueue[s] \in Items /\ fileQueue[s] # i
    BY <1>1, <1>6, <2>1 DEF QInv, Indexed, OneItemPerFile
  <2> QED
    BY <1>3, <1>6, <2>1, <2>2 DEF QInv, Keyed
<1>7. OneItemPerFile'
  BY <1>6 DEF QInv, OneItemPerFile
<1> QED
  BY <1>4, <1>5, <1>7

\* Downloads that lose their file, or are forgotten, are the same otherwise.
LEMMA Orphaning ==
    ASSUME Placed(download), NEW name
    PROVE  /\ Placed(Orphaned(name)) /\ \A u : Placed(Without(Orphaned(name), u))
           /\ \A t : Placed(Replaced(name, t)) /\ \A u : Placed(Without(Replaced(name, t), u))
<1>1. Placed(Orphaned(name)) /\ DOMAIN Orphaned(name) = DOMAIN download
  BY DEF Placed, Orphaned
<1>2. ASSUME NEW t PROVE Placed(Replaced(name, t))
  BY <1>1 DEF Placed, Replaced
<1> QED
  BY <1>1, <1>2 DEF Placed, Without

-----------------------------------------------------------------------------
(* The items, step by step.                                                *)

\* A step that only changes other parts of the items.
LEMMA ItemsKept ==
    ASSUME QInv, UNCHANGED fileQueue, Keyed(item'),
           \A i \in Items : item'[i].tth = item[i].tth
    PROVE  Keyed(item') /\ Indexed' /\ OneItemPerFile'
  BY SameFiles

\* The steps that change the record of one item: Sourced() and the others
\* leave its file alone.
LEMMA ItemChanged ==
    ASSUME QInv, UNCHANGED fileQueue, NEW i \in Items, NEW it,
           item' = [item EXCEPT ![i] = it], "tth" \in DOMAIN it, it.tth = item[i].tth
    PROVE  Keyed(item') /\ Indexed' /\ OneItemPerFile'
<1>1. Keyed(item') /\ \A j \in Items : item'[j].tth = item[j].tth
  BY DEF QInv, Keyed
<1> QED
  BY <1>1, ItemsKept

LEMMA Field ==
    ASSUME NEW it, "tth" \in DOMAIN it, NEW x, NEW y, NEW z
    PROVE  /\ "tth" \in DOMAIN [it EXCEPT !.done = x] /\ [it EXCEPT !.done = x].tth = it.tth
           /\ "tth" \in DOMAIN [it EXCEPT !.temp = x] /\ [it EXCEPT !.temp = x].tth = it.tth
           /\ "tth" \in DOMAIN [it EXCEPT !.paused = x] /\ [it EXCEPT !.paused = x].tth = it.tth
           /\ "tth" \in DOMAIN [it EXCEPT !.downloads = x]
           /\ [it EXCEPT !.downloads = x].tth = it.tth
  OBVIOUS

LEMMA SourcedFile ==
    ASSUME NEW it, "tth" \in DOMAIN it, NEW u
    PROVE  /\ "tth" \in DOMAIN Sourced(it, u) /\ Sourced(it, u).tth = it.tth
           /\ "tth" \in DOMAIN DropSource(it, u) /\ DropSource(it, u).tth = it.tth
  BY DEF Sourced, DropSource

\* add() queues a file that no item has, under an address that none has.
LEMMA AddStep ==
    ASSUME QInv, NEW t \in Targets, NEW r \in Roots, NEW u \in Users, Add(t, r, u)
    PROVE  Keyed(item') /\ Indexed' /\ OneItemPerFile'
<1>1. PICK i \in Items : /\ Unused(i)
                         /\ fileQueue' = [fileQueue EXCEPT ![t] = i]
                         /\ PutSource(i, NewItem(r), u)
  BY DEF Add
<1>2. /\ \A s \in Targets : fileQueue[s] # i
      /\ \A s \in Targets : fileQueue[s] # NoItem => item[fileQueue[s]].tth # r
  <2>1. i \in Items /\ i # NoItem /\ i \notin Live
    BY <1>1, DownloadQueueAssumption DEF Unused
  <2> QED
    BY <2>1 DEF Add, Live
<1>3. item' = [item EXCEPT ![i] = Sourced(NewItem(r), u)]
  BY <1>1 DEF PutSource
<1>4. "tth" \in DOMAIN Sourced(NewItem(r), u) /\ Sourced(NewItem(r), u).tth = r
  <2>1. "tth" \in DOMAIN NewItem(r) /\ NewItem(r).tth = r
    BY DEF NewItem
  <2> QED
    BY <2>1, SourcedFile
<1>5. Keyed(item') /\ item'[i].tth = r /\ \A j \in Items \ {i} : item'[j] = item[j]
  BY <1>3, <1>4 DEF QInv, Keyed
<1>6. Indexed' /\ fileQueue'[t] = i /\ \A s \in Targets \ {t} : fileQueue'[s] = fileQueue[s]
  BY <1>1 DEF QInv, Indexed
<1>7. OneItemPerFile'
  <2>1. \A s \in Targets \ {t} : fileQueue'[s] # NoItem =>
            item'[fileQueue'[s]] = item[fileQueue[s]] /\ item[fileQueue[s]].tth # r
    BY <1>2, <1>5, <1>6 DEF QInv, Indexed
  <2>2. item'[fileQueue'[t]].tth = r
    BY <1>5, <1>6
  <2> SUFFICES ASSUME NEW a \in Targets, NEW b \in Targets, a # b,
                      fileQueue'[a] # NoItem, fileQueue'[b] # NoItem
               PROVE  item'[fileQueue'[a]].tth # item'[fileQueue'[b]].tth
    BY DEF OneItemPerFile
  <2>3. CASE a = t
    BY <2>1, <2>2, <2>3
  <2>4. CASE b = t
    BY <2>1, <2>2, <2>4
  <2>5. CASE a # t /\ b # t
    <3>1. fileQueue[a] # NoItem /\ fileQueue[b] # NoItem
      BY <1>6, <2>5
    <3> QED
      BY <2>1, <2>5, <3>1 DEF QInv, OneItemPerFile
  <2> QED
    BY <2>3, <2>4, <2>5
<1> QED
  BY <1>5, <1>6, <1>7

\* move() takes an item to a target that has none.
LEMMA MoveStep ==
    ASSUME QInv, NEW s \in Targets, NEW t \in Targets, Move(s, t)
    PROVE  Keyed(item') /\ Indexed' /\ OneItemPerFile'
<1>1. /\ fileQueue[s] # NoItem /\ fileQueue[t] = NoItem /\ item' = item
      /\ fileQueue' = [fileQueue EXCEPT ![s] = NoItem, ![t] = fileQueue[s]]
  BY DEF Move
<1>2. Indexed' /\ fileQueue'[t] = fileQueue[s] /\ fileQueue'[s] = NoItem
      /\ \A r \in Targets \ {s, t} : fileQueue'[r] = fileQueue[r]
  BY <1>1 DEF QInv, Indexed
<1>3. OneItemPerFile'
  <2> DEFINE before(a) == IF a = t THEN s ELSE a
  <2>1. ASSUME NEW a \in Targets, fileQueue'[a] # NoItem
        PROVE  before(a) \in Targets /\ a # s /\ fileQueue'[a] = fileQueue[before(a)]
    BY <1>2, <2>1
  <2> SUFFICES ASSUME NEW a \in Targets, NEW b \in Targets, a # b,
                      fileQueue'[a] # NoItem, fileQueue'[b] # NoItem
               PROVE  item[fileQueue'[a]].tth # item[fileQueue'[b]].tth
    BY <1>1 DEF OneItemPerFile
  <2>2. before(a) # before(b)
    BY <2>1
  <2> HIDE DEF before
  <2> QED
    BY <2>1, <2>2 DEF QInv, OneItemPerFile
<1> QED
  BY <1>1, <1>2, <1>3 DEF QInv

LEMMA Queued ==
    ASSUME QInv
    PROVE  \A t \in Targets : fileQueue[t] # NoItem => fileQueue[t] \in Items
  BY DEF QInv, Indexed

LEMMA UserInterfaceStep ==
    ASSUME QInv, UserInterface
    PROVE  Keyed(item') /\ Indexed' /\ OneItemPerFile'
<1>1. ASSUME NEW i \in Items, NEW u \in Users, AddSource(i, u)
      PROVE  Keyed(item') /\ Indexed' /\ OneItemPerFile'
  <2>1. item' = [item EXCEPT ![i] = Sourced(item[i], u)] /\ UNCHANGED fileQueue
    BY <1>1 DEF AddSource, PutSource
  <2>2. "tth" \in DOMAIN item[i]
    BY DEF QInv, Keyed
  <2> QED
    BY <2>1, <2>2, SourcedFile, ItemChanged
<1>2. ASSUME NEW t \in Targets, RemoveItem(t)
      PROVE  Keyed(item') /\ Indexed' /\ OneItemPerFile'
  BY <1>2, Removing DEF RemoveItem
<1>3. ASSUME NEW t \in Targets, RecheckBegin(t)
      PROVE  Keyed(item') /\ Indexed' /\ OneItemPerFile'
  <2>1. PICK i \in Items : i = fileQueue[t]
    BY <1>3, Queued DEF RecheckBegin
  <2>2. item' = [item EXCEPT ![i].temp = TempName(i)] /\ UNCHANGED fileQueue
    BY <1>3, <2>1 DEF RecheckBegin
  <2>3. "tth" \in DOMAIN item[i]
    BY DEF QInv, Keyed
  <2>4. item' = [item EXCEPT ![i] = [item[i] EXCEPT !.temp = TempName(i)]]
    BY <2>2
  <2> QED
    BY <2>2, <2>3, <2>4, Field, ItemChanged
<1>4. ASSUME NEW t \in Targets, NEW u \in Users, RemoveSource(t, u)
      PROVE  Keyed(item') /\ Indexed' /\ OneItemPerFile'
  <2>1. PICK i \in Items : i = fileQueue[t]
    BY <1>4, Queued DEF RemoveSource
  <2>2. item' = [item EXCEPT ![i] = DropSource(item[i], u)] /\ UNCHANGED fileQueue
    BY <1>4, <2>1 DEF RemoveSource
  <2>3. "tth" \in DOMAIN item[i]
    BY DEF QInv, Keyed
  <2> QED
    BY <2>2, <2>3, SourcedFile, ItemChanged
<1>5. ASSUME NEW t \in Targets, NEW p \in BOOLEAN, SetPriority(t, p)
      PROVE  Keyed(item') /\ Indexed' /\ OneItemPerFile'
  <2>1. PICK i \in Items : i = fileQueue[t]
    BY <1>5, Queued DEF SetPriority
  <2>2. item' = [item EXCEPT ![i] = [item[i] EXCEPT !.paused = p]] /\ UNCHANGED fileQueue
    BY <1>5, <2>1 DEF SetPriority
  <2>3. "tth" \in DOMAIN item[i]
    BY DEF QInv, Keyed
  <2> QED
    BY <2>2, <2>3, Field, ItemChanged
<1>6. ASSUME NEW u \in Users, RemoveUser(u)
      PROVE  Keyed(item') /\ Indexed' /\ OneItemPerFile'
  <2>1. PICK dropped : item' = [i \in Items |->
                                   IF i \in dropped THEN DropSource(item[i], u) ELSE item[i]]
    BY <1>6 DEF RemoveUser
  <2>2. \A i \in Items : "tth" \in DOMAIN item[i]
    BY DEF QInv, Keyed
  <2>3. Keyed(item') /\ \A i \in Items : item'[i].tth = item[i].tth
    BY <2>1, <2>2, SourcedFile DEF Keyed
  <2>4. UNCHANGED fileQueue
    BY <1>6 DEF RemoveUser
  <2> QED
    BY <2>3, <2>4, ItemsKept
<1> QED
  BY <1>1, <1>2, <1>3, <1>4, <1>5, <1>6, AddStep, MoveStep DEF UserInterface

\* UserQueue::removeDownload().
LEMMA RemoveDownloadStep ==
    ASSUME QInv, NEW i \in Items, NEW it, NEW u, "tth" \in DOMAIN it, it.tth = item[i].tth,
           RemoveDownload(i, it, u)
    PROVE  Keyed(item') /\ Indexed' /\ OneItemPerFile'
<1> DEFINE new == [it EXCEPT !.downloads = @ \ {u}]
<1>1. item' = [item EXCEPT ![i] = new] /\ UNCHANGED fileQueue
  BY DEF RemoveDownload
<1>2. "tth" \in DOMAIN new /\ new.tth = item[i].tth
  OBVIOUS
<1> HIDE DEF new
<1> QED
  BY <1>1, <1>2, ItemChanged

\* putDownload() finds its item by the target of the download.
LEMMA ConnectionStep ==
    ASSUME QInv, NEW u \in Users, Connection(u)
    PROVE  Keyed(item') /\ Indexed' /\ OneItemPerFile'
<1>1. CASE GetDownload(u)
  <2>1. PICK i \in Live :
            LET name == TempName(i)
                done == IF name \in DOMAIN disk THEN item[i].done ELSE {}
            IN  item' = [item EXCEPT ![i].temp = name, ![i].done = done,
                                     ![i].downloads = @ \cup {u}]
    BY <1>1 DEF GetDownload
  <2>2. i \in Items /\ UNCHANGED fileQueue
    BY <1>1, Queued DEF Live, GetDownload
  <2> DEFINE name == TempName(i)
             done == IF name \in DOMAIN disk THEN item[i].done ELSE {}
             new == [item[i] EXCEPT !.temp = name, !.done = done, !.downloads = @ \cup {u}]
  <2>3. "tth" \in DOMAIN item[i] /\ DOMAIN item = Items
    BY <2>2 DEF QInv, Keyed
  <2>4. item' = [item EXCEPT ![i] = new]
    BY <2>1, <2>2, <2>3
  <2>5. "tth" \in DOMAIN new /\ new.tth = item[i].tth
    BY <2>3
  <2> HIDE DEF new
  <2> QED
    BY <2>2, <2>4, <2>5, ItemChanged
<1>2. CASE SetFile(u) \/ Data(u)
  BY <1>2, SameFiles DEF SetFile, Data, QInv
<1>3. ASSUME u \in DOMAIN download, PutGone(u)
      PROVE  Keyed(item') /\ Indexed' /\ OneItemPerFile'
  BY <1>3, SameFiles DEF PutGone, QInv
<1> DEFINE t == download[u].path
<1>4. u \in DOMAIN download => t \in Targets
  BY DEF QInv, Placed
<1> HIDE DEF t
<1>5. ASSUME NEW i \in Items, i = fileQueue[t], t \in Targets, i # NoItem, NEW done,
             Complete(u, i, done)
      PROVE  Keyed(item') /\ Indexed' /\ OneItemPerFile'
  <2>1. CASE KeepFinished
    <3> DEFINE own == {v \in item[i].downloads : ~(running[v] = i /\ v \in item[i].sources)}
               new == [item[i] EXCEPT !.done = done, !.downloads = own]
    <3>1. item' = [item EXCEPT ![i] = new] /\ UNCHANGED fileQueue
      BY <1>5, <2>1 DEF Complete
    <3> HIDE DEF own
    <3>2. "tth" \in DOMAIN new /\ new.tth = item[i].tth
      BY DEF QInv, Keyed
    <3> HIDE DEF new
    <3> QED
      BY <3>1, <3>2, ItemChanged
  <2>2. CASE ~KeepFinished
    BY <1>5, <2>2, Removing DEF Complete
  <2> QED
    BY <2>1, <2>2
<1>6. CASE Finish(u)
  <2>1. CASE PutGone(u)
    BY <1>3, <1>6, <2>1 DEF Finish
  <2>2. CASE ~PutGone(u)
    <3>1. PICK i, done :
             /\ i \in Items /\ i = fileQueue[t] /\ i # NoItem /\ t \in Targets
             /\ \/ Complete(u, i, done)
                \/ RemoveDownload(i, [item[i] EXCEPT !.done = done], u)
      <4>1. u \in DOMAIN download
        BY <1>6 DEF Finish
      <4>2. PICK i, done : /\ i = fileQueue[t] /\ i # NoItem
                           /\ \/ Complete(u, i, done)
                              \/ RemoveDownload(i, [item[i] EXCEPT !.done = done], u)
        BY <1>6, <2>2 DEF Finish, t
      <4> QED
        BY <1>4, <4>1, <4>2, Queued
    <3>2. "tth" \in DOMAIN item[i]
      BY <3>1 DEF QInv, Keyed
    <3>3. ASSUME RemoveDownload(i, [item[i] EXCEPT !.done = done], u)
          PROVE  Keyed(item') /\ Indexed' /\ OneItemPerFile'
      BY <3>1, <3>2, <3>3, Field, RemoveDownloadStep
    <3> QED
      BY <1>5, <3>1, <3>3
  <2> QED
    BY <2>1, <2>2
<1>7. CASE Fail(u)
  <2>1. u \in DOMAIN download /\ \E got : PutFailed(u, got)
    BY <1>7 DEF Fail
  <2>2. CASE PutGone(u)
    BY <1>3, <2>1, <2>2
  <2>3. CASE ~PutGone(u)
    <3>1. PICK i, name, done :
             /\ i = fileQueue[t] /\ i # NoItem
             /\ RemoveDownload(i, [item[i] EXCEPT !.temp = name, !.done = done], u)
      BY <2>1, <2>3 DEF PutFailed, t
    <3>2. i \in Items
      BY <1>4, <2>1, <3>1, Queued
    <3> DEFINE new == [item[i] EXCEPT !.temp = name, !.done = done]
    <3>3. "tth" \in DOMAIN new /\ new.tth = item[i].tth
      BY <3>2 DEF QInv, Keyed
    <3>4. RemoveDownload(i, new, u)
      BY <3>1
    <3> HIDE DEF new
    <3> QED
      BY <3>2, <3>3, <3>4, RemoveDownloadStep
  <2> QED
    BY <2>2, <2>3
<1> QED
  BY <1>1, <1>2, <1>6, <1>7 DEF Connection

\* What saveQueue() writes names every file once, as the queue does.
LEMMA SaveStep ==
    ASSUME QInv, Save
    PROVE  Keyed(item') /\ Indexed' /\ OneItemPerFile' /\ SavedOnce'
<1>1. UNCHANGED fileQueue /\ saved' = Image
  BY DEF Save
<1>2. \A i \in Items : "tth" \in DOMAIN item[i]
  BY DEF QInv, Keyed
<1>3. Keyed(item') /\ \A i \in Items : item'[i].tth = item[i].tth
  BY <1>2, Field DEF Save, Keyed
<1>4. SavedOnce'
  <2>1. /\ DOMAIN Image = {t \in Targets : fileQueue[t] # NoItem}
        /\ \A t \in DOMAIN Image : Image[t].tth = item[fileQueue[t]].tth
    BY DEF Image, Entry
  <2> QED
    BY <1>1, <2>1 DEF QInv, SavedOnce, OneItemPerFile
<1> QED
  BY <1>1, <1>3, <1>4, ItemsKept

\* loadQueue() makes an item of its own of every entry.
LEMMA RestartStep ==
    ASSUME QInv, Restart
    PROVE  Keyed(item') /\ Indexed' /\ OneItemPerFile'
<1>1. PICK where \in [DOMAIN saved -> Items] :
         /\ \A s, t \in DOMAIN saved : where[s] = where[t] => s = t
         /\ fileQueue' = [t \in Targets |-> IF t \in DOMAIN saved THEN where[t] ELSE NoItem]
         /\ item' = [i \in Items |->
                        IF \E t \in DOMAIN saved : where[t] = i
                        THEN LET e == saved[CHOOSE t \in DOMAIN saved : where[t] = i] IN
                             [NewItem(e.tth) EXCEPT !.done = Loaded(e), !.paused = e.paused,
                                  !.sources = e.sources, !.temp = e.temp]
                        ELSE Freed]
  BY DEF Restart
<1>2. Keyed(item')
  BY <1>1 DEF Keyed, NewItem, Freed
<1>3. Indexed'
  BY <1>1 DEF Indexed
<1>4. ASSUME NEW t \in DOMAIN saved
      PROVE  item'[where[t]].tth = saved[t].tth
  <2>1. (CHOOSE s \in DOMAIN saved : where[s] = where[t]) = t
    BY <1>1
  <2> DEFINE e == saved[t]
  <2>2. item'[where[t]] = [NewItem(e.tth) EXCEPT !.done = Loaded(e), !.paused = e.paused,
                               !.sources = e.sources, !.temp = e.temp]
    BY <1>1, <2>1
  <2> QED
    BY <2>2 DEF NewItem
<1>5. OneItemPerFile'
  <2>1. \A t \in Targets : fileQueue'[t] # NoItem =>
            t \in DOMAIN saved /\ fileQueue'[t] = where[t]
    BY <1>1
  <2> QED
    BY <1>4, <2>1 DEF OneItemPerFile, QInv, SavedOnce
<1> QED
  BY <1>2, <1>3, <1>5

\* The Rechecker looks its item up again in each of its steps.
LEMMA RecheckerStep ==
    ASSUME QInv, RecheckClear \/ RecheckRead \/ RecheckJudge
    PROVE  Keyed(item') /\ Indexed' /\ OneItemPerFile'
<1> DEFINE t == rechecker.target
           i == fileQueue[t]
<1>1. CASE item' = item /\ UNCHANGED fileQueue
  BY <1>1, SameFiles DEF QInv
<1>2. rechecker.pc # "idle" => t \in Targets /\ (i # NoItem => i \in Items)
  BY Queued DEF QInv, Aimed
<1>3. ASSUME i \in Items PROVE "tth" \in DOMAIN item[i]
  BY <1>3 DEF QInv, Keyed
<1> HIDE DEF t, i
<1>4. ASSUME RecheckClear, i # NoItem
      PROVE  Keyed(item') /\ Indexed' /\ OneItemPerFile'
  <2>1. item' = [item EXCEPT ![i].done = {}, ![i].temp = TempName(i)] /\ UNCHANGED fileQueue
        /\ i \in Items
    BY <1>2, <1>4 DEF RecheckClear, t, i
  <2> DEFINE new == [item[i] EXCEPT !.done = {}, !.temp = TempName(i)]
  <2>2. item' = [item EXCEPT ![i] = new]
    BY <2>1 DEF QInv, Keyed
  <2>3. "tth" \in DOMAIN new /\ new.tth = item[i].tth
    BY <1>3, <2>1
  <2> HIDE DEF new
  <2> QED
    BY <2>1, <2>2, <2>3, ItemChanged
<1>5. ASSUME i \in Items, NEW done, UNCHANGED fileQueue,
             item' = [item EXCEPT ![i].done = done]
      PROVE  Keyed(item') /\ Indexed' /\ OneItemPerFile'
  <2>1. item' = [item EXCEPT ![i] = [item[i] EXCEPT !.done = done]]
    BY <1>5
  <2> QED
    BY <1>3, <1>5, <2>1, Field, ItemChanged
<1>6. ASSUME t \in Targets, i # NoItem, i \in Items, MoveStuckFile(i)
      PROVE  Keyed(item') /\ Indexed' /\ OneItemPerFile'
  <2>1. CASE KeepFinished
    <3>1. UNCHANGED fileQueue /\ item' = [item EXCEPT ![i].done = AddSegment(@, <<0, Size>>)]
      BY <1>6, <2>1 DEF MoveStuckFile
    <3> QED
      BY <1>5, <1>6, <3>1
  <2>2. CASE ~KeepFinished
    BY <1>6, <2>2, Removing DEF MoveStuckFile, i
  <2> QED
    BY <2>1, <2>2
<1>7. ASSUME i \in Items, NEW good, MarkGood(i, good)
      PROVE  Keyed(item') /\ Indexed' /\ OneItemPerFile'
  <2>1. UNCHANGED fileQueue /\ \E done : item' = [item EXCEPT ![i].done = done]
    BY <1>7 DEF MarkGood
  <2> QED
    BY <1>5, <1>7, <2>1
<1>8. CASE RecheckClear
  BY <1>1, <1>4, <1>8 DEF RecheckClear, t, i
<1>9. CASE RecheckRead
  BY <1>1, <1>9 DEF RecheckRead
<1>10. CASE RecheckJudge
  <2>1. rechecker.pc # "idle"
    BY <1>10 DEF RecheckJudge
  <2> QED
    BY <1>1, <1>2, <1>6, <1>7, <1>10, <2>1 DEF RecheckJudge, t, i
<1> QED
  BY <1>8, <1>9, <1>10

-----------------------------------------------------------------------------
(* Downloads, the Rechecker and Queue.xml.                                 *)

\* What the user interface and the connections do to the Rechecker and to
\* Queue.xml: nothing, but that the user starts a recheck.
LEMMA UserInterfaceFrame ==
    ASSUME UserInterface
    PROVE  UNCHANGED saved /\ (UNCHANGED rechecker \/ \E t \in Targets : RecheckBegin(t))
<1>1. ASSUME NEW t \in Targets, NEW r \in Roots, NEW u \in Users, Add(t, r, u)
      PROVE  UNCHANGED <<saved, rechecker>>
  BY <1>1 DEF Add
<1>2. ASSUME NEW i \in Items, NEW u \in Users, AddSource(i, u)
      PROVE  UNCHANGED <<saved, rechecker>>
  BY <1>2 DEF AddSource
<1>3. ASSUME NEW t \in Targets, RemoveItem(t) PROVE UNCHANGED <<saved, rechecker>>
  BY <1>3 DEF RemoveItem
<1>4. ASSUME NEW t \in Targets, RecheckBegin(t) PROVE UNCHANGED saved
  BY <1>4 DEF RecheckBegin
<1>5. ASSUME NEW t \in Targets, NEW u \in Users, RemoveSource(t, u)
      PROVE  UNCHANGED <<saved, rechecker>>
  BY <1>5 DEF RemoveSource
<1>6. ASSUME NEW t \in Targets, NEW p \in BOOLEAN, SetPriority(t, p)
      PROVE  UNCHANGED <<saved, rechecker>>
  BY <1>6 DEF SetPriority
<1>7. ASSUME NEW s \in Targets, NEW t \in Targets, Move(s, t)
      PROVE  UNCHANGED <<saved, rechecker>>
  BY <1>7 DEF Move
<1>8. ASSUME NEW u \in Users, RemoveUser(u) PROVE UNCHANGED <<saved, rechecker>>
  BY <1>8 DEF RemoveUser
<1> QED
  BY <1>1, <1>2, <1>3, <1>4, <1>5, <1>6, <1>7, <1>8 DEF UserInterface

LEMMA ConnectionFrame ==
    ASSUME NEW u \in Users, Connection(u)
    PROVE  UNCHANGED <<saved, rechecker>>
<1>1. CASE GetDownload(u)
  BY <1>1 DEF GetDownload
<1>2. CASE SetFile(u) \/ Data(u)
  BY <1>2 DEF SetFile, Data
<1>3. Put(u) => UNCHANGED <<saved, rechecker>>
  BY DEF Put
<1>4. CASE Finish(u)
  BY <1>3, <1>4 DEF Finish, PutGone
<1>5. CASE Fail(u)
  BY <1>3, <1>5 DEF Fail, PutFailed, PutGone
<1> QED
  BY <1>1, <1>2, <1>4, <1>5 DEF Connection

LEMMA AimedStep == QInv /\ [Next]_vars => Aimed'
<1> SUFFICES ASSUME QInv, [Next]_vars PROVE Aimed'
  OBVIOUS
<1>0. Aimed
  BY DEF QInv
<1>1. CASE UserInterface
  <2>1. CASE UNCHANGED rechecker
    BY <1>0, <2>1 DEF Aimed
  <2>2. ASSUME NEW t \in Targets, RecheckBegin(t) PROVE Aimed'
    BY <2>2 DEF RecheckBegin, Aimed
  <2> QED
    BY <1>1, <2>1, <2>2, UserInterfaceFrame
<1>2. ASSUME NEW u \in Users, Connection(u) PROVE Aimed'
  BY <1>0, <1>2, ConnectionFrame DEF Aimed
<1>3. CASE Save
  BY <1>0, <1>3 DEF Save, Aimed
<1>4. CASE Restart
  BY <1>4 DEF Restart, Aimed
<1>5. CASE RecheckClear
  BY <1>0, <1>5 DEF RecheckClear, Aimed
<1>6. CASE RecheckRead
  BY <1>0, <1>6 DEF RecheckRead, Aimed
<1>7. CASE RecheckJudge
  BY <1>7 DEF RecheckJudge, Aimed
<1>8. CASE UNCHANGED vars
  BY <1>0, <1>8 DEF vars, Aimed
<1> QED
  BY <1>1, <1>2, <1>3, <1>4, <1>5, <1>6, <1>7, <1>8 DEF Next

LEMMA SavedFrame == [Next]_vars => Save \/ UNCHANGED saved
<1> SUFFICES ASSUME [Next]_vars PROVE Save \/ UNCHANGED saved
  OBVIOUS
<1>1. CASE Restart \/ RecheckClear \/ RecheckRead \/ RecheckJudge
  BY <1>1 DEF Restart, RecheckClear, RecheckRead, RecheckJudge
<1>2. CASE UNCHANGED vars
  BY <1>2 DEF vars
<1> QED
  BY <1>1, <1>2, UserInterfaceFrame, ConnectionFrame DEF Next

LEMMA PlacedStep == QInv /\ [Next]_vars => Placed(download')
<1> SUFFICES ASSUME QInv, [Next]_vars PROVE Placed(download')
  OBVIOUS
<1>0. Placed(download)
  BY DEF QInv
<1>1. CASE UserInterface
  <2>1. ASSUME NEW t \in Targets, RemoveItem(t) PROVE Placed(download')
    BY <1>0, <2>1, Orphaning DEF RemoveItem
  <2>2. ASSUME NEW t \in Targets, NEW r \in Roots, NEW u \in Users, Add(t, r, u)
        PROVE  UNCHANGED download
    BY <2>2 DEF Add
  <2>3. ASSUME NEW i \in Items, NEW u \in Users, AddSource(i, u) PROVE UNCHANGED download
    BY <2>3 DEF AddSource
  <2>4. ASSUME NEW t \in Targets, NEW u \in Users, RemoveSource(t, u) PROVE UNCHANGED download
    BY <2>4 DEF RemoveSource
  <2>5. ASSUME NEW t \in Targets, NEW p \in BOOLEAN, SetPriority(t, p) PROVE UNCHANGED download
    BY <2>5 DEF SetPriority
  <2>6. ASSUME NEW s \in Targets, NEW t \in Targets, Move(s, t) PROVE UNCHANGED download
    BY <2>6 DEF Move
  <2>7. ASSUME NEW u \in Users, RemoveUser(u) PROVE UNCHANGED download
    BY <2>7 DEF RemoveUser
  <2>8. ASSUME NEW t \in Targets, RecheckBegin(t) PROVE UNCHANGED download
    BY <2>8 DEF RecheckBegin
  <2> QED
    BY <1>0, <1>1, <2>1, <2>2, <2>3, <2>4, <2>5, <2>6, <2>7, <2>8 DEF UserInterface
<1>2. ASSUME NEW u \in Users, Connection(u) PROVE Placed(download')
  <2>1. CASE GetDownload(u)
    <3>1. PICK i \in Live, wanted \in 1..Size :
             LET name == TempName(i)
                 done == IF name \in DOMAIN disk THEN item[i].done ELSE {}
             IN  download' = With(download, u, [path |-> TargetOf(i), temp |-> name, tth |-> item[i].tth,
                                     seg |-> SegmentedNext(Size, 1, wanted, done, Busy(i)),
                                     pos |-> 0, file |-> "none"])
      BY <2>1 DEF GetDownload
    <3>2. PICK d : /\ "path" \in DOMAIN d /\ d.path = TargetOf(i)
                   /\ download' = With(download, u, d)
      <4> DEFINE name == TempName(i)
                 done == IF name \in DOMAIN disk THEN item[i].done ELSE {}
                 seg == SegmentedNext(Size, 1, wanted, done, Busy(i))
                 new == [path |-> TargetOf(i), temp |-> name, tth |-> item[i].tth,
                         seg |-> seg, pos |-> 0, file |-> "none"]
      <4>1. "path" \in DOMAIN new /\ new.path = TargetOf(i) /\ download' = With(download, u, new)
        BY <3>1
      <4> HIDE DEF new
      <4> QED
        BY <4>1
    <3>3. TargetOf(i) \in Targets
      BY DEF Live, TargetOf
    <3>4. /\ DOMAIN With(download, u, d) = DOMAIN download \cup {u}
          /\ \A v \in DOMAIN download \cup {u} :
                 With(download, u, d)[v] = IF v = u THEN d ELSE download[v]
      BY DEF With
    <3> QED
      BY <1>0, <3>2, <3>3, <3>4 DEF Placed
  <2>2. CASE SetFile(u)
    BY <1>0, <2>2 DEF SetFile, Placed
  <2>3. CASE Data(u)
    BY <1>0, <2>3 DEF Data, Placed
  <2>4. Placed(Without(download, u))
    BY <1>0 DEF Placed, Without
  <2>5. CASE Finish(u)
    BY <1>0, <2>4, <2>5, Orphaning DEF Finish, PutGone, Complete
  <2>6. CASE Fail(u)
    BY <1>0, <2>4, <2>6, Orphaning DEF Fail, PutFailed, PutGone
  <2> QED
    BY <1>2, <2>1, <2>2, <2>3, <2>5, <2>6 DEF Connection
<1>3. CASE Save
  BY <1>0, <1>3 DEF Save
<1>4. CASE Restart
  <2>1. DOMAIN <<>> = {}
    OBVIOUS
  <2>2. download' = <<>>
    BY <1>4 DEF Restart
  <2> QED
    BY <2>1, <2>2 DEF Placed
<1>5. CASE RecheckClear \/ RecheckRead
  BY <1>0, <1>5 DEF RecheckClear, RecheckRead
<1>6. CASE RecheckJudge
  BY <1>0, <1>6, Orphaning DEF RecheckJudge, MoveStuckFile, MarkGood
<1>7. CASE UNCHANGED vars
  BY <1>0, <1>7 DEF vars
<1> QED
  BY <1>1, <1>2, <1>3, <1>4, <1>5, <1>6, <1>7 DEF Next

-----------------------------------------------------------------------------
LEMMA InductiveStep == QInv /\ [Next]_vars => QInv'
<1> SUFFICES ASSUME QInv, [Next]_vars PROVE QInv'
  OBVIOUS
<1>1. Placed(download') /\ Aimed'
  BY PlacedStep, AimedStep
<1>2. SavedOnce'
  BY SavedFrame, SaveStep DEF QInv, SavedOnce
<1>3. Keyed(item') /\ Indexed' /\ OneItemPerFile'
  <2>1. CASE UNCHANGED vars
    BY <2>1, SameFiles DEF vars, QInv
  <2>2. CASE Next
    BY <2>2, UserInterfaceStep, ConnectionStep, SaveStep, RestartStep, RecheckerStep DEF Next
  <2> QED
    BY <2>1, <2>2
<1> QED
  BY <1>1, <1>2, <1>3 DEF QInv

LEMMA InitialState == Init => QInv
<1> SUFFICES ASSUME Init PROVE QInv
  OBVIOUS
<1>1. DOMAIN download = {} /\ DOMAIN saved = {}
  BY DEF Init
<1>2. Placed(download) /\ SavedOnce
  BY <1>1 DEF Placed, SavedOnce
<1>3. Keyed(item)
  BY DEF Init, Keyed, Freed, NewItem
<1>4. Indexed /\ Aimed /\ OneItemPerFile
  BY DEF Init, Indexed, Aimed, OneItemPerFile
<1> QED
  BY <1>2, <1>3, <1>4 DEF QInv

\* A file is queued for one target at a time, whatever is added, removed,
\* moved, downloaded, saved, loaded and rechecked in whatever order, crashes
\* included: add() looks for the file before it queues it, and no other
\* operation gives a file a second item.  Were there two, they would write
\* to one temporary file wherever their names agree.
THEOREM OneItemPerFileHolds == Spec => []OneItemPerFile
<1>1. QInv => OneItemPerFile
  BY DEF QInv
<1> QED
  BY <1>1, InitialState, InductiveStep, PTL DEF Spec

-----------------------------------------------------------------------------
(* Segments, and one item of them: what is proved in QueueItemProofs of    *)
(* the operators of Segments holds of them here, for they are the same.    *)

Item == INSTANCE QueueItemProofs WITH
            Size <- 1, TreeBlock <- 1, Chunks <- {1}, Downloaders <- {}, done <- {},
            flight <- <<>>, stored <- {}, hasTree <- TRUE, segmented <- TRUE

Proper == {s \in Segs : s[1] < s[2]}

LEMMA Finite == \A S : Item!IsFiniteSet(S) <=> IsFiniteSet(S)
BY DEF Item!IsFiniteSet, IsFiniteSet

LEMMA SameSegments ==
    /\ Item!Segs = Segs /\ Item!Proper = Proper /\ Item!NoSegment = NoSegment
    /\ \A D : Item!Units(D) = Units(D)
BY DEF Item!Segs, Segs, Item!Proper, Proper, Item!NoSegment, NoSegment, Item!Units, Units

LEMMA SameAddSegment == \A D, s : Item!AddSegment(D, s) = AddSegment(D, s)
BY DEF Item!AddSegment, AddSegment, Item!ToSet, ToSet, Item!Consolidation, Consolidation,
       Item!MapThenFoldSet, MapThenFoldSet, Item!Latest, Latest, Item!Consolidated, Consolidated,
       Item!Before, Before, Item!Last, Last, Item!Front, Front

LEMMA SameFree ==
    \A start, length, size, block, D, busy :
        Item!Free(start, length, size, block, D, busy) <=> Free(start, length, size, block, D, busy)
BY DEF Item!Free, Free, Item!Lesser, Lesser, Item!Overlaps, Overlaps

LEMMA SameNext ==
    \A size, block, wanted, D, busy :
        Item!SegmentedNext(size, block, wanted, D, busy) = SegmentedNext(size, block, wanted, D, busy)
BY DEF Item!SegmentedNext, SegmentedNext, Item!Free, Free, Item!Lesser, Lesser,
       Item!Overlaps, Overlaps, Item!NoSegment, NoSegment

LEMMA Added ==
    ASSUME NEW D, D \subseteq Segs, IsFiniteSet(D), NEW s \in Segs
    PROVE  /\ AddSegment(D, s) \subseteq Segs /\ IsFiniteSet(AddSegment(D, s))
           /\ Units(AddSegment(D, s)) \subseteq Units(D \cup {s})
<1>1. D \subseteq Item!Segs /\ Item!IsFiniteSet(D) /\ s \in Item!Segs
  BY Finite, SameSegments
<1>2. /\ Item!AddSegment(D, s) \subseteq Item!Segs /\ Item!IsFiniteSet(Item!AddSegment(D, s))
      /\ Item!Units(Item!AddSegment(D, s)) \subseteq Item!Units(D \cup {s})
  BY <1>1, Item!Added
<1> QED
  BY <1>2, Finite, SameSegments, SameAddSegment

LEMMA NextBlocks ==
    ASSUME NEW wanted \in Nat \ {0}, NEW busy, NEW D, D \subseteq Segs
    PROVE  LET seg == SegmentedNext(Size, 1, wanted, D, busy) IN
           /\ seg = NoSegment => \A n \in Blocks : ~Free(n, 1, Size, 1, D, busy)
           /\ seg # NoSegment => /\ seg \in Proper /\ seg[2] <= Size
                                 /\ \A n \in Nat : seg[1] <= n /\ n < seg[2] => n \notin Units(D)
                                 /\ \A b \in busy : ~Overlaps(seg, b)
<1> DEFINE seg == Item!SegmentedNext(Size, 1, wanted, D, busy)
<1>1. Size \in Nat \ {0} /\ D \subseteq Item!Segs
  BY DownloadQueueAssumption, SameSegments
<1>2. /\ seg = Item!NoSegment => \A n \in 0..(Size - 1) : ~Item!Free(n, 1, Size, 1, D, busy)
      /\ seg # Item!NoSegment => /\ seg \in Item!Proper /\ seg[2] <= Size
                                 /\ \A n \in Nat : Item!Within(n, seg) => n \notin Item!Units(D)
                                 /\ \A b \in busy : ~Item!Overlaps(seg, b)
  BY <1>1, Item!BlocksAreFree
<1>3. seg = SegmentedNext(Size, 1, wanted, D, busy)
  BY SameNext
<1> HIDE DEF seg
<1>4. seg = NoSegment => \A n \in Blocks : ~Free(n, 1, Size, 1, D, busy)
  BY <1>2, SameSegments, SameFree DEF Blocks
<1>5. seg # NoSegment => /\ seg \in Proper /\ seg[2] <= Size
                         /\ \A n \in Nat : seg[1] <= n /\ n < seg[2] => n \notin Units(D)
  BY <1>2, SameSegments DEF Item!Within
<1>6. seg # NoSegment => \A b \in busy : ~Overlaps(seg, b)
  BY <1>2, SameSegments DEF Item!Overlaps, Overlaps
<1> QED
  BY <1>3, <1>4, <1>5, <1>6

LEMMA LeastCounterexample ==
    ASSUME NEW S, IsFiniteSet(S), NEW Bad, Bad \subseteq SUBSET S, Bad # {}
    PROVE  \E T \in Bad : \A x \in T : T \ {x} \notin Bad
<1>1. Item!IsFiniteSet(S)
  BY Finite
<1> QED
  BY <1>1, Item!LeastCounterexample


-----------------------------------------------------------------------------
(* What the Rechecker marks, one good block after another.                 *)

\* What it marks for the block b: not what the block is.
Mark(b) == <<b * (Size + 1), b * (Size + 1) + 1>>

Marked(D, good) ==
    FoldSet(LAMBDA b, done : AddSegment(done, <<b * (Size + 1), b * (Size + 1) + 1>>), D, good)

Chosen(t) == CHOOSE b \in t : TRUE

\* The function that FoldSet() defines recursively, on the subsets in `family`.
Marks(D, family, it) ==
    it = [t \in family |-> IF t = {} THEN D
                           ELSE AddSegment(it[t \ {Chosen(t)}], Mark(Chosen(t)))]

LEMMA MarkedIs ==
    ASSUME NEW D, NEW good
    PROVE  Marked(D, good) = (CHOOSE it : Marks(D, SUBSET good, it))[good]
BY DEF Marked, FoldSet, MapThenFoldSet, Marks, Mark, Chosen

LEMMA MarksAt ==
    ASSUME NEW D, NEW family, NEW it, Marks(D, family, it), NEW t \in family
    PROVE  it[t] = IF t = {} THEN D ELSE AddSegment(it[t \ {Chosen(t)}], Mark(Chosen(t)))
BY DEF Marks

LEMMA ChosenIs == \A t : t # {} => Chosen(t) \in t
BY DEF Chosen

LEMMA LeastExists ==
    ASSUME NEW S, S \subseteq Nat, S # {}
    PROVE  \E m \in S : \A n \in S : m <= n
<1>1. PICK m \in S : \A n \in S : ~ (<<n, m>> \in OpToRel(<, Nat))
  BY NatLessThanWellFounded, WFMin
<1>2. ASSUME NEW n \in S PROVE m <= n
  <2>1. ~ (<<n, m>> \in OpToRel(<, Nat))
    BY <1>1
  <2> QED
    BY <2>1 DEF OpToRel
<1> QED
  BY <1>2

LEMMA MarksExists ==
    ASSUME NEW D, NEW good, IsFiniteSet(good)
    PROVE  \E it : Marks(D, SUBSET good, it)
<1> DEFINE Small(n) == {t \in SUBSET good : Cardinality(t) <= n}
           Bad == {n \in Nat : ~\E it : Marks(D, Small(n), it)}
<1>1. \A t \in SUBSET good : IsFiniteSet(t) /\ Cardinality(t) \in Nat
  BY FS_Subset, FS_CardinalityType
<1>2. ASSUME Bad # {} PROVE FALSE
  <2>1. PICK n \in Bad : \A k \in Bad : n <= k
    <3>1. Bad \subseteq Nat
      OBVIOUS
    <3> HIDE DEF Bad
    <3> QED
      BY <1>2, <3>1, LeastExists
  <2>2. n \in Nat /\ ~\E it : Marks(D, Small(n), it)
    BY <2>1
  <2>3. CASE n = 0
    <3> DEFINE it == [t \in Small(n) |-> D]
    <3>1. \A t \in Small(n) : t = {}
      BY <1>1, <2>3, FS_EmptySet
    <3>2. Marks(D, Small(n), it)
      BY <3>1 DEF Marks
    <3> QED
      BY <2>2, <3>2
  <2>4. CASE n # 0
    <3>1. n - 1 \in Nat /\ n - 1 \notin Bad
      BY <2>1, <2>2, <2>4
    <3>2. PICK old : Marks(D, Small(n - 1), old)
      BY <3>1
    <3> DEFINE it == [t \in Small(n) |->
                        IF t = {} THEN D ELSE AddSegment(old[t \ {Chosen(t)}], Mark(Chosen(t)))]
    <3>3. ASSUME NEW t \in Small(n), t # {}
          PROVE  /\ t \ {Chosen(t)} \in Small(n) /\ t \ {Chosen(t)} \in Small(n - 1)
                 /\ it[t \ {Chosen(t)}] = old[t \ {Chosen(t)}]
      <4>0. PICK r : r = t \ {Chosen(t)}
        OBVIOUS
      <4>1. Chosen(t) \in t
        BY <3>3, ChosenIs
      <4>2. Cardinality(r) = Cardinality(t) - 1
        BY <1>1, <4>0, <4>1, FS_RemoveElement
      <4>3. r \in Small(n) /\ r \in Small(n - 1)
        BY <1>1, <2>2, <4>0, <4>2
      <4> HIDE DEF Small
      <4>4. old[r] = IF r = {} THEN D ELSE AddSegment(old[r \ {Chosen(r)}], Mark(Chosen(r)))
        BY <3>2, <4>3, MarksAt
      <4>5. it[r] = old[r]
        BY <4>3, <4>4
      <4> QED
        BY <4>0, <4>3, <4>5
    <3> HIDE DEF Small
    <3>4. ASSUME NEW t \in Small(n)
          PROVE  it[t] = IF t = {} THEN D ELSE AddSegment(it[t \ {Chosen(t)}], Mark(Chosen(t)))
      <4>1. it[t] = IF t = {} THEN D ELSE AddSegment(old[t \ {Chosen(t)}], Mark(Chosen(t)))
        OBVIOUS
      <4> HIDE DEF it
      <4> QED
        BY <3>3, <4>1
    <3>5. it = [t \in Small(n) |-> it[t]]
      OBVIOUS
    <3> HIDE DEF it
    <3>6. Marks(D, Small(n), it)
      BY <3>4, <3>5 DEF Marks
    <3> QED
      BY <2>2, <3>6
  <2> QED
    BY <2>3, <2>4
<1>3. Cardinality(good) \in Nat /\ Cardinality(good) \notin Bad
  BY <1>1, <1>2
<1>4. Small(Cardinality(good)) = SUBSET good
  BY FS_Subset
<1> QED
  BY <1>3, <1>4

LEMMA Marking ==
    ASSUME NEW D, D \subseteq Segs, IsFiniteSet(D), NEW good, good \subseteq Blocks
    PROVE  /\ Marked(D, good) \subseteq Segs /\ IsFiniteSet(Marked(D, good))
           /\ Units(Marked(D, good)) \subseteq Units(D) \cup {b * (Size + 1) : b \in good}
<1>1. Size \in Nat /\ IsFiniteSet(good)
  <2>1. Size \in Nat /\ 0 \in Int /\ Size - 1 \in Int
    BY DownloadQueueAssumption
  <2>2. IsFiniteSet(Blocks)
    BY <2>1, FS_Interval DEF Blocks
  <2> QED
    BY <2>1, <2>2, FS_Subset
<1>2. PICK it : it = CHOOSE f : Marks(D, SUBSET good, f)
  OBVIOUS
<1>3. Marks(D, SUBSET good, it)
  BY <1>1, <1>2, MarksExists
<1>4. Marked(D, good) = it[good]
  BY <1>2, MarkedIs
<1> DEFINE Holds(t) == /\ it[t] \subseteq Segs /\ IsFiniteSet(it[t])
                       /\ Units(it[t]) \subseteq Units(D) \cup {b * (Size + 1) : b \in good}
           Bad == {t \in SUBSET good : ~Holds(t)}
<1>5. ASSUME Bad # {} PROVE FALSE
  <2>1. PICK t \in Bad : \A x \in t : t \ {x} \notin Bad
    <3>1. Bad \subseteq SUBSET good
      OBVIOUS
    <3> HIDE DEF Bad
    <3> QED
      BY <1>1, <1>5, <3>1, LeastCounterexample
  <2>2. t \in SUBSET good /\ ~Holds(t)
    BY <2>1
  <2>3. PICK x : x = Chosen(t)
    OBVIOUS
  <2>4. it[t] = IF t = {} THEN D ELSE AddSegment(it[t \ {x}], Mark(x))
    <3> HIDE DEF Bad
    <3> QED
      BY <1>3, <2>2, <2>3, MarksAt
  <2>5. t # {}
    BY <2>2, <2>4
  <2>6. x \in t
    BY <2>3, <2>5, ChosenIs
  <2>7. Holds(t \ {x})
    BY <2>1, <2>2, <2>6
  <2>8. x \in Nat /\ x * (Size + 1) \in Nat /\ Mark(x) \in Segs /\ x \in good
    BY <1>1, <2>2, <2>6 DEF Mark, Segs, Blocks
  <2>9. PICK old : old = it[t \ {x}]
    OBVIOUS
  <2>10. old \subseteq Segs /\ IsFiniteSet(old) /\ it[t] = AddSegment(old, Mark(x))
    BY <2>4, <2>5, <2>7, <2>9
  <2>11. /\ it[t] \subseteq Segs /\ IsFiniteSet(it[t])
         /\ Units(it[t]) \subseteq Units(old \cup {Mark(x)})
    <3> HIDE DEF Bad, Holds
    <3> QED
      BY <2>8, <2>10, Added
  <2>12. ASSUME NEW n \in Units(old \cup {Mark(x)})
         PROVE  n \in Units(D) \cup {b * (Size + 1) : b \in good}
    <3>1. n \in Units(old) \/ n \in Mark(x)[1]..(Mark(x)[2] - 1)
      BY DEF Units
    <3>2. CASE n \in Mark(x)[1]..(Mark(x)[2] - 1)
      <4>1. n = x * (Size + 1)
        BY <2>8, <3>2 DEF Mark
      <4> QED
        BY <2>8, <4>1
    <3> QED
      BY <2>7, <2>9, <3>1, <3>2
  <2> QED
    BY <2>2, <2>11, <2>12
<1>6. Holds(good)
  BY <1>5
<1> QED
  BY <1>4, <1>6

-----------------------------------------------------------------------------
(* What the parts of the state are.                                        *)

ItemTyped(it) == it \in ItemRecords /\ IsFiniteSet(it.done)

ItemsTyped(its) == DOMAIN its = Items /\ its \in [Items -> ItemRecords] /\ \A i \in Items : ItemTyped(its[i])

\* A segment ends within the file, and nothing arrives before the file is open.
DownloadTyped(d) == d \in Downloads /\ d.seg[2] <= Size /\ (d.file = "none" => d.pos = 0)

DownloadsTyped(ds) == DOMAIN ds \subseteq Users /\ \A u \in DOMAIN ds : DownloadTyped(ds[u])

DiskTyped(files) == DOMAIN files \subseteq Names /\ \A n \in DOMAIN files : files[n] \subseteq Blocks

\* A part of a file: which file each block that is there is of.
PartTyped(f) == \E written \in SUBSET Blocks : f \in [written -> Roots]

FinalsTyped(fs) == DOMAIN fs \subseteq Targets /\ \A t \in DOMAIN fs : PartTyped(fs[t])

EntryTyped(e) ==
    /\ e \in [tth: Roots, done: SUBSET Segs, paused: BOOLEAN, sources: SUBSET Users,
              temp: Names \cup {NoName}]
    /\ IsFiniteSet(e.done)

EntriesTyped(es) == DOMAIN es \subseteq Targets /\ \A t \in DOMAIN es : EntryTyped(es[t])

RecheckerTyped(r) ==
    /\ r.pc \in {"idle", "tree", "read", "judge"}
    /\ r.pc = "judge" => r.good \subseteq Blocks

Typed ==
    /\ ItemsTyped(item) /\ userQueue \subseteq Items \X Users
    /\ running \in [Users -> Items \cup {NoItem}] /\ dirty \in BOOLEAN
    /\ DownloadsTyped(download) /\ closing \subseteq Users
    /\ DiskTyped(disk) /\ FinalsTyped(final)
    /\ EntriesTyped(saved) /\ RecheckerTyped(rechecker)

LEMMA NewItemTyped == ItemTyped(Freed) /\ \A r \in Roots : ItemTyped(NewItem(r))
<1>1. IsFiniteSet({})
  BY FS_EmptySet
<1>2. ASSUME NEW r \in Roots PROVE ItemTyped(NewItem(r))
  BY <1>1 DEF ItemTyped, NewItem, ItemRecords
<1>3. (CHOOSE r \in Roots : TRUE) \in Roots
  BY DownloadQueueAssumption
<1> QED
  BY <1>2, <1>3 DEF Freed

LEMMA FieldTyped ==
    ASSUME NEW it, ItemTyped(it), NEW u \in Users
    PROVE  /\ ItemTyped(Sourced(it, u)) /\ ItemTyped(DropSource(it, u))
           /\ \A D : D \subseteq Segs /\ IsFiniteSet(D) => ItemTyped([it EXCEPT !.done = D])
           /\ \A n \in Names \cup {NoName} : ItemTyped([it EXCEPT !.temp = n])
           /\ \A p \in BOOLEAN : ItemTyped([it EXCEPT !.paused = p])
           /\ \A U : U \subseteq Users => ItemTyped([it EXCEPT !.downloads = U])
<1>1. ItemTyped(Sourced(it, u))
  BY DEF ItemTyped, ItemRecords, Sourced
<1>2. ItemTyped(DropSource(it, u))
  BY DEF ItemTyped, ItemRecords, DropSource
<1> QED
  BY <1>1, <1>2 DEF ItemTyped, ItemRecords

LEMMA ItemPut ==
    ASSUME ItemsTyped(item), NEW i \in Items, NEW it, ItemTyped(it)
    PROVE  ItemsTyped([item EXCEPT ![i] = it])
BY DEF ItemsTyped, ItemTyped

LEMMA ItemIs ==
    ASSUME ItemsTyped(item), NEW i \in Items
    PROVE  /\ ItemTyped(item[i]) /\ item[i] \in ItemRecords
           /\ item[i].done \subseteq Segs /\ IsFiniteSet(item[i].done)
           /\ item[i].sources \subseteq Users /\ item[i].downloads \subseteq Users
           /\ item[i].tth \in Roots /\ item[i].paused \in BOOLEAN
           /\ item[i].temp \in Names \cup {NoName}
BY DEF ItemsTyped, ItemTyped, ItemRecords

\* The name of the temporary file of an item that is queued.
LEMMA NameIs ==
    ASSUME QInv, ItemsTyped(item), NEW i \in Live
    PROVE  i \in Items /\ TargetOf(i) \in Targets /\ fileQueue[TargetOf(i)] = i
           /\ TempName(i) \in Names \cup {NoName}
<1>1. PICK t \in Targets : i = fileQueue[t] /\ i # NoItem
  BY DEF Live
<1>2. i \in Items
  BY <1>1, Queued
<1>3. TargetOf(i) \in Targets /\ fileQueue[TargetOf(i)] = i
  BY <1>1 DEF TargetOf
<1>4. item[i].tth \in Roots /\ item[i].temp \in Names \cup {NoName}
  BY <1>2, ItemIs
<1> QED
  BY <1>2, <1>3, <1>4 DEF TempName, Names

LEMMA DownloadIs ==
    ASSUME DownloadsTyped(download), NEW u \in DOMAIN download
    PROVE  /\ u \in Users /\ DownloadTyped(download[u])
           /\ download[u].path \in Targets /\ download[u].temp \in Names \cup {NoName}
           /\ download[u].tth \in Roots
           /\ download[u].seg \in Segs /\ download[u].seg[1] \in Nat /\ download[u].seg[2] \in Nat
           /\ download[u].seg[2] <= Size /\ download[u].pos \in Nat
           /\ (download[u].file = "none" => download[u].pos = 0)
BY DEF DownloadsTyped, DownloadTyped, Downloads, Segs

LEMMA FewerDownloads ==
    ASSUME DownloadsTyped(download), NEW name
    PROVE  /\ DownloadsTyped(Orphaned(name)) /\ \A u : DownloadsTyped(Without(download, u))
           /\ \A u : DownloadsTyped(Without(Orphaned(name), u))
           /\ \A t : DownloadsTyped(Replaced(name, t))
           /\ \A t, u : DownloadsTyped(Without(Replaced(name, t), u))
<1>1. ASSUME NEW d, DownloadTyped(d) PROVE DownloadTyped([d EXCEPT !.file = "lost"])
  BY <1>1 DEF DownloadTyped, Downloads
<1>2. DownloadsTyped(Orphaned(name)) /\ DOMAIN Orphaned(name) = DOMAIN download
  BY <1>1 DEF DownloadsTyped, Orphaned
<1>3. ASSUME NEW t PROVE DownloadsTyped(Replaced(name, t))
  BY <1>1, <1>2 DEF DownloadsTyped, Replaced
<1> QED
  BY <1>2, <1>3 DEF DownloadsTyped, Without

LEMMA FewerFiles ==
    ASSUME DiskTyped(disk), NEW name
    PROVE  DiskTyped(Without(disk, name))
BY DEF DiskTyped, Without

\* What is moved to a target is a part of the file whose name it has.
LEMMA MovesTyped ==
    ASSUME Typed, NEW name \in DOMAIN disk, NEW t \in Targets, MovesTo(name, t)
    PROVE  DiskTyped(disk') /\ FinalsTyped(final')
<1>1. disk[name] \subseteq Blocks /\ name[2] \in Roots
  BY DEF Typed, DiskTyped, Names
<1>2. PICK part : part = [b \in disk[name] |-> name[2]]
  OBVIOUS
<1>3. PartTyped(part)
  BY <1>1, <1>2 DEF PartTyped
<1>4. final' = With(final, t, part)
  BY <1>2 DEF MovesTo
<1>5. FinalsTyped(final')
  BY <1>3, <1>4 DEF Typed, FinalsTyped, With
<1>6. DiskTyped(disk')
  BY FewerFiles DEF MovesTo, Typed
<1> QED
  BY <1>5, <1>6

\* A step that leaves most of the parts alone.
LEMMA PutSourceTyped ==
    ASSUME Typed, NEW i \in Items, NEW it, ItemTyped(it), NEW u \in Users, PutSource(i, it, u)
    PROVE  ItemsTyped(item') /\ userQueue' \subseteq Items \X Users /\ dirty' \in BOOLEAN
<1>1. ItemTyped(Sourced(it, u))
  BY FieldTyped
<1>2. item' = [item EXCEPT ![i] = Sourced(it, u)] /\ dirty' = TRUE
  BY DEF PutSource
<1>3. ItemsTyped(item')
  BY <1>1, <1>2, ItemPut DEF Typed
<1>4. userQueue' \subseteq Items \X Users
  BY DEF PutSource, Typed
<1> QED
  BY <1>2, <1>3, <1>4

LEMMA UserQueueRemoveTyped ==
    ASSUME Typed, NEW i, UserQueueRemove(i)
    PROVE  userQueue' \subseteq Items \X Users /\ running' \in [Users -> Items \cup {NoItem}]
BY DEF UserQueueRemove, Typed

LEMMA FileQueueRemoveTyped ==
    ASSUME Typed, NEW i \in Items, FileQueueRemove(i)
    PROVE  ItemsTyped(item')
BY ItemPut, NewItemTyped DEF FileQueueRemove, Typed

LEMMA SourcesTyped ==
    ASSUME QInv, Typed, NEW u \in Users,
           \/ \E t \in Targets, r \in Roots : Add(t, r, u)
           \/ \E i \in Items : AddSource(i, u)
           \/ \E t \in Targets : RemoveSource(t, u)
           \/ RemoveUser(u)
    PROVE  Typed'
<1>1. ASSUME NEW t \in Targets, NEW r \in Roots, Add(t, r, u)
      PROVE  Typed'
  <2>1. PICK i \in Items : PutSource(i, NewItem(r), u)
    BY <1>1 DEF Add
  <2>2. ItemsTyped(item') /\ userQueue' \subseteq Items \X Users /\ dirty' \in BOOLEAN
    BY <2>1, PutSourceTyped, NewItemTyped
  <2> QED
    BY <1>1, <2>2 DEF Add, Typed
<1>2. ASSUME NEW i \in Items, AddSource(i, u)
      PROVE  Typed'
  <2>1. ItemsTyped(item') /\ userQueue' \subseteq Items \X Users /\ dirty' \in BOOLEAN
    BY <1>2, PutSourceTyped, ItemIs DEF AddSource, Typed
  <2> QED
    BY <1>2, <2>1 DEF AddSource, Typed
<1>3. ASSUME NEW t \in Targets, RemoveSource(t, u)
      PROVE  Typed'
  <2>1. PICK i \in Items : i = fileQueue[t]
    BY <1>3, Queued DEF RemoveSource
  <2>2. item' = [item EXCEPT ![i] = DropSource(item[i], u)]
    BY <1>3, <2>1 DEF RemoveSource
  <2>3. ItemsTyped(item')
    BY <2>2, ItemPut, ItemIs, FieldTyped DEF Typed
  <2>4. /\ running' \in [Users -> Items \cup {NoItem}] /\ closing' \subseteq Users
        /\ userQueue' \subseteq Items \X Users /\ dirty' \in BOOLEAN
    BY <1>3 DEF RemoveSource, Typed
  <2> QED
    BY <1>3, <2>3, <2>4 DEF RemoveSource, Typed
<1>4. CASE RemoveUser(u)
  <2>1. PICK dropped : item' = [i \in Items |->
                                   IF i \in dropped THEN DropSource(item[i], u) ELSE item[i]]
    BY <1>4 DEF RemoveUser
  <2>2. \A i \in Items : ItemTyped(item[i]) /\ ItemTyped(DropSource(item[i], u))
    BY ItemIs, FieldTyped DEF Typed
  <2>3. \A i \in Items : ItemTyped(item'[i])
    BY <2>1, <2>2
  <2>4. ItemsTyped(item')
    BY <2>1, <2>3 DEF ItemsTyped, ItemTyped
  <2>5. /\ running' \in [Users -> Items \cup {NoItem}] /\ closing' \subseteq Users
        /\ userQueue' \subseteq Items \X Users /\ dirty' \in BOOLEAN
    BY <1>4 DEF RemoveUser, Typed
  <2> QED
    BY <1>4, <2>4, <2>5 DEF RemoveUser, Typed
<1> QED
  BY <1>1, <1>2, <1>3, <1>4

LEMMA ItemsOfTheQueueTyped ==
    ASSUME QInv, Typed, NEW t \in Targets,
           \/ RemoveItem(t)
           \/ RecheckBegin(t)
           \/ \E p \in BOOLEAN : SetPriority(t, p)
           \/ \E s \in Targets : Move(s, t)
    PROVE  Typed'
<1>1. CASE RemoveItem(t)
  <2>1. PICK i \in Items : i = fileQueue[t]
    BY <1>1, Queued DEF RemoveItem
  <2>2. ItemsTyped(item')
    BY <1>1, <2>1, FileQueueRemoveTyped DEF RemoveItem
  <2>3. userQueue' \subseteq Items \X Users /\ running' \in [Users -> Items \cup {NoItem}]
    BY <1>1, <2>1, UserQueueRemoveTyped DEF RemoveItem, Typed
  <2>4. DownloadsTyped(download') /\ DiskTyped(disk')
    BY <1>1, FewerDownloads, FewerFiles DEF RemoveItem, Typed
  <2>5. closing' \subseteq Users /\ dirty' \in BOOLEAN
    BY <1>1, <2>1, ItemIs DEF RemoveItem, Typed
  <2> QED
    BY <1>1, <2>2, <2>3, <2>4, <2>5 DEF RemoveItem, Typed
<1>2. CASE RecheckBegin(t)
  <2>1. PICK i \in Items : i = fileQueue[t] /\ i \in Live
    BY <1>2, Queued DEF RecheckBegin, Live
  <2>2. TempName(i) \in Names \cup {NoName}
    BY <2>1, NameIs DEF Typed
  <2>3. item' = [item EXCEPT ![i] = [item[i] EXCEPT !.temp = TempName(i)]]
    BY <1>2, <2>1 DEF RecheckBegin
  <2>4. ItemTyped(item[i])
    BY <2>1, ItemIs DEF Typed
  <2>5. ItemTyped([item[i] EXCEPT !.temp = TempName(i)])
    BY <2>2, <2>4 DEF ItemTyped, ItemRecords
  <2>6. ItemsTyped(item')
    BY <2>1, <2>3, <2>5, ItemPut DEF Typed
  <2>7. RecheckerTyped(rechecker')
    BY <1>2 DEF RecheckBegin, RecheckerTyped
  <2> QED
    BY <1>2, <2>6, <2>7 DEF RecheckBegin, Typed
<1>3. ASSUME NEW p \in BOOLEAN, SetPriority(t, p)
      PROVE  Typed'
  <2>1. PICK i \in Items : i = fileQueue[t]
    BY <1>3, Queued DEF SetPriority
  <2>2. item' = [item EXCEPT ![i] = [item[i] EXCEPT !.paused = p]]
    BY <1>3, <2>1 DEF SetPriority
  <2>3. ItemTyped([item[i] EXCEPT !.paused = p])
    <3>1. ItemTyped(item[i])
      BY ItemIs DEF Typed
    <3> QED
      BY <3>1 DEF ItemTyped, ItemRecords
  <2>4. ItemsTyped(item')
    BY <2>2, <2>3, ItemPut DEF Typed
  <2>5. userQueue' \subseteq Items \X Users /\ dirty' \in BOOLEAN
    BY <1>3, <2>1, ItemIs DEF SetPriority, Typed
  <2> QED
    BY <1>3, <2>4, <2>5 DEF SetPriority, Typed
<1>4. ASSUME NEW s \in Targets, Move(s, t)
      PROVE  Typed'
  BY <1>4 DEF Move, Typed
<1> QED
  BY <1>1, <1>2, <1>3, <1>4

LEMMA GetDownloadTyped ==
    ASSUME QInv, Typed, NEW u \in Users, GetDownload(u)
    PROVE  Typed'
<1>1. PICK i, wanted, name, done, seg :
         /\ i \in Live /\ wanted \in 1..Size
         /\ name = TempName(i)
         /\ done = IF name \in DOMAIN disk THEN item[i].done ELSE {}
         /\ seg = SegmentedNext(Size, 1, wanted, done, Busy(i))
         /\ download' = With(download, u, [path |-> TargetOf(i), temp |-> name, tth |-> item[i].tth,
                                           seg |-> seg, pos |-> 0, file |-> "none"])
         /\ item' = [item EXCEPT ![i].temp = name, ![i].done = done, ![i].downloads = @ \cup {u}]
         /\ running' = [running EXCEPT ![u] = i]
  BY DEF GetDownload
<1>2. i \in Items /\ TargetOf(i) \in Targets /\ name \in Names \cup {NoName}
  BY <1>1, NameIs DEF Typed
<1>3. ItemTyped(item[i]) /\ item[i].done \subseteq Segs /\ IsFiniteSet(item[i].done)
  BY <1>2, ItemIs DEF Typed
<1>4. done \subseteq Segs /\ IsFiniteSet(done)
  BY <1>1, <1>3, FS_EmptySet
<1>5. ItemTyped([item[i] EXCEPT !.temp = name, !.done = done, !.downloads = @ \cup {u}])
  BY <1>2, <1>3, <1>4 DEF ItemTyped, ItemRecords
<1>6. item' = [item EXCEPT ![i] = [item[i] EXCEPT !.temp = name, !.done = done, !.downloads = @ \cup {u}]]
  BY <1>1, <1>2 DEF Typed, ItemsTyped
<1>7. ItemsTyped(item')
  BY <1>2, <1>5, <1>6, ItemPut DEF Typed
<1>8. seg \in Segs /\ seg[2] <= Size
  <2>1. wanted \in Nat \ {0} /\ Size \in Nat
    BY <1>1, DownloadQueueAssumption
  <2>2. seg = NoSegment \/ (seg \in Proper /\ seg[2] <= Size)
    BY <1>1, <1>4, <2>1, NextBlocks
  <2> QED
    BY <2>1, <2>2 DEF NoSegment, Proper, Segs
<1>9. PICK new : new = [path |-> TargetOf(i), temp |-> name, tth |-> item[i].tth,
                        seg |-> seg, pos |-> 0, file |-> "none"]
  OBVIOUS
<1>10. DownloadTyped(new)
  <2>1. item[i].tth \in Roots
    BY <1>2, ItemIs DEF Typed
  <2> QED
    BY <1>2, <1>8, <1>9, <2>1 DEF DownloadTyped, Downloads
<1>11. DownloadsTyped(download')
  <2>1. download' = With(download, u, new)
    BY <1>1, <1>9
  <2> QED
    BY <1>10, <2>1 DEF Typed, DownloadsTyped, With
<1>12. running' \in [Users -> Items \cup {NoItem}]
  BY <1>1, <1>2 DEF Typed
<1> QED
  BY <1>7, <1>11, <1>12 DEF GetDownload, Typed

\* What arrives is written within the file.
LEMMA WritingTyped ==
    ASSUME QInv, Typed, NEW u \in Users, SetFile(u) \/ Data(u)
    PROVE  Typed'
<1>1. u \in DOMAIN download
  BY DEF SetFile, Data
<1>2. PICK d : d = download[u] /\ DownloadTyped(d) /\ d \in Downloads /\ d.temp \in Names \cup {NoName}
               /\ d.tth \in Roots /\ d.path \in Targets
               /\ d.seg \in Segs /\ d.seg[1] \in Nat /\ d.seg[2] \in Nat /\ d.seg[2] <= Size
               /\ d.pos \in Nat
  BY <1>1, DownloadIs DEF Typed, DownloadTyped
<1>3. ASSUME NEW e, DownloadTyped(e), download' = [download EXCEPT ![u] = e]
      PROVE  DownloadsTyped(download')
  BY <1>3 DEF Typed, DownloadsTyped
<1>4. CASE SetFile(u)
  <2>1. download' = [download EXCEPT ![u] = [d EXCEPT !.file = "open"]]
    BY <1>2, <1>4 DEF SetFile
  <2>2. DownloadTyped([d EXCEPT !.file = "open"])
    BY <1>2 DEF DownloadTyped, Downloads
  <2>3. DiskTyped(disk') /\ UNCHANGED final
    <3>1. CASE UNCHANGED fileVars
      BY <3>1 DEF Typed
    <3>2. CASE ~UNCHANGED fileVars
      BY <1>2, <1>4, <3>2 DEF SetFile, Typed, DiskTyped, With
    <3> QED
      BY <3>1, <3>2
  <2> QED
    BY <1>3, <1>4, <2>1, <2>2, <2>3 DEF SetFile, Typed
<1>5. CASE Data(u)
  <2>1. download' = [download EXCEPT ![u] = [d EXCEPT !.pos = d.pos + 1]] /\ d.file # "none"
    BY <1>2, <1>5 DEF Data
  <2>2. DownloadTyped([d EXCEPT !.pos = d.pos + 1])
    BY <1>2, <2>1 DEF DownloadTyped, Downloads
  <2>0. PICK b \in Blocks : b = d.seg[1] + d.pos
    BY <1>2, <1>5, DownloadQueueAssumption DEF Data, Length, Blocks
  <2>3. DiskTyped(disk')
    <3>1. \/ disk' = disk
          \/ disk' = [disk EXCEPT ![d.temp] = @ \cup {b}]
      BY <1>2, <1>5, <2>0 DEF Data
    <3> QED
      BY <3>1 DEF Typed, DiskTyped
  <2>4. FinalsTyped(final')
    <3>1. \/ final' = final
          \/ final' = [final EXCEPT ![d.path] = With(@, b, d.tth)]
      BY <1>2, <1>5, <2>0 DEF Data
    <3>2. ASSUME NEW f, PartTyped(f) PROVE PartTyped(With(f, b, d.tth))
      <4>1. PICK written \in SUBSET Blocks : f \in [written -> Roots]
        BY <3>2 DEF PartTyped
      <4>2. written \cup {b} \in SUBSET Blocks /\ With(f, b, d.tth) \in [written \cup {b} -> Roots]
        BY <1>2, <2>0, <4>1 DEF With
      <4> QED
        BY <4>2 DEF PartTyped
    <3>3. FinalsTyped(final)
      BY DEF Typed
    <3> QED
      BY <3>1, <3>2, <3>3 DEF FinalsTyped
  <2> QED
    BY <1>3, <1>5, <2>1, <2>2, <2>3, <2>4 DEF Data, Typed
<1> QED
  BY <1>4, <1>5

\* UserQueue::removeDownload() of what a download leaves of its item.
LEMMA RemoveDownloadTyped ==
    ASSUME Typed, NEW i \in Items, NEW it, ItemTyped(it), NEW u, RemoveDownload(i, it, u)
    PROVE  ItemsTyped(item') /\ running' \in [Users -> Items \cup {NoItem}]
<1>1. ItemTyped([it EXCEPT !.downloads = @ \ {u}])
  BY DEF ItemTyped, ItemRecords
<1>2. item' = [item EXCEPT ![i] = [it EXCEPT !.downloads = @ \ {u}]]
  BY DEF RemoveDownload
<1>3. ItemsTyped(item')
  BY <1>1, <1>2, ItemPut DEF Typed
<1> QED
  BY <1>3 DEF RemoveDownload, Typed

LEMMA PutGoneTyped ==
    ASSUME QInv, Typed, NEW u \in Users, PutGone(u)
    PROVE  Typed'
<1>1. DownloadsTyped(download') /\ DiskTyped(disk')
  BY FewerDownloads, FewerFiles DEF PutGone, Typed
<1>2. closing' \subseteq Users /\ dirty' \in BOOLEAN /\ UNCHANGED <<saved, rechecker>>
  BY DEF PutGone, Put, Typed
<1> QED
  BY <1>1, <1>2 DEF PutGone, Typed

\* The part of a segment that counts is a segment of the file.
LEMMA PutDone ==
    ASSUME Typed, NEW i \in Items, NEW u \in DOMAIN download, NEW n \in Nat,
           n <= download[u].seg[2]
    PROVE  /\ AddSegment(item[i].done, <<download[u].seg[1], n>>) \subseteq Segs
           /\ IsFiniteSet(AddSegment(item[i].done, <<download[u].seg[1], n>>))
<1>1. item[i].done \subseteq Segs /\ IsFiniteSet(item[i].done)
  BY ItemIs DEF Typed
<1>2. <<download[u].seg[1], n>> \in Segs
  BY DownloadIs DEF Typed, Segs
<1> QED
  BY <1>1, <1>2, Added

LEMMA CompleteTyped ==
    ASSUME QInv, Typed, NEW u \in DOMAIN download, NEW i \in Items, NEW done,
           done \subseteq Segs, IsFiniteSet(done), Complete(u, i, done), Put(u)
    PROVE  Typed'
<1>1. u \in Users /\ download[u].path \in Targets
  BY DownloadIs DEF Typed
<1>2. DownloadsTyped(download')
  BY FewerDownloads DEF Complete, Typed
<1>3. DiskTyped(disk') /\ FinalsTyped(final')
  BY <1>1, MovesTyped DEF Complete, Typed
<1>4. userQueue' \subseteq Items \X Users /\ running' \in [Users -> Items \cup {NoItem}]
  BY UserQueueRemoveTyped DEF Complete
<1>5. ItemsTyped(item')
  <2>1. CASE KeepFinished
    <3> DEFINE own == {v \in item[i].downloads : ~(running[v] = i /\ v \in item[i].sources)}
               new == [item[i] EXCEPT !.done = done, !.downloads = own]
    <3>1. item' = [item EXCEPT ![i] = new]
      BY <2>1 DEF Complete
    <3>2. ItemTyped(item[i]) /\ own \subseteq Users
      BY ItemIs DEF Typed
    <3> HIDE DEF own
    <3>3. ItemTyped(new)
      BY <3>2 DEF ItemTyped, ItemRecords
    <3> HIDE DEF new
    <3> QED
      BY <3>1, <3>3, ItemPut DEF Typed
  <2>2. CASE ~KeepFinished
    BY <2>2, FileQueueRemoveTyped DEF Complete
  <2> QED
    BY <2>1, <2>2
<1>6. closing' \subseteq Users /\ dirty' \in BOOLEAN /\ UNCHANGED <<saved, rechecker>>
  BY DEF Put, Typed
<1> QED
  BY <1>2, <1>3, <1>4, <1>5, <1>6 DEF Typed

LEMMA FinishTyped ==
    ASSUME QInv, Typed, NEW u \in Users, Finish(u)
    PROVE  Typed'
<1>1. CASE PutGone(u)
  BY <1>1, PutGoneTyped
<1>2. CASE ~PutGone(u)
  <2>1. PICK i, done :
           /\ u \in DOMAIN download /\ i = fileQueue[download[u].path] /\ i # NoItem
           /\ done = AddSegment(item[i].done, download[u].seg)
           /\ \/ Complete(u, i, done)
              \/ /\ RemoveDownload(i, [item[i] EXCEPT !.done = done], u)
                 /\ download' = Without(download, u) /\ UNCHANGED fileVars
           /\ Put(u)
    BY <1>2 DEF Finish
  <2>2. i \in Items
    BY <2>1, Queued, DownloadIs DEF Typed
  <2>3. done \subseteq Segs /\ IsFiniteSet(done)
    <3>1. PICK a, b : /\ download[u].seg = <<a, b>> /\ a = download[u].seg[1] /\ b \in Nat
                      /\ b = download[u].seg[2]
      BY <2>1, DownloadIs DEF Typed, Segs
    <3>2. b <= download[u].seg[2]
      BY <3>1
    <3>3. /\ AddSegment(item[i].done, <<download[u].seg[1], b>>) \subseteq Segs
          /\ IsFiniteSet(AddSegment(item[i].done, <<download[u].seg[1], b>>))
      BY <2>1, <2>2, <3>1, <3>2, PutDone
    <3> QED
      BY <2>1, <3>1, <3>3
  <2>4. ASSUME RemoveDownload(i, [item[i] EXCEPT !.done = done], u),
               download' = Without(download, u), UNCHANGED fileVars
        PROVE  Typed'
    <3>1. ItemTyped(item[i])
      BY <2>2, ItemIs DEF Typed
    <3>2. ItemTyped([item[i] EXCEPT !.done = done])
      BY <2>3, <3>1 DEF ItemTyped, ItemRecords
    <3>3. ItemsTyped(item') /\ running' \in [Users -> Items \cup {NoItem}]
      BY <2>2, <2>4, <3>2, RemoveDownloadTyped
    <3>4. UNCHANGED userQueue
      BY <2>4 DEF RemoveDownload
    <3>5. DownloadsTyped(download')
      BY <2>4, FewerDownloads DEF Typed
    <3>6. closing' \subseteq Users /\ dirty' \in BOOLEAN /\ UNCHANGED <<saved, rechecker>>
      BY <2>1 DEF Put, Typed
    <3> QED
      BY <2>4, <3>3, <3>4, <3>5, <3>6 DEF Typed
  <2> QED
    BY <2>1, <2>2, <2>3, <2>4, CompleteTyped
<1> QED
  BY <1>1, <1>2

LEMMA FailTyped ==
    ASSUME QInv, Typed, NEW u \in Users, Fail(u)
    PROVE  Typed'
<1>1. CASE PutGone(u)
  BY <1>1, PutGoneTyped
<1>2. CASE ~PutGone(u)
  <2>1. PICK got, i, name, done :
           /\ u \in DOMAIN download /\ i = fileQueue[download[u].path] /\ i # NoItem
           /\ got \in {n \in {download[u].pos} : download[u].file = "none" \/ n < Length(download[u].seg)}
                      \cup Lost(download[u])
           /\ name = IF item[i].done = {} THEN NoName ELSE item[i].temp
           /\ done = IF got > 0
                     THEN AddSegment(item[i].done, <<download[u].seg[1], download[u].seg[1] + got>>)
                     ELSE item[i].done
           /\ RemoveDownload(i, [item[i] EXCEPT !.temp = name, !.done = done], u)
           /\ download' = Without(download, u) /\ UNCHANGED fileVars
           /\ Put(u)
    BY <1>2 DEF Fail, PutFailed
  <2>2. i \in Items
    BY <2>1, Queued, DownloadIs DEF Typed
  <2>3. ItemTyped(item[i])
    BY <2>2, ItemIs DEF Typed
  <2>4. got \in Nat /\ (got > 0 => download[u].seg[1] + got \in Nat
                                   /\ download[u].seg[1] + got <= download[u].seg[2])
    <3>1. /\ download[u].pos \in Nat /\ download[u].seg[1] \in Nat /\ download[u].seg[2] \in Nat
          /\ download[u].file = "none" => download[u].pos = 0
      BY <2>1, DownloadIs DEF Typed
    <3> QED
      BY <2>1, <3>1 DEF Lost, Length
  <2>5. done \subseteq Segs /\ IsFiniteSet(done)
    BY <2>1, <2>2, <2>4, PutDone, ItemIs DEF Typed
  <2>6. name \in Names \cup {NoName}
    BY <2>1, <2>2, ItemIs DEF Typed
  <2>7. ItemTyped([item[i] EXCEPT !.temp = name, !.done = done])
    BY <2>3, <2>5, <2>6 DEF ItemTyped, ItemRecords
  <2>8. ItemsTyped(item') /\ running' \in [Users -> Items \cup {NoItem}]
    BY <2>1, <2>2, <2>7, RemoveDownloadTyped
  <2>9. UNCHANGED userQueue
    BY <2>1 DEF RemoveDownload
  <2>10. DownloadsTyped(download')
    BY <2>1, FewerDownloads DEF Typed
  <2>11. closing' \subseteq Users /\ dirty' \in BOOLEAN /\ UNCHANGED <<saved, rechecker>>
    BY <2>1 DEF Put, Typed
  <2> QED
    BY <2>1, <2>8, <2>9, <2>10, <2>11 DEF Typed
<1> QED
  BY <1>1, <1>2

LEMMA SaveTyped ==
    ASSUME QInv, Typed, Save
    PROVE  Typed'
<1>1. ASSUME NEW t \in Targets, fileQueue[t] # NoItem
      PROVE  EntryTyped(Entry(fileQueue[t]))
  <2>1. PICK i : i = fileQueue[t] /\ i \in Live
    BY <1>1 DEF Live
  <2>2. i \in Items /\ TempName(i) \in Names \cup {NoName}
    BY <2>1, NameIs DEF Typed
  <2>3. /\ item[i].done \subseteq Segs /\ IsFiniteSet(item[i].done) /\ item[i].sources \subseteq Users
        /\ item[i].tth \in Roots /\ item[i].paused \in BOOLEAN
    BY <2>2, ItemIs DEF Typed
  <2> QED
    BY <2>1, <2>2, <2>3 DEF Entry, EntryTyped
<1>2. EntriesTyped(saved')
  <2>1. saved' = Image
    BY DEF Save
  <2> QED
    BY <1>1, <2>1 DEF Image, EntriesTyped
<1>3. ItemsTyped(item')
  <2>1. ASSUME NEW i \in Items
        PROVE  ItemTyped(item'[i])
    <3>1. ItemTyped(item[i])
      BY ItemIs DEF Typed
    <3>2. PICK n : /\ n = IF item[i].done = {} THEN item[i].temp ELSE TempName(i)
                   /\ item'[i] = IF i \in Live THEN [item[i] EXCEPT !.temp = n] ELSE item[i]
      BY DEF Save
    <3>3. i \in Live => n \in Names \cup {NoName}
      BY <3>2, NameIs, ItemIs DEF Typed
    <3> QED
      BY <3>1, <3>2, <3>3 DEF ItemTyped, ItemRecords
  <2>2. DOMAIN item' = Items /\ item' = [i \in Items |-> item'[i]]
    BY DEF Save
  <2> QED
    BY <2>1, <2>2 DEF ItemsTyped, ItemTyped
<1> QED
  BY <1>2, <1>3 DEF Save, Typed

LEMMA RestartTyped ==
    ASSUME QInv, Typed, Restart
    PROVE  Typed'
<1>1. PICK where \in [DOMAIN saved -> Items] :
         /\ item' = [i \in Items |->
                        IF \E t \in DOMAIN saved : where[t] = i
                        THEN LET e == saved[CHOOSE t \in DOMAIN saved : where[t] = i] IN
                             [NewItem(e.tth) EXCEPT !.done = Loaded(e), !.paused = e.paused,
                                  !.sources = e.sources, !.temp = e.temp]
                        ELSE Freed]
         /\ userQueue' = UNION {{where[t]} \X saved[t].sources :
                                   t \in {t \in DOMAIN saved : ~IsFinished(Loaded(saved[t]), Size)}}
  BY DEF Restart
<1>2. ASSUME NEW t \in DOMAIN saved
      PROVE  /\ ItemTyped([NewItem(saved[t].tth) EXCEPT !.done = Loaded(saved[t]), !.paused = saved[t].paused,
                               !.sources = saved[t].sources, !.temp = saved[t].temp])
             /\ saved[t].sources \subseteq Users
  <2>1. PICK e : e = saved[t] /\ EntryTyped(e)
    BY DEF Typed, EntriesTyped
  <2>2. Loaded(e) \subseteq Segs /\ IsFiniteSet(Loaded(e))
    <3>1. Loaded(e) \subseteq e.done
      BY DEF Loaded
    <3> QED
      BY <2>1, <3>1, FS_Subset DEF EntryTyped
  <2>3. e.sources \subseteq Users
    BY <2>1 DEF EntryTyped
  <2>4. ItemTyped([NewItem(e.tth) EXCEPT !.done = Loaded(e), !.paused = e.paused,
                               !.sources = e.sources, !.temp = e.temp])
    BY <2>1, <2>2 DEF EntryTyped, ItemTyped, ItemRecords, NewItem
  <2> QED
    BY <2>1, <2>3, <2>4
<1>3. ItemsTyped(item')
  <2>1. \A i \in Items : ItemTyped(item'[i])
    BY <1>1, <1>2, NewItemTyped
  <2> QED
    BY <1>1, <2>1 DEF ItemsTyped, ItemTyped
<1>4. userQueue' \subseteq Items \X Users
  <2>1. \A t \in DOMAIN saved : {where[t]} \X saved[t].sources \subseteq Items \X Users
    BY <1>2
  <2> QED
    BY <1>1, <2>1
<1>5. running' \in [Users -> Items \cup {NoItem}] /\ dirty' \in BOOLEAN /\ closing' \subseteq Users
  BY DEF Restart
<1>6. DownloadsTyped(download')
  <2>1. DOMAIN <<>> = {}
    OBVIOUS
  <2> QED
    BY <2>1 DEF Restart, DownloadsTyped
<1>7. RecheckerTyped(rechecker')
  BY DEF Restart, RecheckerTyped
<1> QED
  BY <1>3, <1>4, <1>5, <1>6, <1>7 DEF Restart, Typed

LEMMA RecheckTyped ==
    ASSUME QInv, Typed, RecheckClear \/ RecheckRead
    PROVE  Typed'
<1>1. PICK t : t = rechecker.target /\ (rechecker.pc # "idle" => t \in Targets)
  BY DEF QInv, Aimed
<1>2. CASE RecheckClear
  <2>1. RecheckerTyped(rechecker')
    BY <1>2 DEF RecheckClear, RecheckerTyped
  <2>2. ItemsTyped(item')
    <3>1. PICK i : i = fileQueue[t]
      OBVIOUS
    <3>2. CASE i # NoItem
      <4>1. i \in Live /\ i \in Items /\ TempName(i) \in Names \cup {NoName}
        <5>1. t \in Targets
          BY <1>1, <1>2 DEF RecheckClear
        <5> QED
          BY <3>1, <3>2, <5>1, NameIs DEF Live, Typed
      <4>2. item' = [item EXCEPT ![i] = [item[i] EXCEPT !.done = {}, !.temp = TempName(i)]]
        <5>1. item' = [item EXCEPT ![i].done = {}, ![i].temp = TempName(i)]
          BY <1>1, <1>2, <3>1, <3>2 DEF RecheckClear
        <5> QED
          BY <4>1, <5>1 DEF Typed, ItemsTyped
      <4>3. ItemTyped(item[i]) /\ IsFiniteSet({})
        BY <4>1, ItemIs, FS_EmptySet DEF Typed
      <4>4. ItemTyped([item[i] EXCEPT !.done = {}, !.temp = TempName(i)])
        BY <4>1, <4>3 DEF ItemTyped, ItemRecords
      <4> QED
        BY <4>1, <4>2, <4>4, ItemPut DEF Typed
    <3>3. CASE i = NoItem
      BY <1>1, <1>2, <3>1, <3>3 DEF RecheckClear, Typed
    <3> QED
      BY <3>2, <3>3
  <2> QED
    BY <1>2, <2>1, <2>2 DEF RecheckClear, Typed
<1>3. CASE RecheckRead
  <2>1. RecheckerTyped(rechecker')
    BY <1>3 DEF RecheckRead, RecheckerTyped, Typed, DiskTyped
  <2> QED
    BY <1>3, <2>1 DEF RecheckRead, Typed
<1> QED
  BY <1>2, <1>3

LEMMA RecheckJudgeTyped ==
    ASSUME QInv, Typed, RecheckJudge
    PROVE  Typed'
<1>1. PICK t, i, good : /\ t = rechecker.target /\ i = fileQueue[t] /\ good = rechecker.good
                        /\ t \in Targets /\ good \subseteq Blocks
  BY DEF QInv, Aimed, RecheckJudge, Typed, RecheckerTyped
<1>2. RecheckerTyped(rechecker')
  BY DEF RecheckJudge, RecheckerTyped
<1>3. CASE UNCHANGED <<queueVars, dirty, download, fileVars>>
  BY <1>2, <1>3 DEF RecheckJudge, Typed
<1>4. ASSUME i # NoItem
      PROVE  i \in Live /\ i \in Items /\ TargetOf(i) \in Targets
             /\ ItemTyped(item[i]) /\ item[i].done \subseteq Segs /\ IsFiniteSet(item[i].done)
  BY <1>1, <1>4, NameIs, ItemIs DEF Live, Typed
<1>5. ASSUME i # NoItem, NEW done, done \subseteq Segs, IsFiniteSet(done),
             item' = [item EXCEPT ![i].done = done]
      PROVE  ItemsTyped(item')
  <2>1. item' = [item EXCEPT ![i] = [item[i] EXCEPT !.done = done]]
    BY <1>5
  <2>2. ItemTyped([item[i] EXCEPT !.done = done])
    BY <1>4, <1>5 DEF ItemTyped, ItemRecords
  <2> QED
    BY <1>4, <1>5, <2>1, <2>2, ItemPut DEF Typed
<1>6. ASSUME i # NoItem, MoveStuckFile(i)
      PROVE  Typed'
  <2>1. DownloadsTyped(download')
    BY <1>6, FewerDownloads DEF MoveStuckFile, Typed
  <2>2. DiskTyped(disk') /\ FinalsTyped(final')
    BY <1>4, <1>6, MovesTyped DEF MoveStuckFile, Typed
  <2>3. userQueue' \subseteq Items \X Users /\ running' \in [Users -> Items \cup {NoItem}]
    BY <1>6, UserQueueRemoveTyped DEF MoveStuckFile, Typed
  <2>4. ItemsTyped(item')
    <3>1. CASE KeepFinished
      <4>1. <<0, Size>> \in Segs
        BY DownloadQueueAssumption DEF Segs
      <4>2. PICK done : done = AddSegment(item[i].done, <<0, Size>>)
        OBVIOUS
      <4>3. done \subseteq Segs /\ IsFiniteSet(done)
        BY <1>4, <1>6, <4>1, <4>2, Added
      <4>4. item' = [item EXCEPT ![i].done = done]
        BY <1>6, <3>1, <4>2 DEF MoveStuckFile
      <4> QED
        BY <1>5, <1>6, <4>3, <4>4
    <3>2. CASE ~KeepFinished
      BY <1>4, <1>6, <3>2, FileQueueRemoveTyped DEF MoveStuckFile
    <3> QED
      BY <3>1, <3>2
  <2>5. UNCHANGED <<dirty, closing, saved>>
    BY <1>6 DEF MoveStuckFile, RecheckJudge
  <2> QED
    BY <1>2, <2>1, <2>2, <2>3, <2>4, <2>5 DEF Typed
<1>7. ASSUME i # NoItem, MarkGood(i, good)
      PROVE  Typed'
  <2>1. PICK done : done = Marked(item[i].done, good)
    OBVIOUS
  <2>2. done \subseteq Segs /\ IsFiniteSet(done)
    BY <1>1, <1>4, <1>7, <2>1, Marking
  <2>3. item' = [item EXCEPT ![i].done = done]
    BY <1>7, <2>1 DEF MarkGood, Marked
  <2>4. ItemsTyped(item')
    BY <1>5, <1>7, <2>2, <2>3
  <2>5. dirty' \in BOOLEAN
    BY <1>7 DEF MarkGood
  <2> QED
    BY <1>2, <1>7, <2>4, <2>5 DEF MarkGood, RecheckJudge, Typed
<1> QED
  BY <1>1, <1>3, <1>6, <1>7 DEF RecheckJudge

LEMMA TypedStep == QInv /\ Typed /\ [Next]_vars => Typed'
<1> SUFFICES ASSUME QInv, Typed, [Next]_vars PROVE Typed'
  OBVIOUS
<1>1. CASE UNCHANGED vars
  BY <1>1 DEF vars, Typed
<1>2. CASE UserInterface
  BY <1>2, SourcesTyped, ItemsOfTheQueueTyped DEF UserInterface
<1>3. ASSUME NEW u \in Users, Connection(u) PROVE Typed'
  BY <1>3, GetDownloadTyped, WritingTyped, FinishTyped, FailTyped DEF Connection
<1>4. CASE Save \/ Restart \/ RecheckClear \/ RecheckRead \/ RecheckJudge
  BY <1>4, SaveTyped, RestartTyped, RecheckTyped, RecheckJudgeTyped
<1> QED
  BY <1>1, <1>2, <1>3, <1>4 DEF Next

LEMMA TypedInit == Init => Typed
<1> SUFFICES ASSUME Init PROVE Typed
  OBVIOUS
<1>1. DOMAIN <<>> = {}
  OBVIOUS
<1>2. ItemsTyped(item)
  BY NewItemTyped DEF Init, ItemsTyped, ItemTyped
<1>3. DownloadsTyped(download) /\ DiskTyped(disk) /\ EntriesTyped(saved)
  BY <1>1 DEF Init, DownloadsTyped, DiskTyped, EntriesTyped
<1>6. FinalsTyped(final)
  <2>1. ASSUME NEW r \in Roots PROVE PartTyped([b \in Blocks |-> r])
    BY DEF PartTyped
  <2>2. PICK there \in SUBSET Targets : final \in [there -> {[b \in Blocks |-> r] : r \in Roots}]
    BY DEF Init
  <2> QED
    BY <2>1, <2>2 DEF FinalsTyped
<1>4. RecheckerTyped(rechecker)
  BY DEF Init, RecheckerTyped
<1>5. userQueue \subseteq Items \X Users /\ running \in [Users -> Items \cup {NoItem}]
      /\ dirty \in BOOLEAN /\ closing \subseteq Users
  BY DEF Init
<1> QED
  BY <1>2, <1>3, <1>4, <1>5, <1>6 DEF Typed

-----------------------------------------------------------------------------
(* How the queue, the users and the downloads agree, where what is old of  *)
(* one of them does not meet what is new of another.                       *)

Orderly ==
    /\ "hurry" \notin Operations /\ "detach" \notin Operations /\ "recheckRaces" \notin Operations
    /\ KeepFinished => "recheck" \notin Operations

\* What a user is running it downloads, for a target where it is queued.
Runs ==
    \A u \in Users : running[u] # NoItem =>
        /\ u \in DOMAIN download /\ fileQueue[download[u].path] = running[u]
        /\ u \in item[running[u]].downloads

\* A download whose target is queued is one of the item that is queued.
Known ==
    \A u \in DOMAIN download :
        fileQueue[download[u].path] # NoItem => running[u] = fileQueue[download[u].path]

Told == closing \subseteq DOMAIN download /\ DroppedIsDisconnected

Kept(i) ==
    /\ item[i].downloads \subseteq item[i].sources
    /\ \A u \in item[i].downloads : running[u] = i
    /\ Finished(i) => item[i].downloads = {}
    /\ \A u \in Users : <<i, u>> \in userQueue <=> u \in item[i].sources /\ ~Finished(i)

Listed == \A i \in Live : Kept(i)

\* A download is of blocks that are not done; of none only when all are.
Fetches(s, D) ==
    /\ s = NoSegment => Blocks \subseteq Units(D)
    /\ s # NoSegment => s \in Proper
    /\ \A n \in Nat : s[1] <= n /\ n < s[2] => n \notin Units(D)

Fetching ==
    \A u \in Users : running[u] # NoItem => Fetches(download[u].seg, item[running[u]].done)

Disjoint ==
    \A u, v \in Users : u # v /\ running[u] = running[v] /\ running[u] # NoItem =>
        download[u].seg # NoSegment /\ ~Overlaps(download[u].seg, download[v].seg)

\* The item the Rechecker is at is not running, and is not finished.
Rechecked ==
    rechecker.pc # "idle" /\ fileQueue[rechecker.target] # NoItem =>
        LET i == fileQueue[rechecker.target] IN
        /\ item[i].downloads = {} /\ ~Finished(i) /\ "recheck" \in Operations
        /\ rechecker.pc # "tree" => item[i].done = {}

Structure == Runs /\ Known /\ Told /\ Listed /\ Fetching /\ Disjoint /\ Rechecked

Inv == QInv /\ Typed /\ Structure

LEMMA OneTarget ==
    ASSUME QInv, NEW s \in Targets, NEW t \in Targets, fileQueue[s] = fileQueue[t], fileQueue[t] # NoItem
    PROVE  s = t
BY DEF QInv, OneItemPerFile

LEMMA LiveIs ==
    ASSUME QInv, NEW t \in Targets, fileQueue[t] # NoItem
    PROVE  fileQueue[t] \in Live /\ fileQueue[t] \in Items /\ TargetOf(fileQueue[t]) = t
<1>1. fileQueue[t] \in Live /\ fileQueue[t] \in Items
  BY Queued DEF Live
<1>2. TargetOf(fileQueue[t]) \in Targets /\ fileQueue[TargetOf(fileQueue[t])] = fileQueue[t]
  BY DEF TargetOf
<1> QED
  BY <1>1, <1>2, OneTarget

LEMMA RunningIs ==
    ASSUME Inv, NEW u \in Users, running[u] # NoItem
    PROVE  /\ running[u] \in Live /\ running[u] \in Items
           /\ u \in DOMAIN download /\ download[u].path \in Targets
           /\ fileQueue[download[u].path] = running[u] /\ u \in item[running[u]].downloads
<1>1. u \in DOMAIN download /\ fileQueue[download[u].path] = running[u] /\ u \in item[running[u]].downloads
  BY DEF Inv, Structure, Runs
<1>2. download[u].path \in Targets
  BY <1>1, DownloadIs DEF Inv, Typed
<1> QED
  BY <1>1, <1>2, LiveIs DEF Inv

LEMMA RunnersAre ==
    ASSUME Inv, NEW i \in Live
    PROVE  /\ i \in Items /\ i # NoItem /\ item[i].downloads = {u \in Users : running[u] = i}
           /\ item[i].downloads \subseteq item[i].sources /\ item[i].downloads \subseteq DOMAIN download
<1>1. i \in Items /\ i # NoItem
  BY NameIs DEF Inv, Typed, Live
<1>2. item[i].downloads \subseteq Users
  BY <1>1, ItemIs DEF Inv, Typed
<1>3. item[i].downloads \subseteq item[i].sources /\ \A u \in item[i].downloads : running[u] = i
  BY DEF Inv, Structure, Listed, Kept
<1>4. \A u \in Users : running[u] = i => u \in item[i].downloads /\ u \in DOMAIN download
  BY <1>1, RunningIs
<1> QED
  BY <1>1, <1>2, <1>3, <1>4

\* As far as their targets and segments go the downloads of `us` are the same.
Alike(ds, us) ==
    DOMAIN ds = us /\ \A u \in us : ds[u].path = download[u].path /\ ds[u].seg = download[u].seg

LEMMA AlikeAre ==
    ASSUME Inv, NEW name, NEW u
    PROVE  /\ Alike(download, DOMAIN download)
           /\ Alike(Orphaned(name), DOMAIN download)
           /\ Alike(Without(download, u), DOMAIN download \ {u})
           /\ Alike(Without(Orphaned(name), u), DOMAIN download \ {u})
           /\ \A t : Alike(Replaced(name, t), DOMAIN download)
           /\ \A t : Alike(Without(Replaced(name, t), u), DOMAIN download \ {u})
<1>1. ASSUME NEW d, DownloadTyped(d)
      PROVE  [d EXCEPT !.file = "lost"].path = d.path /\ [d EXCEPT !.file = "lost"].seg = d.seg
  BY <1>1 DEF DownloadTyped, Downloads
<1>2. Alike(Orphaned(name), DOMAIN download)
  BY <1>1, DownloadIs DEF Alike, Orphaned, Inv, Typed
<1>3. ASSUME NEW t PROVE Alike(Replaced(name, t), DOMAIN download)
  BY <1>1, <1>2, DownloadIs DEF Alike, Replaced, Inv, Typed
<1> QED
  BY <1>2, <1>3 DEF Alike, Without

\* A step that neither begins nor ends a download, nor moves an item.
LEMMA Steady ==
    ASSUME Inv, UNCHANGED <<fileQueue, running, closing>>, Alike(download', DOMAIN download),
           \A i \in Live : item'[i].downloads = item[i].downloads,
           \A i \in Live : item'[i].done = item[i].done \/ item[i].downloads = {}
    PROVE  Runs' /\ Known' /\ Told' /\ Fetching' /\ Disjoint'
<1>1. \A u \in Users : running[u] # NoItem =>
          /\ running[u] \in Live /\ u \in DOMAIN download' /\ u \in item[running[u]].downloads
          /\ fileQueue[download[u].path] = running[u]
          /\ download'[u].path = download[u].path /\ download'[u].seg = download[u].seg
          /\ item'[running[u]].downloads = item[running[u]].downloads
          /\ item'[running[u]].done = item[running[u]].done
  BY RunningIs DEF Alike
<1>2. Runs'
  BY <1>1 DEF Runs
<1>3. Known'
  <2>1. Known
    BY DEF Inv, Structure
  <2>2. \A u \in DOMAIN download' : u \in DOMAIN download /\ download'[u].path = download[u].path
    BY DEF Alike
  <2> QED
    BY <2>1, <2>2 DEF Known
<1>4. Told'
  BY DEF Inv, Structure, Told, DroppedIsDisconnected, Alike
<1>5. Fetching'
  BY <1>1 DEF Inv, Structure, Fetching
<1>6. Disjoint'
  BY <1>1 DEF Inv, Structure, Disjoint
<1> QED
  BY <1>2, <1>3, <1>4, <1>5, <1>6

\* A step that leaves the queue alone, but for the names of temporary files.
LEMMA Still ==
    ASSUME Inv, UNCHANGED <<fileQueue, running, closing, userQueue, rechecker>>,
           Alike(download', DOMAIN download),
           \A i \in Live : /\ item'[i].downloads = item[i].downloads /\ item'[i].done = item[i].done
                           /\ item'[i].sources = item[i].sources
    PROVE  Structure'
<1>1. Listed'
  BY DEF Inv, Structure, Listed, Kept, Live, Finished
<1>2. Rechecked'
  <2>1. rechecker.pc # "idle" /\ fileQueue[rechecker.target] # NoItem =>
            fileQueue[rechecker.target] \in Live
    BY LiveIs DEF Inv, QInv, Aimed
  <2> QED
    BY <2>1 DEF Inv, Structure, Rechecked, Finished
<1> QED
  BY <1>1, <1>2, Steady DEF Structure

\* An item leaves the queue, with what it is running and the downloads `gone`.
LEMMA Leaving ==
    ASSUME Inv, NEW t \in Targets, NEW i, i = fileQueue[t], i # NoItem,
           NEW gone \in SUBSET DOMAIN download, \A u \in gone : running[u] \in {i, NoItem},
           FileQueueRemove(i), Alike(download', DOMAIN download \ gone),
           \A u \in Users : running'[u] = IF running[u] = i THEN NoItem ELSE running[u],
           \A j \in Live \ {i}, u \in Users : <<j, u>> \in userQueue' <=> <<j, u>> \in userQueue,
           closing' \subseteq DOMAIN download \ gone, closing \ gone \subseteq closing',
           \A u \in DOMAIN download \ gone : running[u] = i => u \in closing',
           UNCHANGED rechecker \/ rechecker'.pc = "idle"
    PROVE  Structure'
<1>0. i \in Items /\ i \in Live /\ DOMAIN item = Items
  BY LiveIs DEF Inv, Typed, ItemsTyped
<1>1. /\ fileQueue'[t] = NoItem
      /\ \A s \in Targets \ {t} : fileQueue'[s] = fileQueue[s] /\ (fileQueue[s] # NoItem => fileQueue[s] # i)
  <2>1. TargetOf(i) = t
    BY LiveIs DEF Inv
  <2> QED
    BY <2>1, OneTarget DEF FileQueueRemove, Inv, QInv, Indexed
<1>2. \A j \in Items : j # i => item'[j] = item[j]
  BY <1>0 DEF FileQueueRemove
<1>3. Live' = Live \ {i}
  BY <1>1 DEF Live
<1>4. \A u \in Users : running'[u] # NoItem =>
          /\ running'[u] = running[u] /\ running[u] # i /\ u \notin gone
          /\ running[u] \in Live /\ u \in DOMAIN download'
          /\ u \in DOMAIN download /\ u \in item[running[u]].downloads
          /\ download[u].path \in Targets \ {t} /\ fileQueue[download[u].path] = running[u]
          /\ download'[u].path = download[u].path /\ download'[u].seg = download[u].seg
          /\ item'[running[u]] = item[running[u]]
  BY <1>2, RunningIs DEF Alike
<1>5. Runs'
  BY <1>1, <1>4 DEF Runs
<1>6. Known'
  <2>1. ASSUME NEW u \in DOMAIN download', fileQueue'[download'[u].path] # NoItem
        PROVE  running'[u] = fileQueue'[download'[u].path]
    <3>1. u \in DOMAIN download /\ u \in Users /\ download'[u].path = download[u].path
          /\ download[u].path \in Targets
      BY DownloadIs DEF Alike, Inv, Typed
    <3>2. /\ download[u].path # t /\ fileQueue[download[u].path] # NoItem
          /\ fileQueue'[download'[u].path] = fileQueue[download[u].path]
          /\ fileQueue[download[u].path] # i
      BY <1>1, <2>1, <3>1
    <3>3. running[u] = fileQueue[download[u].path]
      BY <3>1, <3>2 DEF Inv, Structure, Known
    <3> QED
      BY <3>1, <3>2, <3>3
  <2> QED
    BY <2>1 DEF Known
<1>7. Told'
  <2>1. ASSUME NEW u \in DOMAIN download', running'[u] = NoItem
        PROVE  u \in closing'
    <3>1. u \in DOMAIN download /\ u \notin gone /\ u \in Users
      BY DownloadIs DEF Alike, Inv, Typed
    <3>2. running[u] = i \/ running[u] = NoItem
      BY <2>1, <3>1
    <3> QED
      BY <3>1, <3>2 DEF Inv, Structure, Told, DroppedIsDisconnected
  <2> QED
    BY <2>1 DEF Told, DroppedIsDisconnected, Alike
<1>8. Listed'
  <2> SUFFICES ASSUME NEW j \in Live \ {i} PROVE Kept(j)'
    BY <1>3 DEF Listed
  <2>1. j \in Items /\ Kept(j) /\ j # NoItem
    BY RunnersAre DEF Inv, Structure, Listed
  <2>2. item'[j] = item[j] /\ \A u \in item[j].downloads : u \in Users /\ running'[u] = running[u]
    BY <1>2, <2>1, RunnersAre
  <2> QED
    BY <2>1, <2>2 DEF Kept, Finished
<1>9. Fetching'
  BY <1>4 DEF Inv, Structure, Fetching
<1>10. Disjoint'
  BY <1>4 DEF Inv, Structure, Disjoint
<1>11. Rechecked'
  <2>1. CASE rechecker'.pc = "idle"
    BY <2>1 DEF Rechecked
  <2>2. ASSUME UNCHANGED rechecker, rechecker.pc # "idle", fileQueue'[rechecker.target] # NoItem
        PROVE  /\ fileQueue[rechecker.target] # NoItem
               /\ fileQueue'[rechecker.target] = fileQueue[rechecker.target]
               /\ item'[fileQueue[rechecker.target]] = item[fileQueue[rechecker.target]]
    <3>1. rechecker.target \in Targets \ {t}
      BY <1>1, <2>2 DEF Inv, QInv, Aimed
    <3> QED
      BY <1>1, <1>2, <2>2, <3>1, LiveIs DEF Inv
  <2> QED
    BY <2>1, <2>2 DEF Inv, Structure, Rechecked, Finished
<1> QED
  BY <1>5, <1>6, <1>7, <1>8, <1>9, <1>10, <1>11 DEF Structure

LEMMA ItemRecordIs ==
    ASSUME Inv, NEW i \in Items
    PROVE  /\ DOMAIN item[i] = {"tth", "done", "paused", "sources", "bad", "downloads", "temp"}
           /\ item[i] \in ItemRecords /\ DOMAIN item = Items
BY ItemIs DEF ItemRecords, Inv, Typed, ItemsTyped

\* The parts that a change of an item leaves alone.
LEMMA FieldKept ==
    ASSUME NEW it \in ItemRecords, NEW u
    PROVE  /\ Sourced(it, u).downloads = it.downloads /\ Sourced(it, u).done = it.done
           /\ Sourced(it, u).sources = IF u \in Passive THEN it.sources ELSE it.sources \cup {u}
           /\ DropSource(it, u).downloads = it.downloads \ {u} /\ DropSource(it, u).done = it.done
           /\ DropSource(it, u).sources = it.sources \ {u}
<1>1. DropSource(it, u) = [it EXCEPT !.sources = it.sources \ {u}, !.bad = it.bad \cup {u},
                                     !.downloads = it.downloads \ {u}]
  BY DEF DropSource, ItemRecords
<1>2. /\ DropSource(it, u).downloads = it.downloads \ {u} /\ DropSource(it, u).done = it.done
      /\ DropSource(it, u).sources = it.sources \ {u}
  BY <1>1 DEF ItemRecords
<1>3. /\ Sourced(it, u).downloads = it.downloads /\ Sourced(it, u).done = it.done
      /\ Sourced(it, u).sources = IF u \in Passive THEN it.sources ELSE it.sources \cup {u}
  BY DEF Sourced, ItemRecords
<1> QED
  BY <1>2, <1>3

\* A queue whose items change in their sources, and the Rechecker not at all.
LEMMA SourcesChange ==
    ASSUME Inv, UNCHANGED <<fileQueue, running, closing, download, rechecker>>,
           \A i \in Live : /\ item'[i].downloads = item[i].downloads /\ item'[i].done = item[i].done
                           /\ item[i].downloads \subseteq item'[i].sources,
           \A i \in Live, u \in Users :
               <<i, u>> \in userQueue' <=> u \in item'[i].sources /\ ~Finished(i)
    PROVE  Structure'
<1>1. \A i \in Live : Finished(i)' <=> Finished(i)
  BY DEF Finished
<1>2. Listed'
  <2> SUFFICES ASSUME NEW i \in Live PROVE Kept(i)'
    BY DEF Listed, Live
  <2>1. Kept(i)
    BY DEF Inv, Structure, Listed
  <2> QED
    BY <1>1, <2>1 DEF Kept
<1>3. Rechecked'
  <2>1. rechecker.pc # "idle" /\ fileQueue[rechecker.target] # NoItem =>
            fileQueue[rechecker.target] \in Live
    BY LiveIs DEF Inv, QInv, Aimed
  <2> QED
    BY <2>1, <1>1 DEF Inv, Structure, Rechecked
<1>4. Alike(download', DOMAIN download)
  BY DEF Alike
<1> QED
  BY <1>2, <1>3, <1>4, Steady DEF Structure

LEMMA AddSourceKeeps ==
    ASSUME Inv, NEW i \in Items, NEW u \in Users, AddSource(i, u)
    PROVE  Structure'
<1>1. /\ i \in Live /\ u \notin item[i].sources /\ item' = [item EXCEPT ![i] = Sourced(item[i], u)]
      /\ userQueue' = IF u \in Passive \/ Finished(i) THEN userQueue ELSE userQueue \cup {<<i, u>>}
      /\ UNCHANGED <<fileQueue, running, closing, download, rechecker>>
  BY DEF AddSource, PutSource, Finished
<1>2. item[i] \in ItemRecords /\ DOMAIN item = Items
  BY ItemRecordIs
<1>3. /\ item'[i].downloads = item[i].downloads /\ item'[i].done = item[i].done
      /\ item'[i].sources = IF u \in Passive THEN item[i].sources ELSE item[i].sources \cup {u}
      /\ \A j \in Items : j # i => item'[j] = item[j]
  BY <1>1, <1>2, FieldKept
<1>4. \A j \in Live : j \in Items /\ item[j].downloads \subseteq item[j].sources
  BY RunnersAre
<1>5. \A j \in Live, v \in Users : <<j, v>> \in userQueue <=> v \in item[j].sources /\ ~Finished(j)
  BY DEF Inv, Structure, Listed, Kept
<1>6. ASSUME NEW j \in Live, NEW v \in Users
      PROVE  <<j, v>> \in userQueue' <=> v \in item'[j].sources /\ ~Finished(j)
  <2>1. CASE j = i /\ v = u
    BY <1>1, <1>3, <1>5, <2>1
  <2>2. CASE j # i \/ v # u
    <3>1. <<j, v>> \in userQueue' <=> <<j, v>> \in userQueue
      BY <1>1, <2>2
    <3>2. v \in item'[j].sources <=> v \in item[j].sources
      BY <1>3, <1>4, <2>2
    <3> QED
      BY <1>5, <3>1, <3>2
  <2> QED
    BY <2>1, <2>2
<1>7. \A j \in Live : /\ item'[j].downloads = item[j].downloads /\ item'[j].done = item[j].done
                      /\ item[j].downloads \subseteq item'[j].sources
  BY <1>3, <1>4
<1> QED
  BY <1>1, <1>6, <1>7, SourcesChange

\* Who is dropped does not download, and so runs nothing.
LEMMA DroppedIdles ==
    ASSUME Inv, Orderly, NEW u \in Users, Detachable(u)
    PROVE  running[u] = NoItem /\ \A i \in Live : u \notin item[i].downloads
<1>1. u \notin DOMAIN download
  BY DEF Orderly, Detachable
<1> QED
  BY <1>1, RunningIs, RunnersAre

LEMMA DroppingKeeps ==
    ASSUME Inv, NEW u \in Users, running[u] = NoItem, NEW dropped \in SUBSET Items,
           item' = [i \in Items |-> IF i \in dropped THEN DropSource(item[i], u) ELSE item[i]],
           \A i \in Live, v \in Users :
               <<i, v>> \in userQueue' <=> <<i, v>> \in userQueue /\ ~(i \in dropped /\ v = u),
           UNCHANGED <<fileQueue, running, closing, download, rechecker>>
    PROVE  Structure'
<1>1. \A i \in Live : i \in Items /\ item[i].downloads \subseteq item[i].sources /\ u \notin item[i].downloads
  BY RunnersAre
<1>2. \A i \in Live : /\ item'[i].downloads = item[i].downloads /\ item'[i].done = item[i].done
                      /\ item'[i].sources = IF i \in dropped THEN item[i].sources \ {u} ELSE item[i].sources
  <2> SUFFICES ASSUME NEW i \in Live
               PROVE  /\ item'[i].downloads = item[i].downloads /\ item'[i].done = item[i].done
                      /\ item'[i].sources = IF i \in dropped THEN item[i].sources \ {u} ELSE item[i].sources
    OBVIOUS
  <2>1. item[i] \in ItemRecords
    BY <1>1, ItemRecordIs
  <2>2. item'[i] = IF i \in dropped THEN DropSource(item[i], u) ELSE item[i]
    BY <1>1
  <2>3. /\ DropSource(item[i], u).downloads = item[i].downloads \ {u}
        /\ DropSource(item[i], u).done = item[i].done
        /\ DropSource(item[i], u).sources = item[i].sources \ {u}
    BY <2>1, FieldKept
  <2>4. item[i].downloads \ {u} = item[i].downloads
    BY <1>1
  <2>5. CASE i \in dropped
    BY <2>2, <2>3, <2>4, <2>5
  <2>6. CASE i \notin dropped
    BY <2>2, <2>6
  <2> QED
    BY <2>5, <2>6
<1>3. \A i \in Live, v \in Users : <<i, v>> \in userQueue <=> v \in item[i].sources /\ ~Finished(i)
  BY DEF Inv, Structure, Listed, Kept
<1>4. \A i \in Live, v \in Users : <<i, v>> \in userQueue' <=> v \in item'[i].sources /\ ~Finished(i)
  BY <1>2, <1>3
<1>5. \A i \in Live : item[i].downloads \subseteq item'[i].sources
  BY <1>1, <1>2
<1> QED
  BY <1>2, <1>4, <1>5, SourcesChange

LEMMA RemoveSourceKeeps ==
    ASSUME Inv, Orderly, NEW t \in Targets, NEW u \in Users, RemoveSource(t, u)
    PROVE  Structure'
<1>1. PICK i : i = fileQueue[t]
  OBVIOUS
<1>2. i # NoItem /\ Detachable(u) /\ i \in Items /\ i \in Live
  BY <1>1, LiveIs DEF RemoveSource, Inv
<1>3. running[u] = NoItem /\ DOMAIN item = Items
  BY <1>2, DroppedIdles, ItemRecordIs DEF RemoveSource
<1>4. /\ item' = [item EXCEPT ![i] = DropSource(item[i], u)]
      /\ userQueue' = IF Finished(i) THEN userQueue ELSE userQueue \ {<<i, u>>}
      /\ UNCHANGED <<fileQueue, running, closing, download, rechecker>>
  BY <1>1, <1>2, <1>3 DEF RemoveSource
<1>5. item' = [j \in Items |-> IF j \in {i} THEN DropSource(item[j], u) ELSE item[j]]
  BY <1>2, <1>3, <1>4
<1>6. Finished(i) => \A v \in Users : <<i, v>> \notin userQueue
  BY <1>2 DEF Inv, Structure, Listed, Kept
<1>7. \A j \in Live, v \in Users :
          <<j, v>> \in userQueue' <=> <<j, v>> \in userQueue /\ ~(j \in {i} /\ v = u)
  BY <1>4, <1>6
<1> QED
  BY <1>2, <1>3, <1>4, <1>5, <1>7, DroppingKeeps

LEMMA RemoveUserKeeps ==
    ASSUME Inv, Orderly, NEW u \in Users, RemoveUser(u)
    PROVE  Structure'
<1>1. running[u] = NoItem
  BY DroppedIdles DEF RemoveUser
<1>2. PICK dropped : /\ dropped = {i \in Live : <<i, u>> \in userQueue /\ Offers(i)}
                                  \cup ({running[u]} \ ({i \in Live : <<i, u>> \in userQueue /\ Offers(i)}
                                                        \cup {NoItem}))
  OBVIOUS
<1>3. dropped = {i \in Live : <<i, u>> \in userQueue /\ Offers(i)}
  BY <1>1, <1>2
<1>4. /\ item' = [i \in Items |-> IF i \in dropped THEN DropSource(item[i], u) ELSE item[i]]
      /\ userQueue' = userQueue \ (dropped \X {u})
      /\ running' = IF running[u] \in dropped THEN [running EXCEPT ![u] = NoItem] ELSE running
      /\ UNCHANGED <<fileQueue, download, rechecker>>
  BY <1>2 DEF RemoveUser
<1>5. UNCHANGED closing
  BY <1>1 DEF RemoveUser
<1>6. dropped \in SUBSET Items /\ NoItem \notin dropped
  BY <1>3, RunnersAre
<1>7. UNCHANGED running
  BY <1>1, <1>4, <1>6
<1>8. \A i \in Live, v \in Users :
          <<i, v>> \in userQueue' <=> <<i, v>> \in userQueue /\ ~(i \in dropped /\ v = u)
  BY <1>4
<1> QED
  BY <1>1, <1>4, <1>5, <1>6, <1>7, <1>8, DroppingKeeps

LEMMA SetPriorityKeeps ==
    ASSUME Inv, NEW t \in Targets, NEW p \in BOOLEAN, SetPriority(t, p)
    PROVE  Structure'
<1>1. PICK i : i = fileQueue[t]
  OBVIOUS
<1>2. i # NoItem /\ i \in Items /\ i \in Live /\ ~Finished(i)
  BY <1>1, LiveIs DEF SetPriority, Inv
<1>3. item[i] \in ItemRecords /\ DOMAIN item = Items
  BY <1>2, ItemRecordIs
<1>4. item' = [item EXCEPT ![i].paused = p] /\ userQueue' = userQueue \cup ({i} \X item[i].sources)
      /\ UNCHANGED <<fileQueue, running, closing, download, rechecker>>
  BY <1>1 DEF SetPriority
<1>5. \A j \in Items : item'[j].downloads = item[j].downloads /\ item'[j].done = item[j].done
                       /\ item'[j].sources = item[j].sources
  BY <1>2, <1>3, <1>4 DEF ItemRecords
<1>6. \A j \in Live, v \in Users : <<j, v>> \in userQueue <=> v \in item[j].sources /\ ~Finished(j)
  BY DEF Inv, Structure, Listed, Kept
<1>7. \A j \in Live : j \in Items /\ item[j].downloads \subseteq item[j].sources
  BY RunnersAre
<1>8. \A j \in Live, v \in Users : <<j, v>> \in userQueue' <=> v \in item'[j].sources /\ ~Finished(j)
  BY <1>2, <1>4, <1>5, <1>6, <1>7
<1> QED
  BY <1>4, <1>5, <1>7, <1>8, SourcesChange

\* Without "hurry" no download is left of what was queued for the target.
LEMMA SettledIs ==
    ASSUME Inv, Orderly, NEW t \in Targets, NEW r, Settled(t, r)
    PROVE  \A u \in DOMAIN download : download[u].path # t
BY DEF Orderly, Settled

LEMMA AddKeeps ==
    ASSUME Inv, Orderly, NEW t \in Targets, NEW r \in Roots, NEW u \in Users, Add(t, r, u)
    PROVE  Structure'
<1>1. PICK i \in Items : /\ Unused(i)
                         /\ fileQueue' = [fileQueue EXCEPT ![t] = i]
                         /\ PutSource(i, NewItem(r), u)
  BY DEF Add
<1>2. /\ fileQueue[t] = NoItem /\ Settled(t, r) /\ Quiet
      /\ UNCHANGED <<running, download, closing, rechecker>>
  BY DEF Add
<1>3. rechecker.pc = "idle" /\ \A v \in DOMAIN download : download[v].path \in Targets \ {t}
  BY <1>2, SettledIs, DownloadIs DEF Quiet, Orderly, Inv, Typed
<1>4. i # NoItem /\ i \notin Live /\ \A v \in Users : <<i, v>> \notin userQueue /\ running[v] # i
  BY <1>1, DownloadQueueAssumption DEF Unused
<1>5. fileQueue'[t] = i /\ \A s \in Targets \ {t} : fileQueue'[s] = fileQueue[s]
  BY <1>1 DEF Inv, QInv, Indexed
<1>6. item' = [item EXCEPT ![i] = Sourced(NewItem(r), u)] /\ DOMAIN item = Items
  BY <1>1, ItemRecordIs DEF PutSource
<1>7. \A j \in Items : j # i => item'[j] = item[j]
  BY <1>6
<1>8. /\ item'[i].downloads = {} /\ item'[i].done = {}
      /\ item'[i].sources = IF u \in Passive THEN {} ELSE {u}
  <2>1. PICK new : new = NewItem(r)
    OBVIOUS
  <2>2. new \in ItemRecords /\ new.downloads = {} /\ new.done = {} /\ new.sources = {}
    BY <2>1 DEF NewItem, ItemRecords
  <2>3. /\ Sourced(new, u).downloads = {} /\ Sourced(new, u).done = {}
        /\ Sourced(new, u).sources = IF u \in Passive THEN {} ELSE {} \cup {u}
    BY <2>2, FieldKept
  <2>4. item'[i] = Sourced(new, u)
    BY <1>6, <2>1
  <2> QED
    BY <2>3, <2>4
<1>9. \A v \in Users : running[v] # NoItem =>
          /\ running[v] \in Live /\ running[v] # i /\ item'[running[v]] = item[running[v]]
          /\ v \in DOMAIN download /\ v \in item[running[v]].downloads
          /\ download[v].path \in Targets \ {t} /\ fileQueue[download[v].path] = running[v]
  BY <1>3, <1>4, <1>7, RunningIs
<1>10. Runs'
  BY <1>2, <1>5, <1>9 DEF Runs
<1>11. Known'
  BY <1>2, <1>3, <1>5 DEF Inv, Structure, Known
<1>12. Told'
  BY <1>2 DEF Inv, Structure, Told, DroppedIsDisconnected
<1>13. Fetching'
  BY <1>2, <1>9 DEF Inv, Structure, Fetching
<1>14. Disjoint'
  BY <1>2 DEF Inv, Structure, Disjoint
<1>15. Rechecked'
  BY <1>2, <1>3 DEF Rechecked
<1>16. Live' = Live \cup {i}
  BY <1>1, <1>2, <1>4, <1>5 DEF Live
<1>17. Listed'
  <2>1. userQueue' = IF u \in Passive \/ IsFinished({}, Size) THEN userQueue ELSE userQueue \cup {<<i, u>>}
    BY <1>1 DEF PutSource, NewItem
  <2>2. ~IsFinished({}, Size)
    BY DEF IsFinished
  <2>3. Kept(i)'
    BY <1>4, <1>8, <2>1, <2>2 DEF Kept, Finished
  <2>4. ASSUME NEW j \in Live PROVE Kept(j)'
    <3>1. j \in Items /\ j # i /\ Kept(j)
      BY <1>4, RunnersAre DEF Inv, Structure, Listed
    <3>2. \A v \in Users : <<j, v>> \in userQueue' <=> <<j, v>> \in userQueue
      BY <2>1, <3>1
    <3> QED
      BY <1>2, <1>7, <3>1, <3>2 DEF Kept, Finished
  <2> QED
    BY <1>16, <2>3, <2>4 DEF Listed
<1> QED
  BY <1>10, <1>11, <1>12, <1>13, <1>14, <1>15, <1>17 DEF Structure

LEMMA MoveKeeps ==
    ASSUME Inv, Orderly, NEW s \in Targets, NEW t \in Targets, Move(s, t)
    PROVE  Structure'
<1>1. PICK i : i = fileQueue[s]
  OBVIOUS
<1>2. /\ i # NoItem /\ fileQueue[t] = NoItem /\ item[i].downloads = {} /\ Settled(t, item[i].tth) /\ Quiet
      /\ fileQueue' = [fileQueue EXCEPT ![s] = NoItem, ![t] = i]
      /\ UNCHANGED <<item, userQueue, running, download, closing, rechecker>>
  BY <1>1 DEF Move
<1>3. i \in Live /\ rechecker.pc = "idle" /\ \A v \in Users : running[v] # i
  BY <1>1, <1>2, LiveIs, RunnersAre DEF Quiet, Orderly, Inv
<1>4. /\ fileQueue'[s] = NoItem /\ fileQueue'[t] = i /\ s # t
      /\ \A a \in Targets : a # s /\ a # t => fileQueue'[a] = fileQueue[a]
  BY <1>1, <1>2 DEF Inv, QInv, Indexed
<1>5. Live' = Live
  <2>1. ASSUME NEW x \in Live' PROVE x \in Live
    <3>1. PICK a \in Targets : x = fileQueue'[a] /\ x # NoItem
      BY DEF Live
    <3> QED
      BY <1>1, <1>4, <3>1 DEF Live
  <2>2. ASSUME NEW x \in Live PROVE x \in Live'
    <3>1. PICK a \in Targets : x = fileQueue[a] /\ x # NoItem
      BY DEF Live
    <3>2. PICK b \in Targets : x = fileQueue'[b]
      BY <1>1, <1>2, <1>4, <3>1
    <3> QED
      BY <3>1, <3>2 DEF Live
  <2> QED
    BY <2>1, <2>2
<1>6. \A v \in DOMAIN download : download[v].path \in Targets /\ download[v].path # t /\ v \in Users
  BY <1>2, SettledIs, DownloadIs DEF Inv, Typed
<1>7. Runs'
  <2>1. ASSUME NEW v \in Users, running[v] # NoItem
        PROVE  /\ v \in DOMAIN download /\ fileQueue'[download[v].path] = running[v]
               /\ v \in item[running[v]].downloads
    <3>1. /\ v \in DOMAIN download /\ fileQueue[download[v].path] = running[v]
          /\ v \in item[running[v]].downloads
      BY <2>1, RunningIs
    <3>2. download[v].path # s /\ download[v].path # t
      BY <1>1, <1>3, <1>6, <3>1
    <3> QED
      BY <1>4, <1>6, <3>1, <3>2
  <2> QED
    BY <1>2, <2>1 DEF Runs
<1>8. Known'
  BY <1>2, <1>4, <1>6 DEF Inv, Structure, Known
<1>9. Told' /\ Fetching' /\ Disjoint'
  BY <1>2 DEF Inv, Structure, Told, DroppedIsDisconnected, Fetching, Disjoint
<1>10. Listed'
  BY <1>2, <1>5 DEF Inv, Structure, Listed, Kept, Finished
<1>11. Rechecked'
  BY <1>2, <1>3 DEF Rechecked
<1> QED
  BY <1>7, <1>8, <1>9, <1>10, <1>11 DEF Structure

\* UserQueue::remove(): nobody runs the item any more.
LEMMA NobodyRuns ==
    ASSUME Inv, NEW i \in Live, UserQueueRemove(i)
    PROVE  /\ \A u \in Users : running'[u] = IF running[u] = i THEN NoItem ELSE running[u]
           /\ \A j \in Live \ {i}, u \in Users : <<j, u>> \in userQueue' <=> <<j, u>> \in userQueue
           /\ \A u \in Users : <<i, u>> \notin userQueue'
<1>1. \A u \in Users : running[u] = i => u \in item[i].sources
  BY RunnersAre
<1>2. \A u \in Users : <<i, u>> \in userQueue => u \in item[i].sources
  BY DEF Inv, Structure, Listed, Kept
<1> QED
  BY <1>1, <1>2 DEF UserQueueRemove

LEMMA RemoveItemKeeps ==
    ASSUME Inv, Orderly, NEW t \in Targets, RemoveItem(t)
    PROVE  Structure'
<1>1. PICK i : i = fileQueue[t]
  OBVIOUS
<1>2. i # NoItem /\ i \in Live
  BY <1>1, LiveIs DEF RemoveItem, Inv
<1>3. item[i].downloads = {u \in Users : running[u] = i} /\ item[i].downloads \subseteq DOMAIN download
  BY <1>2, RunnersAre
<1>4. /\ \A u \in Users : running'[u] = IF running[u] = i THEN NoItem ELSE running[u]
      /\ \A j \in Live \ {i}, u \in Users : <<j, u>> \in userQueue' <=> <<j, u>> \in userQueue
  <2>1. CASE Finished(i)
    <3>1. item[i].downloads = {}
      BY <1>2, <2>1 DEF Inv, Structure, Listed, Kept
    <3>2. UNCHANGED <<userQueue, running>>
      BY <1>1, <2>1 DEF RemoveItem
    <3> QED
      BY <1>3, <3>1, <3>2
  <2>2. CASE ~Finished(i)
    <3>1. UserQueueRemove(i)
      BY <1>1, <2>2 DEF RemoveItem
    <3> QED
      BY <1>2, <3>1, NobodyRuns
  <2> QED
    BY <2>1, <2>2
<1>5. FileQueueRemove(i) /\ UNCHANGED rechecker /\ closing' = closing \cup item[i].downloads
  BY <1>1 DEF RemoveItem
<1>6. Alike(download', DOMAIN download \ {})
  <2>1. DOMAIN download \ {} = DOMAIN download
    OBVIOUS
  <2>2. download' = download \/ download' = Orphaned(TempName(i))
    BY <1>1 DEF RemoveItem
  <2> QED
    BY <2>1, <2>2, AlikeAre
<1>7. closing \subseteq DOMAIN download
  BY DEF Inv, Structure, Told
<1>8. \A u \in DOMAIN download : running[u] = i => u \in closing'
  BY <1>3, <1>5, DownloadIs DEF Inv, Typed
<1>9. {} \in SUBSET DOMAIN download /\ \A u \in {} : running[u] \in {i, NoItem}
  OBVIOUS
<1>10. closing' \subseteq DOMAIN download \ {} /\ closing \ {} \subseteq closing'
       /\ \A u \in DOMAIN download \ {} : running[u] = i => u \in closing'
  BY <1>3, <1>5, <1>7, <1>8
<1> QED
  BY <1>1, <1>2, <1>4, <1>5, <1>6, <1>9, <1>10, Leaving

-----------------------------------------------------------------------------
LEMMA WritingKeeps ==
    ASSUME Inv, NEW u \in Users, SetFile(u) \/ Data(u)
    PROVE  Structure'
<1>1. /\ UNCHANGED <<fileQueue, running, closing, userQueue, rechecker, item>> /\ u \in DOMAIN download
      /\ \E x : \/ download' = [download EXCEPT ![u].file = x]
                \/ download' = [download EXCEPT ![u].pos = x]
  BY DEF SetFile, Data
<1>2. download[u] \in Downloads
  BY <1>1, DownloadIs DEF Inv, Typed, DownloadTyped
<1>3. Alike(download', DOMAIN download)
  BY <1>1, <1>2 DEF Alike, Downloads
<1> QED
  BY <1>1, <1>3, Still

LEMMA SaveKeeps ==
    ASSUME Inv, Save
    PROVE  Structure'
<1>1. UNCHANGED <<fileQueue, running, closing, userQueue, rechecker, download>>
  BY DEF Save
<1>2. ASSUME NEW i \in Live
      PROVE  /\ item'[i].downloads = item[i].downloads /\ item'[i].done = item[i].done
             /\ item'[i].sources = item[i].sources
  <2>1. i \in Items /\ item[i] \in ItemRecords
    BY RunnersAre, ItemRecordIs
  <2>2. PICK n : item'[i] = [item[i] EXCEPT !.temp = n]
    BY <2>1 DEF Save
  <2> QED
    BY <2>1, <2>2 DEF ItemRecords
<1>3. Alike(download', DOMAIN download)
  BY <1>1 DEF Alike
<1> QED
  BY <1>1, <1>2, <1>3, Still

LEMMA PutGoneKeeps ==
    ASSUME Inv, NEW u \in Users, u \in DOMAIN download, PutGone(u)
    PROVE  Structure'
<1>1. /\ fileQueue[download[u].path] = NoItem /\ UNCHANGED queueVars
      /\ closing' = closing \ {u} /\ UNCHANGED rechecker
      /\ Alike(download', DOMAIN download \ {u})
  BY AlikeAre DEF PutGone, Put
<1>2. running[u] = NoItem
  BY <1>1, RunningIs
<1>3. \A v \in Users : running[v] # NoItem =>
          /\ v # u /\ v \in DOMAIN download' /\ download'[v].path = download[v].path
          /\ download'[v].seg = download[v].seg
          /\ v \in item[running[v]].downloads /\ fileQueue[download[v].path] = running[v]
  BY <1>1, <1>2, RunningIs DEF Alike
<1>4. Runs'
  BY <1>1, <1>3 DEF Runs
<1>5. Known'
  <2>1. \A v \in DOMAIN download' : v \in DOMAIN download /\ download'[v].path = download[v].path
    BY <1>1 DEF Alike
  <2> QED
    BY <1>1, <2>1 DEF Inv, Structure, Known
<1>6. Told'
  BY <1>1 DEF Inv, Structure, Told, DroppedIsDisconnected, Alike
<1>7. Listed'
  BY <1>1 DEF Inv, Structure, Listed, Kept, Live, Finished
<1>8. Fetching' /\ Disjoint'
  BY <1>1, <1>3 DEF Inv, Structure, Fetching, Disjoint
<1>9. Rechecked'
  BY <1>1 DEF Inv, Structure, Rechecked, Finished
<1> QED
  BY <1>4, <1>5, <1>6, <1>7, <1>8, <1>9 DEF Structure

\* A download that ends, of an item that is queued, was the item's own.
LEMMA Ending ==
    ASSUME Inv, NEW u \in DOMAIN download, NEW i, i = fileQueue[download[u].path], i # NoItem
    PROVE  /\ u \in Users /\ i \in Live /\ i \in Items /\ running[u] = i /\ u \in item[i].downloads
           /\ download[u].path \in Targets
           /\ ~Finished(i) /\ (rechecker.pc # "idle" => fileQueue[rechecker.target] # i)
           /\ download[u].seg \in Segs /\ Fetches(download[u].seg, item[i].done)
<1>1. u \in Users /\ download[u].path \in Targets /\ download[u].seg \in Segs
  BY DownloadIs DEF Inv, Typed
<1>2. i \in Live /\ i \in Items
  BY <1>1, LiveIs DEF Inv
<1>3. running[u] = i
  BY DEF Inv, Structure, Known
<1>4. u \in item[i].downloads
  BY <1>1, <1>2, <1>3, RunnersAre
<1>5. ~Finished(i)
  BY <1>2, <1>4 DEF Inv, Structure, Listed, Kept
<1>6. rechecker.pc # "idle" => fileQueue[rechecker.target] # i
  BY <1>4 DEF Inv, Structure, Rechecked
<1>7. Fetches(download[u].seg, item[i].done)
  BY <1>1, <1>3 DEF Inv, Structure, Fetching
<1> QED
  BY <1>1, <1>2, <1>3, <1>4, <1>5, <1>6, <1>7

\* UserQueue::removeDownload(), of an item with more that is done but not all.
LEMMA RemoveDownloadKeeps ==
    ASSUME Inv, NEW u \in DOMAIN download, NEW i, i = fileQueue[download[u].path], i # NoItem,
           NEW part \in Segs, Units({part}) \subseteq Units({download[u].seg}),
           NEW it \in ItemRecords, it.downloads = item[i].downloads, it.sources = item[i].sources,
           Units(it.done) \subseteq Units(item[i].done \cup {part}), ~IsFinished(it.done, Size),
           RemoveDownload(i, it, u), download' = Without(download, u), Put(u)
    PROVE  Structure'
<1>1. /\ u \in Users /\ i \in Live /\ i \in Items /\ running[u] = i /\ u \in item[i].downloads
      /\ ~Finished(i) /\ (rechecker.pc # "idle" => fileQueue[rechecker.target] # i)
  BY Ending
<1>2. /\ item' = [item EXCEPT ![i] = [it EXCEPT !.downloads = @ \ {u}]]
      /\ running' = [running EXCEPT ![u] = NoItem] /\ UNCHANGED <<fileQueue, userQueue, rechecker>>
      /\ closing' = closing \ {u} /\ Alike(download', DOMAIN download \ {u})
  BY AlikeAre DEF RemoveDownload, Put
<1>3. DOMAIN item = Items /\ running \in [Users -> Items \cup {NoItem}]
  BY DEF Inv, Typed, ItemsTyped
<1>4. /\ item'[i].downloads = item[i].downloads \ {u} /\ item'[i].sources = item[i].sources
      /\ item'[i].done = it.done /\ \A j \in Items : j # i => item'[j] = item[j]
  BY <1>1, <1>2, <1>3 DEF ItemRecords
<1>5. \A v \in Users : running'[v] = IF v = u THEN NoItem ELSE running[v]
  BY <1>2, <1>3
<1>6. \A v \in Users : running'[v] # NoItem =>
          /\ v # u /\ running'[v] = running[v] /\ running[v] \in Live /\ running[v] \in Items
          /\ v \in DOMAIN download' /\ download'[v].path = download[v].path
          /\ download'[v].seg = download[v].seg /\ v \in item[running[v]].downloads
          /\ fileQueue[download[v].path] = running[v]
  BY <1>2, <1>5, RunningIs DEF Alike
<1>7. Runs'
  <2>1. \A v \in Users : running'[v] # NoItem => v \in item'[running[v]].downloads
    BY <1>4, <1>6
  <2> QED
    BY <1>2, <1>6, <2>1 DEF Runs
<1>8. Known'
  <2>1. \A v \in DOMAIN download' : v \in DOMAIN download /\ v \in Users /\ v # u
                                    /\ download'[v].path = download[v].path
    BY <1>2, DownloadIs DEF Alike, Inv, Typed
  <2> QED
    BY <1>2, <1>5, <2>1 DEF Inv, Structure, Known
<1>9. Told'
  <2>1. \A v \in DOMAIN download' : v \in DOMAIN download /\ v \in Users /\ v # u
    BY <1>2, DownloadIs DEF Alike, Inv, Typed
  <2>2. closing' \subseteq DOMAIN download'
    BY <1>2 DEF Inv, Structure, Told, Alike
  <2> QED
    BY <1>2, <1>5, <2>1, <2>2 DEF Inv, Structure, Told, DroppedIsDisconnected
<1>10. Listed'
  <2>1. Live' = Live
    BY <1>2 DEF Live
  <2>2. ASSUME NEW j \in Live PROVE Kept(j)'
    <3>1. j \in Items /\ Kept(j) /\ item[j].downloads \subseteq Users
      BY RunnersAre DEF Inv, Structure, Listed
    <3>2. CASE j = i
      <4>1. ~Finished(i)'
        BY <1>4 DEF Finished
      <4>2. \A v \in item[i].downloads \ {u} : running'[v] = i
        BY <1>5, <3>1, <3>2 DEF Kept
      <4> QED
        BY <1>1, <1>2, <1>4, <3>1, <3>2, <4>1, <4>2 DEF Kept
    <3>3. CASE j # i
      <4>1. \A v \in item[j].downloads : running'[v] = j
        <5>1. \A v \in item[j].downloads : running[v] = j /\ v \in Users
          BY <3>1 DEF Kept
        <5> QED
          BY <1>1, <1>5, <3>3, <5>1
      <4> QED
        BY <1>2, <1>4, <3>1, <3>3, <4>1 DEF Kept, Finished
    <3> QED
      BY <3>2, <3>3
  <2> QED
    BY <2>1, <2>2 DEF Listed
<1>11. Fetching'
  <2> SUFFICES ASSUME NEW v \in Users, running'[v] # NoItem
               PROVE  Fetches(download[v].seg, item'[running[v]].done)
    BY <1>6 DEF Fetching
  <2>1. v # u /\ running[v] # NoItem /\ running[v] \in Items /\ v \in DOMAIN download
        /\ Fetches(download[v].seg, item[running[v]].done)
    BY <1>6, RunningIs DEF Inv, Structure, Fetching
  <2>2. CASE running[v] # i
    BY <1>4, <2>1, <2>2
  <2>3. CASE running[v] = i
    <3>1. download[v].seg # NoSegment /\ ~Overlaps(download[u].seg, download[v].seg)
      BY <1>1, <2>1, <2>3 DEF Inv, Structure, Disjoint
    <3>2. PICK s, d : s = download[u].seg /\ d = download[v].seg /\ s \in Segs /\ d \in Segs
      BY <2>1, DownloadIs DEF Inv, Typed
    <3>3. ASSUME NEW n \in Nat, d[1] <= n, n < d[2], n \in Units(it.done)
          PROVE  FALSE
      <4>1. n \in Units(item[i].done) \/ n \in Units({s})
        <5>1. n \in Units(item[i].done \cup {part})
          BY <3>3
        <5>2. n \in Units(item[i].done) \/ n \in Units({part})
          BY <5>1 DEF Units
        <5> QED
          BY <3>2, <5>2
      <4>2. n \notin Units(item[i].done)
        BY <2>1, <2>3, <3>2, <3>3 DEF Fetches
      <4>3. n \in s[1]..(s[2] - 1)
        BY <4>1, <4>2 DEF Units
      <4> QED
        BY <3>1, <3>2, <3>3, <4>3 DEF Overlaps, Segs
    <3> QED
      BY <1>4, <2>1, <2>3, <3>1, <3>2, <3>3 DEF Fetches
  <2> QED
    BY <2>2, <2>3
<1>12. Disjoint'
  BY <1>6 DEF Inv, Structure, Disjoint
<1>13. Rechecked'
  <2>1. ASSUME rechecker.pc # "idle", fileQueue[rechecker.target] # NoItem
        PROVE  item'[fileQueue[rechecker.target]] = item[fileQueue[rechecker.target]]
    <3>1. fileQueue[rechecker.target] \in Items
      BY <2>1, LiveIs DEF Inv, QInv, Aimed
    <3> QED
      BY <1>1, <1>4, <2>1, <3>1
  <2> QED
    BY <1>2, <2>1 DEF Inv, Structure, Rechecked, Finished
<1> QED
  BY <1>7, <1>8, <1>9, <1>10, <1>11, <1>12, <1>13 DEF Structure

\* The whole file is what is done of it: each of its blocks is.
LEMMA WholeIs ==
    ASSUME NEW done, IsFinished(done, Size), NEW n \in Nat, n < Size
    PROVE  n \in Units(done)
<1>1. Size \in Nat /\ done = {<<0, Size>>}
  BY DownloadQueueAssumption DEF IsFinished
<1>2. n \in 0..(Size - 1)
  BY <1>1
<1> QED
  BY <1>1, <1>2 DEF Units

\* The last segment that was missing is the only one that anyone fetches.
LEMMA LastOne ==
    ASSUME Inv, NEW u \in DOMAIN download, NEW i, i = fileQueue[download[u].path], i # NoItem,
           IsFinished(AddSegment(item[i].done, download[u].seg), Size)
    PROVE  \A v \in Users : running[v] = i => v = u
<1> SUFFICES ASSUME NEW v \in Users, running[v] = i, v # u PROVE FALSE
  OBVIOUS
<1>1. u \in Users /\ i \in Items /\ running[u] = i
  BY Ending
<1>2. download[u].seg # NoSegment /\ download[v].seg # NoSegment
      /\ ~Overlaps(download[u].seg, download[v].seg)
  BY <1>1 DEF Inv, Structure, Disjoint
<1>3. Fetches(download[v].seg, item[i].done) /\ v \in DOMAIN download
  BY RunningIs DEF Inv, Structure, Fetching
<1>4. PICK s, d : /\ s = download[u].seg /\ d = download[v].seg /\ s \in Segs /\ d \in Proper
                  /\ d[1] \in Nat /\ d[2] \in Nat /\ d[1] < d[2] /\ d[2] <= Size
                  /\ s[1] \in Nat /\ s[2] \in Nat
  BY <1>2, <1>3, DownloadIs DEF Fetches, Inv, Typed, Proper, Segs
<1>5. d[1] \notin Units(item[i].done)
  BY <1>3, <1>4 DEF Fetches
<1>6. d[1] \in Units(AddSegment(item[i].done, s))
  BY <1>4, WholeIs, DownloadQueueAssumption
<1>7. item[i].done \subseteq Segs /\ IsFiniteSet(item[i].done)
  BY <1>1, ItemIs DEF Inv, Typed
<1>8. d[1] \in Units(item[i].done \cup {s})
  BY <1>4, <1>6, <1>7, Added
<1>9. d[1] \in s[1]..(s[2] - 1)
  BY <1>5, <1>8 DEF Units
<1> QED
  BY <1>2, <1>4, <1>9 DEF Overlaps

\* With nothing left to do, and the item kept or not.
LEMMA CompleteKeeps ==
    ASSUME Inv, NEW u \in DOMAIN download, NEW i, i = fileQueue[download[u].path], i # NoItem,
           NEW done, done = AddSegment(item[i].done, download[u].seg), IsFinished(done, Size),
           Complete(u, i, done), Put(u)
    PROVE  Structure'
<1>1. /\ u \in Users /\ i \in Live /\ i \in Items /\ running[u] = i /\ u \in item[i].downloads
      /\ download[u].path \in Targets /\ (rechecker.pc # "idle" => fileQueue[rechecker.target] # i)
  BY Ending
<1>2. \A v \in Users : running[v] = i => v = u
  BY LastOne
<1>3. /\ UserQueueRemove(i) /\ closing' = closing \ {u} /\ UNCHANGED rechecker
      /\ Alike(download', DOMAIN download \ {u})
  BY AlikeAre DEF Complete, Put
<1>4. /\ \A v \in Users : running'[v] = IF running[v] = i THEN NoItem ELSE running[v]
      /\ \A j \in Live \ {i}, v \in Users : <<j, v>> \in userQueue' <=> <<j, v>> \in userQueue
      /\ \A v \in Users : <<i, v>> \notin userQueue'
  BY <1>1, <1>3, NobodyRuns
<1>5. closing' \subseteq DOMAIN download \ {u} /\ closing \ {u} \subseteq closing'
  BY <1>3 DEF Inv, Structure, Told
<1>6. DOMAIN download \subseteq Users
  BY DownloadIs DEF Inv, Typed
<1>7. CASE ~KeepFinished
  <2>1. FileQueueRemove(i)
    BY <1>7 DEF Complete
  <2>2. {u} \in SUBSET DOMAIN download /\ \A v \in {u} : running[v] \in {i, NoItem}
    BY <1>1
  <2>3. \A v \in DOMAIN download \ {u} : running[v] = i => v \in closing'
    BY <1>2, <1>6
  <2> QED
    BY <1>1, <1>3, <1>4, <1>5, <2>1, <2>2, <2>3, Leaving
<1>8. CASE KeepFinished
  <2> DEFINE own == {v \in item[i].downloads : ~(running[v] = i /\ v \in item[i].sources)}
  <2>1. own = {}
    BY <1>1, RunnersAre
  <2>2. item' = [item EXCEPT ![i] = [item[i] EXCEPT !.done = done, !.downloads = own]]
        /\ UNCHANGED fileQueue
    BY <1>8 DEF Complete
  <2> HIDE DEF own
  <2>3. item[i] \in ItemRecords /\ DOMAIN item = Items
    BY <1>1, ItemRecordIs
  <2>4. /\ item'[i].downloads = {} /\ item'[i].done = done
        /\ \A j \in Items : j # i => item'[j] = item[j]
    BY <1>1, <2>1, <2>2, <2>3 DEF ItemRecords
  <2>5. \A v \in Users : running'[v] # NoItem =>
            /\ v # u /\ running'[v] = running[v] /\ running[v] # i /\ running[v] \in Items
            /\ item'[running[v]] = item[running[v]]
            /\ v \in DOMAIN download' /\ download'[v].path = download[v].path
            /\ download'[v].seg = download[v].seg /\ v \in item[running[v]].downloads
            /\ fileQueue[download[v].path] = running[v]
    BY <1>1, <1>3, <1>4, <2>4, RunningIs DEF Alike
  <2>6. Runs'
    BY <2>2, <2>5 DEF Runs
  <2>7. \A v \in DOMAIN download' : /\ v \in DOMAIN download /\ v \in Users /\ v # u
                                    /\ download'[v].path = download[v].path
                                    /\ running'[v] = running[v]
    BY <1>2, <1>3, <1>4, <1>6 DEF Alike
  <2>8. Known'
    BY <2>2, <2>7 DEF Inv, Structure, Known
  <2>9. Told'
    BY <1>3, <1>5, <2>7 DEF Inv, Structure, Told, DroppedIsDisconnected, Alike
  <2>10. Listed'
    <3>1. Live' = Live
      BY <2>2 DEF Live
    <3>2. Kept(i)'
      BY <1>4, <2>4 DEF Kept, Finished
    <3>3. ASSUME NEW j \in Live, j # i PROVE Kept(j)'
      <4>1. j \in Items /\ Kept(j) /\ item[j].downloads \subseteq Users
        BY RunnersAre DEF Inv, Structure, Listed
      <4>2. item'[j] = item[j] /\ \A v \in item[j].downloads : running'[v] = j
        BY <1>4, <2>4, <3>3, <4>1 DEF Kept
      <4> QED
        BY <1>4, <3>3, <4>1, <4>2 DEF Kept, Finished
    <3> QED
      BY <3>1, <3>2, <3>3 DEF Listed
  <2>11. Fetching' /\ Disjoint'
    BY <2>5 DEF Inv, Structure, Fetching, Disjoint
  <2>12. Rechecked'
    <3>1. ASSUME rechecker.pc # "idle", fileQueue[rechecker.target] # NoItem
          PROVE  item'[fileQueue[rechecker.target]] = item[fileQueue[rechecker.target]]
      <4>1. fileQueue[rechecker.target] \in Items
        BY <3>1, LiveIs DEF Inv, QInv, Aimed
      <4> QED
        BY <1>1, <2>4, <3>1, <4>1
    <3> QED
      BY <1>3, <2>2, <3>1 DEF Inv, Structure, Rechecked, Finished
  <2> QED
    BY <2>6, <2>8, <2>9, <2>10, <2>11, <2>12 DEF Structure
<1> QED
  BY <1>7, <1>8

LEMMA FinishKeeps ==
    ASSUME Inv, NEW u \in Users, Finish(u)
    PROVE  Structure'
<1>1. CASE PutGone(u)
  BY <1>1, PutGoneKeeps DEF Finish
<1>2. CASE ~PutGone(u)
  <2>1. PICK i, done :
           /\ u \in DOMAIN download /\ i = fileQueue[download[u].path] /\ i # NoItem
           /\ done = AddSegment(item[i].done, download[u].seg)
           /\ \/ IsFinished(done, Size) /\ Complete(u, i, done)
              \/ /\ ~IsFinished(done, Size) /\ RemoveDownload(i, [item[i] EXCEPT !.done = done], u)
                 /\ download' = Without(download, u)
           /\ Put(u)
    BY <1>2 DEF Finish
  <2>2. ASSUME ~IsFinished(done, Size), RemoveDownload(i, [item[i] EXCEPT !.done = done], u),
               download' = Without(download, u)
        PROVE  Structure'
    <3>1. i \in Items /\ download[u].seg \in Segs
      BY <2>1, Ending
    <3>2. item[i].done \subseteq Segs /\ IsFiniteSet(item[i].done) /\ item[i] \in ItemRecords
      BY <3>1, ItemIs DEF Inv, Typed
    <3>3. /\ done \subseteq Segs
          /\ Units(done) \subseteq Units(item[i].done \cup {download[u].seg})
      BY <2>1, <3>1, <3>2, Added
    <3>4. PICK it : it = [item[i] EXCEPT !.done = done]
      OBVIOUS
    <3>5. /\ it \in ItemRecords /\ it.downloads = item[i].downloads /\ it.sources = item[i].sources
          /\ it.done = done
      BY <3>2, <3>3, <3>4 DEF ItemRecords
    <3>6. Units({download[u].seg}) \subseteq Units({download[u].seg})
      OBVIOUS
    <3> QED
      BY <2>1, <2>2, <3>1, <3>3, <3>4, <3>5, <3>6, RemoveDownloadKeeps
  <2> QED
    BY <2>1, <2>2, CompleteKeeps
<1> QED
  BY <1>1, <1>2

\* What counts of a download that fails is never the last that was missing.
LEMMA FailKeeps ==
    ASSUME Inv, NEW u \in Users, Fail(u)
    PROVE  Structure'
<1>1. CASE PutGone(u)
  BY <1>1, PutGoneKeeps DEF Fail
<1>2. CASE ~PutGone(u)
  <2>1. PICK got, i, name, done, part :
           /\ u \in DOMAIN download /\ i = fileQueue[download[u].path] /\ i # NoItem
           /\ got \in {n \in {download[u].pos} : download[u].file = "none" \/ n < Length(download[u].seg)}
                      \cup Lost(download[u])
           /\ name = IF item[i].done = {} THEN NoName ELSE item[i].temp
           /\ part = <<download[u].seg[1], download[u].seg[1] + got>>
           /\ done = IF got > 0 THEN AddSegment(item[i].done, part) ELSE item[i].done
           /\ RemoveDownload(i, [item[i] EXCEPT !.temp = name, !.done = done], u)
           /\ download' = Without(download, u)
           /\ Put(u)
    BY <1>2 DEF Fail, PutFailed
  <2>2. i \in Items /\ ~Finished(i) /\ Fetches(download[u].seg, item[i].done)
    BY <2>1, Ending
  <2>3. PICK s : /\ s = download[u].seg /\ s \in Segs /\ s[1] \in Nat /\ s[2] \in Nat /\ s[2] <= Size
                 /\ download[u].pos \in Nat /\ (download[u].file = "none" => download[u].pos = 0)
    BY <2>1, DownloadIs DEF Inv, Typed
  <2>4. got \in Nat /\ (got > 0 => s[1] + got < s[2])
    BY <2>1, <2>3 DEF Lost, Length
  <2>5. item[i].done \subseteq Segs /\ IsFiniteSet(item[i].done) /\ item[i] \in ItemRecords
        /\ item[i].temp \in Names \cup {NoName}
    BY <2>2, ItemIs DEF Inv, Typed
  <2>6. part \in Segs /\ part[1] = s[1] /\ part[2] = s[1] + got
    BY <2>1, <2>3, <2>4 DEF Segs
  <2>7. done \subseteq Segs /\ Units(done) \subseteq Units(item[i].done \cup {part})
    <3>1. Units(item[i].done) \subseteq Units(item[i].done \cup {part})
      BY DEF Units
    <3>2. /\ AddSegment(item[i].done, part) \subseteq Segs
          /\ Units(AddSegment(item[i].done, part)) \subseteq Units(item[i].done \cup {part})
      BY <2>5, <2>6, Added
    <3>3. done = AddSegment(item[i].done, part) \/ done = item[i].done
      BY <2>1
    <3> QED
      BY <2>5, <3>1, <3>2, <3>3
  <2>8. ~IsFinished(done, Size)
    <3>1. CASE got > 0
      <4>1. PICK n \in Nat : n = s[2] - 1
        BY <2>3, <2>4, <3>1
      <4>2. s[1] <= n /\ n < s[2] /\ n < Size /\ n \notin part[1]..(part[2] - 1)
        BY <2>3, <2>4, <2>6, <3>1, <4>1, DownloadQueueAssumption
      <4>3. n \notin Units(item[i].done)
        BY <2>2, <2>3, <4>2 DEF Fetches
      <4>4. n \notin Units(done)
        BY <2>7, <4>2, <4>3 DEF Units
      <4> QED
        BY <4>1, <4>2, <4>4, WholeIs
    <3>2. CASE ~(got > 0)
      BY <2>1, <2>2, <3>2 DEF Finished
    <3> QED
      BY <3>1, <3>2
  <2>9. PICK it : it = [item[i] EXCEPT !.temp = name, !.done = done]
    OBVIOUS
  <2>10. /\ it \in ItemRecords /\ it.downloads = item[i].downloads /\ it.sources = item[i].sources
         /\ it.done = done
    BY <2>1, <2>5, <2>7, <2>9 DEF ItemRecords
  <2>11. RemoveDownload(i, it, u) /\ ~IsFinished(it.done, Size)
         /\ Units(it.done) \subseteq Units(item[i].done \cup {part})
    BY <2>1, <2>7, <2>8, <2>9, <2>10
  <2>12. Units({part}) \subseteq Units({download[u].seg}) \/ got = 0
    BY <2>3, <2>4, <2>6 DEF Units
  <2>13. CASE got # 0
    <3>1. Units({part}) \subseteq Units({download[u].seg}) /\ part \in Segs
      BY <2>6, <2>12, <2>13
    <3> QED
      BY <2>1, <2>10, <2>11, <3>1, RemoveDownloadKeeps
  <2>14. CASE got = 0
    <3>1. Units({s}) \subseteq Units({download[u].seg}) /\ s \in Segs
      BY <2>3
    <3>2. Units(it.done) \subseteq Units(item[i].done \cup {s})
      <4>1. it.done = item[i].done
        BY <2>1, <2>10, <2>14
      <4> QED
        BY <4>1 DEF Units
    <3> QED
      BY <2>1, <2>10, <2>11, <3>1, <3>2, RemoveDownloadKeeps
  <2> QED
    BY <2>13, <2>14
<1> QED
  BY <1>1, <1>2

\* What is offered while others download is not offered in vain: of a block
\* that is free, and stays so when what is done is forgotten.
LEMMA Offered ==
    ASSUME Inv, NEW i \in Live, Offers(i), NEW wanted \in Nat \ {0}, NEW D,
           D = item[i].done \/ D = {}, NEW seg, seg = SegmentedNext(Size, 1, wanted, D, Busy(i))
    PROVE  /\ seg = NoSegment => item[i].downloads = {} /\ Blocks \subseteq Units(D)
           /\ Fetches(seg, D) /\ \A b \in Busy(i) : ~Overlaps(seg, b)
           /\ item[i].downloads # {} => \E n \in Blocks : n \notin Units(item[i].done)
<1>1. i \in Items /\ D \subseteq Segs /\ item[i].done \subseteq Segs /\ Size \in Nat
      /\ Units(D) \subseteq Units(item[i].done)
  <2>1. i \in Items
    BY RunnersAre
  <2>2. item[i].done \subseteq Segs
    BY <2>1, ItemIs DEF Inv, Typed
  <2> QED
    BY <2>1, <2>2, DownloadQueueAssumption DEF Units
<1>2. /\ seg = NoSegment => \A n \in Blocks : ~Free(n, 1, Size, 1, D, Busy(i))
      /\ seg # NoSegment => /\ seg \in Proper /\ seg[2] <= Size
                            /\ \A n \in Nat : seg[1] <= n /\ n < seg[2] => n \notin Units(D)
                            /\ \A b \in Busy(i) : ~Overlaps(seg, b)
  BY <1>1, NextBlocks
<1>3. ASSUME item[i].downloads # {}
      PROVE  \E n \in Blocks : n \notin Units(item[i].done) /\ Free(n, 1, Size, 1, D, Busy(i))
  <2>1. PICK free : free = SegmentedNext(Size, 1, 1, item[i].done, Busy(i)) /\ free # NoSegment
    BY <1>3 DEF Offers
  <2>2. /\ free \in Proper /\ free[2] <= Size
        /\ \A n \in Nat : free[1] <= n /\ n < free[2] => n \notin Units(item[i].done)
        /\ \A b \in Busy(i) : ~Overlaps(free, b)
    <3>1. 1 \in Nat \ {0}
      OBVIOUS
    <3> QED
      BY <1>1, <2>1, <3>1, NextBlocks
  <2>3. PICK n : n = free[1] /\ n \in Nat /\ n < free[2] /\ free[2] \in Nat /\ n + 1 <= Size
    BY <1>1, <2>2 DEF Proper, Segs
  <2>4. n \in Blocks /\ n \notin Units(item[i].done) /\ n \notin Units(D) /\ Lesser(Size, n + 1) = n + 1
    BY <1>1, <2>2, <2>3 DEF Blocks, Lesser
  <2>5. \A d \in D : ~(d[1] <= n /\ n + 1 <= d[2])
    <3>1. \A d \in D : d[1] \in Nat /\ d[2] \in Nat
      BY <1>1 DEF Segs
    <3>2. \A d \in D : n \notin d[1]..(d[2] - 1)
      BY <2>4 DEF Units
    <3> QED
      BY <2>3, <3>1, <3>2
  <2>6. \A b \in Busy(i) : ~Overlaps(<<n, n + 1>>, b)
    <3>1. \A b \in Busy(i) : b[1] \in Nat /\ b[2] \in Nat
      BY DownloadIs DEF Busy, Inv, Typed
    <3> QED
      BY <2>2, <2>3, <3>1 DEF Overlaps
  <2>7. Free(n, 1, Size, 1, D, Busy(i))
    BY <2>4, <2>5, <2>6 DEF Free
  <2> QED
    BY <2>4, <2>7
<1>4. ASSUME seg = NoSegment
      PROVE  item[i].downloads = {} /\ Blocks \subseteq Units(D)
  <2>1. item[i].downloads = {}
    BY <1>2, <1>3, <1>4
  <2>2. ASSUME NEW n \in Blocks PROVE n \in Units(D)
    <3>1. ~Free(n, 1, Size, 1, D, {}) /\ n \in Nat /\ n + 1 <= Size
      BY <1>1, <1>2, <1>4, <2>1 DEF Busy, Blocks
    <3>2. Lesser(Size, n + 1) = n + 1
      BY <1>1, <3>1 DEF Lesser
    <3>3. PICK d \in D : d[1] <= n /\ n + 1 <= d[2]
      BY <3>1, <3>2 DEF Free
    <3>4. n \in d[1]..(d[2] - 1)
      BY <1>1, <3>1, <3>3 DEF Segs
    <3> QED
      BY <3>4 DEF Units
  <2> QED
    BY <2>1, <2>2
<1>5. Fetches(seg, D) /\ \A b \in Busy(i) : ~Overlaps(seg, b)
  <2>1. CASE seg = NoSegment
    <3>1. Busy(i) = {}
      BY <1>4, <2>1 DEF Busy
    <3> QED
      BY <1>4, <2>1, <3>1 DEF Fetches, NoSegment
  <2>2. CASE seg # NoSegment
    BY <1>2, <2>2 DEF Fetches
  <2> QED
    BY <2>1, <2>2
<1> QED
  BY <1>3, <1>4, <1>5

LEMMA GetDownloadKeeps ==
    ASSUME Inv, Orderly, NEW u \in Users, GetDownload(u)
    PROVE  Structure'
<1>1. PICK i, wanted, name, done, seg, new :
         /\ i \in Live /\ wanted \in 1..Size
         /\ name = TempName(i)
         /\ done = IF name \in DOMAIN disk THEN item[i].done ELSE {}
         /\ seg = SegmentedNext(Size, 1, wanted, done, Busy(i))
         /\ <<i, u>> \in userQueue /\ Offers(i)
         /\ new = [path |-> TargetOf(i), temp |-> name, tth |-> item[i].tth,
                   seg |-> seg, pos |-> 0, file |-> "none"]
         /\ download' = With(download, u, new)
         /\ item' = [item EXCEPT ![i].temp = name, ![i].done = done, ![i].downloads = @ \cup {u}]
         /\ running' = [running EXCEPT ![u] = i]
  <2>1. PICK i, wanted, name, done, seg :
           /\ i \in Live /\ wanted \in 1..Size
           /\ name = TempName(i)
           /\ done = IF name \in DOMAIN disk THEN item[i].done ELSE {}
           /\ seg = SegmentedNext(Size, 1, wanted, done, Busy(i))
           /\ <<i, u>> \in userQueue /\ Offers(i)
           /\ download' = With(download, u, [path |-> TargetOf(i), temp |-> name, tth |-> item[i].tth,
                                             seg |-> seg, pos |-> 0, file |-> "none"])
           /\ item' = [item EXCEPT ![i].temp = name, ![i].done = done, ![i].downloads = @ \cup {u}]
           /\ running' = [running EXCEPT ![u] = i]
    BY DEF GetDownload
  <2> QED
    BY <2>1
<1>2. u \notin DOMAIN download /\ Quiet /\ UNCHANGED <<fileQueue, userQueue, closing, rechecker>>
  BY DEF GetDownload
<1>3. running[u] = NoItem /\ rechecker.pc = "idle"
  BY <1>2, RunningIs DEF Quiet, Orderly
<1>4. /\ i \in Items /\ i # NoItem /\ item[i].downloads = {v \in Users : running[v] = i}
      /\ item[i].downloads \subseteq item[i].sources /\ item[i].downloads \subseteq DOMAIN download
      /\ item[i] \in ItemRecords /\ DOMAIN item = Items
  BY <1>1, RunnersAre, ItemRecordIs
<1>5. /\ seg = NoSegment => item[i].downloads = {} /\ Blocks \subseteq Units(done)
      /\ Fetches(seg, done) /\ \A b \in Busy(i) : ~Overlaps(seg, b)
      /\ item[i].downloads # {} => \E n \in Blocks : n \notin Units(item[i].done)
  <2>1. wanted \in Nat \ {0} /\ (done = item[i].done \/ done = {})
    BY <1>1, DownloadQueueAssumption
  <2> QED
    BY <1>1, <2>1, Offered
<1>6. u \in item[i].sources /\ ~Finished(i)
  BY <1>1 DEF Inv, Structure, Listed, Kept
<1>7. ~IsFinished(done, Size)
  BY <1>1, <1>6 DEF Finished, IsFinished
<1>8. /\ item'[i].downloads = item[i].downloads \cup {u} /\ item'[i].done = done
      /\ item'[i].sources = item[i].sources /\ \A j \in Items : j # i => item'[j] = item[j]
  BY <1>1, <1>4 DEF ItemRecords
<1>9. /\ DOMAIN download' = DOMAIN download \cup {u}
      /\ \A v \in DOMAIN download : download'[v] = download[v]
      /\ download'[u].path = TargetOf(i) /\ download'[u].seg = seg
  BY <1>1, <1>2 DEF With
<1>10. \A v \in Users : running'[v] = IF v = u THEN i ELSE running[v]
  BY <1>1 DEF Inv, Typed
<1>11. fileQueue[TargetOf(i)] = i
  BY <1>1, NameIs DEF Inv, Typed
<1>12. \A v \in Users : v # u /\ running[v] # NoItem =>
          /\ running[v] \in Live /\ running[v] \in Items /\ v \in DOMAIN download
          /\ v \in item[running[v]].downloads /\ fileQueue[download[v].path] = running[v]
  BY RunningIs
<1>13. Runs'
  <2>1. \A v \in Users : v # u /\ running[v] # NoItem => v \in item'[running[v]].downloads
    BY <1>8, <1>12
  <2> QED
    BY <1>2, <1>8, <1>9, <1>10, <1>11, <1>12, <2>1 DEF Runs
<1>14. Known'
  BY <1>2, <1>9, <1>10, <1>11, DownloadIs DEF Inv, Structure, Known, Typed
<1>15. Told'
  <2>1. DOMAIN download \subseteq Users
    BY DownloadIs DEF Inv, Typed
  <2> QED
    BY <1>2, <1>4, <1>9, <1>10, <2>1 DEF Inv, Structure, Told, DroppedIsDisconnected
<1>16. Listed'
  <2>1. Live' = Live
    BY <1>2 DEF Live
  <2>2. ASSUME NEW j \in Live PROVE Kept(j)'
    <3>1. j \in Items /\ Kept(j) /\ item[j].downloads \subseteq Users /\ u \notin item[j].downloads
          /\ j # NoItem
      BY <1>3, RunnersAre DEF Inv, Structure, Listed
    <3>2. CASE j = i
      <4>1. ~Finished(i)'
        BY <1>7, <1>8 DEF Finished
      <4>2. \A v \in item[i].downloads \cup {u} : running'[v] = i
        BY <1>4, <1>10
      <4> QED
        BY <1>2, <1>4, <1>6, <1>8, <3>1, <3>2, <4>1, <4>2 DEF Kept
    <3>3. CASE j # i
      <4>1. \A v \in item[j].downloads : running'[v] = j
        BY <1>10, <3>1 DEF Kept
      <4> QED
        BY <1>2, <1>8, <3>1, <3>3, <4>1 DEF Kept, Finished
    <3> QED
      BY <3>2, <3>3
  <2> QED
    BY <2>1, <2>2 DEF Listed
<1>17. Fetching'
  <2> SUFFICES ASSUME NEW v \in Users, running'[v] # NoItem
               PROVE  Fetches(download'[v].seg, item'[running'[v]].done)
    BY DEF Fetching
  <2>1. CASE v = u
    BY <1>5, <1>8, <1>9, <1>10, <2>1
  <2>2. CASE v # u
    <3>1. running[v] # NoItem /\ running'[v] = running[v] /\ v \in DOMAIN download
          /\ running[v] \in Items /\ v \in item[running[v]].downloads
          /\ Fetches(download[v].seg, item[running[v]].done)
      BY <1>10, <1>12, <2>2 DEF Inv, Structure, Fetching
    <3>2. CASE running[v] # i
      BY <1>8, <1>9, <3>1, <3>2
    <3>3. CASE running[v] = i
      <4>1. Fetches(download[v].seg, done)
        <5>1. CASE done = item[i].done
          BY <3>1, <3>3, <5>1
        <5>2. CASE done = {}
          <6>1. download[v].seg # NoSegment
            BY <1>5, <3>1, <3>3 DEF Fetches
          <6>2. \A n : n \notin Units({})
            BY DEF Units
          <6> QED
            BY <3>1, <5>2, <6>1, <6>2 DEF Fetches
        <5> QED
          BY <1>1, <5>1, <5>2
      <4> QED
        BY <1>8, <1>9, <3>1, <3>3, <4>1
    <3> QED
      BY <3>2, <3>3
  <2> QED
    BY <2>1, <2>2
<1>18. Disjoint'
  <2> SUFFICES ASSUME NEW a \in Users, NEW b \in Users, a # b, running'[a] = running'[b],
                      running'[a] # NoItem
               PROVE  download'[a].seg # NoSegment /\ ~Overlaps(download'[a].seg, download'[b].seg)
    BY DEF Disjoint
  <2>1. CASE a # u /\ b # u
    BY <1>9, <1>10, <1>12, <2>1 DEF Inv, Structure, Disjoint
  <2>2. ASSUME NEW v \in Users, v # u, running[v] = i
        PROVE  /\ v \in DOMAIN download /\ download[v].seg # NoSegment /\ seg # NoSegment
               /\ ~Overlaps(seg, download[v].seg) /\ ~Overlaps(download[v].seg, seg)
    <3>1. v \in item[i].downloads /\ v \in DOMAIN download
      BY <1>4, <2>2
    <3>2. Fetches(download[v].seg, item[i].done)
      BY <1>4, <2>2 DEF Inv, Structure, Fetching
    <3>3. download[v].seg # NoSegment /\ seg # NoSegment
      BY <1>5, <3>1, <3>2 DEF Fetches
    <3>4. ~Overlaps(seg, download[v].seg)
      BY <1>5, <3>1 DEF Busy
    <3> QED
      BY <3>1, <3>3, <3>4 DEF Overlaps
  <2>3. CASE a = u
    BY <1>9, <1>10, <2>2, <2>3
  <2>4. CASE b = u
    BY <1>9, <1>10, <2>2, <2>4
  <2> QED
    BY <2>1, <2>3, <2>4
<1>19. Rechecked'
  BY <1>2, <1>3 DEF Rechecked
<1> QED
  BY <1>13, <1>14, <1>15, <1>16, <1>17, <1>18, <1>19 DEF Structure

LEMMA RestartKeeps ==
    ASSUME Inv, Restart
    PROVE  Structure'
<1>1. PICK where \in [DOMAIN saved -> Items] :
         /\ \A s, t \in DOMAIN saved : where[s] = where[t] => s = t
         /\ fileQueue' = [t \in Targets |-> IF t \in DOMAIN saved THEN where[t] ELSE NoItem]
         /\ item' = [i \in Items |->
                        IF \E t \in DOMAIN saved : where[t] = i
                        THEN LET e == saved[CHOOSE t \in DOMAIN saved : where[t] = i] IN
                             [NewItem(e.tth) EXCEPT !.done = Loaded(e), !.paused = e.paused,
                                  !.sources = e.sources, !.temp = e.temp]
                        ELSE Freed]
         /\ userQueue' = UNION {{where[t]} \X saved[t].sources :
                                   t \in {t \in DOMAIN saved : ~IsFinished(Loaded(saved[t]), Size)}}
  BY DEF Restart
<1>2. /\ \A u \in Users : running'[u] = NoItem
      /\ DOMAIN download' = {} /\ closing' = {} /\ rechecker'.pc = "idle"
  <2>1. DOMAIN <<>> = {}
    OBVIOUS
  <2> QED
    BY <2>1 DEF Restart
<1>3. Runs' /\ Known' /\ Told' /\ Fetching' /\ Disjoint' /\ Rechecked'
  BY <1>2 DEF Runs, Known, Told, DroppedIsDisconnected, Fetching, Disjoint, Rechecked
<1>4. Listed'
  <2> SUFFICES ASSUME NEW i \in Live' PROVE Kept(i)'
    BY DEF Listed
  <2>1. PICK t, e : t \in DOMAIN saved /\ i = where[t] /\ e = saved[t] /\ i \in Items
    <3>1. PICK t \in Targets : fileQueue'[t] = i /\ i # NoItem
      BY DEF Live
    <3>2. t \in DOMAIN saved /\ i = where[t] /\ i \in Items
      BY <1>1, <3>1
    <3> QED
      BY <3>2
  <2>2. (CHOOSE s \in DOMAIN saved : where[s] = i) = t
    BY <1>1, <2>1
  <2>3. item'[i] = [NewItem(e.tth) EXCEPT !.done = Loaded(e), !.paused = e.paused,
                        !.sources = e.sources, !.temp = e.temp]
    BY <1>1, <2>1, <2>2
  <2>4. item'[i].downloads = {} /\ item'[i].done = Loaded(e) /\ item'[i].sources = e.sources
    BY <2>3 DEF NewItem
  <2>5. ASSUME NEW u \in Users
        PROVE  <<i, u>> \in userQueue' <=> u \in e.sources /\ ~IsFinished(Loaded(e), Size)
    <3>1. ASSUME <<i, u>> \in userQueue' PROVE u \in e.sources /\ ~IsFinished(Loaded(e), Size)
      <4>1. PICK s \in DOMAIN saved : /\ ~IsFinished(Loaded(saved[s]), Size)
                                      /\ <<i, u>> \in {where[s]} \X saved[s].sources
        BY <1>1, <3>1
      <4>2. s = t
        BY <1>1, <2>1, <4>1
      <4> QED
        BY <2>1, <4>1, <4>2
    <3>2. ASSUME u \in e.sources, ~IsFinished(Loaded(e), Size) PROVE <<i, u>> \in userQueue'
      <4>1. <<i, u>> \in {where[t]} \X saved[t].sources /\ ~IsFinished(Loaded(saved[t]), Size)
        BY <2>1, <3>2
      <4> QED
        BY <1>1, <2>1, <4>1
    <3> QED
      BY <3>1, <3>2
  <2> QED
    BY <2>1, <2>4, <2>5 DEF Kept, Finished
<1> QED
  BY <1>3, <1>4 DEF Structure

-----------------------------------------------------------------------------
\* The steps of the Rechecker find nobody that runs its item.
LEMMA RecheckBeginKeeps ==
    ASSUME Inv, Orderly, NEW t \in Targets, RecheckBegin(t)
    PROVE  Structure'
<1>1. PICK i : i = fileQueue[t]
  OBVIOUS
<1>2. /\ i # NoItem /\ item[i].downloads = {} /\ ~Finished(i) /\ "recheck" \in Operations
      /\ item' = [item EXCEPT ![i].temp = TempName(i)]
      /\ rechecker' = [pc |-> "tree", target |-> t, tth |-> item[i].tth]
      /\ UNCHANGED <<fileQueue, userQueue, running, closing, download>>
  BY <1>1 DEF RecheckBegin, Orderly
<1>3. i \in Items /\ item[i] \in ItemRecords /\ DOMAIN item = Items
  BY <1>1, <1>2, LiveIs, ItemRecordIs DEF Inv
<1>4. \A j \in Items : /\ item'[j].downloads = item[j].downloads /\ item'[j].done = item[j].done
                       /\ item'[j].sources = item[j].sources
  BY <1>2, <1>3 DEF ItemRecords
<1>5. \A j \in Live : j \in Items
  BY RunnersAre
<1>6. Listed'
  BY <1>2, <1>4, <1>5 DEF Inv, Structure, Listed, Kept, Live, Finished
<1>7. Rechecked'
  BY <1>1, <1>2, <1>3, <1>4 DEF Rechecked, Finished
<1>8. Alike(download', DOMAIN download)
  BY <1>2 DEF Alike
<1> QED
  BY <1>2, <1>4, <1>5, <1>6, <1>7, <1>8, Steady DEF Structure

\* What is done of an item that nobody runs changes: it is not all.
LEMMA DoneChanges ==
    ASSUME Inv, NEW i \in Live, item[i].downloads = {}, ~Finished(i),
           NEW done, ~IsFinished(done, Size),
           item'[i].done = done, item'[i].downloads = {}, item'[i].sources = item[i].sources,
           \A j \in Items : j # i => item'[j] = item[j],
           UNCHANGED <<fileQueue, userQueue, running, closing, download>>, Rechecked'
    PROVE  Structure'
<1>1. Listed'
  <2>1. Live' = Live
    BY DEF Live
  <2>2. ASSUME NEW j \in Live PROVE Kept(j)'
    <3>1. j \in Items /\ Kept(j)
      BY RunnersAre DEF Inv, Structure, Listed
    <3>2. CASE j = i
      BY <3>1, <3>2 DEF Kept, Finished
    <3>3. CASE j # i
      BY <3>1, <3>3 DEF Kept, Finished
    <3> QED
      BY <3>2, <3>3
  <2> QED
    BY <2>1, <2>2 DEF Listed
<1>2. Alike(download', DOMAIN download)
  BY DEF Alike
<1>3. \A j \in Live : /\ item'[j].downloads = item[j].downloads
                      /\ item'[j].done = item[j].done \/ item[j].downloads = {}
  BY RunnersAre
<1> QED
  BY <1>1, <1>2, <1>3, Steady DEF Structure

LEMMA RecheckClearKeeps ==
    ASSUME Inv, RecheckClear
    PROVE  Structure'
<1>1. PICK t, i : t = rechecker.target /\ i = fileQueue[t] /\ t \in Targets
  BY DEF RecheckClear, Inv, QInv, Aimed
<1>2. UNCHANGED <<fileQueue, userQueue, running, closing, download>>
  BY DEF RecheckClear
<1>3. CASE i = NoItem
  <2>1. UNCHANGED item /\ rechecker'.pc = "idle"
    BY <1>1, <1>3 DEF RecheckClear
  <2>2. Rechecked'
    BY <2>1 DEF Rechecked
  <2>3. Alike(download', DOMAIN download)
    BY <1>2 DEF Alike
  <2>4. Listed'
    BY <1>2, <2>1 DEF Inv, Structure, Listed, Kept, Live, Finished
  <2> QED
    BY <1>2, <2>1, <2>2, <2>3, <2>4, Steady DEF Structure
<1>4. CASE i # NoItem
  <2>1. /\ item' = [item EXCEPT ![i].done = {}, ![i].temp = TempName(i)]
        /\ rechecker'.target = t
    BY <1>1, <1>4 DEF RecheckClear
  <2>2. i \in Live /\ i \in Items /\ item[i] \in ItemRecords /\ DOMAIN item = Items
    BY <1>1, <1>4, LiveIs, ItemRecordIs DEF Inv
  <2>3. item[i].downloads = {} /\ ~Finished(i) /\ "recheck" \in Operations
    BY <1>1, <1>4 DEF RecheckClear, Inv, Structure, Rechecked
  <2>4. /\ item'[i].done = {} /\ item'[i].downloads = {} /\ item'[i].sources = item[i].sources
        /\ \A j \in Items : j # i => item'[j] = item[j]
    BY <2>1, <2>2, <2>3 DEF ItemRecords
  <2>5. ~IsFinished({}, Size)
    BY DEF IsFinished
  <2>6. Rechecked'
    BY <1>1, <1>2, <2>1, <2>3, <2>4, <2>5 DEF Rechecked, Finished
  <2> QED
    BY <1>2, <2>2, <2>3, <2>4, <2>5, <2>6, DoneChanges
<1> QED
  BY <1>3, <1>4

LEMMA RecheckReadKeeps ==
    ASSUME Inv, RecheckRead
    PROVE  Structure'
<1>1. /\ UNCHANGED <<queueVars, closing, download>> /\ rechecker.pc = "read"
      /\ rechecker'.target = rechecker.target
  BY DEF RecheckRead
<1>2. Rechecked'
  BY <1>1 DEF Inv, Structure, Rechecked, Finished
<1>3. Listed'
  BY <1>1 DEF Inv, Structure, Listed, Kept, Live, Finished
<1>4. Alike(download', DOMAIN download)
  BY <1>1 DEF Alike
<1> QED
  BY <1>1, <1>2, <1>3, <1>4, Steady DEF Structure

LEMMA Multiples ==
    ASSUME NEW n \in Nat, NEW b \in Nat
    PROVE  \E m \in Nat : b * (n + 1) = m + b /\ (b > 0 => m >= n)
<1>1. b * (n + 1) = b * n + b
  OBVIOUS
<1>2. b * n \in Nat
  OBVIOUS
<1>3. b > 0 => b * n >= n
  <2> SUFFICES ASSUME b > 0 PROVE b * n >= n
    OBVIOUS
  <2>1. PICK c \in Nat : b = c + 1
    <3>1. b - 1 \in Nat /\ b = (b - 1) + 1
      OBVIOUS
    <3> QED
      BY <3>1
  <2>2. b * n = c * n + n /\ c * n \in Nat
    BY <2>1
  <2> QED
    BY <2>2
<1> QED
  BY <1>1, <1>2, <1>3

\* What the Rechecker marks are not all blocks, and mostly not blocks.
LEMMA MarkedIsPart ==
    ASSUME NEW good, good \subseteq Blocks, good # Blocks
    PROVE  ~IsFinished(Marked({}, good), Size)
<1>1. Size \in Nat /\ Size > 0
  BY DownloadQueueAssumption
<1>2. {} \subseteq Segs /\ IsFiniteSet({}) /\ Units({}) = {}
  BY FS_EmptySet DEF Units
<1>3. Units(Marked({}, good)) \subseteq {b * (Size + 1) : b \in good}
  BY <1>2, Marking
<1> SUFFICES ASSUME IsFinished(Marked({}, good), Size) PROVE FALSE
  OBVIOUS
<1>4. ASSUME NEW n \in Nat, n < Size PROVE \E b \in good : n = b * (Size + 1)
  BY <1>3, <1>4, WholeIs
<1>5. 0 \in good
  <2>1. PICK b \in good : 0 = b * (Size + 1)
    BY <1>1, <1>4
  <2>2. b \in Nat
    BY <1>1 DEF Blocks
  <2>3. PICK m \in Nat : b * (Size + 1) = m + b
    BY <1>1, <2>2, Multiples
  <2>4. b = 0
    BY <2>1, <2>2, <2>3
  <2> QED
    BY <2>4
<1>6. CASE Size = 1
  <2>1. Blocks = {0}
    BY <1>6 DEF Blocks
  <2> QED
    BY <1>5, <2>1
<1>7. CASE Size > 1
  <2>1. PICK b \in good : 1 = b * (Size + 1)
    BY <1>4, <1>7
  <2>2. b \in Nat
    BY <1>1 DEF Blocks
  <2>3. CASE b = 0
    BY <1>1, <2>1, <2>3
  <2>4. CASE b > 0
    <3>1. PICK m \in Nat : b * (Size + 1) = m + b /\ m >= Size
      BY <1>1, <2>2, <2>4, Multiples
    <3> QED
      BY <1>1, <2>1, <2>2, <2>4, <3>1
  <2> QED
    BY <2>2, <2>3, <2>4
<1> QED
  BY <1>1, <1>6, <1>7

LEMMA RecheckJudgeKeeps ==
    ASSUME Inv, Orderly, RecheckJudge
    PROVE  Structure'
<1>1. PICK t, i, good : /\ t = rechecker.target /\ i = fileQueue[t] /\ good = rechecker.good
                        /\ t \in Targets /\ good \subseteq Blocks
  BY DEF RecheckJudge, Inv, QInv, Aimed, Typed, RecheckerTyped
<1>2. rechecker'.pc = "idle" /\ UNCHANGED closing
  BY DEF RecheckJudge
<1>3. Rechecked'
  BY <1>2 DEF Rechecked
<1>4. CASE UNCHANGED <<queueVars, dirty, download, fileVars>>
  <2>1. Alike(download', DOMAIN download)
    BY <1>4 DEF Alike
  <2>2. Listed'
    BY <1>4 DEF Inv, Structure, Listed, Kept, Live, Finished
  <2> QED
    BY <1>2, <1>3, <1>4, <2>1, <2>2, Steady DEF Structure
<1>5. ASSUME i # NoItem
      PROVE  /\ i \in Live /\ i \in Items /\ item[i] \in ItemRecords /\ DOMAIN item = Items
             /\ item[i].downloads = {} /\ ~Finished(i) /\ item[i].done = {} /\ ~KeepFinished
             /\ \A u \in Users : running[u] # i
  <2>1. i \in Live /\ i \in Items /\ item[i] \in ItemRecords /\ DOMAIN item = Items
    BY <1>1, <1>5, LiveIs, ItemRecordIs DEF Inv
  <2>2. item[i].downloads = {} /\ ~Finished(i) /\ item[i].done = {} /\ "recheck" \in Operations
    BY <1>1, <1>5 DEF RecheckJudge, Inv, Structure, Rechecked
  <2>3. ~KeepFinished
    BY <2>2 DEF Orderly
  <2>4. \A u \in Users : running[u] # i
    BY <2>1, <2>2, RunnersAre
  <2> QED
    BY <2>1, <2>2, <2>3, <2>4
<1>6. ASSUME i # NoItem, MoveStuckFile(i)
      PROVE  Structure'
  <2>1. /\ FileQueueRemove(i) /\ UNCHANGED <<userQueue, running>>
        /\ download' = download \/ download' = Replaced(TempName(i), TargetOf(i))
    BY <1>5, <1>6 DEF MoveStuckFile
  <2>2. DOMAIN download \ {} = DOMAIN download
    OBVIOUS
  <2>3. Alike(download', DOMAIN download \ {})
    BY <2>1, <2>2, AlikeAre
  <2>4. closing' \subseteq DOMAIN download \ {} /\ closing \ {} \subseteq closing'
    BY <1>2 DEF Inv, Structure, Told
  <2>5. {} \in SUBSET DOMAIN download /\ \A u \in {} : running[u] \in {i, NoItem}
    OBVIOUS
  <2>6. \A u \in DOMAIN download \ {} : running[u] = i => u \in closing'
    BY <1>5, <1>6, DownloadIs DEF Inv, Typed
  <2>7. /\ \A u \in Users : running'[u] = IF running[u] = i THEN NoItem ELSE running[u]
        /\ \A j \in Live \ {i}, u \in Users : <<j, u>> \in userQueue' <=> <<j, u>> \in userQueue
    BY <1>5, <1>6, <2>1
  <2> QED
    BY <1>1, <1>2, <1>6, <2>1, <2>3, <2>4, <2>5, <2>6, <2>7, Leaving
<1>7. ASSUME i # NoItem, good # Blocks, MarkGood(i, good)
      PROVE  Structure'
  <2>1. PICK done : done = Marked({}, good)
    OBVIOUS
  <2>2. ~IsFinished(done, Size)
    BY <1>1, <1>7, <2>1, MarkedIsPart
  <2>3. item' = [item EXCEPT ![i].done = done] /\ UNCHANGED <<fileQueue, userQueue, running, download>>
    <3>1. item' = [item EXCEPT ![i].done = Marked(item[i].done, good)]
      BY <1>7 DEF MarkGood, Marked
    <3> QED
      BY <1>5, <1>7, <2>1, <3>1 DEF MarkGood
  <2>4. /\ item'[i].done = done /\ item'[i].downloads = {} /\ item'[i].sources = item[i].sources
        /\ \A j \in Items : j # i => item'[j] = item[j]
    BY <1>5, <1>7, <2>3 DEF ItemRecords
  <2> QED
    BY <1>2, <1>3, <1>5, <1>7, <2>2, <2>3, <2>4, DoneChanges
<1> QED
  BY <1>1, <1>4, <1>6, <1>7 DEF RecheckJudge

-----------------------------------------------------------------------------
LEMMA StructureStep == Inv /\ Orderly /\ [Next]_vars => Structure'
<1> SUFFICES ASSUME Inv, Orderly, [Next]_vars PROVE Structure'
  OBVIOUS
<1>1. CASE UNCHANGED vars
  <2>1. Alike(download', DOMAIN download)
    BY <1>1 DEF vars, Alike
  <2> QED
    BY <1>1, <2>1, Still DEF vars
<1>2. CASE UserInterface
  BY <1>2, AddKeeps, AddSourceKeeps, RemoveItemKeeps, RecheckBeginKeeps, RemoveSourceKeeps,
     SetPriorityKeeps, MoveKeeps, RemoveUserKeeps DEF UserInterface
<1>3. ASSUME NEW u \in Users, Connection(u) PROVE Structure'
  BY <1>3, GetDownloadKeeps, WritingKeeps, FinishKeeps, FailKeeps DEF Connection
<1>4. CASE Save \/ Restart \/ RecheckClear \/ RecheckRead \/ RecheckJudge
  BY <1>4, SaveKeeps, RestartKeeps, RecheckClearKeeps, RecheckReadKeeps, RecheckJudgeKeeps
<1> QED
  BY <1>1, <1>2, <1>3, <1>4 DEF Next

LEMMA StructureInit == Init => Structure
<1> SUFFICES ASSUME Init PROVE Structure
  OBVIOUS
<1>1. Live = {} /\ DOMAIN download = {} /\ closing = {} /\ rechecker.pc = "idle"
      /\ \A u \in Users : running[u] = NoItem
  BY DEF Init, Live
<1> QED
  BY <1>1 DEF Structure, Runs, Known, Told, DroppedIsDisconnected, Listed, Fetching, Disjoint, Rechecked

LEMMA InvHolds == ASSUME Orderly PROVE Spec => []Inv
<1>1. Init => Inv
  BY InitialState, TypedInit, StructureInit DEF Inv
<1>2. Inv /\ [Next]_vars => Inv'
  BY InductiveStep, TypedStep, StructureStep DEF Inv
<1> QED
  BY <1>1, <1>2, PTL DEF Spec

\* Of these steps: the files, items, users and downloads are what they are
\* declared as, and only a user that downloads is told to end (closing).
THEOREM TypeOKHolds == ASSUME Orderly PROVE Spec => []TypeOK
<1>1. Inv => TypeOK
  <2>1. Inv => \A t \in DOMAIN final : final[t] \in UNION {[written -> Roots] : written \in SUBSET Blocks}
    BY DEF Inv, Typed, FinalsTyped, PartTyped
  <2> QED
    BY <2>1 DEF Inv, QInv, Indexed, SavedOnce, Typed, ItemsTyped, DownloadsTyped, DownloadTyped, DiskTyped,
           RecheckerTyped, EntriesTyped, FinalsTyped, Structure, Told, TypeOK
<1> QED
  BY <1>1, InvHolds, PTL

\* UserQueue's `running` and QueueItem's downloads, which getDownload(),
\* putDownload(), remove() and removeSource() change side by side, tell the
\* same of every user and item.
THEOREM RunningMatchesHolds == ASSUME Orderly PROVE Spec => []RunningMatches
<1>1. Inv => RunningMatches
  <2> SUFFICES ASSUME Inv, NEW u \in Users, NEW i \in Items
               PROVE  running[u] = i <=> i \in Live /\ u \in item[i].downloads
    BY DEF RunningMatches
  <2>1. ASSUME running[u] = i PROVE i \in Live /\ u \in item[i].downloads
    <3>1. i # NoItem
      BY DownloadQueueAssumption
    <3> QED
      BY <2>1, <3>1, RunningIs
  <2>2. ASSUME i \in Live, u \in item[i].downloads PROVE running[u] = i
    BY <2>2, RunnersAre
  <2> QED
    BY <2>1, <2>2
<1> QED
  BY <1>1, InvHolds, PTL

\* A download that goes on when its item is gone, or its user no source of it
\* any more, has been told to end: remove() and removeSource() disconnect
\* every download they take from the item.
THEOREM DroppedIsDisconnectedHolds == ASSUME Orderly PROVE Spec => []DroppedIsDisconnected
<1>1. Inv => DroppedIsDisconnected
  BY DEF Inv, Structure, Told
<1> QED
  BY <1>1, InvHolds, PTL

\* UserQueue, the cache of the file queue by user, misses no source of an
\* unfinished item, whatever order items and sources come, go, finish, and
\* are loaded again in.
THEOREM NothingUnlistedHolds == ASSUME Orderly PROVE Spec => []NothingUnlisted
<1>1. Inv => NothingUnlisted
  <2> SUFFICES ASSUME Inv, NEW i \in Live, ~Finished(i), NEW u \in item[i].sources
               PROVE  <<i, u>> \in userQueue
    BY DEF NothingUnlisted
  <2>1. u \in Users
    BY RunnersAre, ItemIs DEF Inv, Typed
  <2> QED
    BY <2>1 DEF Inv, Structure, Listed, Kept
<1> QED
  BY <1>1, InvHolds, PTL

-----------------------------------------------------------------------------
(* UserQueue as a cache of FileQueue: only the Rechecker's verdict leaves a *)
(* pointer to a deleted item in it.                                        *)

Cached == \A p \in userQueue : p[1] \in Live

LEMMA CacheIs == Inv => (Cached <=> UserQueueIsCache)
<1> SUFFICES ASSUME Inv PROVE Cached <=> UserQueueIsCache
  OBVIOUS
<1>1. \A u \in Users : running[u] \in Live \cup {NoItem}
  BY RunningIs
<1> QED
  BY <1>1 DEF Cached, UserQueueIsCache

\* Steps that forget no item.
LEMMA NoneLeaves ==
    ASSUME Cached, Live \subseteq Live', \A p \in userQueue' : p \in userQueue \/ p[1] \in Live'
    PROVE  Cached'
BY DEF Cached

LEMMA SameLive == ASSUME UNCHANGED fileQueue PROVE Live' = Live
BY DEF Live

\* Steps that forget one, after it was taken out of the lists.
LEMMA OneLeaves ==
    ASSUME Inv, Cached, NEW i \in Live, FileQueueRemove(i), userQueue' \subseteq userQueue,
           \A u \in Users : <<i, u>> \notin userQueue'
    PROVE  Cached'
<1> SUFFICES ASSUME NEW p \in userQueue' PROVE p[1] \in Live'
  BY DEF Cached
<1>1. p[1] \in Live /\ p \in Items \X Users
  BY DEF Cached, Inv, Typed
<1>2. p[1] # i
  BY <1>1
<1>3. PICK t \in Targets : fileQueue[t] = p[1]
  BY <1>1 DEF Live
<1>4. p[1] # NoItem
  BY <1>1 DEF Live
<1>5. fileQueue' = [fileQueue EXCEPT ![TargetOf(i)] = NoItem] /\ DOMAIN fileQueue = Targets
  BY DEF FileQueueRemove, Inv, QInv, Indexed
<1>6. TargetOf(i) \in Targets /\ fileQueue[TargetOf(i)] = i
  BY NameIs DEF Inv, Typed
<1>7. fileQueue'[t] = p[1]
  BY <1>2, <1>3, <1>5, <1>6
<1> QED
  BY <1>4, <1>7 DEF Live

LEMMA AddCaches ==
    ASSUME Inv, Cached, NEW t \in Targets, NEW r, NEW u, Add(t, r, u) PROVE Cached'
<1>1. PICK i \in Items : /\ fileQueue' = [fileQueue EXCEPT ![t] = i]
                         /\ PutSource(i, NewItem(r), u)
  BY DEF Add
<1>2. fileQueue[t] = NoItem /\ DOMAIN fileQueue = Targets
  BY DEF Add, Inv, QInv, Indexed
<1>3. i # NoItem
  BY DownloadQueueAssumption
<1>4. i \in Live' /\ Live \subseteq Live'
  BY <1>1, <1>2, <1>3 DEF Live
<1>5. \A p \in userQueue' : p \in userQueue \/ p[1] = i
  BY <1>1 DEF PutSource
<1> QED
  BY <1>4, <1>5, NoneLeaves

LEMMA MoveCaches ==
    ASSUME Inv, Cached, NEW s \in Targets, NEW t \in Targets, Move(s, t) PROVE Cached'
<1>1. /\ fileQueue[s] # NoItem /\ fileQueue[t] = NoItem /\ UNCHANGED userQueue
      /\ fileQueue' = [fileQueue EXCEPT ![s] = NoItem, ![t] = fileQueue[s]]
      /\ DOMAIN fileQueue = Targets
  BY DEF Move, Inv, QInv, Indexed
<1>2. Live \subseteq Live'
  <2> SUFFICES ASSUME NEW x \in Targets, fileQueue[x] # NoItem PROVE fileQueue[x] \in Live'
    BY DEF Live
  <2>1. fileQueue'[IF x = s THEN t ELSE x] = fileQueue[x]
    BY <1>1
  <2> QED
    BY <2>1 DEF Live
<1> QED
  BY <1>1, <1>2, NoneLeaves

LEMMA RemoveItemCaches ==
    ASSUME Inv, Cached, NEW t \in Targets, RemoveItem(t) PROVE Cached'
<1>1. PICK i : i = fileQueue[t]
  OBVIOUS
<1>2. /\ i # NoItem /\ FileQueueRemove(i)
      /\ IF Finished(i) THEN UNCHANGED <<userQueue, running>> ELSE UserQueueRemove(i)
  BY <1>1 DEF RemoveItem
<1>3. i \in Live
  BY <1>1, <1>2, LiveIs DEF Inv
<1>4. CASE Finished(i)
  <2>1. \A u \in Users : <<i, u>> \notin userQueue
    BY <1>3, <1>4 DEF Inv, Structure, Listed, Kept
  <2> QED
    BY <1>2, <1>3, <1>4, <2>1, OneLeaves
<1>5. CASE ~Finished(i)
  <2>1. userQueue' \subseteq userQueue /\ \A u \in Users : <<i, u>> \notin userQueue'
    BY <1>2, <1>3, <1>5, NobodyRuns DEF UserQueueRemove
  <2> QED
    BY <1>2, <1>3, <2>1, OneLeaves
<1> QED
  BY <1>4, <1>5

LEMMA FinishCaches ==
    ASSUME Inv, Cached, NEW u \in Users, Finish(u) PROVE Cached'
<1>1. PICK i, done :
         /\ i = fileQueue[download[u].path]
         /\ \/ PutGone(u)
            \/ i # NoItem /\ Complete(u, i, done)
            \/ \E it : RemoveDownload(i, it, u)
  BY DEF Finish
<1>2. u \in DOMAIN download /\ download[u].path \in Targets
  BY DEF Finish, Inv, QInv, Placed
<1>3. CASE PutGone(u) \/ \E it : RemoveDownload(i, it, u)
  <2>1. UNCHANGED <<fileQueue, userQueue>>
    BY <1>3 DEF PutGone, RemoveDownload
  <2> QED
    BY <2>1, SameLive, NoneLeaves
<1>4. CASE i # NoItem /\ Complete(u, i, done)
  <2>1. i \in Live
    BY <1>1, <1>2, <1>4, LiveIs DEF Inv
  <2>2. UserQueueRemove(i) /\ (UNCHANGED fileQueue \/ FileQueueRemove(i))
    BY <1>4 DEF Complete
  <2>3. userQueue' \subseteq userQueue /\ \A v \in Users : <<i, v>> \notin userQueue'
    BY <2>1, <2>2, NobodyRuns DEF UserQueueRemove
  <2>4. CASE UNCHANGED fileQueue
    BY <2>3, <2>4, SameLive, NoneLeaves
  <2>5. CASE FileQueueRemove(i)
    BY <2>1, <2>3, <2>5, OneLeaves
  <2> QED
    BY <2>2, <2>4, <2>5
<1> QED
  BY <1>1, <1>3, <1>4

LEMMA RestartCaches == ASSUME Inv, Restart PROVE Cached'
<1>1. PICK where \in [DOMAIN saved -> Items] :
         /\ fileQueue' = [t \in Targets |-> IF t \in DOMAIN saved THEN where[t] ELSE NoItem]
         /\ userQueue' = UNION {{where[t]} \X saved[t].sources :
                                  t \in {t \in DOMAIN saved : ~IsFinished(Loaded(saved[t]), Size)}}
  BY DEF Restart
<1>2. DOMAIN saved \subseteq Targets
  BY DEF Inv, QInv, SavedOnce
<1>3. ASSUME NEW t \in DOMAIN saved PROVE where[t] \in Live'
  <2>1. where[t] \in Items /\ fileQueue'[t] = where[t] /\ t \in Targets
    BY <1>1, <1>2, <1>3
  <2>2. where[t] # NoItem
    BY <2>1, DownloadQueueAssumption
  <2> QED
    BY <2>1, <2>2 DEF Live
<1>4. ASSUME NEW p \in userQueue' PROVE p[1] \in Live'
  <2>1. PICK t \in DOMAIN saved : p \in {where[t]} \X saved[t].sources
    BY <1>1, <1>4
  <2>2. p[1] = where[t]
    BY <2>1
  <2> QED
    BY <1>3, <2>2
<1> QED
  BY <1>4 DEF Cached

\* What else there is takes pairs out or adds one of a queued item.
LEMMA OthersCache ==
    ASSUME Inv, Cached,
           \/ \E i \in Items, u \in Users : AddSource(i, u)
           \/ \E t \in Targets : RecheckBegin(t)
           \/ \E t \in Targets, u \in Users : RemoveSource(t, u)
           \/ \E t \in Targets, p \in BOOLEAN : SetPriority(t, p)
           \/ \E u \in Users : RemoveUser(u) \/ GetDownload(u) \/ SetFile(u) \/ Data(u) \/ Fail(u)
           \/ Save \/ RecheckClear \/ RecheckRead \/ UNCHANGED vars
    PROVE  Cached'
<1>1. ASSUME UNCHANGED fileQueue, userQueue' \subseteq userQueue PROVE Cached'
  BY <1>1, SameLive, NoneLeaves
<1>2. ASSUME UNCHANGED fileQueue, NEW i \in Live, \A p \in userQueue' : p \in userQueue \/ p[1] = i
      PROVE  Cached'
  BY <1>2, SameLive, NoneLeaves
<1>3. ASSUME NEW i \in Items, NEW u \in Users, AddSource(i, u) PROVE Cached'
  <2>1. UNCHANGED fileQueue /\ i \in Live /\ PutSource(i, item[i], u)
    BY <1>3 DEF AddSource
  <2>2. \A p \in userQueue' : p \in userQueue \/ p[1] = i
    BY <2>1 DEF PutSource
  <2> QED
    BY <1>2, <2>1, <2>2
<1>4. ASSUME NEW t \in Targets, NEW p \in BOOLEAN, SetPriority(t, p) PROVE Cached'
  <2>1. UNCHANGED fileQueue /\ fileQueue[t] # NoItem
        /\ userQueue' = userQueue \cup ({fileQueue[t]} \X item[fileQueue[t]].sources)
    BY <1>4 DEF SetPriority
  <2>2. fileQueue[t] \in Live
    BY <2>1, LiveIs DEF Inv
  <2>3. \A q \in userQueue' : q \in userQueue \/ q[1] = fileQueue[t]
    BY <2>1
  <2> QED
    BY <1>2, <2>1, <2>2, <2>3
<1>5. ASSUME \/ \E t \in Targets : RecheckBegin(t)
             \/ \E t \in Targets, u \in Users : RemoveSource(t, u)
             \/ \E u \in Users : RemoveUser(u) \/ GetDownload(u) \/ SetFile(u) \/ Data(u)
             \/ Save \/ RecheckClear \/ RecheckRead \/ UNCHANGED vars
      PROVE  Cached'
  <2>1. UNCHANGED fileQueue /\ userQueue' \subseteq userQueue
    BY <1>5 DEF RecheckBegin, RemoveSource, RemoveUser, GetDownload, SetFile, Data, Save,
                RecheckClear, RecheckRead, vars
  <2> QED
    BY <1>1, <2>1
<1>6. ASSUME NEW u \in Users, Fail(u) PROVE Cached'
  <2>1. UNCHANGED <<fileQueue, userQueue>>
    BY <1>6 DEF Fail, PutFailed, PutGone, RemoveDownload
  <2> QED
    BY <1>1, <2>1
<1> QED
  BY <1>3, <1>4, <1>5, <1>6

LEMMA CacheStep == Inv /\ Cached /\ [Next]_vars => Cached' \/ RecheckJudge
<1> SUFFICES ASSUME Inv, Cached, [Next]_vars, ~RecheckJudge PROVE Cached'
  OBVIOUS
<1>1. CASE \E t \in Targets, r \in Roots, u \in Users : Add(t, r, u)
  BY <1>1, AddCaches
<1>2. CASE \E s, t \in Targets : Move(s, t)
  BY <1>2, MoveCaches
<1>3. CASE \E t \in Targets : RemoveItem(t)
  BY <1>3, RemoveItemCaches
<1>4. CASE \E u \in Users : Finish(u)
  BY <1>4, FinishCaches
<1>5. CASE Restart
  BY <1>5, RestartCaches
<1> QED
  BY <1>1, <1>2, <1>3, <1>4, <1>5, OthersCache DEF Next, UserInterface, Connection

\* No step but the verdict of the Rechecker makes the lists of the users hold
\* what is not in the file queue: wherever else an item is deleted, remove()
\* or putDownload() has taken it from the lists of all of its users.
THEOREM OnlyRecheckDangles ==
    ASSUME Orderly PROVE Spec => [][UserQueueIsCache => UserQueueIsCache' \/ RecheckJudge]_vars
<1>1. Inv /\ Inv' /\ [Next]_vars => [UserQueueIsCache => UserQueueIsCache' \/ RecheckJudge]_vars
  <2>1. Inv' => (Cached' => UserQueueIsCache')
    BY CacheIs, PTL
  <2> QED
    BY <2>1, CacheIs, CacheStep
<1> QED
  BY <1>1, InvHolds, PTL DEF Spec

\* Without the Rechecker they hold what is queued, always.
THEOREM UserQueueIsCacheHolds ==
    ASSUME Orderly, "recheck" \notin Operations PROVE Spec => []UserQueueIsCache
<1> DEFINE Resting == Cached /\ rechecker.pc = "idle"
<1>1. Init => Resting
  BY DEF Init, Cached
<1>2. Inv /\ Resting /\ [Next]_vars => Resting'
  <2> SUFFICES ASSUME Inv, Resting, [Next]_vars PROVE Resting'
    OBVIOUS
  <2>1. ~RecheckJudge
    BY DEF RecheckJudge
  <2>2. Cached'
    BY <2>1, CacheStep
  <2>3. rechecker'.pc = "idle"
    <3>1. rechecker' = rechecker \/ rechecker'.pc = "idle"
      <4>1. CASE UserInterface
        BY <4>1 DEF UserInterface, Add, AddSource, RemoveItem, RecheckBegin, RemoveSource, SetPriority, Move, RemoveUser
      <4>2. ASSUME NEW u \in Users, Connection(u) PROVE rechecker' = rechecker
        <5>1. CASE GetDownload(u) \/ SetFile(u) \/ Data(u)
          BY <5>1 DEF GetDownload, SetFile, Data
        <5>2. CASE Finish(u)
          BY <5>2, Zenon DEF Finish, PutGone, Put
        <5>3. CASE Fail(u)
          BY <5>3, Zenon DEF Fail, PutFailed, PutGone, Put
        <5> QED
          BY <4>2, <5>1, <5>2, <5>3 DEF Connection
      <4>3. CASE Save \/ UNCHANGED vars
        BY <4>3 DEF Save, vars
      <4>4. CASE Restart
        <5>1. rechecker' = [pc |-> "idle"]
          BY <4>4, Zenon DEF Restart
        <5> QED
          BY <5>1
      <4>5. CASE RecheckClear \/ RecheckRead
        BY <4>5 DEF RecheckClear, RecheckRead
      <4> QED
        BY <2>1, <4>1, <4>2, <4>3, <4>4, <4>5 DEF Next
    <3> QED
      BY <3>1
  <2> QED
    BY <2>2, <2>3
<1>3. Inv /\ Resting => UserQueueIsCache
  BY CacheIs
<1> QED
  BY <1>1, <1>2, <1>3, InvHolds, PTL DEF Spec

-----------------------------------------------------------------------------
(* What is on disk, where in addition nothing is lost of the disk or of    *)
(* Queue.xml, a file keeps its name and no item is moved from or to a path *)
(* at which there is a file.                                               *)

Intact ==
    /\ "crash" \notin Operations /\ "diskFull" \notin Operations /\ "overwrite" \notin Operations
    /\ "move" \in Operations => \A s, t \in Targets : FileName[s] = FileName[t]

Queue == {t \in Targets : fileQueue[t] # NoItem}

\* What getTempName() makes of the item at a target.
NameAt(t) == <<FileName[t], item[fileQueue[t]].tth>>

\* What getTempTarget() makes of it while it is not finished.
HomeAt(t) == IF t \in DOMAIN final THEN NoName ELSE NameAt(t)

\* There is a file that an item writes to, and what is there of the item.
IsThere(t) == t \in DOMAIN final \/ NameAt(t) \in DOMAIN disk

There(t) ==
    IF t \in DOMAIN final
    THEN {b \in DOMAIN final[t] : final[t][b] = item[fileQueue[t]].tth}
    ELSE IF NameAt(t) \in DOMAIN disk THEN disk[NameAt(t)] ELSE {}

\* A name that is remembered is the one it would be computed to.
NamedAt(t) ==
    LET it == item[fileQueue[t]] IN
    /\ it.temp \in {NoName, NameAt(t)}
    /\ t \in DOMAIN final /\ ~IsFinished(it.done, Size) => it.temp = NoName

NamedSaved == \A t \in DOMAIN saved : saved[t].temp \in {NoName, <<FileName[t], saved[t].tth>>}

Named == NamedSaved /\ \A t \in Queue : NamedAt(t)

\* A user writes to the file of an item if it is running the item.
OwnFile ==
    \A u \in DOMAIN download, t \in Queue :
        /\ download[u].temp = NameAt(t) => running[u] = fileQueue[t]
        /\ running[u] = fileQueue[t] =>
               download[u].temp = HomeAt(t) /\ download[u].tth = item[fileQueue[t]].tth

Written(d) == d.seg[1]..(d.seg[1] + d.pos - 1)

\* What arrived is in the file, and what is running has not lost its file.
OpenedBy(u) ==
    LET d == download[u] IN
    /\ d.file = "open" => IF d.temp = NoName THEN d.path \in DOMAIN final ELSE d.temp \in DOMAIN disk
    /\ running[u] # NoItem => d.file # "lost"
    /\ \A t \in Queue :
           running[u] = fileQueue[t] /\ d.file = "open" => Written(d) \subseteq There(t)

Opened == \A u \in DOMAIN download : OpenedBy(u)

\* As DoneIsOnDisk; and what is running without a file has nothing that is done.
StoredAt(t) ==
    LET it == item[fileQueue[t]] IN
    ~IsFinished(it.done, Size) =>
        /\ IsThere(t) => Units(it.done) \cap Blocks \subseteq There(t)
        /\ it.downloads # {} /\ ~IsThere(t) => it.done = {}

Stored == \A t \in Queue : StoredAt(t)

\* What the Rechecker read is the file of the item it will judge, as it is now.
ReadAgain ==
    LET t == rechecker.target IN
    rechecker.pc # "idle" /\ t \in Queue =>
        /\ t \notin DOMAIN final
        /\ rechecker.pc = "read" => rechecker.file = NameAt(t)
        /\ rechecker.pc = "judge" =>
               rechecker.good = {} \/ (NameAt(t) \in DOMAIN disk /\ rechecker.good \subseteq disk[NameAt(t)])

Files == Named /\ OwnFile /\ Opened /\ Stored /\ ReadAgain

LEMMA QueueIs ==
    ASSUME Inv, NEW t \in Queue
    PROVE  /\ t \in Targets /\ fileQueue[t] # NoItem /\ fileQueue[t] \in Items /\ fileQueue[t] \in Live
           /\ TargetOf(fileQueue[t]) = t /\ NameAt(t) \in Names /\ NameAt(t) # NoName
           /\ item[fileQueue[t]] \in ItemRecords /\ DOMAIN item = Items
<1>1. t \in Targets /\ fileQueue[t] # NoItem
  BY DEF Queue
<1>2. fileQueue[t] \in Items /\ fileQueue[t] \in Live /\ TargetOf(fileQueue[t]) = t
  BY <1>1, LiveIs DEF Inv
<1>3. item[fileQueue[t]] \in ItemRecords /\ DOMAIN item = Items
  BY <1>2, ItemRecordIs
<1>4. NameAt(t) \in Names
  BY <1>1, <1>3 DEF NameAt, Names, ItemRecords
<1>5. NameAt(t) # NoName
  BY <1>4, DownloadQueueAssumption DEF Names
<1> QED
  BY <1>1, <1>2, <1>3, <1>4, <1>5

\* The name of a queued item's file is what it would be computed to, or none;
\* while the item is not finished it is none where a file is at the target.
LEMMA NameIsOwn ==
    ASSUME Inv, Named, NEW t \in Queue
    PROVE  /\ TempName(fileQueue[t]) \in {NoName, NameAt(t)}
           /\ ~Finished(fileQueue[t]) => TempName(fileQueue[t]) = HomeAt(t)
           /\ t \notin DOMAIN final => TempName(fileQueue[t]) = HomeAt(t)
           /\ TempName(fileQueue[t]) \in {item[fileQueue[t]].temp, HomeAt(t)}
<1>1. TargetOf(fileQueue[t]) = t /\ NamedAt(t)
  BY QueueIs DEF Named
<1> QED
  BY <1>1 DEF NamedAt, Finished, TempName, NameAt, HomeAt

LEMMA OwnNames ==
    ASSUME Inv, NEW s \in Queue, NEW t \in Queue, s # t
    PROVE  NameAt(s) # NameAt(t) /\ fileQueue[s] # fileQueue[t]
<1>1. item[fileQueue[s]].tth # item[fileQueue[t]].tth
  BY DEF Inv, QInv, OneItemPerFile, Queue
<1> QED
  BY <1>1 DEF NameAt

\* What the user of a download that is running runs, and where.
LEMMA RunAt ==
    ASSUME Inv, OwnFile, NEW u \in DOMAIN download, running[u] # NoItem
    PROVE  /\ u \in Users /\ download[u].path \in Queue /\ running[u] = fileQueue[download[u].path]
           /\ download[u].temp = HomeAt(download[u].path)
           /\ download[u].tth = item[fileQueue[download[u].path]].tth
           /\ u \in item[fileQueue[download[u].path]].downloads
<1>1. u \in Users
  BY DownloadIs DEF Inv, Typed
<1>2. download[u].path \in Queue /\ running[u] = fileQueue[download[u].path]
      /\ u \in item[fileQueue[download[u].path]].downloads
  BY <1>1, RunningIs DEF Queue
<1> QED
  BY <1>1, <1>2 DEF OwnFile

\* What a step leaves of the file of the item at a target.
FileKept(t) ==
    /\ t \in DOMAIN final' <=> t \in DOMAIN final
    /\ t \in DOMAIN final => final'[t] = final[t]
    /\ NameAt(t) \in DOMAIN disk' <=> NameAt(t) \in DOMAIN disk
    /\ NameAt(t) \in DOMAIN disk => disk'[NameAt(t)] = disk[NameAt(t)]
    /\ Finished(fileQueue[t]) => IsFinished(item'[fileQueue[t]].done, Size)

\* An item that is kept when it is finished: nobody downloads it any more.
Over(t) ==
    /\ IsFinished(item'[fileQueue[t]].done, Size)
    /\ \A u \in DOMAIN download' : running'[u] # fileQueue[t]

\* A download that goes on, perhaps without a file when it is not running.
GoesOn(u) ==
    /\ u \in DOMAIN download /\ download'[u].temp = download[u].temp
    /\ download'[u].path = download[u].path /\ download'[u].tth = download[u].tth
    /\ Written(download'[u]) = Written(download[u])
    /\ download'[u].file = "open" =>
           download[u].file = "open" /\ download[u].temp \in DOMAIN disk' \cup {NoName}
    /\ running'[u] # NoItem => running'[u] = running[u] /\ download'[u].file = download[u].file
    /\ \A t \in Queue' : running'[u] = fileQueue[t] <=> running[u] = fileQueue[t]

\* A step that begins no download and queues nothing.
LEMMA NamesKept ==
    ASSUME Inv, Files, UNCHANGED saved \/ NamedSaved', DOMAIN final \subseteq DOMAIN final',
           \A t \in Queue' : /\ t \in Queue /\ fileQueue'[t] = fileQueue[t]
                             /\ item'[fileQueue[t]].tth = item[fileQueue[t]].tth
                             /\ item'[fileQueue[t]].temp \in {item[fileQueue[t]].temp, HomeAt(t), NoName}
                             /\ FileKept(t) \/ Over(t),
           \A u \in DOMAIN download' : GoesOn(u)
    PROVE  /\ Named' /\ OwnFile' /\ Opened'
           /\ \A t \in Queue' : /\ NameAt(t)' = NameAt(t)
                                /\ FileKept(t) => /\ There(t)' = There(t) /\ IsThere(t)' = IsThere(t)
                                                  /\ HomeAt(t)' = HomeAt(t)
<1>1. ASSUME NEW t \in Queue'
      PROVE  /\ NameAt(t)' = NameAt(t) /\ t \in Queue
             /\ FileKept(t) => /\ There(t)' = There(t) /\ IsThere(t)' = IsThere(t)
                               /\ HomeAt(t)' = HomeAt(t)
  <2>1. NameAt(t)' = NameAt(t) /\ t \in Queue /\ fileQueue'[t] = fileQueue[t]
        /\ item'[fileQueue[t]].tth = item[fileQueue[t]].tth
    BY <1>1 DEF NameAt
  <2>2. ASSUME FileKept(t)
        PROVE  There(t)' = There(t) /\ IsThere(t)' = IsThere(t) /\ HomeAt(t)' = HomeAt(t)
    BY <2>1, <2>2 DEF FileKept, There, IsThere, HomeAt
  <2> QED
    BY <2>1, <2>2
<1>2. Named'
  <2> SUFFICES ASSUME NEW t \in Queue' PROVE NamedAt(t)'
    BY DEF Files, Named, NamedSaved
  <2>1. NamedAt(t) /\ NameAt(t)' = NameAt(t) /\ fileQueue'[t] = fileQueue[t]
        /\ item'[fileQueue[t]].temp \in {item[fileQueue[t]].temp, HomeAt(t), NoName}
    BY <1>1 DEF Files, Named
  <2>2. CASE FileKept(t)
    BY <2>1, <2>2 DEF NamedAt, FileKept, HomeAt, Finished
  <2>3. CASE Over(t)
    BY <2>1, <2>3 DEF NamedAt, Over, HomeAt
  <2> QED
    BY <2>2, <2>3
<1>3. OwnFile'
  <2> SUFFICES ASSUME NEW u \in DOMAIN download', NEW t \in Queue'
               PROVE  /\ download'[u].temp = NameAt(t)' => running'[u] = fileQueue'[t]
                      /\ running'[u] = fileQueue'[t] =>
                             /\ download'[u].temp = HomeAt(t)'
                             /\ download'[u].tth = item'[fileQueue'[t]].tth
    BY DEF OwnFile
  <2>1. /\ NameAt(t)' = NameAt(t) /\ fileQueue'[t] = fileQueue[t] /\ t \in Queue
        /\ item'[fileQueue[t]].tth = item[fileQueue[t]].tth
        /\ FileKept(t) => HomeAt(t)' = HomeAt(t)
    BY <1>1
  <2>2. /\ u \in DOMAIN download /\ download'[u].temp = download[u].temp
        /\ download'[u].tth = download[u].tth
        /\ running'[u] = fileQueue[t] <=> running[u] = fileQueue[t]
    BY DEF GoesOn
  <2>3. Over(t) => running'[u] # fileQueue[t]
    BY DEF Over
  <2> QED
    BY <2>1, <2>2, <2>3 DEF Files, OwnFile
<1>4. Opened'
  <2> SUFFICES ASSUME NEW u \in DOMAIN download' PROVE OpenedBy(u)'
    BY DEF Opened
  <2>1. GoesOn(u) /\ OpenedBy(u) /\ u \in DOMAIN download
    BY DEF GoesOn, Files, Opened
  <2>2. download'[u].file = "open" =>
            IF download'[u].temp = NoName THEN download'[u].path \in DOMAIN final'
            ELSE download'[u].temp \in DOMAIN disk'
    BY <2>1 DEF GoesOn, OpenedBy
  <2>3. running'[u] # NoItem => download'[u].file # "lost"
    BY <2>1 DEF GoesOn, OpenedBy
  <2>4. ASSUME NEW t \in Queue', running'[u] = fileQueue'[t], download'[u].file = "open"
        PROVE  Written(download'[u]) \subseteq There(t)'
    <3>1. t \in Queue /\ fileQueue'[t] = fileQueue[t] /\ FileKept(t)
      BY <2>4 DEF Over
    <3>2. There(t)' = There(t)
      BY <1>1, <2>4, <3>1
    <3>3. running[u] = fileQueue[t] /\ download[u].file = "open"
          /\ Written(download'[u]) = Written(download[u])
      BY <2>1, <2>4, <3>1 DEF GoesOn
    <3> QED
      BY <2>1, <3>1, <3>2, <3>3 DEF OpenedBy
  <2> QED
    BY <2>2, <2>3, <2>4 DEF OpenedBy
<1> QED
  BY <1>1, <1>2, <1>3, <1>4

\* What is stored of an item stays when only other files and items change.
LEMMA StoredKept ==
    ASSUME NEW t, StoredAt(t), fileQueue'[t] = fileQueue[t],
           There(t)' = There(t), IsThere(t)' = IsThere(t),
           LET it == item[fileQueue[t]]
               new == item'[fileQueue[t]]
           IN
           /\ new.downloads \subseteq it.downloads
           /\ \/ new.done = it.done
              \/ IsThere(t) /\ Units(new.done) \cap Blocks \subseteq There(t)
              \/ /\ it.downloads = {}
                 /\ IsThere(t) => Units(new.done) \cap Blocks \subseteq There(t)
    PROVE  StoredAt(t)'
BY DEF StoredAt

LEMMA JudgedKept ==
    ASSUME Files, UNCHANGED rechecker,
           rechecker.pc # "idle" /\ rechecker.target \in Queue' =>
               LET t == rechecker.target IN
               t \in Queue /\ NameAt(t)' = NameAt(t) /\ FileKept(t)
    PROVE  ReadAgain'
BY DEF Files, ReadAgain, FileKept

\* A step of which the files notice nothing but what is done.
LEMMA FilesStill ==
    ASSUME Inv, Files,
           UNCHANGED <<fileQueue, running, download, disk, final>>, UNCHANGED saved \/ NamedSaved',
           \A t \in Queue :
               LET i == fileQueue[t] IN
               /\ item'[i].tth = item[i].tth /\ item'[i].downloads = item[i].downloads
               /\ item'[i].temp \in {item[i].temp, HomeAt(t), NoName}
               /\ \/ item'[i].done = item[i].done
                  \/ /\ item[i].downloads = {} /\ ~Finished(i)
                     /\ IsThere(t) => Units(item'[i].done) \cap Blocks \subseteq There(t),
           UNCHANGED rechecker \/ ReadAgain'
    PROVE  Files'
<1>1. Queue' = Queue
  BY DEF Queue
<1>2. \A t \in Queue : FileKept(t)
  BY DEF FileKept, Finished
<1>3. \A u \in DOMAIN download : download[u].file = "open" => download[u].temp \in DOMAIN disk \cup {NoName}
  BY DEF Files, Opened, OpenedBy
<1>4. \A u \in DOMAIN download' : GoesOn(u)
  BY <1>3 DEF GoesOn
<1>5. /\ Named' /\ OwnFile' /\ Opened'
      /\ \A t \in Queue : NameAt(t)' = NameAt(t) /\ There(t)' = There(t) /\ IsThere(t)' = IsThere(t)
  BY <1>1, <1>2, <1>4, NamesKept
<1>6. Stored'
  <2> SUFFICES ASSUME NEW t \in Queue PROVE StoredAt(t)'
    BY <1>1 DEF Stored
  <2>1. StoredAt(t) /\ fileQueue'[t] = fileQueue[t]
    BY DEF Files, Stored
  <2> QED
    BY <1>5, <2>1, StoredKept
<1>7. ReadAgain'
  BY <1>1, <1>2, <1>5, JudgedKept
<1> QED
  BY <1>5, <1>6, <1>7 DEF Files

\* The fields that sources, and who is dropped of them, leave alone.
LEMMA SourcesOnly ==
    ASSUME NEW it \in ItemRecords, NEW u
    PROVE  /\ Sourced(it, u).tth = it.tth /\ Sourced(it, u).temp = it.temp
           /\ DropSource(it, u).tth = it.tth /\ DropSource(it, u).temp = it.temp
BY DEF Sourced, DropSource, ItemRecords

LEMMA AddSourceFiles ==
    ASSUME Inv, Files, NEW i \in Items, NEW u \in Users, AddSource(i, u)
    PROVE  Files'
<1>1. item' = [item EXCEPT ![i] = Sourced(item[i], u)]
      /\ UNCHANGED <<fileQueue, running, download, disk, final, saved, rechecker>>
  BY DEF AddSource, PutSource, fileVars
<1>2. \A t \in Queue : fileQueue[t] \in Items
  BY QueueIs
<1>3. item[i] \in ItemRecords /\ DOMAIN item = Items
  BY ItemRecordIs
<1>4. \A j \in Items : /\ item'[j].tth = item[j].tth /\ item'[j].downloads = item[j].downloads
                       /\ item'[j].temp = item[j].temp /\ item'[j].done = item[j].done
  <2>1. PICK new : new = Sourced(item[i], u)
    OBVIOUS
  <2>2. /\ new.tth = item[i].tth /\ new.downloads = item[i].downloads
        /\ new.temp = item[i].temp /\ new.done = item[i].done
    BY <1>3, <2>1, FieldKept, SourcesOnly
  <2>3. item' = [item EXCEPT ![i] = new]
    BY <1>1, <2>1
  <2> QED
    BY <1>3, <2>2, <2>3
<1>5. \A t \in Queue :
         LET j == fileQueue[t] IN
         /\ item'[j].tth = item[j].tth /\ item'[j].downloads = item[j].downloads
         /\ item'[j].temp \in {item[j].temp, HomeAt(t), NoName} /\ item'[j].done = item[j].done
  BY <1>2, <1>4
<1> QED
  BY <1>1, <1>5, FilesStill

LEMMA DroppingFiles ==
    ASSUME Inv, Files, NEW u \in Users, running[u] = NoItem,
           \A i \in Items : item'[i] \in {item[i], DropSource(item[i], u)},
           UNCHANGED <<fileQueue, running, download, disk, final, saved, rechecker>>
    PROVE  Files'
<1> SUFFICES ASSUME NEW t \in Queue, NEW i, i = fileQueue[t]
             PROVE  /\ item'[i].tth = item[i].tth /\ item'[i].downloads = item[i].downloads
                    /\ item'[i].temp = item[i].temp /\ item'[i].done = item[i].done
  BY FilesStill
<1>1. i \in Items /\ i \in Live /\ item[i] \in ItemRecords
  BY QueueIs
<1>2. u \notin item[i].downloads
  BY <1>1, RunnersAre
<1>3. item[i].downloads \ {u} = item[i].downloads
  BY <1>2
<1>4. /\ DropSource(item[i], u).tth = item[i].tth
      /\ DropSource(item[i], u).downloads = item[i].downloads \ {u}
      /\ DropSource(item[i], u).temp = item[i].temp /\ DropSource(item[i], u).done = item[i].done
  BY <1>1, FieldKept, SourcesOnly
<1>5. item'[i] = item[i] \/ item'[i] = DropSource(item[i], u)
  BY <1>1
<1> QED
  BY <1>3, <1>4, <1>5

LEMMA RemoveSourceFiles ==
    ASSUME Inv, Files, Orderly, NEW t \in Targets, NEW u \in Users, RemoveSource(t, u)
    PROVE  Files'
<1>1. running[u] = NoItem
  BY DroppedIdles DEF RemoveSource
<1>2. fileQueue[t] # NoItem /\ fileQueue[t] \in Items /\ DOMAIN item = Items
  BY LiveIs, ItemRecordIs DEF RemoveSource, Inv
<1>3. item' = [item EXCEPT ![fileQueue[t]] = DropSource(@, u)]
      /\ UNCHANGED <<fileQueue, running, download, disk, final, saved, rechecker>>
  BY <1>1, <1>2 DEF RemoveSource, fileVars
<1>4. \A i \in Items : item'[i] \in {item[i], DropSource(item[i], u)}
  BY <1>2, <1>3
<1> QED
  BY <1>1, <1>3, <1>4, DroppingFiles

LEMMA RemoveUserFiles ==
    ASSUME Inv, Files, Orderly, NEW u \in Users, RemoveUser(u)
    PROVE  Files'
<1>1. running[u] = NoItem
  BY DroppedIdles DEF RemoveUser
<1>2. PICK dropped : /\ item' = [i \in Items |-> IF i \in dropped THEN DropSource(item[i], u) ELSE item[i]]
                     /\ running' = IF running[u] \in dropped THEN [running EXCEPT ![u] = NoItem] ELSE running
                     /\ UNCHANGED <<fileQueue, download, disk, final, saved, rechecker>>
  BY DEF RemoveUser, fileVars
<1>3. UNCHANGED running
  BY <1>1, <1>2 DEF Inv, Typed
<1>4. \A i \in Items : item'[i] \in {item[i], DropSource(item[i], u)}
  BY <1>2
<1> QED
  BY <1>1, <1>2, <1>3, <1>4, DroppingFiles

LEMMA SetPriorityFiles ==
    ASSUME Inv, Files, NEW t \in Targets, NEW p \in BOOLEAN, SetPriority(t, p)
    PROVE  Files'
<1>1. item' = [item EXCEPT ![fileQueue[t]].paused = p]
      /\ UNCHANGED <<fileQueue, running, download, disk, final, saved, rechecker>>
  BY DEF SetPriority, fileVars
<1>2. \A s \in Queue : fileQueue[s] \in Items /\ item[fileQueue[s]] \in ItemRecords /\ DOMAIN item = Items
  BY QueueIs
<1>3. \A s \in Queue : LET i == fileQueue[s] IN
          /\ item'[i].tth = item[i].tth /\ item'[i].downloads = item[i].downloads
          /\ item'[i].temp = item[i].temp /\ item'[i].done = item[i].done
  BY <1>1, <1>2 DEF ItemRecords
<1> QED
  BY <1>1, <1>3, FilesStill

-----------------------------------------------------------------------------
\* The name of a temporary file is remembered.
LEMMA Renaming ==
    ASSUME Inv, Files, NEW its, NEW i \in Live, its = [item[i] EXCEPT !.temp = TempName(i)],
           ~Finished(i) \/ TargetOf(i) \notin DOMAIN final
    PROVE  /\ its.tth = item[i].tth /\ its.downloads = item[i].downloads /\ its.done = item[i].done
           /\ its.temp = HomeAt(TargetOf(i))
<1>1. i \in Items /\ TargetOf(i) \in Queue /\ fileQueue[TargetOf(i)] = i
  BY NameIs DEF Inv, Typed, Queue, Live
<1>2. item[i] \in ItemRecords
  BY <1>1, ItemRecordIs
<1>3. TempName(i) = HomeAt(TargetOf(i))
  BY <1>1, NameIsOwn DEF Files
<1> QED
  BY <1>2, <1>3 DEF ItemRecords

LEMMA RecheckBeginFiles ==
    ASSUME Inv, Files, Orderly, NEW t \in Targets, RecheckBegin(t)
    PROVE  Files'
<1>1. PICK i : i = fileQueue[t] /\ i # NoItem /\ i \in Live /\ i \in Items /\ t \in Queue /\ TargetOf(i) = t
  BY LiveIs DEF RecheckBegin, Inv, Queue
<1>2. /\ item' = [item EXCEPT ![i].temp = TempName(i)] /\ rechecker'.pc = "tree"
      /\ UNCHANGED <<fileQueue, running, download, disk, final, saved>>
  BY <1>1 DEF RecheckBegin, fileVars
<1>3. DOMAIN item = Items
  BY <1>1, QueueIs
<1>4. item'[i] = [item[i] EXCEPT !.temp = TempName(i)] /\ \A j \in Items : j # i => item'[j] = item[j]
  BY <1>1, <1>2, <1>3
<1>9. t \notin DOMAIN final /\ ~Finished(i)
  <2>1. ~Finished(i) /\ TempName(i) \in DOMAIN disk
    BY <1>1 DEF RecheckBegin, Orderly
  <2>2. NoName \notin DOMAIN disk
    BY DownloadQueueAssumption DEF Inv, Typed, DiskTyped, Names
  <2>3. TempName(i) = HomeAt(t)
    BY <1>1, <2>1, NameIsOwn DEF Files
  <2> QED
    BY <2>1, <2>2, <2>3 DEF HomeAt
<1>5. /\ item'[i].tth = item[i].tth /\ item'[i].downloads = item[i].downloads
      /\ item'[i].done = item[i].done /\ item'[i].temp = HomeAt(t)
  <2>1. PICK it : it = [item[i] EXCEPT !.temp = TempName(i)]
    OBVIOUS
  <2>2. it.tth = item[i].tth /\ it.downloads = item[i].downloads /\ it.done = item[i].done
        /\ it.temp = HomeAt(TargetOf(i))
    BY <1>1, <2>1, <1>9, Renaming
  <2> QED
    BY <1>1, <1>4, <2>1, <2>2
<1>6. \A s \in Queue : fileQueue[s] \in Items /\ (s # t => fileQueue[s] # i)
  BY <1>1, QueueIs, OwnNames
<1>7. ReadAgain'
  <2>1. rechecker'.target = t
    BY <1>2 DEF RecheckBegin
  <2> QED
    BY <1>2, <1>9, <2>1 DEF ReadAgain
<1>8. ASSUME NEW s \in Queue
      PROVE  LET j == fileQueue[s] IN
             /\ item'[j].tth = item[j].tth /\ item'[j].downloads = item[j].downloads
             /\ item'[j].done = item[j].done /\ item'[j].temp \in {item[j].temp, HomeAt(s), NoName}
  <2>1. CASE s = t
    BY <1>1, <1>5, <2>1
  <2>2. CASE s # t
    BY <1>4, <1>6, <2>2
  <2> QED
    BY <2>1, <2>2
<1> QED
  BY <1>2, <1>7, <1>8, FilesStill

LEMMA SaveFiles ==
    ASSUME Inv, Files, Save
    PROVE  Files'
<1>1. /\ UNCHANGED <<fileQueue, running, download, disk, final, rechecker>> /\ saved' = Image
      /\ item' = [i \in Items |-> IF i \in Live THEN [item[i] EXCEPT !.temp =
                                      IF item[i].done = {} THEN @ ELSE TempName(i)] ELSE item[i]]
  BY DEF Save, fileVars
<1>2. ASSUME NEW t \in Queue, NEW i, i = fileQueue[t]
      PROVE  /\ item'[i].tth = item[i].tth /\ item'[i].downloads = item[i].downloads
             /\ item'[i].done = item[i].done /\ item'[i].temp \in {item[i].temp, HomeAt(t), NoName}
  <2>1. PICK name : name = TempName(i) /\ name \in {item[i].temp, HomeAt(t)}
    BY <1>2, NameIsOwn DEF Files
  <2>2. i \in Items /\ i \in Live /\ item[i] \in ItemRecords
    BY <1>2, QueueIs
  <2>3. item'[i] = [item[i] EXCEPT !.temp = IF item[i].done = {} THEN item[i].temp ELSE name]
    BY <1>1, <2>1, <2>2 DEF ItemRecords
  <2> QED
    BY <2>1, <2>2, <2>3 DEF ItemRecords
<1>3. NamedSaved'
  <2> SUFFICES ASSUME NEW t \in DOMAIN saved'
               PROVE  saved'[t].temp \in {NoName, <<FileName[t], saved'[t].tth>>}
    BY DEF NamedSaved
  <2>1. t \in Queue /\ saved'[t] = Entry(fileQueue[t])
    BY <1>1 DEF Image, Queue
  <2>2. TempName(fileQueue[t]) \in {NoName, NameAt(t)}
    BY <2>1, NameIsOwn DEF Files
  <2> QED
    BY <2>1, <2>2 DEF Entry, NameAt
<1> QED
  BY <1>1, <1>2, <1>3, FilesStill

LEMMA RecheckClearFiles ==
    ASSUME Inv, Files, RecheckClear
    PROVE  Files'
<1>1. PICK t, i : t = rechecker.target /\ i = fileQueue[t] /\ t \in Targets
  BY DEF RecheckClear, Inv, QInv, Aimed
<1>2. UNCHANGED <<fileQueue, running, download, disk, final, saved>>
  BY DEF RecheckClear, fileVars
<1>3. CASE i = NoItem
  <2>1. UNCHANGED item /\ rechecker'.pc = "idle"
    BY <1>1, <1>3 DEF RecheckClear, fileVars
  <2>2. ReadAgain'
    BY <2>1 DEF ReadAgain
  <2> QED
    BY <1>2, <2>1, <2>2, FilesStill
<1>4. CASE i # NoItem
  <2>1. t \in Queue /\ i \in Items /\ i \in Live /\ TargetOf(i) = t /\ item[i] \in ItemRecords
        /\ DOMAIN item = Items /\ TempName(i) = NameAt(t)
        /\ t \notin DOMAIN final /\ HomeAt(t) = NameAt(t)
    <3>1. t \in Queue /\ t \notin DOMAIN final
      BY <1>1, <1>4 DEF Queue, Files, ReadAgain, RecheckClear
    <3> QED
      BY <1>1, <3>1, QueueIs, NameIsOwn DEF HomeAt, Files
  <2>2. item' = [item EXCEPT ![i].done = {}, ![i].temp = NameAt(t)]
        /\ rechecker' = [pc |-> "read", target |-> t, tth |-> rechecker.tth, file |-> NameAt(t)]
    BY <1>1, <1>4, <2>1 DEF RecheckClear, fileVars
  <2>3. /\ item'[i].tth = item[i].tth /\ item'[i].downloads = item[i].downloads
        /\ item'[i].done = {} /\ item'[i].temp = NameAt(t)
        /\ \A j \in Items : j # i => item'[j] = item[j]
    BY <2>1, <2>2 DEF ItemRecords
  <2>4. item[i].downloads = {} /\ ~Finished(i)
    BY <1>1, <1>4 DEF RecheckClear, Inv, Structure, Rechecked
  <2>5. \A s \in Queue : fileQueue[s] \in Items /\ (s # t => fileQueue[s] # i)
    BY <1>1, <2>1, QueueIs, OwnNames
  <2>6. ReadAgain'
    <3>1. rechecker'.pc = "read" /\ rechecker'.target = t /\ rechecker'.file = NameAt(t)
      BY <2>2
    <3>2. NameAt(t)' = NameAt(t)
      BY <1>1, <1>2, <2>3 DEF NameAt
    <3> QED
      BY <1>2, <2>1, <3>1, <3>2 DEF ReadAgain
  <2>7. Units({}) = {}
    BY DEF Units
  <2>8. ASSUME NEW s \in Queue
        PROVE  LET j == fileQueue[s] IN
               /\ item'[j].tth = item[j].tth /\ item'[j].downloads = item[j].downloads
               /\ item'[j].temp \in {item[j].temp, HomeAt(s), NoName}
               /\ \/ item'[j].done = item[j].done
                  \/ /\ item[j].downloads = {} /\ ~Finished(j)
                     /\ IsThere(s) => Units(item'[j].done) \cap Blocks \subseteq There(s)
    <3>1. CASE s = t
      BY <1>1, <2>1, <2>3, <2>4, <2>7, <3>1
    <3>2. CASE s # t
      BY <2>3, <2>5, <3>2
    <3> QED
      BY <3>1, <3>2
  <2> QED
    BY <1>2, <2>6, <2>8, FilesStill
<1> QED
  BY <1>3, <1>4

LEMMA RecheckReadFiles ==
    ASSUME Inv, Files, RecheckRead
    PROVE  Files'
<1>1. /\ UNCHANGED <<fileQueue, item, running, download, disk, final, saved>>
      /\ rechecker.pc = "read"
      /\ rechecker' = [pc |-> "judge", target |-> rechecker.target, tth |-> rechecker.tth,
                       good |-> IF rechecker.file \in DOMAIN disk /\ rechecker.file[2] = rechecker.tth
                                THEN disk[rechecker.file] ELSE {}]
  BY DEF RecheckRead, fileVars, queueVars
<1>2. PICK good : /\ good = IF rechecker.file \in DOMAIN disk /\ rechecker.file[2] = rechecker.tth
                            THEN disk[rechecker.file] ELSE {}
                  /\ rechecker' = [pc |-> "judge", target |-> rechecker.target, tth |-> rechecker.tth,
                                   good |-> good]
  BY <1>1
<1>3. Queue' = Queue /\ \A t \in Queue : NameAt(t)' = NameAt(t)
  BY <1>1 DEF Queue, NameAt
<1>4. ReadAgain'
  <2>1. rechecker'.pc = "judge" /\ rechecker'.target = rechecker.target /\ rechecker'.good = good
    BY <1>2
  <2>2. rechecker.target \in Queue => /\ rechecker.target \notin DOMAIN final
                                     /\ rechecker.file = NameAt(rechecker.target)
    BY <1>1 DEF Files, ReadAgain
  <2>3. rechecker.target \in Queue =>
            \/ good = {}
            \/ /\ NameAt(rechecker.target) \in DOMAIN disk
               /\ good \subseteq disk[NameAt(rechecker.target)]
    BY <1>2, <2>2
  <2> QED
    BY <1>1, <1>3, <2>1, <2>2, <2>3 DEF ReadAgain
<1> QED
  BY <1>1, <1>4, FilesStill


-----------------------------------------------------------------------------
\* A step that ends downloads, drops files, and may drop items.
LEMMA FilesFewer ==
    ASSUME Inv, Files, NEW name,
           \A t \in Queue' : /\ t \in Queue /\ fileQueue'[t] = fileQueue[t]
                             /\ item'[fileQueue[t]] = item[fileQueue[t]] /\ NameAt(t) # name
                             /\ t \in DOMAIN final' <=> t \in DOMAIN final
                             /\ t \in DOMAIN final => final'[t] = final[t],
           \A u \in DOMAIN download' : GoesOn(u),
           \A n \in DOMAIN disk' : n \in DOMAIN disk /\ disk'[n] = disk[n],
           \A n \in DOMAIN disk : n # name => n \in DOMAIN disk',
           DOMAIN final \subseteq DOMAIN final',
           UNCHANGED saved, UNCHANGED rechecker \/ rechecker'.pc = "idle"
    PROVE  Files'
<1>1. \A t \in Queue' : FileKept(t)
  BY DEF FileKept, Finished
<1>2. /\ Named' /\ OwnFile' /\ Opened'
      /\ \A t \in Queue' : NameAt(t)' = NameAt(t) /\ There(t)' = There(t) /\ IsThere(t)' = IsThere(t)
  BY <1>1, NamesKept
<1>3. Stored'
  <2> SUFFICES ASSUME NEW t \in Queue' PROVE StoredAt(t)'
    BY DEF Stored
  <2>1. StoredAt(t) /\ fileQueue'[t] = fileQueue[t] /\ item'[fileQueue[t]] = item[fileQueue[t]]
    BY DEF Files, Stored
  <2> QED
    BY <1>2, <2>1, StoredKept
<1>4. ReadAgain'
  <2>1. CASE rechecker'.pc = "idle"
    BY <2>1 DEF ReadAgain
  <2>2. CASE UNCHANGED rechecker
    BY <1>1, <1>2, <2>2, JudgedKept
  <2> QED
    BY <2>1, <2>2
<1> QED
  BY <1>2, <1>3, <1>4 DEF Files

\* The downloads that go on when a file is deleted or moved away.
LEMMA OrphanedAre ==
    ASSUME Inv, Files, NEW name, NEW u \in DOMAIN download, NEW d, d = Orphaned(name)[u]
    PROVE  /\ d.temp = download[u].temp /\ d.path = download[u].path /\ d.tth = download[u].tth
           /\ Written(d) = Written(download[u])
           /\ d.file = "open" =>
                  /\ download[u].file = "open"
                  /\ download[u].temp \in (DOMAIN disk \ {name}) \cup {NoName}
           /\ download[u].temp # name \/ name = NoName => d.file = download[u].file
<1>1. download[u] \in Downloads
  BY DownloadIs DEF Inv, Typed, DownloadTyped
<1>2. d = IF download[u].temp = name /\ name # NoName /\ download[u].file = "open"
          THEN [download[u] EXCEPT !.file = "lost"] ELSE download[u]
  BY DEF Orphaned
<1>3. d.temp = download[u].temp /\ d.path = download[u].path /\ d.tth = download[u].tth
      /\ d.seg = download[u].seg /\ d.pos = download[u].pos
  BY <1>1, <1>2 DEF Downloads
<1>4. d.file = "open" =>
          download[u].file = "open" /\ (download[u].temp # name \/ download[u].temp = NoName)
  BY <1>1, <1>2 DEF Downloads
<1>5. download[u].file = "open" => download[u].temp \in DOMAIN disk \cup {NoName}
  BY DEF Files, Opened, OpenedBy
<1> QED
  BY <1>2, <1>3, <1>4, <1>5 DEF Written

\* Nobody writes to a target at which there is no file.
LEMMA ReplacedAre ==
    ASSUME Inv, Files, NEW name, NEW t, t \notin DOMAIN final, NEW u \in DOMAIN download
    PROVE  Replaced(name, t)[u] = Orphaned(name)[u]
<1>1. ~(download[u].temp = NoName /\ download[u].path = t /\ download[u].file = "open")
  BY DEF Files, Opened, OpenedBy
<1> QED
  BY <1>1 DEF Replaced

LEMMA QueueRemoved ==
    ASSUME Inv, NEW t \in Queue, FileQueueRemove(fileQueue[t])
    PROVE  \A s \in Queue' : /\ s \in Queue /\ s # t /\ fileQueue'[s] = fileQueue[s]
                             /\ item'[fileQueue[s]] = item[fileQueue[s]] /\ NameAt(s) # NameAt(t)
<1> SUFFICES ASSUME NEW s \in Queue'
             PROVE  /\ s \in Queue /\ s # t /\ fileQueue'[s] = fileQueue[s]
                    /\ item'[fileQueue[s]] = item[fileQueue[s]] /\ NameAt(s) # NameAt(t)
  OBVIOUS
<1>1. /\ fileQueue' = [fileQueue EXCEPT ![t] = NoItem]
      /\ item' = [item EXCEPT ![fileQueue[t]] = Freed]
  BY QueueIs DEF FileQueueRemove
<1>2. s \in Targets /\ s # t /\ fileQueue'[s] = fileQueue[s] /\ s \in Queue
  BY <1>1 DEF Queue, Inv, QInv, Indexed
<1>3. NameAt(s) # NameAt(t) /\ fileQueue[s] # fileQueue[t]
  BY <1>2, OwnNames
<1>4. fileQueue[s] \in Items /\ DOMAIN item = Items
  BY <1>2, QueueIs
<1> QED
  BY <1>1, <1>2, <1>3, <1>4

\* Whom remove() takes the item from.
LEMMA RemovedRuns ==
    ASSUME Inv, NEW t \in Targets, RemoveItem(t), NEW i, i = fileQueue[t]
    PROVE  /\ \A u \in Users : running'[u] = IF running[u] = i THEN NoItem ELSE running[u]
           /\ \A j \in Live \ {i}, u \in Users : <<j, u>> \in userQueue' <=> <<j, u>> \in userQueue
<1>1. i # NoItem /\ i \in Live
  BY LiveIs DEF RemoveItem, Inv
<1>2. item[i].downloads = {u \in Users : running[u] = i}
  BY <1>1, RunnersAre
<1>3. CASE Finished(i)
  <2>1. item[i].downloads = {}
    BY <1>1, <1>3 DEF Inv, Structure, Listed, Kept
  <2>2. UNCHANGED <<userQueue, running>>
    BY <1>3 DEF RemoveItem
  <2> QED
    BY <1>2, <2>1, <2>2
<1>4. CASE ~Finished(i)
  <2>1. UserQueueRemove(i)
    BY <1>4 DEF RemoveItem
  <2> QED
    BY <1>1, <2>1, NobodyRuns
<1> QED
  BY <1>3, <1>4

LEMMA RemoveItemFiles ==
    ASSUME Inv, Files, NEW t \in Targets, RemoveItem(t)
    PROVE  Files'
<1>1. PICK i, name : i = fileQueue[t] /\ name = TempName(i)
  OBVIOUS
<1>2. t \in Queue /\ i \in Live /\ i # NoItem /\ name \in {NoName, NameAt(t)}
  BY <1>1, QueueIs, NameIsOwn DEF RemoveItem, Queue, Files
<1>3. /\ FileQueueRemove(i) /\ UNCHANGED <<final, saved, rechecker>>
      /\ \/ disk' = disk /\ download' = download
         \/ disk' = Without(disk, name) /\ download' = Orphaned(name)
  BY <1>1, <1>2 DEF RemoveItem
<1>4. \A u \in Users : running'[u] = IF running[u] = i THEN NoItem ELSE running[u]
  BY <1>1, RemovedRuns
<1>5. \A s \in Queue' : /\ s \in Queue /\ s # t /\ fileQueue'[s] = fileQueue[s] /\ fileQueue[s] # i
                        /\ item'[fileQueue[s]] = item[fileQueue[s]] /\ NameAt(s) # name
  <2> SUFFICES ASSUME NEW s \in Queue'
               PROVE  /\ s \in Queue /\ s # t /\ fileQueue'[s] = fileQueue[s] /\ fileQueue[s] # i
                      /\ item'[fileQueue[s]] = item[fileQueue[s]] /\ NameAt(s) # name
    OBVIOUS
  <2>1. /\ s \in Queue /\ s # t /\ fileQueue'[s] = fileQueue[s]
        /\ item'[fileQueue[s]] = item[fileQueue[s]] /\ NameAt(s) # NameAt(t)
    BY <1>1, <1>2, <1>3, QueueRemoved
  <2>2. NameAt(s) # NoName /\ fileQueue[s] # i
    BY <1>1, <1>2, <2>1, QueueIs, OwnNames
  <2> QED
    BY <1>2, <2>1, <2>2
<1>6. /\ \A n \in DOMAIN disk' : n \in DOMAIN disk /\ disk'[n] = disk[n]
      /\ \A n \in DOMAIN disk : n # name => n \in DOMAIN disk'
  BY <1>3 DEF Without
<1>7. \A u \in DOMAIN download : u \in Users /\ (running[u] # i => download[u].temp # name \/ name = NoName)
  BY <1>1, <1>2, DownloadIs DEF Inv, Typed, Files, OwnFile
<1>8. ASSUME NEW u \in DOMAIN download'
      PROVE  /\ u \in DOMAIN download /\ download'[u].temp = download[u].temp
             /\ download'[u].path = download[u].path /\ download'[u].tth = download[u].tth
             /\ Written(download'[u]) = Written(download[u])
             /\ download'[u].file = "open" =>
                    download[u].file = "open" /\ download[u].temp \in DOMAIN disk' \cup {NoName}
             /\ download[u].temp # name \/ name = NoName => download'[u].file = download[u].file
  <2>1. CASE disk' = disk /\ download' = download
    BY <2>1 DEF Files, Opened, OpenedBy
  <2>2. CASE disk' = Without(disk, name) /\ download' = Orphaned(name)
    <3>1. u \in DOMAIN download
      BY <2>2 DEF Orphaned
    <3>2. PICK d : d = download'[u] /\ d = Orphaned(name)[u]
      BY <2>2
    <3>3. DOMAIN disk' = DOMAIN disk \ {name}
      BY <2>2 DEF Without
    <3> QED
      BY <3>1, <3>2, <3>3, OrphanedAre
  <2> QED
    BY <1>3, <2>1, <2>2
<1>9. ASSUME NEW u \in DOMAIN download'
      PROVE  GoesOn(u)
  <2>1. u \in Users /\ u \in DOMAIN download
    BY <1>7, <1>8
  <2>2. \A s \in Queue' : fileQueue[s] # NoItem
    BY <1>5 DEF Queue
  <2>3. /\ running'[u] # NoItem => running'[u] = running[u] /\ download'[u].file = download[u].file
        /\ \A s \in Queue' : running'[u] = fileQueue[s] <=> running[u] = fileQueue[s]
    BY <1>2, <1>4, <1>5, <1>7, <1>8, <2>1, <2>2
  <2> QED
    BY <1>8, <2>3 DEF GoesOn
<1> QED
  BY <1>3, <1>5, <1>6, <1>9, FilesFewer

LEMMA PutGoneFiles ==
    ASSUME Inv, Files, NEW u \in Users, u \in DOMAIN download, PutGone(u)
    PROVE  Files'
<1>1. PICK name : name = download[u].temp
  OBVIOUS
<1>2. /\ fileQueue[download[u].path] = NoItem /\ UNCHANGED <<fileQueue, item, running, final, saved, rechecker>>
      /\ disk' = Without(disk, name) /\ download' = Without(Orphaned(name), u)
  BY <1>1 DEF PutGone, Put, queueVars
<1>3. running[u] = NoItem
  BY <1>2, RunningIs
<1>4. Queue' = Queue /\ \A s \in Queue : NameAt(s) # name
  <2>1. \A s \in Queue : fileQueue[s] # NoItem
    BY DEF Queue
  <2> QED
    BY <1>1, <1>2, <1>3, <2>1 DEF Files, OwnFile, Queue
<1>5. /\ DOMAIN disk' = DOMAIN disk \ {name}
      /\ \A n \in DOMAIN disk' : n \in DOMAIN disk /\ disk'[n] = disk[n]
      /\ \A n \in DOMAIN disk : n # name => n \in DOMAIN disk'
  BY <1>2 DEF Without
<1>6. DOMAIN download' = DOMAIN download \ {u}
      /\ \A v \in DOMAIN download \ {u} : download'[v] = Orphaned(name)[v]
  BY <1>2 DEF Without, Orphaned
<1>7. \A v \in DOMAIN download :
          running[v] # NoItem => download[v].temp # name \/ name = NoName
  <2> SUFFICES ASSUME NEW v \in DOMAIN download, running[v] # NoItem
               PROVE  download[v].temp # name \/ name = NoName
    OBVIOUS
  <2>1. PICK t : t = download[v].path /\ t \in Queue /\ download[v].temp = HomeAt(t)
    BY RunAt DEF Files
  <2> QED
    BY <1>4, <2>1 DEF HomeAt
<1>8. \A v \in DOMAIN download' :
          /\ v \in DOMAIN download /\ download'[v].temp = download[v].temp
          /\ download'[v].path = download[v].path /\ download'[v].tth = download[v].tth
          /\ Written(download'[v]) = Written(download[v])
          /\ download'[v].file = "open" =>
                 download[v].file = "open" /\ download[v].temp \in DOMAIN disk' \cup {NoName}
          /\ download[v].temp # name \/ name = NoName => download'[v].file = download[v].file
  BY <1>5, <1>6, OrphanedAre
<1>9. \A v \in DOMAIN download' : GoesOn(v)
  BY <1>2, <1>7, <1>8 DEF GoesOn
<1> QED
  BY <1>2, <1>4, <1>5, <1>9, FilesFewer

\* The file a download of a queued item writes to, and what is in it.
LEMMA OwnOpen ==
    ASSUME Inv, Files, NEW u \in DOMAIN download, NEW t, t = download[u].path, fileQueue[t] # NoItem
    PROVE  /\ t \in Queue /\ running[u] = fileQueue[t] /\ ~Finished(fileQueue[t])
           /\ download[u].temp = HomeAt(t) /\ download[u].tth = item[fileQueue[t]].tth
           /\ download[u].file # "none" =>
                  /\ download[u].file = "open" /\ IsThere(t)
                  /\ Written(download[u]) \subseteq There(t) /\ There(t) \subseteq Blocks
                  /\ Units(item[fileQueue[t]].done) \cap Blocks \subseteq There(t)
<1>1. t \in Queue /\ running[u] = fileQueue[t] /\ ~Finished(fileQueue[t])
  BY Ending DEF Queue
<1>2. download[u].temp = HomeAt(t) /\ download[u].tth = item[fileQueue[t]].tth
  BY <1>1 DEF Files, OwnFile
<1>3. ASSUME download[u].file # "none" PROVE download[u].file = "open"
  <2>1. download[u] \in Downloads
    BY DownloadIs DEF Inv, Typed, DownloadTyped
  <2>2. running[u] # NoItem
    BY <1>1
  <2>3. download[u].file # "lost"
    BY <2>2 DEF Files, Opened, OpenedBy
  <2> QED
    BY <1>3, <2>1, <2>3 DEF Downloads
<1>4. download[u].file = "open" => IsThere(t) /\ Written(download[u]) \subseteq There(t)
  BY <1>1, <1>2 DEF Files, Opened, OpenedBy, IsThere, HomeAt
<1>5. There(t) \subseteq Blocks
  <2>1. \A b : t \in DOMAIN final /\ b \in DOMAIN final[t] => b \in Blocks
    BY DEF Inv, Typed, FinalsTyped, PartTyped
  <2>2. NameAt(t) \in DOMAIN disk => disk[NameAt(t)] \subseteq Blocks
    BY DEF Inv, Typed, DiskTyped
  <2> QED
    BY <2>1, <2>2 DEF There
<1>6. IsThere(t) => Units(item[fileQueue[t]].done) \cap Blocks \subseteq There(t)
  BY <1>1 DEF Files, Stored, StoredAt, Finished
<1> QED
  BY <1>1, <1>2, <1>3, <1>4, <1>5, <1>6

\* What counts as done when a download ends has arrived.
LEMMA Arrived ==
    ASSUME Inv, Files, NEW u \in DOMAIN download, NEW t, t = download[u].path, fileQueue[t] # NoItem,
           download[u].file # "none", NEW part \in Segs, part[1] = download[u].seg[1],
           part[2] = download[u].seg[1] + download[u].pos
    PROVE  Units(AddSegment(item[fileQueue[t]].done, part)) \cap Blocks \subseteq There(t)
<1>1. fileQueue[t] \in Items /\ t \in Queue
  BY OwnOpen, QueueIs
<1>2. item[fileQueue[t]].done \subseteq Segs /\ IsFiniteSet(item[fileQueue[t]].done)
  BY <1>1, ItemIs DEF Inv, Typed
<1>3. Units(AddSegment(item[fileQueue[t]].done, part)) \subseteq Units(item[fileQueue[t]].done \cup {part})
  BY <1>2, Added
<1>4. Units(item[fileQueue[t]].done) \cap Blocks \subseteq There(t)
      /\ part[1]..(part[2] - 1) \subseteq There(t)
  <2>1. /\ Written(download[u]) \subseteq There(t)
        /\ Units(item[fileQueue[t]].done) \cap Blocks \subseteq There(t)
    BY OwnOpen
  <2>2. Written(download[u]) = part[1]..(part[2] - 1)
    <3>1. PICK a, n : a = download[u].seg[1] /\ n = download[u].pos /\ a \in Nat /\ n \in Nat
      BY DownloadIs DEF Inv, Typed
    <3>2. part[1] = a /\ part[2] = a + n /\ Written(download[u]) = a..(a + n - 1)
      BY <3>1 DEF Written
    <3> QED
      BY <3>1, <3>2
  <2> QED
    BY <2>1, <2>2
<1>5. Units(item[fileQueue[t]].done \cup {part}) =
          Units(item[fileQueue[t]].done) \cup part[1]..(part[2] - 1)
  BY DEF Units
<1> QED
  BY <1>3, <1>4, <1>5

\* The last missing segment has arrived: all of the item is there.
LEMMA AllArrived ==
    ASSUME Inv, Files, NEW u \in DOMAIN download, NEW t, t = download[u].path, fileQueue[t] # NoItem,
           download[u].file # "none", download[u].pos = Length(download[u].seg),
           IsFinished(AddSegment(item[fileQueue[t]].done, download[u].seg), Size)
    PROVE  There(t) = Blocks
<1>1. PICK s, d : d = download[u] /\ s = d.seg /\ s \in Segs /\ s[1] \in Nat /\ s[2] \in Nat /\ d.pos \in Nat
  BY DownloadIs DEF Inv, Typed
<1>2. s[2] = s[1] + d.pos
  BY <1>1 DEF Length
<1>3. Units(AddSegment(item[fileQueue[t]].done, s)) \cap Blocks \subseteq There(t)
  BY <1>1, <1>2, Arrived
<1>4. Blocks \subseteq Units(AddSegment(item[fileQueue[t]].done, s))
  <2>1. \A n \in Blocks : n \in Nat /\ n < Size
    BY DownloadQueueAssumption DEF Blocks
  <2> QED
    BY <1>1, <2>1, WholeIs
<1>5. There(t) \subseteq Blocks
  BY OwnOpen
<1> QED
  BY <1>3, <1>4, <1>5

\* What is moved to the target when all of it is there is whole.
LEMMA MovedWhole ==
    ASSUME Inv, NEW t \in Queue, There(t) = Blocks, t \notin DOMAIN final, NameAt(t) \in DOMAIN disk,
           MovesTo(NameAt(t), t)
    PROVE  /\ final'[t] = Whole(item[fileQueue[t]].tth) /\ DOMAIN final' = DOMAIN final \cup {t}
           /\ \A s \in DOMAIN final : final'[s] = final[s]
           /\ DOMAIN disk' = DOMAIN disk \ {NameAt(t)}
           /\ \A n \in DOMAIN disk' : n # NameAt(t) /\ n \in DOMAIN disk /\ disk'[n] = disk[n]
           /\ \A n \in DOMAIN disk : n # NameAt(t) => n \in DOMAIN disk'
<1>1. PICK name, r : name = NameAt(t) /\ r = item[fileQueue[t]].tth /\ name[2] = r
  BY DEF NameAt
<1>2. disk[name] = Blocks
  BY <1>1 DEF There
<1>3. final' = With(final, t, [b \in disk[name] |-> name[2]]) /\ disk' = Without(disk, name)
  BY <1>1 DEF MovesTo
<1>4. [b \in disk[name] |-> name[2]] = Whole(r)
  BY <1>1, <1>2 DEF Whole
<1>5. final' = With(final, t, Whole(r))
  BY <1>3, <1>4
<1>6. final'[t] = Whole(r) /\ DOMAIN final' = DOMAIN final \cup {t}
      /\ \A s \in DOMAIN final : final'[s] = final[s]
  BY <1>5 DEF With
<1>7. /\ DOMAIN disk' = DOMAIN disk \ {name}
      /\ \A n \in DOMAIN disk' : n # name /\ n \in DOMAIN disk /\ disk'[n] = disk[n]
      /\ \A n \in DOMAIN disk : n # name => n \in DOMAIN disk'
  BY <1>3 DEF Without
<1> QED
  BY <1>1, <1>6, <1>7

\* So is what was written into the file at the target.
LEMMA WrittenWhole ==
    ASSUME Inv, NEW t \in Queue, There(t) = Blocks, t \in DOMAIN final
    PROVE  final[t] = Whole(item[fileQueue[t]].tth)
<1>1. PICK written \in SUBSET Blocks : final[t] \in [written -> Roots]
  BY DEF Inv, Typed, FinalsTyped, PartTyped
<1>2. \A b \in Blocks : b \in DOMAIN final[t] /\ final[t][b] = item[fileQueue[t]].tth
  BY DEF There
<1>3. DOMAIN final[t] = Blocks
  BY <1>1, <1>2
<1>4. final[t] = [b \in Blocks |-> final[t][b]]
  BY <1>1, <1>3
<1>5. [b \in Blocks |-> final[t][b]] = [b \in Blocks |-> item[fileQueue[t]].tth]
  BY <1>2
<1> QED
  BY <1>4, <1>5 DEF Whole

\* The steps of Complete() that matter to the files.
LEMMA CompletedFiles ==
    ASSUME Inv, Files, NEW u \in DOMAIN download, NEW t, t = download[u].path,
           NEW i, i = fileQueue[t], i # NoItem, download[u].file # "none",
           download[u].pos = Length(download[u].seg),
           NEW done, done = AddSegment(item[i].done, download[u].seg), IsFinished(done, Size),
           Complete(u, i, done), Put(u)
    PROVE  /\ t \in Queue /\ UNCHANGED <<saved, rechecker>>
           /\ final'[t] = Whole(item[i].tth) /\ DOMAIN final \subseteq DOMAIN final'
           /\ \A s : s # t => /\ s \in DOMAIN final' <=> s \in DOMAIN final
                              /\ s \in DOMAIN final => final'[s] = final[s]
           /\ \A n \in DOMAIN disk' : n \in DOMAIN disk /\ disk'[n] = disk[n]
           /\ \A n \in DOMAIN disk : n # NameAt(t) => n \in DOMAIN disk'
           /\ \A v \in DOMAIN download' : running'[v] # i /\ GoesOn(v)
<1>1. PICK name : name = download[u].temp /\ name = HomeAt(t) /\ t \in Queue /\ IsThere(t)
  BY OwnOpen
<1>2. There(t) = Blocks
  BY AllArrived
<1>3. UserQueueRemove(i) /\ UNCHANGED <<saved, rechecker>>
  BY DEF Complete, Put
<1>4. NoName \notin DOMAIN disk
  BY DownloadQueueAssumption DEF Inv, Typed, DiskTyped, Names
<1>5. CASE t \notin DOMAIN final
  <2>1. name = NameAt(t) /\ name \in DOMAIN disk
    BY <1>1, <1>5 DEF HomeAt, IsThere
  <2>2. MovesTo(NameAt(t), t) /\ download' = Without(Replaced(name, t), u)
    BY <1>1, <2>1 DEF Complete
  <2>3. /\ final'[t] = Whole(item[i].tth) /\ DOMAIN final' = DOMAIN final \cup {t}
        /\ \A s \in DOMAIN final : final'[s] = final[s]
        /\ DOMAIN disk' = DOMAIN disk \ {NameAt(t)}
        /\ \A n \in DOMAIN disk' : n # NameAt(t) /\ n \in DOMAIN disk /\ disk'[n] = disk[n]
        /\ \A n \in DOMAIN disk : n # NameAt(t) => n \in DOMAIN disk'
    BY <1>1, <1>2, <1>5, <2>1, <2>2, MovedWhole
  <2>4. DOMAIN download' = DOMAIN download \ {u}
        /\ \A v \in DOMAIN download \ {u} : download'[v] = Orphaned(name)[v]
    <3>1. DOMAIN download' = DOMAIN download \ {u}
          /\ \A v \in DOMAIN download \ {u} : download'[v] = Replaced(name, t)[v]
      BY <2>2 DEF Without, Replaced
    <3> QED
      BY <1>5, <3>1, ReplacedAre
  <2>5. ASSUME NEW v \in DOMAIN download'
        PROVE  running'[v] # i /\ GoesOn(v)
    <3>1. v \in DOMAIN download /\ v # u /\ v \in Users
      BY <2>4, DownloadIs DEF Inv, Typed
    <3>2. i \in Live
      BY Ending
    <3>3. running[v] # i
      BY <3>1, LastOne
    <3>4. running'[v] = running[v]
      BY <1>3, <3>1, <3>2, <3>3, NobodyRuns
    <3>5. download[v].temp # NameAt(t)
      BY <1>1, <3>1, <3>3 DEF Files, OwnFile
    <3>6. PICK d : d = download'[v] /\ d = Orphaned(name)[v]
      BY <2>4
    <3>7. /\ d.temp = download[v].temp /\ d.path = download[v].path /\ d.tth = download[v].tth
          /\ Written(d) = Written(download[v])
          /\ d.file = "open" =>
                 /\ download[v].file = "open"
                 /\ download[v].temp \in DOMAIN disk' \cup {NoName}
          /\ d.file = download[v].file
      BY <2>1, <2>3, <3>1, <3>5, <3>6, OrphanedAre
    <3> QED
      BY <3>1, <3>3, <3>4, <3>6, <3>7 DEF GoesOn
  <2> QED
    BY <1>1, <1>3, <2>3, <2>5
<1>6. CASE t \in DOMAIN final
  <2>1. name = NoName
    BY <1>1, <1>6 DEF HomeAt
  <2>2. download' = Without(download, u) /\ UNCHANGED <<disk, final>>
    BY <1>1, <1>4, <2>1 DEF Complete, fileVars
  <2>3. final[t] = Whole(item[i].tth)
    BY <1>1, <1>2, <1>6, WrittenWhole
  <2>4. ASSUME NEW v \in DOMAIN download'
        PROVE  running'[v] # i /\ GoesOn(v)
    <3>1. v \in DOMAIN download /\ v # u /\ v \in Users /\ download'[v] = download[v]
      BY <2>2, DownloadIs DEF Without, Inv, Typed
    <3>2. i \in Live
      BY Ending
    <3>3. running[v] # i
      BY <3>1, LastOne
    <3>4. running'[v] = running[v]
      BY <1>3, <3>1, <3>2, <3>3, NobodyRuns
    <3>5. download[v].file = "open" => download[v].temp \in DOMAIN disk' \cup {NoName}
      BY <2>2, <3>1 DEF Files, Opened, OpenedBy
    <3> QED
      BY <3>1, <3>3, <3>4, <3>5 DEF GoesOn
  <2> QED
    BY <1>1, <1>3, <2>2, <2>3, <2>4
<1> QED
  BY <1>5, <1>6

LEMMA CompleteFiles ==
    ASSUME Inv, Files, NEW u \in DOMAIN download, NEW i, i = fileQueue[download[u].path],
           i # NoItem, download[u].file # "none", download[u].pos = Length(download[u].seg),
           NEW done, done = AddSegment(item[i].done, download[u].seg), IsFinished(done, Size),
           Complete(u, i, done), Put(u)
    PROVE  Files'
<1>1. PICK t : t = download[u].path /\ t \in Queue
  BY OwnOpen
<1>2. /\ UNCHANGED <<saved, rechecker>> /\ DOMAIN final \subseteq DOMAIN final'
      /\ \A s : s # t => /\ s \in DOMAIN final' <=> s \in DOMAIN final
                         /\ s \in DOMAIN final => final'[s] = final[s]
      /\ \A n \in DOMAIN disk' : n \in DOMAIN disk /\ disk'[n] = disk[n]
      /\ \A n \in DOMAIN disk : n # NameAt(t) => n \in DOMAIN disk'
      /\ \A v \in DOMAIN download' : running'[v] # i /\ GoesOn(v)
  BY <1>1, CompletedFiles
<1>3. CASE ~KeepFinished
  <2>1. FileQueueRemove(i)
    BY <1>3 DEF Complete
  <2>2. \A s \in Queue' : /\ s \in Queue /\ s # t /\ fileQueue'[s] = fileQueue[s]
                          /\ item'[fileQueue[s]] = item[fileQueue[s]] /\ NameAt(s) # NameAt(t)
    BY <1>1, <2>1, QueueRemoved
  <2> QED
    BY <1>2, <2>2, FilesFewer
<1>4. CASE KeepFinished
  <2> DEFINE own == {v \in item[i].downloads : ~(running[v] = i /\ v \in item[i].sources)}
  <2>1. i \in Live /\ i \in Items /\ item[i] \in ItemRecords /\ DOMAIN item = Items
        /\ (rechecker.pc # "idle" => fileQueue[rechecker.target] # i)
    BY Ending, ItemRecordIs
  <2>2. own = {}
    BY <2>1, RunnersAre
  <2>3. item' = [item EXCEPT ![i] = [item[i] EXCEPT !.done = done, !.downloads = own]]
        /\ UNCHANGED fileQueue
    BY <1>4 DEF Complete
  <2> HIDE DEF own
  <2>4. /\ item'[i].downloads = {} /\ item'[i].tth = item[i].tth /\ item'[i].temp = item[i].temp
        /\ item'[i].done = done /\ \A j \in Items : j # i => item'[j] = item[j]
    BY <2>1, <2>2, <2>3 DEF ItemRecords
  <2>5. Queue' = Queue
    BY <2>3 DEF Queue
  <2>6. ASSUME NEW s \in Queue, s # t
        PROVE  item'[fileQueue[s]] = item[fileQueue[s]] /\ FileKept(s)
    <3>1. fileQueue[s] \in Items /\ fileQueue[s] # i /\ NameAt(s) # NameAt(t)
      BY <1>1, <2>6, QueueIs, OwnNames
    <3>2. item'[fileQueue[s]] = item[fileQueue[s]]
      BY <2>4, <3>1
    <3> QED
      BY <1>2, <2>6, <3>1, <3>2 DEF FileKept, Finished
  <2>7. fileQueue[t] = i /\ Over(t)
    BY <1>1, <1>2, <2>4 DEF Over
  <2>8. /\ Named' /\ OwnFile' /\ Opened'
        /\ \A s \in Queue : /\ NameAt(s)' = NameAt(s)
                            /\ FileKept(s) => There(s)' = There(s) /\ IsThere(s)' = IsThere(s)
    <3>1. \A s \in Queue : /\ item'[fileQueue[s]].tth = item[fileQueue[s]].tth
                           /\ item'[fileQueue[s]].temp = item[fileQueue[s]].temp
                           /\ FileKept(s) \/ Over(s)
      BY <2>4, <2>6, <2>7
    <3> QED
      BY <1>2, <2>3, <2>5, <3>1, NamesKept
  <2>9. Stored'
    <3> SUFFICES ASSUME NEW s \in Queue PROVE StoredAt(s)'
      BY <2>5 DEF Stored
    <3>1. fileQueue'[s] = fileQueue[s] /\ StoredAt(s)
      BY <2>3 DEF Files, Stored
    <3>2. CASE s = t
      BY <2>4, <2>7, <3>1, <3>2 DEF StoredAt
    <3>3. CASE s # t
      BY <2>6, <2>8, <3>1, <3>3, StoredKept
    <3> QED
      BY <3>2, <3>3
  <2>10. ReadAgain'
    BY <1>2, <2>1, <2>5, <2>6, <2>7, <2>8, JudgedKept
  <2> QED
    BY <2>8, <2>9, <2>10 DEF Files
<1> QED
  BY <1>3, <1>4

LEMMA RemoveDownloadFiles ==
    ASSUME Inv, Files, NEW u \in DOMAIN download, NEW t, t = download[u].path,
           NEW i, i = fileQueue[t], i # NoItem,
           NEW it \in ItemRecords, it.tth = item[i].tth, it.temp \in {item[i].temp, NoName},
           it.downloads = item[i].downloads,
           \/ it.done = item[i].done
           \/ IsThere(t) /\ Units(it.done) \cap Blocks \subseteq There(t),
           RemoveDownload(i, it, u), download' = Without(download, u), UNCHANGED fileVars, Put(u)
    PROVE  Files'
<1>1. t \in Queue /\ i \in Items /\ u \in Users /\ ~Finished(i)
  BY Ending, OwnOpen
<1>2. /\ item' = [item EXCEPT ![i] = [it EXCEPT !.downloads = @ \ {u}]]
      /\ running' = [running EXCEPT ![u] = NoItem]
      /\ UNCHANGED <<fileQueue, disk, final, saved, rechecker>>
  BY DEF RemoveDownload, Put, fileVars
<1>3. DOMAIN item = Items /\ running \in [Users -> Items \cup {NoItem}]
  BY DEF Inv, Typed, ItemsTyped
<1>4. /\ item'[i].tth = item[i].tth /\ item'[i].temp = it.temp /\ item'[i].done = it.done
      /\ item'[i].downloads \subseteq item[i].downloads
      /\ \A j \in Items : j # i => item'[j] = item[j]
  BY <1>1, <1>2, <1>3 DEF ItemRecords
<1>5. Queue' = Queue
  BY <1>2 DEF Queue
<1>6. \A s \in Queue : fileQueue[s] \in Items /\ (s # t => fileQueue[s] # i)
  BY <1>1, QueueIs, OwnNames
<1>7. \A v \in DOMAIN download' :
          /\ v \in DOMAIN download /\ v \in Users /\ v # u
          /\ running'[v] = running[v] /\ download'[v] = download[v]
  BY <1>2, <1>3, DownloadIs DEF Without, Inv, Typed
<1>8. ASSUME NEW s \in Queue
      PROVE  /\ item'[fileQueue[s]].tth = item[fileQueue[s]].tth
             /\ item'[fileQueue[s]].temp \in {item[fileQueue[s]].temp, HomeAt(s), NoName}
             /\ FileKept(s)
  <2>1. /\ item'[fileQueue[s]].tth = item[fileQueue[s]].tth
        /\ item'[fileQueue[s]].temp \in {item[fileQueue[s]].temp, NoName}
        /\ Finished(fileQueue[s]) => item'[fileQueue[s]].done = item[fileQueue[s]].done
    BY <1>1, <1>4, <1>6
  <2> QED
    BY <1>2, <2>1 DEF FileKept, Finished
<1>9. \A v \in DOMAIN download' : GoesOn(v)
  <2>1. \A v \in DOMAIN download : download[v].file = "open" => download[v].temp \in DOMAIN disk \cup {NoName}
    BY DEF Files, Opened, OpenedBy
  <2> QED
    BY <1>2, <1>7, <2>1 DEF GoesOn
<1>10. /\ Named' /\ OwnFile' /\ Opened'
       /\ \A s \in Queue : NameAt(s)' = NameAt(s) /\ There(s)' = There(s) /\ IsThere(s)' = IsThere(s)
  BY <1>2, <1>5, <1>8, <1>9, NamesKept
<1>11. Stored'
  <2> SUFFICES ASSUME NEW s \in Queue PROVE StoredAt(s)'
    BY <1>5 DEF Stored
  <2>1. fileQueue'[s] = fileQueue[s] /\ StoredAt(s) /\ There(s)' = There(s) /\ IsThere(s)' = IsThere(s)
    BY <1>2, <1>10 DEF Files, Stored
  <2>2. CASE s = t
    BY <1>4, <2>1, <2>2, StoredKept
  <2>3. CASE s # t
    <3>1. item'[fileQueue[s]] = item[fileQueue[s]]
      BY <1>4, <1>6, <2>3
    <3> QED
      BY <2>1, <3>1, StoredKept
  <2> QED
    BY <2>2, <2>3
<1>12. ReadAgain'
  BY <1>2, <1>5, <1>8, <1>10, JudgedKept
<1> QED
  BY <1>10, <1>11, <1>12 DEF Files

LEMMA FinishFiles ==
    ASSUME Inv, Files, NEW u \in Users, Finish(u)
    PROVE  Files'
<1>1. u \in DOMAIN download
  BY DEF Finish
<1>2. CASE PutGone(u)
  BY <1>1, <1>2, PutGoneFiles
<1>3. CASE ~PutGone(u)
  <2>1. PICK t, i, done :
           /\ t = download[u].path /\ i = fileQueue[t] /\ i # NoItem
           /\ download[u].file # "none" /\ download[u].pos = Length(download[u].seg)
           /\ done = AddSegment(item[i].done, download[u].seg)
           /\ \/ IsFinished(done, Size) /\ Complete(u, i, done)
              \/ /\ RemoveDownload(i, [item[i] EXCEPT !.done = done], u)
                 /\ download' = Without(download, u) /\ UNCHANGED fileVars
           /\ Put(u)
    BY <1>3 DEF Finish
  <2>2. CASE IsFinished(done, Size) /\ Complete(u, i, done)
    BY <1>1, <2>1, <2>2, CompleteFiles
  <2>3. ASSUME RemoveDownload(i, [item[i] EXCEPT !.done = done], u),
               download' = Without(download, u), UNCHANGED fileVars
        PROVE  Files'
    <3>1. i \in Items /\ download[u].seg \in Segs
      BY <1>1, <2>1, Ending
    <3>2. item[i].done \subseteq Segs /\ IsFiniteSet(item[i].done) /\ item[i] \in ItemRecords
      BY <3>1, ItemIs DEF Inv, Typed
    <3>3. done \subseteq Segs
      BY <2>1, <3>1, <3>2, Added
    <3>4. PICK it : it = [item[i] EXCEPT !.done = done]
      OBVIOUS
    <3>5. /\ it \in ItemRecords /\ it.tth = item[i].tth /\ it.temp = item[i].temp
          /\ it.downloads = item[i].downloads /\ it.done = done
      BY <3>2, <3>3, <3>4 DEF ItemRecords
    <3>6. IsThere(t)
      BY <1>1, <2>1, OwnOpen
    <3>7. Units(done) \cap Blocks \subseteq There(t)
      <4>1. PICK s, a, b, n : /\ s = download[u].seg /\ n = download[u].pos /\ a = s[1] /\ b = s[2]
                              /\ a \in Nat /\ b \in Nat /\ n \in Nat
        BY <1>1, DownloadIs DEF Inv, Typed
      <4>2. b = a + n
        BY <2>1, <4>1 DEF Length
      <4> QED
        BY <1>1, <2>1, <3>1, <4>1, <4>2, Arrived
    <3> QED
      BY <1>1, <2>1, <2>3, <3>4, <3>5, <3>6, <3>7, RemoveDownloadFiles
  <2> QED
    BY <2>1, <2>2, <2>3
<1> QED
  BY <1>2, <1>3

\* Without "diskFull" what a failed download got is what it has written.
LEMMA FailFiles ==
    ASSUME Inv, Files, Intact, NEW u \in Users, Fail(u)
    PROVE  Files'
<1>1. u \in DOMAIN download
  BY DEF Fail
<1>2. CASE PutGone(u)
  BY <1>1, <1>2, PutGoneFiles
<1>3. CASE ~PutGone(u)
  <2>1. Lost(download[u]) = {}
    BY DEF Lost, Intact
  <2>2. PICK t, i, got, name, done, part :
           /\ t = download[u].path /\ i = fileQueue[t] /\ i # NoItem /\ got = download[u].pos
           /\ name = IF item[i].done = {} THEN NoName ELSE item[i].temp
           /\ part = <<download[u].seg[1], download[u].seg[1] + got>>
           /\ done = IF got > 0 THEN AddSegment(item[i].done, part) ELSE item[i].done
           /\ RemoveDownload(i, [item[i] EXCEPT !.temp = name, !.done = done], u)
           /\ download' = Without(download, u) /\ UNCHANGED fileVars
           /\ Put(u)
    BY <1>3, <2>1 DEF Fail, PutFailed
  <2>3. i \in Items
    BY <1>1, <2>2, Ending
  <2>4. item[i].done \subseteq Segs /\ IsFiniteSet(item[i].done) /\ item[i] \in ItemRecords
        /\ item[i].temp \in Names \cup {NoName}
    BY <2>3, ItemIs DEF Inv, Typed
  <2>5. PICK a : a = download[u].seg[1] /\ a \in Nat /\ got \in Nat
                 /\ (download[u].file = "none" => got = 0)
    BY <1>1, <2>2, DownloadIs DEF Inv, Typed
  <2>6. part = <<a, a + got>> /\ part \in Segs /\ part[1] = a /\ part[2] = a + got
    BY <2>2, <2>5 DEF Segs
  <2>7. done \subseteq Segs
    BY <2>2, <2>4, <2>6, Added
  <2>8. PICK it : it = [item[i] EXCEPT !.temp = name, !.done = done]
    OBVIOUS
  <2>9. /\ it \in ItemRecords /\ it.tth = item[i].tth /\ it.temp \in {item[i].temp, NoName}
        /\ it.downloads = item[i].downloads /\ it.done = done
    BY <2>2, <2>4, <2>7, <2>8 DEF ItemRecords
  <2>10. \/ it.done = item[i].done
         \/ IsThere(t) /\ Units(it.done) \cap Blocks \subseteq There(t)
    <3>1. CASE got > 0
      <4>1. download[u].file # "none"
        BY <2>5, <3>1
      <4>2. IsThere(t)
        BY <1>1, <2>2, <4>1, OwnOpen
      <4>3. Units(AddSegment(item[i].done, part)) \cap Blocks \subseteq There(t)
        BY <1>1, <2>2, <2>5, <2>6, <4>1, Arrived
      <4> QED
        BY <2>2, <2>9, <3>1, <4>2, <4>3
    <3>2. CASE ~(got > 0)
      BY <2>2, <2>9, <3>2
    <3> QED
      BY <3>1, <3>2
  <2> QED
    BY <1>1, <2>2, <2>8, <2>9, <2>10, RemoveDownloadFiles
<1> QED
  BY <1>2, <1>3

\* The file is opened, and created when it is the first block that opens it.
LEMMA SetFileFiles ==
    ASSUME Inv, Files, NEW u \in Users, SetFile(u)
    PROVE  Files'
<1>1. PICK t, name : /\ t = download[u].path /\ name = download[u].temp
                     /\ u \in DOMAIN download /\ download[u].file = "none" /\ fileQueue[t] # NoItem
                     /\ disk' = IF name \in DOMAIN disk \cup {NoName} THEN disk ELSE With(disk, name, {})
                     /\ download' = [download EXCEPT ![u].file = "open"]
  BY DEF SetFile, fileVars
<1>2. UNCHANGED <<fileQueue, item, running, final, saved, rechecker>>
  BY DEF SetFile, queueVars, fileVars
<1>3. /\ t \in Queue /\ running[u] = fileQueue[t] /\ name = HomeAt(t)
      /\ u \in item[fileQueue[t]].downloads
      /\ rechecker.pc # "idle" => fileQueue[rechecker.target] # fileQueue[t]
  BY <1>1, OwnOpen, Ending
<1>4. PICK a : a = download[u].seg[1] /\ a \in Nat /\ download[u].pos = 0 /\ download[u] \in Downloads
  BY <1>1, DownloadIs DEF Inv, Typed, DownloadTyped
<1>5. /\ \A n \in DOMAIN disk : n \in DOMAIN disk' /\ disk'[n] = disk[n]
      /\ \A n \in DOMAIN disk' : n \in DOMAIN disk \/ (n = name /\ disk'[n] = {})
      /\ name \in DOMAIN disk' \cup {NoName}
  BY <1>1 DEF With
<1>6. /\ DOMAIN download' = DOMAIN download
      /\ \A v \in DOMAIN download : v # u => download'[v] = download[v]
      /\ download'[u].temp = name /\ download'[u].path = t /\ download'[u].tth = download[u].tth
      /\ download'[u].file = "open" /\ Written(download'[u]) = {}
  <2>1. /\ DOMAIN download' = DOMAIN download
        /\ \A v \in DOMAIN download : v # u => download'[v] = download[v]
        /\ download'[u] = [download[u] EXCEPT !.file = "open"]
    BY <1>1
  <2>2. /\ download'[u].temp = name /\ download'[u].file = "open"
        /\ download'[u].path = t /\ download'[u].tth = download[u].tth
        /\ download'[u].seg = download[u].seg /\ download'[u].pos = download[u].pos
    BY <1>1, <1>4, <2>1 DEF Downloads
  <2>3. a..(a + 0 - 1) = {}
    BY <1>4
  <2> QED
    BY <1>4, <2>1, <2>2, <2>3 DEF Written
<1>7. Queue' = Queue /\ \A s \in Queue : NameAt(s)' = NameAt(s) /\ HomeAt(s)' = HomeAt(s)
  BY <1>2 DEF Queue, NameAt, HomeAt
<1>8. \A s \in Queue : There(s)' = There(s) /\ (s # t => IsThere(s)' = IsThere(s)) /\ (IsThere(s) => IsThere(s)')
  <2> SUFFICES ASSUME NEW s \in Queue
               PROVE  /\ There(s)' = There(s) /\ (s # t => IsThere(s)' = IsThere(s))
                      /\ IsThere(s) => IsThere(s)'
    OBVIOUS
  <2>1. NameAt(s)' = NameAt(s) /\ item'[fileQueue'[s]].tth = item[fileQueue[s]].tth /\ final' = final
    BY <1>2, <1>7
  <2>2. s # t => NameAt(s) # name
    BY <1>3, QueueIs, OwnNames DEF HomeAt
  <2>3. NameAt(s) \in DOMAIN disk' /\ NameAt(s) \notin DOMAIN disk => disk'[NameAt(s)] = {}
    BY <1>5
  <2>4. NameAt(s) \in DOMAIN disk => NameAt(s) \in DOMAIN disk' /\ disk'[NameAt(s)] = disk[NameAt(s)]
    BY <1>5
  <2>5. There(s)' = There(s)
    BY <2>1, <2>3, <2>4 DEF There
  <2> QED
    BY <1>5, <2>1, <2>2, <2>4, <2>5 DEF IsThere
<1>9. Named'
  BY <1>2, <1>7 DEF Files, Named, NamedSaved, NamedAt
<1>10. OwnFile'
  <2>1. \A v \in DOMAIN download : download'[v].temp = download[v].temp /\ download'[v].tth = download[v].tth
    BY <1>1, <1>6
  <2> QED
    BY <1>2, <1>6, <1>7, <2>1 DEF Files, OwnFile
<1>11. Opened'
  <2> SUFFICES ASSUME NEW v \in DOMAIN download PROVE OpenedBy(v)'
    BY <1>6 DEF Opened
  <2>1. OpenedBy(v)
    BY DEF Files, Opened
  <2>2. CASE v = u
    <3>1. name = NoName => t \in DOMAIN final'
      BY <1>2, <1>3, QueueIs DEF HomeAt
    <3> QED
      BY <1>5, <1>6, <2>2, <3>1 DEF OpenedBy
  <2>3. CASE v # u
    <3>1. \A s \in Queue' : There(s)' = There(s) /\ fileQueue'[s] = fileQueue[s] /\ s \in Queue
      BY <1>2, <1>7, <1>8
    <3>2. download'[v] = download[v] /\ running' = running /\ final' = final
          /\ \A n \in DOMAIN disk : n \in DOMAIN disk'
      BY <1>2, <1>5, <1>6, <2>3
    <3> QED
      BY <2>1, <3>1, <3>2 DEF OpenedBy
  <2> QED
    BY <2>2, <2>3
<1>12. Stored'
  <2> SUFFICES ASSUME NEW s \in Queue PROVE StoredAt(s)'
    BY <1>7 DEF Stored
  <2>1. StoredAt(s) /\ item'[fileQueue'[s]] = item[fileQueue[s]] /\ There(s)' = There(s)
    BY <1>2, <1>8 DEF Files, Stored
  <2>2. CASE s # t \/ IsThere(s)
    BY <1>8, <2>1, <2>2 DEF StoredAt
  <2>3. CASE s = t /\ ~IsThere(s)
    <3>1. Units({}) = {} /\ (~IsFinished(item[fileQueue[s]].done, Size) => item[fileQueue[s]].done = {})
      BY <1>3, <2>1, <2>3 DEF StoredAt, Units
    <3> QED
      BY <2>1, <3>1 DEF StoredAt
  <2> QED
    BY <2>2, <2>3
<1>13. ReadAgain'
  <2>1. ASSUME NEW s, rechecker.target = s, rechecker.pc # "idle", s \in Queue
        PROVE  NameAt(s) # name
    BY <1>3, <2>1, QueueIs, OwnNames DEF HomeAt
  <2> QED
    BY <1>2, <1>5, <1>7, <2>1 DEF Files, ReadAgain
<1> QED
  BY <1>9, <1>10, <1>11, <1>12, <1>13 DEF Files

\* What a block adds to the file of the item that is downloaded.
LEMMA DataArrives ==
    ASSUME Inv, Files, NEW u \in Users, Data(u)
    PROVE  /\ DOMAIN disk' = DOMAIN disk /\ \A n \in DOMAIN disk : disk[n] \subseteq disk'[n]
           /\ DOMAIN final' = DOMAIN final
           /\ \A t \in Queue :
                  /\ NameAt(t)' = NameAt(t) /\ HomeAt(t)' = HomeAt(t) /\ IsThere(t)' = IsThere(t)
                  /\ There(t) \subseteq There(t)'
                  /\ running[u] = fileQueue[t] /\ download[u].file = "open" =>
                         download[u].seg[1] + download[u].pos \in There(t)'
<1>1. PICK name, path, b :
         /\ name = download[u].temp /\ path = download[u].path
         /\ b = download[u].seg[1] + download[u].pos /\ u \in DOMAIN download
         /\ disk' = IF download[u].file = "open" /\ name # NoName
                    THEN [disk EXCEPT ![name] = @ \cup {b}] ELSE disk
         /\ final' = IF download[u].file = "open" /\ name = NoName
                     THEN [final EXCEPT ![path] = With(@, b, download[u].tth)] ELSE final
  BY DEF Data
<1>2. UNCHANGED <<fileQueue, item>>
  BY DEF Data, queueVars
<1>3. download[u].file = "open" => IF name = NoName THEN path \in DOMAIN final ELSE name \in DOMAIN disk
  BY <1>1 DEF Files, Opened, OpenedBy
<1>4. /\ DOMAIN disk' = DOMAIN disk /\ \A n \in DOMAIN disk : disk[n] \subseteq disk'[n]
      /\ DOMAIN final' = DOMAIN final
  BY <1>1
<1>5. ASSUME NEW t \in Queue
      PROVE  /\ NameAt(t)' = NameAt(t) /\ HomeAt(t)' = HomeAt(t) /\ IsThere(t)' = IsThere(t)
             /\ There(t) \subseteq There(t)'
             /\ running[u] = fileQueue[t] /\ download[u].file = "open" => b \in There(t)'
  <2>1. NameAt(t)' = NameAt(t) /\ item'[fileQueue'[t]].tth = item[fileQueue[t]].tth
    BY <1>2 DEF NameAt
  <2>2. HomeAt(t)' = HomeAt(t) /\ IsThere(t)' = IsThere(t)
    BY <1>4, <2>1 DEF HomeAt, IsThere
  <2>3. CASE t \notin DOMAIN final
    <3>1. There(t) \subseteq There(t)'
      BY <1>4, <2>1, <2>3 DEF There
    <3>2. ASSUME running[u] = fileQueue[t], download[u].file = "open" PROVE b \in There(t)'
      <4>1. name = NameAt(t) /\ name # NoName
        BY <1>1, <2>3, <3>2, QueueIs DEF Files, OwnFile, HomeAt
      <4>2. name \in DOMAIN disk /\ b \in disk'[name]
        BY <1>1, <1>3, <3>2, <4>1
      <4> QED
        BY <1>4, <2>1, <2>3, <4>1, <4>2 DEF There
    <3> QED
      BY <2>1, <2>2, <3>1, <3>2
  <2>4. CASE t \in DOMAIN final
    <3>1. CASE download[u].file = "open" /\ name = NoName /\ path = t
      <4>1. final'[t] = With(final[t], b, download[u].tth)
        BY <1>1, <2>4, <3>1
      <4>2. download[u].tth = item[fileQueue[t]].tth
        <5>1. fileQueue[t] # NoItem
          BY QueueIs
        <5> QED
          BY <1>1, <3>1, <5>1, OwnOpen
      <4>3. b \in DOMAIN final'[t] /\ final'[t][b] = item[fileQueue[t]].tth
            /\ \A c \in DOMAIN final[t] : /\ c \in DOMAIN final'[t]
                                          /\ c # b => final'[t][c] = final[t][c]
        BY <4>1, <4>2 DEF With
      <4> QED
        BY <1>4, <2>1, <2>2, <2>4, <4>3 DEF There
    <3>2. CASE ~(download[u].file = "open" /\ name = NoName /\ path = t)
      <4>1. final'[t] = final[t]
        BY <1>1, <2>4, <3>2
      <4>2. There(t)' = There(t)
        BY <1>4, <2>1, <2>4, <4>1 DEF There
      <4>3. ~(running[u] = fileQueue[t] /\ download[u].file = "open")
        <5>1. ASSUME running[u] = fileQueue[t] PROVE name = NoName /\ path = t
          <6>1. name = NoName
            BY <1>1, <2>4, <5>1 DEF Files, OwnFile, HomeAt
          <6>2. running[u] # NoItem
            BY <5>1, QueueIs
          <6>3. path \in Queue /\ fileQueue[path] = fileQueue[t]
            BY <1>1, <5>1, <6>2, RunAt DEF Files
          <6> QED
            BY <6>1, <6>3, OwnNames
        <5> QED
          BY <3>2, <5>1
      <4> QED
        BY <2>1, <2>2, <4>2, <4>3
    <3> QED
      BY <3>1, <3>2
  <2> QED
    BY <2>3, <2>4
<1> QED
  BY <1>1, <1>4, <1>5

LEMMA DataFiles ==
    ASSUME Inv, Files, NEW u \in Users, Data(u)
    PROVE  Files'
<1>1. u \in DOMAIN download /\ download' = [download EXCEPT ![u].pos = @ + 1]
      /\ UNCHANGED <<fileQueue, item, running, saved, rechecker>>
  BY DEF Data, queueVars
<1>2. PICK a, n : /\ a = download[u].seg[1] /\ n = download[u].pos /\ a \in Nat /\ n \in Nat
                  /\ download[u] \in Downloads
  BY <1>1, DownloadIs DEF Inv, Typed, DownloadTyped
<1>3. /\ DOMAIN disk' = DOMAIN disk /\ \A m \in DOMAIN disk : disk[m] \subseteq disk'[m]
      /\ DOMAIN final' = DOMAIN final
  BY DataArrives
<1>4. \A t \in Queue :
          /\ NameAt(t)' = NameAt(t) /\ HomeAt(t)' = HomeAt(t) /\ IsThere(t)' = IsThere(t)
          /\ There(t) \subseteq There(t)'
          /\ running[u] = fileQueue[t] /\ download[u].file = "open" => a + n \in There(t)'
  BY <1>2, DataArrives
<1>5. /\ DOMAIN download' = DOMAIN download
      /\ \A v \in DOMAIN download : v # u => download'[v] = download[v]
      /\ download'[u].temp = download[u].temp /\ download'[u].path = download[u].path
      /\ download'[u].tth = download[u].tth /\ download'[u].file = download[u].file
      /\ Written(download'[u]) = a..(a + n) /\ Written(download[u]) = a..(a + n - 1)
  <2>1. /\ DOMAIN download' = DOMAIN download
        /\ \A v \in DOMAIN download : v # u => download'[v] = download[v]
        /\ download'[u] = [download[u] EXCEPT !.pos = n + 1]
    BY <1>1, <1>2
  <2>2. /\ download'[u].temp = download[u].temp /\ download'[u].file = download[u].file
        /\ download'[u].path = download[u].path /\ download'[u].tth = download[u].tth
        /\ download'[u].seg = download[u].seg /\ download'[u].pos = n + 1
    BY <1>2, <2>1 DEF Downloads
  <2>3. a + (n + 1) - 1 = a + n
    BY <1>2
  <2> QED
    BY <1>2, <2>1, <2>2, <2>3 DEF Written
<1>6. Queue' = Queue
  BY <1>1 DEF Queue
<1>7. Named'
  BY <1>1, <1>3, <1>4, <1>6 DEF Files, Named, NamedSaved, NamedAt
<1>8. OwnFile'
  <2>1. \A v \in DOMAIN download : download'[v].temp = download[v].temp /\ download'[v].tth = download[v].tth
    BY <1>5
  <2> QED
    BY <1>1, <1>4, <1>5, <1>6, <2>1 DEF Files, OwnFile
<1>9. Opened'
  <2> SUFFICES ASSUME NEW v \in DOMAIN download PROVE OpenedBy(v)'
    BY <1>5 DEF Opened
  <2>1. OpenedBy(v) /\ running' = running
    BY <1>1 DEF Files, Opened
  <2>2. /\ download'[v].temp = download[v].temp /\ download'[v].path = download[v].path
        /\ download'[v].file = download[v].file
    BY <1>5
  <2>3. ASSUME NEW t \in Queue', running'[v] = fileQueue'[t], download'[v].file = "open"
        PROVE  Written(download'[v]) \subseteq There(t)'
    <3>1. t \in Queue /\ running[v] = fileQueue[t] /\ There(t) \subseteq There(t)'
          /\ Written(download[v]) \subseteq There(t)
      BY <1>1, <1>4, <1>6, <2>1, <2>2, <2>3 DEF OpenedBy
    <3>2. CASE v = u
      <4>1. a + n \in There(t)'
        BY <1>4, <2>2, <2>3, <3>1, <3>2
      <4>2. a..(a + n) \subseteq a..(a + n - 1) \cup {a + n}
        BY <1>2
      <4> QED
        BY <1>5, <3>1, <3>2, <4>1, <4>2
    <3>3. CASE v # u
      BY <1>5, <3>1, <3>3
    <3> QED
      BY <3>2, <3>3
  <2> QED
    BY <1>3, <2>1, <2>2, <2>3 DEF OpenedBy
<1>10. Stored'
  <2> SUFFICES ASSUME NEW s \in Queue PROVE StoredAt(s)'
    BY <1>6 DEF Stored
  <2>1. StoredAt(s) /\ There(s) \subseteq There(s)' /\ IsThere(s)' = IsThere(s)
        /\ item'[fileQueue'[s]] = item[fileQueue[s]]
    BY <1>1, <1>4 DEF Files, Stored
  <2> QED
    BY <2>1 DEF StoredAt
<1>11. ReadAgain'
  BY <1>1, <1>3, <1>4, <1>6 DEF Files, ReadAgain
<1> QED
  BY <1>7, <1>8, <1>9, <1>10, <1>11 DEF Files

LEMMA GetDownloadFiles ==
    ASSUME Inv, Files, Orderly, NEW u \in Users, GetDownload(u)
    PROVE  Files'
<1>1. PICK i, name, done, seg, new :
         /\ i \in Live /\ name = TempName(i) /\ <<i, u>> \in userQueue
         /\ done = IF name \in DOMAIN disk THEN item[i].done ELSE {}
         /\ new = [path |-> TargetOf(i), temp |-> name, tth |-> item[i].tth,
                   seg |-> seg, pos |-> 0, file |-> "none"]
         /\ download' = With(download, u, new)
         /\ item' = [item EXCEPT ![i].temp = name, ![i].done = done, ![i].downloads = @ \cup {u}]
         /\ running' = [running EXCEPT ![u] = i]
  <2>1. PICK i \in Live, wanted \in 1..Size :
           LET name == TempName(i)
               done == IF name \in DOMAIN disk THEN item[i].done ELSE {}
               seg == SegmentedNext(Size, 1, wanted, done, Busy(i))
           IN
           /\ <<i, u>> \in userQueue
           /\ download' = With(download, u, [path |-> TargetOf(i), temp |-> name, tth |-> item[i].tth,
                                             seg |-> seg, pos |-> 0, file |-> "none"])
           /\ item' = [item EXCEPT ![i].temp = name, ![i].done = done, ![i].downloads = @ \cup {u}]
           /\ running' = [running EXCEPT ![u] = i]
    BY DEF GetDownload
  <2> QED
    BY <2>1
<1>2. /\ u \notin DOMAIN download /\ rechecker.pc = "idle"
      /\ UNCHANGED <<fileQueue, disk, final, saved, rechecker>>
  BY DEF GetDownload, Quiet, Orderly, fileVars
<1>3. PICK t : t \in Queue /\ i = fileQueue[t] /\ t = TargetOf(i) /\ i \in Items /\ i # NoItem
  BY <1>1, NameIs DEF Inv, Typed, Queue, Live
<1>4. name = HomeAt(t) /\ item[i] \in ItemRecords /\ DOMAIN item = Items /\ ~Finished(i)
  <2>1. ~Finished(i)
    BY <1>1 DEF Inv, Structure, Listed, Kept
  <2> QED
    BY <1>1, <1>3, <2>1, NameIsOwn, QueueIs DEF Files
<1>5. /\ item'[i].tth = item[i].tth /\ item'[i].temp = name /\ item'[i].done = done
      /\ \A j \in Items : j # i => item'[j] = item[j]
  BY <1>1, <1>3, <1>4 DEF ItemRecords
<1>6. \A v \in Users : running'[v] = IF v = u THEN i ELSE running[v]
  BY <1>1 DEF Inv, Typed
<1>7. /\ DOMAIN download' = DOMAIN download \cup {u}
      /\ \A v \in DOMAIN download : v \in Users /\ v # u /\ download'[v] = download[v]
      /\ download'[u].temp = name /\ download'[u].tth = item[i].tth /\ download'[u].file = "none"
  BY <1>1, <1>2, DownloadIs DEF With, Inv, Typed
<1>8. \A s \in Queue : fileQueue[s] \in Items /\ (s # t => fileQueue[s] # i /\ NameAt(s) # NameAt(t))
  BY <1>3, QueueIs, OwnNames
<1>9. Queue' = Queue
      /\ \A s \in Queue : /\ NameAt(s)' = NameAt(s) /\ HomeAt(s)' = HomeAt(s)
                          /\ There(s)' = There(s) /\ IsThere(s)' = IsThere(s)
                          /\ item'[fileQueue'[s]].tth = item[fileQueue[s]].tth
  <2>1. Queue' = Queue /\ \A s \in Queue : item'[fileQueue'[s]].tth = item[fileQueue[s]].tth
    BY <1>2, <1>5, <1>8 DEF Queue
  <2>2. \A s \in Queue : NameAt(s)' = NameAt(s)
    BY <2>1 DEF NameAt
  <2> QED
    BY <1>2, <2>1, <2>2 DEF HomeAt, There, IsThere
<1>10. Named'
  <2> SUFFICES ASSUME NEW s \in Queue PROVE NamedAt(s)'
    BY <1>2, <1>9 DEF Files, Named, NamedSaved
  <2>1. NamedAt(s)
    BY DEF Files, Named
  <2>2. CASE s = t
    BY <1>2, <1>3, <1>4, <1>5, <1>9, <2>2 DEF NamedAt, HomeAt
  <2>3. CASE s # t
    BY <1>2, <1>5, <1>8, <1>9, <2>1, <2>3 DEF NamedAt
  <2> QED
    BY <2>2, <2>3
<1>11. OwnFile'
  <2> SUFFICES ASSUME NEW v \in DOMAIN download', NEW s \in Queue
               PROVE  /\ download'[v].temp = NameAt(s) => running'[v] = fileQueue[s]
                      /\ running'[v] = fileQueue[s] =>
                             /\ download'[v].temp = HomeAt(s)
                             /\ download'[v].tth = item[fileQueue[s]].tth
    BY <1>2, <1>9 DEF OwnFile
  <2>1. CASE v = u
    <3>1. running'[u] = i /\ download'[u].temp = HomeAt(t)
      BY <1>4, <1>6, <1>7
    <3>2. NameAt(s) # NoName
      BY QueueIs
    <3> QED
      BY <1>3, <1>7, <1>8, <2>1, <3>1, <3>2 DEF HomeAt
  <2>2. CASE v # u
    BY <1>6, <1>7, <2>2 DEF Files, OwnFile
  <2> QED
    BY <2>1, <2>2
<1>12. Opened'
  <2> SUFFICES ASSUME NEW v \in DOMAIN download' PROVE OpenedBy(v)'
    BY DEF Opened
  <2>1. CASE v = u
    BY <1>7, <2>1 DEF OpenedBy
  <2>2. CASE v # u
    <3>1. v \in DOMAIN download /\ v \in Users /\ download'[v] = download[v] /\ running'[v] = running[v]
          /\ OpenedBy(v)
      BY <1>6, <1>7, <2>2 DEF Files, Opened
    <3>2. \A s \in Queue' : s \in Queue /\ There(s)' = There(s) /\ fileQueue'[s] = fileQueue[s]
      BY <1>2, <1>9
    <3> QED
      BY <1>2, <3>1, <3>2 DEF OpenedBy
  <2> QED
    BY <2>1, <2>2
<1>13. Stored'
  <2> SUFFICES ASSUME NEW s \in Queue PROVE StoredAt(s)'
    BY <1>9 DEF Stored
  <2>1. /\ There(s)' = There(s) /\ IsThere(s)' = IsThere(s) /\ fileQueue'[s] = fileQueue[s] /\ StoredAt(s)
    BY <1>2, <1>9 DEF Files, Stored
  <2>2. CASE s = t
    <3>1. item'[fileQueue[s]].done = done
      BY <1>3, <1>5, <2>2
    <3>2. CASE name \in DOMAIN disk
      <4>1. IsThere(s)
        BY <1>4, <2>2, <3>2 DEF IsThere, HomeAt
      <4> QED
        BY <1>1, <1>3, <2>1, <2>2, <3>1, <3>2, <4>1 DEF StoredAt
    <3>3. CASE name \notin DOMAIN disk
      <4>1. done = {} /\ Units({}) = {}
        BY <1>1, <3>3 DEF Units
      <4> QED
        BY <2>1, <3>1, <4>1 DEF StoredAt
    <3> QED
      BY <3>2, <3>3
  <2>3. CASE s # t
    <3>1. item'[fileQueue[s]] = item[fileQueue[s]]
      BY <1>5, <1>8, <2>3
    <3> QED
      BY <2>1, <3>1, StoredKept
  <2> QED
    BY <2>2, <2>3
<1>14. ReadAgain'
  BY <1>2 DEF ReadAgain
<1> QED
  BY <1>10, <1>11, <1>12, <1>13, <1>14 DEF Files

LEMMA AddFiles ==
    ASSUME Inv, Files, Orderly, NEW t \in Targets, NEW r \in Roots, NEW u \in Users, Add(t, r, u)
    PROVE  Files'
<1>1. PICK i \in Items : /\ Unused(i) /\ fileQueue' = [fileQueue EXCEPT ![t] = i]
                         /\ item' = [item EXCEPT ![i] = Sourced(NewItem(r), u)]
  BY DEF Add, PutSource
<1>2. /\ fileQueue[t] = NoItem /\ rechecker.pc = "idle"
      /\ \A v \in DOMAIN download : download[v].temp # <<FileName[t], r>>
      /\ UNCHANGED <<running, download, disk, final, saved, rechecker>>
  BY DEF Add, Settled, Quiet, Orderly, fileVars
<1>3. i # NoItem /\ i \notin Live /\ \A v \in Users : running[v] # i
  BY <1>1, DownloadQueueAssumption DEF Unused
<1>4. /\ fileQueue'[t] = i /\ \A s \in Targets \ {t} : fileQueue'[s] = fileQueue[s]
      /\ \A j \in Items : j # i => item'[j] = item[j]
  BY <1>1 DEF Inv, QInv, Indexed
<1>5. /\ item'[i].tth = r /\ item'[i].temp = NoName /\ item'[i].done = {} /\ item'[i].downloads = {}
  <2>1. PICK new, it : new = NewItem(r) /\ it = Sourced(new, u)
    OBVIOUS
  <2>2. new \in ItemRecords /\ new.tth = r /\ new.temp = NoName /\ new.done = {} /\ new.downloads = {}
    BY <2>1 DEF NewItem, ItemRecords
  <2>3. it.tth = r /\ it.temp = NoName /\ it.done = {} /\ it.downloads = {}
    BY <2>1, <2>2, FieldKept, SourcesOnly
  <2>4. item'[i] = it
    BY <1>1, <2>1, ItemRecordIs
  <2> QED
    BY <2>3, <2>4
<1>6. Queue' = Queue \cup {t} /\ t \notin Queue
  BY <1>2, <1>3, <1>4 DEF Queue
<1>7. \A s \in Queue : /\ s # t /\ fileQueue[s] \in Items /\ fileQueue[s] # i
                       /\ fileQueue'[s] = fileQueue[s] /\ item'[fileQueue[s]] = item[fileQueue[s]]
  BY <1>3, <1>4, <1>6, QueueIs
<1>8. NameAt(t)' = <<FileName[t], r>>
      /\ \A s \in Queue : /\ NameAt(s)' = NameAt(s) /\ HomeAt(s)' = HomeAt(s)
                          /\ There(s)' = There(s) /\ IsThere(s)' = IsThere(s)
  <2>1. NameAt(t)' = <<FileName[t], r>> /\ \A s \in Queue : NameAt(s)' = NameAt(s)
    BY <1>4, <1>5, <1>7 DEF NameAt
  <2> QED
    BY <1>2, <1>7, <2>1 DEF HomeAt, There, IsThere
<1>9. Named'
  <2>1. NamedAt(t)'
    BY <1>4, <1>5 DEF NamedAt
  <2>2. ASSUME NEW s \in Queue PROVE NamedAt(s)'
    <3>1. NamedAt(s)
      BY DEF Files, Named
    <3> QED
      BY <1>2, <1>7, <1>8, <3>1 DEF NamedAt
  <2> QED
    BY <1>2, <1>6, <2>1, <2>2 DEF Files, Named, NamedSaved
<1>10. OwnFile'
  <2> SUFFICES ASSUME NEW v \in DOMAIN download, NEW s \in Queue'
               PROVE  /\ download[v].temp = NameAt(s)' => running[v] = fileQueue'[s]
                      /\ running[v] = fileQueue'[s] =>
                             /\ download[v].temp = HomeAt(s)'
                             /\ download[v].tth = item'[fileQueue'[s]].tth
    BY <1>2 DEF OwnFile
  <2>1. running[v] # i /\ download[v].temp # NameAt(t)'
    BY <1>2, <1>3, <1>8, DownloadIs DEF Inv, Typed
  <2>2. CASE s = t
    BY <1>4, <2>1, <2>2
  <2>3. CASE s # t
    <3>1. s \in Queue
      BY <1>6, <2>3
    <3> QED
      BY <1>7, <1>8, <3>1 DEF Files, OwnFile
  <2> QED
    BY <2>2, <2>3
<1>11. Opened'
  <2> SUFFICES ASSUME NEW v \in DOMAIN download PROVE OpenedBy(v)'
    BY <1>2 DEF Opened
  <2>1. OpenedBy(v) /\ running[v] # i
    BY <1>3, DownloadIs DEF Inv, Typed, Files, Opened
  <2>2. ASSUME NEW s \in Queue', running'[v] = fileQueue'[s]
        PROVE  s \in Queue /\ running[v] = fileQueue[s] /\ There(s)' = There(s)
    BY <1>2, <1>4, <1>6, <1>7, <1>8, <2>1, <2>2
  <2> QED
    BY <1>2, <2>1, <2>2 DEF OpenedBy
<1>12. Stored'
  <2>1. StoredAt(t)'
    <3>1. Units({}) = {}
      BY DEF Units
    <3> QED
      BY <1>4, <1>5, <3>1 DEF StoredAt
  <2>2. ASSUME NEW s \in Queue PROVE StoredAt(s)'
    <3>1. StoredAt(s) /\ There(s)' = There(s) /\ IsThere(s)' = IsThere(s)
          /\ fileQueue'[s] = fileQueue[s] /\ item'[fileQueue[s]] = item[fileQueue[s]]
      BY <1>7, <1>8 DEF Files, Stored
    <3> QED
      BY <3>1, StoredKept
  <2> QED
    BY <1>6, <2>1, <2>2 DEF Stored
<1>13. ReadAgain'
  BY <1>2 DEF ReadAgain
<1> QED
  BY <1>9, <1>10, <1>11, <1>12, <1>13 DEF Files

\* The item finds its file under the same name at its new target, and there is
\* no file at either.
LEMMA MoveFiles ==
    ASSUME Inv, Files, Orderly, Intact, NEW s \in Targets, NEW t \in Targets, Move(s, t)
    PROVE  Files'
<1>1. /\ fileQueue[s] # NoItem /\ fileQueue[t] = NoItem /\ rechecker.pc = "idle"
      /\ s \notin DOMAIN final /\ t \notin DOMAIN final
      /\ item[fileQueue[s]].downloads = {}
      /\ fileQueue' = [fileQueue EXCEPT ![s] = NoItem, ![t] = fileQueue[s]]
      /\ UNCHANGED <<item, running, download, disk, final, saved, rechecker>>
  BY DEF Move, Quiet, Orderly, Intact, Vacant, fileVars
<1>2. FileName[s] = FileName[t]
  BY DEF Move, Intact
<1>3. /\ fileQueue'[s] = NoItem /\ fileQueue'[t] = fileQueue[s] /\ s # t
      /\ \A a \in Targets : a # s /\ a # t => fileQueue'[a] = fileQueue[a]
  BY <1>1 DEF Inv, QInv, Indexed
<1>4. s \in Queue /\ Queue' = (Queue \ {s}) \cup {t} /\ t \notin Queue
  BY <1>1, <1>3 DEF Queue
<1>5. ASSUME NEW a \in Queue'
      PROVE  \E b \in Queue :
                 /\ fileQueue'[a] = fileQueue[b] /\ NameAt(a)' = NameAt(b) /\ HomeAt(a)' = HomeAt(b)
                 /\ There(a)' = There(b) /\ IsThere(a)' = IsThere(b)
                 /\ a \in DOMAIN final <=> b \in DOMAIN final
  <2>1. PICK b \in Queue : /\ fileQueue'[a] = fileQueue[b] /\ FileName[a] = FileName[b]
                           /\ a = b \/ (a \notin DOMAIN final /\ b \notin DOMAIN final)
    <3>1. CASE a = t
      BY <1>1, <1>2, <1>3, <1>4, <3>1
    <3>2. CASE a # t
      <4>1. a \in Queue /\ a # s /\ a \in Targets /\ fileQueue'[a] = fileQueue[a]
        BY <1>3, <1>4, <3>2 DEF Queue
      <4> QED
        BY <4>1
    <3> QED
      BY <3>1, <3>2
  <2>2. NameAt(a)' = NameAt(b) /\ item'[fileQueue'[a]].tth = item[fileQueue[b]].tth
    BY <1>1, <2>1 DEF NameAt
  <2>3. HomeAt(a)' = HomeAt(b)
    BY <1>1, <2>1, <2>2 DEF HomeAt
  <2>4. IsThere(a)' = IsThere(b)
    BY <1>1, <2>1, <2>2 DEF IsThere
  <2>5. There(a)' = There(b)
    BY <1>1, <2>1, <2>2 DEF There
  <2> QED
    BY <2>1, <2>2, <2>3, <2>4, <2>5
<1>6. Named'
  <2> SUFFICES ASSUME NEW a \in Queue' PROVE NamedAt(a)'
    BY <1>1 DEF Files, Named, NamedSaved
  <2>1. PICK b \in Queue : /\ fileQueue'[a] = fileQueue[b] /\ NameAt(a)' = NameAt(b)
                           /\ a \in DOMAIN final <=> b \in DOMAIN final
    BY <1>5
  <2>2. NamedAt(b)
    BY DEF Files, Named
  <2> QED
    BY <1>1, <2>1, <2>2 DEF NamedAt
<1>7. OwnFile'
  <2> SUFFICES ASSUME NEW v \in DOMAIN download, NEW a \in Queue'
               PROVE  /\ download[v].temp = NameAt(a)' => running[v] = fileQueue'[a]
                      /\ running[v] = fileQueue'[a] =>
                             /\ download[v].temp = HomeAt(a)'
                             /\ download[v].tth = item'[fileQueue'[a]].tth
    BY <1>1 DEF OwnFile
  <2>1. PICK b \in Queue : fileQueue'[a] = fileQueue[b] /\ NameAt(a)' = NameAt(b) /\ HomeAt(a)' = HomeAt(b)
    BY <1>5
  <2> QED
    BY <1>1, <2>1 DEF Files, OwnFile
<1>8. Opened'
  <2> SUFFICES ASSUME NEW v \in DOMAIN download PROVE OpenedBy(v)'
    BY <1>1 DEF Opened
  <2>1. OpenedBy(v)
    BY DEF Files, Opened
  <2>2. ASSUME NEW a \in Queue', running'[v] = fileQueue'[a], download'[v].file = "open"
        PROVE  Written(download'[v]) \subseteq There(a)'
    <3>1. PICK b \in Queue : fileQueue'[a] = fileQueue[b] /\ There(a)' = There(b)
      BY <1>5, <2>2
    <3> QED
      BY <1>1, <2>1, <2>2, <3>1 DEF OpenedBy
  <2> QED
    BY <1>1, <2>1, <2>2 DEF OpenedBy
<1>9. Stored'
  <2> SUFFICES ASSUME NEW a \in Queue' PROVE StoredAt(a)'
    BY DEF Stored
  <2>1. PICK b \in Queue : /\ fileQueue'[a] = fileQueue[b] /\ There(a)' = There(b)
                           /\ IsThere(a)' = IsThere(b)
    BY <1>5
  <2>2. StoredAt(b)
    BY DEF Files, Stored
  <2> QED
    BY <1>1, <2>1, <2>2 DEF StoredAt
<1>10. ReadAgain'
  BY <1>1 DEF ReadAgain
<1> QED
  BY <1>6, <1>7, <1>8, <1>9, <1>10 DEF Files

\* What an older Queue.xml says is done still is, without "crash".
LEMMA RestartFiles ==
    ASSUME Inv, Files, Intact, Restart
    PROVE  Files'
<1>1. PICK where \in [DOMAIN saved -> Items] :
         /\ \A s, t \in DOMAIN saved : where[s] = where[t] => s = t
         /\ fileQueue' = [t \in Targets |-> IF t \in DOMAIN saved THEN where[t] ELSE NoItem]
         /\ item' = [i \in Items |->
                        IF \E t \in DOMAIN saved : where[t] = i
                        THEN LET e == saved[CHOOSE t \in DOMAIN saved : where[t] = i] IN
                             [NewItem(e.tth) EXCEPT !.done = Loaded(e), !.paused = e.paused,
                                  !.sources = e.sources, !.temp = e.temp]
                        ELSE Freed]
  BY DEF Restart
<1>2. /\ DOMAIN download' = {} /\ rechecker'.pc = "idle" /\ UNCHANGED <<disk, final, saved>>
      /\ \A t \in DOMAIN saved : /\ fileQueue[t] # NoItem /\ saved[t].tth = item[fileQueue[t]].tth
                                 /\ Units(saved[t].done) \subseteq Units(item[fileQueue[t]].done)
                                 /\ saved[t].temp \in {NoName, item[fileQueue[t]].temp}
                                 /\ Finished(fileQueue[t]) => IsFinished(Loaded(saved[t]), Size)
  <2>1. DOMAIN <<>> = {}
    OBVIOUS
  <2> QED
    BY <2>1 DEF Restart, Intact, fileVars
<1>3. ASSUME NEW t \in Queue'
      PROVE  /\ t \in DOMAIN saved /\ t \in Queue /\ NameAt(t)' = NameAt(t)
             /\ saved[t].tth = item[fileQueue[t]].tth
             /\ item'[fileQueue'[t]].temp = saved[t].temp /\ item'[fileQueue'[t]].downloads = {}
             /\ Units(item'[fileQueue'[t]].done) \subseteq Units(item[fileQueue[t]].done)
             /\ Finished(fileQueue[t]) => IsFinished(item'[fileQueue'[t]].done, Size)
             /\ There(t)' = There(t) /\ IsThere(t)' = IsThere(t)
  <2>1. t \in DOMAIN saved /\ t \in Targets /\ fileQueue'[t] = where[t] /\ where[t] \in Items
    BY <1>1, <1>3 DEF Queue
  <2>2. (CHOOSE s \in DOMAIN saved : where[s] = where[t]) = t
    BY <1>1, <2>1
  <2>3. item'[where[t]] = [NewItem(saved[t].tth) EXCEPT !.done = Loaded(saved[t]), !.paused = saved[t].paused,
                               !.sources = saved[t].sources, !.temp = saved[t].temp]
    BY <1>1, <1>3, <2>1, <2>2
  <2>4. /\ item'[where[t]].tth = saved[t].tth /\ item'[where[t]].temp = saved[t].temp
        /\ item'[where[t]].downloads = {} /\ item'[where[t]].done = Loaded(saved[t])
    BY <2>3 DEF NewItem
  <2>5. Units(Loaded(saved[t])) \subseteq Units(saved[t].done)
    BY DEF Loaded, Units
  <2>6. t \in Queue /\ saved[t].tth = item[fileQueue[t]].tth
    BY <1>2, <2>1 DEF Queue
  <2>7. NameAt(t)' = NameAt(t) /\ item'[fileQueue'[t]].tth = item[fileQueue[t]].tth
    BY <2>1, <2>4, <2>6 DEF NameAt
  <2>8. There(t)' = There(t) /\ IsThere(t)' = IsThere(t)
    BY <1>2, <2>7 DEF There, IsThere
  <2>9. /\ Units(item'[fileQueue'[t]].done) \subseteq Units(item[fileQueue[t]].done)
        /\ Finished(fileQueue[t]) => IsFinished(item'[fileQueue'[t]].done, Size)
    <3>1. item'[fileQueue'[t]].done = Loaded(saved[t])
      BY <2>1, <2>4
    <3>2. Units(saved[t].done) \subseteq Units(item[fileQueue[t]].done)
      BY <1>2, <2>1
    <3>3. Finished(fileQueue[t]) => IsFinished(Loaded(saved[t]), Size)
      BY <1>2, <2>1
    <3>4. Units(item'[fileQueue'[t]].done) \subseteq Units(item[fileQueue[t]].done)
      BY <3>1, <3>2, <2>5
    <3> QED
      BY <3>1, <3>3, <3>4
  <2> QED
    BY <2>1, <2>4, <2>6, <2>7, <2>8, <2>9
<1>4. Named'
  <2> SUFFICES ASSUME NEW t \in Queue' PROVE NamedAt(t)'
    BY <1>2 DEF Files, Named, NamedSaved
  <2>1. /\ t \in DOMAIN saved /\ t \in Queue /\ item'[fileQueue'[t]].temp = saved[t].temp
        /\ NameAt(t)' = NameAt(t) /\ NameAt(t) = <<FileName[t], saved[t].tth>>
        /\ Finished(fileQueue[t]) => IsFinished(item'[fileQueue'[t]].done, Size)
    BY <1>3 DEF NameAt
  <2>2. NamedAt(t) /\ saved[t].temp \in {NoName, <<FileName[t], saved[t].tth>>}
        /\ saved[t].temp \in {NoName, item[fileQueue[t]].temp}
    BY <1>2, <2>1 DEF Files, Named, NamedSaved
  <2> QED
    BY <1>2, <2>1, <2>2 DEF NamedAt, Finished
<1>5. OwnFile' /\ Opened' /\ ReadAgain'
  BY <1>2 DEF OwnFile, Opened, ReadAgain
<1>6. Stored'
  <2> SUFFICES ASSUME NEW t \in Queue' PROVE StoredAt(t)'
    BY DEF Stored
  <2>1. /\ t \in Queue /\ item'[fileQueue'[t]].downloads = {}
        /\ Units(item'[fileQueue'[t]].done) \subseteq Units(item[fileQueue[t]].done)
        /\ Finished(fileQueue[t]) => IsFinished(item'[fileQueue'[t]].done, Size)
        /\ There(t)' = There(t) /\ IsThere(t)' = IsThere(t)
    BY <1>3
  <2>2. StoredAt(t)
    BY <2>1 DEF Files, Stored
  <2> QED
    BY <2>1, <2>2 DEF StoredAt, Finished
<1> QED
  BY <1>4, <1>5, <1>6 DEF Files

\* The item the Rechecker judges, and what it found of its file.
LEMMA Judged ==
    ASSUME Inv, Files, Orderly, rechecker.pc = "judge", NEW t, t = rechecker.target,
           NEW i, i = fileQueue[t], i # NoItem, NEW good, good = rechecker.good
    PROVE  /\ t \in Queue /\ i \in Live /\ i \in Items /\ item[i] \in ItemRecords /\ DOMAIN item = Items
           /\ t \notin DOMAIN final /\ TempName(i) = NameAt(t) /\ TargetOf(i) = t
           /\ item[i].downloads = {} /\ ~Finished(i) /\ item[i].done = {} /\ ~KeepFinished
           /\ \A u \in Users : running[u] # i
           /\ good \subseteq There(t) /\ There(t) \subseteq Blocks
           /\ good # {} => NameAt(t) \in DOMAIN disk
<1>1. t \in Queue
  BY DEF Queue, Inv, QInv, Aimed
<1>2. t \notin DOMAIN final /\ HomeAt(t) = NameAt(t)
  BY <1>1 DEF Files, ReadAgain, HomeAt
<1>3. i \in Live /\ i \in Items /\ item[i] \in ItemRecords /\ DOMAIN item = Items
      /\ TempName(i) = NameAt(t) /\ TargetOf(i) = t
  BY <1>1, <1>2, QueueIs, NameIsOwn DEF Files
<1>4. item[i].downloads = {} /\ ~Finished(i) /\ item[i].done = {} /\ "recheck" \in Operations
  BY DEF Inv, Structure, Rechecked
<1>5. ~KeepFinished
  BY <1>4 DEF Orderly
<1>6. \A u \in Users : running[u] # i
  BY <1>3, <1>4, RunnersAre
<1>7. good = {} \/ (NameAt(t) \in DOMAIN disk /\ good \subseteq disk[NameAt(t)])
  BY <1>1 DEF Files, ReadAgain
<1>8. good \subseteq There(t) /\ There(t) \subseteq Blocks
  BY <1>2, <1>7 DEF There, Inv, Typed, DiskTyped
<1> QED
  BY <1>1, <1>2, <1>3, <1>4, <1>5, <1>6, <1>7, <1>8

LEMMA BlocksAre == Blocks # {} /\ 0 \in Blocks
BY DownloadQueueAssumption DEF Blocks

LEMMA MoveStuckFiles ==
    ASSUME Inv, Files, Orderly, rechecker.pc = "judge", NEW t, t = rechecker.target,
           NEW i, i = fileQueue[t], i # NoItem, rechecker.good = Blocks,
           MoveStuckFile(i), rechecker'.pc = "idle", UNCHANGED saved
    PROVE  Files' /\ final'[t] = Whole(item[i].tth)
<1>1. /\ t \in Queue /\ i \in Live /\ t \notin DOMAIN final /\ TempName(i) = NameAt(t) /\ TargetOf(i) = t
      /\ ~Finished(i) /\ ~KeepFinished /\ \A u \in Users : running[u] # i
      /\ There(t) = Blocks /\ NameAt(t) \in DOMAIN disk
  BY Judged, BlocksAre
<1>2. PICK name : name = NameAt(t)
  OBVIOUS
<1>3. /\ MovesTo(NameAt(t), t) /\ download' = Replaced(name, t)
      /\ FileQueueRemove(i) /\ UNCHANGED running
  BY <1>1, <1>2 DEF MoveStuckFile
<1>4. /\ final'[t] = Whole(item[i].tth) /\ DOMAIN final' = DOMAIN final \cup {t}
      /\ \A s \in DOMAIN final : final'[s] = final[s]
      /\ DOMAIN disk' = DOMAIN disk \ {NameAt(t)}
      /\ \A n \in DOMAIN disk' : n # NameAt(t) /\ n \in DOMAIN disk /\ disk'[n] = disk[n]
      /\ \A n \in DOMAIN disk : n # NameAt(t) => n \in DOMAIN disk'
  BY <1>1, <1>3, MovedWhole
<1>5. \A s \in Queue' : /\ s \in Queue /\ s # t /\ fileQueue'[s] = fileQueue[s]
                        /\ item'[fileQueue[s]] = item[fileQueue[s]] /\ NameAt(s) # NameAt(t)
  BY <1>1, <1>3, QueueRemoved
<1>6. ASSUME NEW u \in DOMAIN download'
      PROVE  GoesOn(u)
  <2>1. u \in DOMAIN download /\ download'[u] = Orphaned(name)[u]
    BY <1>1, <1>3, ReplacedAre DEF Replaced
  <2>2. PICK d : d = download'[u] /\ d = Orphaned(name)[u]
    BY <2>1
  <2>3. download[u].temp # name
    BY <1>1, <1>2, <2>1, DownloadIs DEF Files, OwnFile, Inv, Typed
  <2>4. /\ d.temp = download[u].temp /\ d.path = download[u].path /\ d.tth = download[u].tth
        /\ Written(d) = Written(download[u])
        /\ d.file = "open" => download[u].file = "open" /\ download[u].temp \in DOMAIN disk' \cup {NoName}
        /\ d.file = download[u].file
    BY <1>2, <1>4, <2>1, <2>2, <2>3, OrphanedAre
  <2> QED
    BY <1>3, <1>5, <2>1, <2>2, <2>4 DEF GoesOn
<1>7. Files'
  BY <1>4, <1>5, <1>6, FilesFewer
<1> QED
  BY <1>4, <1>7

\* Nothing came between what the Rechecker read and what it judges.
LEMMA RecheckJudgeFiles ==
    ASSUME Inv, Files, Orderly, RecheckJudge
    PROVE  Files'
<1>1. PICK t, i, good : /\ t = rechecker.target /\ i = fileQueue[t] /\ good = rechecker.good
  OBVIOUS
<1>2. rechecker'.pc = "idle" /\ rechecker.pc = "judge" /\ UNCHANGED saved
  BY DEF RecheckJudge
<1>3. ReadAgain'
  BY <1>2 DEF ReadAgain
<1>4. CASE UNCHANGED <<queueVars, dirty, download, fileVars>>
  <2>1. UNCHANGED <<fileQueue, item, running, download, disk, final>>
    BY <1>4 DEF queueVars, fileVars
  <2> QED
    BY <1>2, <1>3, <2>1, FilesStill
<1>5. ASSUME i # NoItem, good = Blocks, MoveStuckFile(i)
      PROVE  Files'
  BY <1>1, <1>2, <1>5, MoveStuckFiles
<1>6. ASSUME i # NoItem, MarkGood(i, good)
      PROVE  Files'
  <2>1. /\ t \in Queue /\ i \in Items /\ item[i] \in ItemRecords /\ DOMAIN item = Items
        /\ item[i].downloads = {} /\ ~Finished(i) /\ item[i].done = {}
        /\ good \subseteq There(t) /\ There(t) \subseteq Blocks
    BY <1>1, <1>2, <1>6, Judged
  <2>2. PICK done : done = Marked({}, good)
    OBVIOUS
  <2>3. item' = [item EXCEPT ![i].done = done]
        /\ UNCHANGED <<fileQueue, running, disk, final, download>>
    <3>1. item' = [item EXCEPT ![i].done = Marked(item[i].done, good)]
      BY <1>6 DEF MarkGood, Marked
    <3> QED
      BY <1>6, <2>1, <2>2, <3>1 DEF MarkGood, fileVars
  <2>4. /\ item'[i].done = done /\ item'[i].downloads = item[i].downloads
        /\ item'[i].tth = item[i].tth /\ item'[i].temp = item[i].temp
        /\ \A j \in Items : j # i => item'[j] = item[j]
    BY <2>1, <2>3 DEF ItemRecords
  <2>5. Units(done) \cap Blocks \subseteq good
    <3>1. {} \subseteq Segs /\ IsFiniteSet({}) /\ Units({}) = {}
      BY FS_EmptySet DEF Units
    <3>2. Units(done) \subseteq {b * (Size + 1) : b \in good}
      BY <2>1, <2>2, <3>1, Marking
    <3> SUFFICES ASSUME NEW n \in Blocks, NEW b \in good, n = b * (Size + 1)
                 PROVE  n \in good
      BY <3>2
    <3>3. Size \in Nat /\ b \in Nat /\ n \in Nat /\ n < Size
      BY <2>1, DownloadQueueAssumption DEF Blocks
    <3>4. PICK m \in Nat : n = m + b /\ (b > 0 => m >= Size)
      BY <3>3, Multiples
    <3>5. b = 0
      BY <3>3, <3>4
    <3>6. n = 0
      BY <3>3, <3>5
    <3> QED
      BY <3>5, <3>6
  <2>6. ASSUME NEW s \in Queue
        PROVE  LET j == fileQueue[s] IN
               /\ item'[j].tth = item[j].tth /\ item'[j].downloads = item[j].downloads
               /\ item'[j].temp \in {item[j].temp, HomeAt(s), NoName}
               /\ \/ item'[j].done = item[j].done
                  \/ /\ item[j].downloads = {} /\ ~Finished(j)
                     /\ IsThere(s) => Units(item'[j].done) \cap Blocks \subseteq There(s)
    <3>1. CASE s = t
      BY <1>1, <2>1, <2>4, <2>5, <3>1
    <3>2. CASE s # t
      BY <1>1, <2>1, <2>4, <3>2, QueueIs, OwnNames
    <3> QED
      BY <3>1, <3>2
  <2> QED
    BY <1>2, <1>3, <2>3, <2>6, FilesStill
<1> QED
  BY <1>1, <1>4, <1>5, <1>6 DEF RecheckJudge

-----------------------------------------------------------------------------
LEMMA FilesStep == Inv /\ Files /\ Orderly /\ Intact /\ [Next]_vars => Files'
<1> SUFFICES ASSUME Inv, Files, Orderly, Intact, [Next]_vars PROVE Files'
  OBVIOUS
<1>1. CASE UNCHANGED vars
  BY <1>1, FilesStill DEF vars, queueVars, fileVars
<1>2. CASE UserInterface
  BY <1>2, AddFiles, AddSourceFiles, RemoveItemFiles, RecheckBeginFiles, RemoveSourceFiles,
     SetPriorityFiles, MoveFiles, RemoveUserFiles DEF UserInterface
<1>3. ASSUME NEW u \in Users, Connection(u) PROVE Files'
  BY <1>3, GetDownloadFiles, SetFileFiles, DataFiles, FinishFiles, FailFiles DEF Connection
<1>4. CASE Save \/ Restart \/ RecheckClear \/ RecheckRead \/ RecheckJudge
  BY <1>4, SaveFiles, RestartFiles, RecheckClearFiles, RecheckReadFiles, RecheckJudgeFiles
<1> QED
  BY <1>1, <1>2, <1>3, <1>4 DEF Next

LEMMA FilesInit == Init => Files
<1> SUFFICES ASSUME Init PROVE Files
  OBVIOUS
<1>1. DOMAIN <<>> = {}
  OBVIOUS
<1>2. Queue = {} /\ DOMAIN download = {} /\ DOMAIN saved = {} /\ rechecker.pc = "idle"
  BY <1>1 DEF Init, Queue
<1> QED
  BY <1>2 DEF Files, Named, NamedSaved, OwnFile, Opened, Stored, ReadAgain

LEMMA FilesHold == ASSUME Orderly, Intact PROVE Spec => [](Inv /\ Files)
<1>1. Init => Inv /\ Files
  BY InitialState, TypedInit, StructureInit, FilesInit DEF Inv
<1>2. (Inv /\ Files) /\ [Next]_vars => (Inv /\ Files)'
  <2> SUFFICES ASSUME Inv, Files, [Next]_vars PROVE Inv' /\ Files'
    OBVIOUS
  <2>1. Inv'
    BY InductiveStep, TypedStep, StructureStep DEF Inv
  <2> QED
    BY <2>1, FilesStep
<1> QED
  BY <1>1, <1>2, PTL DEF Spec

\* Of these steps, and where a file keeps its name: whatever counts as done
\* of an item that is not finished is in its temporary file, if that exists, or
\* in the file at the target where the item is written to that, whichever
\* downloads were opened, failed, ended or were orphaned meanwhile, and
\* whatever was saved and loaded again.
THEOREM DoneIsOnDiskHolds == ASSUME Orderly, Intact PROVE Spec => []DoneIsOnDisk
<1>1. Inv /\ Files => DoneIsOnDisk
  <2> SUFFICES ASSUME Inv, Files, NEW i \in Live, ~Finished(i),
                      NEW done, done = Units(item[i].done) \cap Blocks
               PROVE  /\ TempName(i) \in DOMAIN disk => done \subseteq disk[TempName(i)]
                      /\ TempName(i) = NoName =>
                             \A b \in done : /\ b \in DOMAIN final[TargetOf(i)]
                                             /\ final[TargetOf(i)][b] = item[i].tth
    BY DEF DoneIsOnDisk
  <2>1. PICK t \in Queue : i = fileQueue[t]
    BY DEF Live, Queue
  <2>2. TempName(i) = HomeAt(t) /\ TargetOf(i) = t /\ NameAt(t) # NoName
    BY <2>1, NameIsOwn, QueueIs DEF Files
  <2>3. IsThere(t) => done \subseteq There(t)
    BY <2>1 DEF Files, Stored, StoredAt, Finished
  <2>4. NoName \notin DOMAIN disk
    BY DownloadQueueAssumption DEF Inv, Typed, DiskTyped, Names
  <2>5. CASE t \in DOMAIN final
    BY <2>1, <2>2, <2>3, <2>4, <2>5 DEF HomeAt, IsThere, There
  <2>6. CASE t \notin DOMAIN final
    BY <2>2, <2>3, <2>6 DEF HomeAt, IsThere, There
  <2> QED
    BY <2>5, <2>6
<1> QED
  BY <1>1, FilesHold, PTL

\* Of the same steps: when putDownload() or the Rechecker reports an item as
\* finished, the file at its target is whole and each block of it is of the
\* file that was queued, whether it was moved there or written there.
THEOREM FinishedIsWholeHolds == ASSUME Orderly, Intact PROVE Spec => FinishedIsWhole
<1>1. ASSUME Inv, Files, [Next]_vars, NEW u \in DOMAIN download, Finishes(u)
      PROVE  final'[download[u].path] = Whole(item[fileQueue[download[u].path]].tth)
  <2>1. PICK t, i, done : /\ t = download[u].path /\ i = fileQueue[t] /\ i # NoItem
                          /\ done = AddSegment(item[i].done, download[u].seg) /\ IsFinished(done, Size)
                          /\ download[u].file # "none" /\ download[u].pos = Length(download[u].seg)
                          /\ Complete(u, i, done) /\ Put(u)
    BY <1>1 DEF Finishes, Finish, PutGone
  <2> QED
    BY <1>1, <2>1, CompletedFiles
<1>2. ASSUME Inv, Files, [Next]_vars, Restores
      PROVE  final'[rechecker.target] = Whole(item[fileQueue[rechecker.target]].tth)
  <2>1. PICK t, i : /\ t = rechecker.target /\ i = fileQueue[t] /\ i # NoItem
                    /\ rechecker.good = Blocks /\ rechecker.pc = "judge"
                    /\ MoveStuckFile(i) /\ rechecker'.pc = "idle" /\ UNCHANGED saved
    BY <1>2 DEF Restores, RecheckJudge
  <2> QED
    BY <1>2, <2>1, MoveStuckFiles
<1>3. Inv /\ Files /\ [Next]_vars =>
          [/\ \A u \in DOMAIN download : Finishes(u) =>
                  final'[download[u].path] = Whole(item[fileQueue[download[u].path]].tth)
           /\ Restores => final'[rechecker.target] = Whole(item[fileQueue[rechecker.target]].tth)]_vars
  BY <1>1, <1>2
<1> QED
  BY <1>3, FilesHold, PTL DEF Spec, FinishedIsWhole

=============================================================================
