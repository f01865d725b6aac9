------------------------------ MODULE Batching ------------------------------
(***************************************************************************)
(* The batch accumulator (engine/batch.py): run() adds the items of a      *)
(* source to a buffer and hands a full one to on_batch; a watcher hands on *)
(* what has been in the buffer for a while; when the source ends the rest  *)
(* is handed on and the watcher cancelled.                                 *)
(*                                                                         *)
(* The lock is held over no await that waits, so that add() and flush()    *)
(* are steps.  on_batch is external: it takes its time, and may raise.     *)
(***************************************************************************)
EXTENDS Naturals, Sequences, SequencesExt

CONSTANTS
    NumItems,       \* in the source
    MaxSize         \* max_size

VARIABLES
    read,           \* how many items were read from the source
    buffer, dirty,
    main,           \* of run(): source, batch, last, closing, raising, done or raised
    mainBatch,      \* what run() has handed to on_batch
    watcher,        \* wait, sleep, batch, dead or cancelled
    watcherBatch,   \* what the watcher has handed to on_batch
    delivered,      \* the items on_batch has returned for, in order
    failed          \* those it has raised for, or was cancelled with

vars == <<read, buffer, dirty, main, mainBatch, watcher, watcherBatch, delivered, failed>>

Items == Seq(1..NumItems)

TypeOK ==
    /\ read \in 0..NumItems
    /\ buffer \in Items /\ dirty \in BOOLEAN
    /\ main \in {"source", "batch", "last", "closing", "raising", "done", "raised"}
    /\ watcher \in {"wait", "sleep", "batch", "dead", "cancelled"}
    /\ mainBatch \in Items /\ watcherBatch \in Items
    /\ delivered \in Items /\ failed \in Items

Init ==
    /\ read = 0 /\ buffer = <<>> /\ dirty = FALSE
    /\ main = "source" /\ mainBatch = <<>>
    /\ watcher = "wait" /\ watcherBatch = <<>>
    /\ delivered = <<>> /\ failed = <<>>

\* As Take below, without a new buffer.
TakeByCopy == dirty' = FALSE /\ UNCHANGED buffer

\* _take().
Take == dirty' = FALSE /\ buffer' = <<>>

\* add() of the next item: a buffer that it fills is taken.
Add ==
    /\ main = "source" /\ read < NumItems /\ read' = read + 1
    /\ Len(buffer) + 1 < MaxSize
    /\ buffer' = Append(buffer, read') /\ dirty' = TRUE
    /\ UNCHANGED <<main, mainBatch, watcher, watcherBatch, delivered, failed>>

AddLast ==
    /\ main = "source" /\ read < NumItems /\ read' = read + 1
    /\ Len(buffer) + 1 >= MaxSize
    /\ mainBatch' = Append(buffer, read') /\ Take
    /\ main' = "batch"
    /\ UNCHANGED <<watcher, watcherBatch, delivered, failed>>

SourceEnds ==
    /\ main = "source" /\ read = NumItems
    /\ mainBatch' = buffer /\ Take
    /\ main' = IF buffer = <<>> THEN "closing" ELSE "last"
    /\ UNCHANGED <<read, watcher, watcherBatch, delivered, failed>>

\* on_batch returns to run(), or raises.
MainDelivers ==
    /\ main \in {"batch", "last"} /\ mainBatch' = <<>>
    /\ \/ /\ delivered' = delivered \o mainBatch /\ UNCHANGED failed
          /\ main' = IF main = "batch" THEN "source" ELSE "closing"
       \/ /\ failed' = failed \o mainBatch /\ UNCHANGED delivered
          /\ main' = "raising"
    /\ UNCHANGED <<read, buffer, dirty, watcher, watcherBatch>>

\* The end of run() cancels the watcher, also in on_batch.  The exception of a watcher that
\* has died of one comes up here.
Close ==
    /\ main \in {"closing", "raising"}
    /\ main' = IF main = "raising" \/ watcher = "dead" THEN "raised" ELSE "done"
    /\ watcher' = IF watcher = "dead" THEN watcher ELSE "cancelled"
    /\ failed' = IF watcher = "batch" THEN failed \o watcherBatch ELSE failed
    /\ watcherBatch' = <<>>
    /\ UNCHANGED <<read, buffer, dirty, mainBatch, delivered>>

WatcherSleeps ==
    /\ watcher = "wait" /\ dirty
    /\ watcher' = "sleep"
    /\ UNCHANGED <<read, buffer, dirty, main, mainBatch, watcherBatch, delivered, failed>>

\* flush(), a while after the buffer has become dirty.
WatcherFlushes ==
    /\ watcher = "sleep"
    /\ watcherBatch' = buffer /\ Take
    /\ watcher' = IF buffer = <<>> THEN "wait" ELSE "batch"
    /\ UNCHANGED <<read, main, mainBatch, delivered, failed>>

WatcherDelivers ==
    /\ watcher = "batch" /\ watcherBatch' = <<>>
    /\ \/ watcher' = "wait" /\ delivered' = delivered \o watcherBatch /\ UNCHANGED failed
       \/ watcher' = "dead" /\ failed' = failed \o watcherBatch /\ UNCHANGED delivered
    /\ UNCHANGED <<read, buffer, dirty, main, mainBatch>>

Next ==
    \/ Add \/ AddLast \/ SourceEnds \/ MainDelivers \/ Close
    \/ WatcherSleeps \/ WatcherFlushes \/ WatcherDelivers

Spec == Init /\ [][Next]_vars

-----------------------------------------------------------------------------
(* Properties.                                                             *)

\* run() and its watcher take from one buffer: every item that was read is in exactly one of
\* the buffer, a batch that is being handed on, and a batch that was.
EachItemOnce ==
    LET places == delivered \o failed \o buffer \o mainBatch \o watcherBatch
    IN  Len(places) = read /\ ToSet(places) = 1..read

\* When run() returns, on_batch has returned from everything (batch.py:11): the watcher may
\* have been cancelled in it.
NothingDropped == main = "done" => Len(delivered) = NumItems

\* What was read is not left in the buffer for more than a timeout ("flushes on size or
\* timeout triggers", batch.py:11): a watcher that was raised in is gone.
NothingWaits == main = "source" /\ dirty => watcher # "dead"
=============================================================================
