-------------------------------- MODULE Archive --------------------------------
(***************************************************************************)
(* The OMS archiver, modules/archiver.py, behind the outbound buffer of    *)
(* the module it records.  Each entry of the stream is put into an         *)
(* in-memory batch and acknowledged; the flush task writes the batch to    *)
(* the day's JSON lines file (wal) and then to the SQLite index.           *)
(*                                                                         *)
(* An entry is read from the stream once: the archiver subscribes to "*",  *)
(* and on_start replays the PEL of a stream of that name, which is empty   *)
(* (StreamDelivery).  Entries are named by their place in the stream.  The *)
(* files are external, and writing them may raise after part of the batch, *)
(* also inside a line, to which the next line written is then glued.       *)
(***************************************************************************)
EXTENDS OutboundBuffer

CONSTANT MaxLives \* bound: times the archiver is started

VARIABLES
  cursor,  \* entries of the stream read so far
  entry,   \* the entry in hand, 0 for none
  step,    \* what the subscription's task does with it: "put" or "ack"
  pel,     \* entries read and not acknowledged
  acked,   \* history: entries acknowledged
  pool,    \* _jsonl_buffer and _index_buffer, which change together
  batch,   \* what flush took from them
  flush,   \* "sleep", or the write that flush awaits: "wal" or "index"
  life,    \* "up", "closing" while close() runs, "closed", "down"
  lives,   \* times started
  wal,     \* the file of the day: the lines that hold an entry
  torn,    \* 1 if the file ends inside a line, 0 if not
  index,   \* the rows of the SQLite index
  inserted,\* rows of the open transaction of the connection
  glued,   \* history: entries written after the end of a torn line, in it
  cuts,    \* history: writes to the file that were cut short
  forgone, \* history: entries in memory when a flush failed or the process
           \* ended, or ended up in a batch whose flush was cancelled
  amiss    \* history: a flush failed, was cancelled or did not end

file     == <<wal, torn, glued, cuts>>
db       == <<index, inserted>>
disk     == <<file, db>>
archiver == <<cursor, entry, step, pel, acked, pool, batch, flush, life, lives,
              disk, forgone, amiss>>
vars == <<producer, archiver, conduct>>

Init ==
  /\ BufferInit
  /\ cursor = 0 /\ entry = 0 /\ step = "put" /\ pel = {} /\ acked = {}
  /\ pool = <<>> /\ batch = <<>> /\ flush = "sleep"
  /\ life = "up" /\ lives = 1
  /\ wal = <<>> /\ torn = 0 /\ index = <<>> /\ inserted = <<>>
  /\ glued = <<>> /\ cuts = 0
  /\ forgone = {} /\ amiss = FALSE

(* Fault: an entry is acknowledged when it is read.                        *)
ReadEntryFault ==
  /\ life # "down" /\ entry = 0 /\ cursor < Len(stream)
  /\ cursor' = cursor + 1
  /\ entry' = cursor' /\ step' = "put"
  /\ acked' = acked \cup {entry'}
  /\ UNCHANGED <<pel, pool, batch, flush, life, lives, disk, forgone, amiss>>

(* The subscription's task runs until the bus is disconnected, which is    *)
(* after close().                                                          *)
ReadEntry ==
  /\ life # "down" /\ entry = 0 /\ cursor < Len(stream)
  /\ cursor' = cursor + 1
  /\ entry' = cursor' /\ step' = "put"
  /\ pel' = pel \cup {entry'}
  /\ UNCHANGED <<acked, pool, batch, flush, life, lives, disk, forgone, amiss>>

HandleMessage ==
  /\ life # "down" /\ entry # 0 /\ step = "put"
  /\ step' = "ack" /\ pool' = Append(pool, entry)
  /\ UNCHANGED <<cursor, entry, pel, acked, batch, flush, life, lives, disk, forgone, amiss>>

Ack ==
  /\ life # "down" /\ entry # 0 /\ step = "ack"
  /\ pel' = pel \ {entry} /\ acked' = acked \cup {entry}
  /\ entry' = 0
  /\ UNCHANGED <<cursor, step, pool, batch, flush, life, lives, disk, forgone, amiss>>

-----------------------------------------------------------------------------
(* flush swaps the buffers under the lock.                                 *)
TakeBatch ==
  /\ flush = "sleep" /\ pool # <<>>
  /\ batch' = pool /\ pool' = <<>>
  /\ flush' = "wal"

FlushBegins ==
  /\ life = "up" /\ TakeBatch
  /\ UNCHANGED <<cursor, entry, step, pel, acked, life, lives, disk, forgone, amiss>>

FlushEnds == flush' = "sleep" /\ life' = IF life = "closing" THEN "closed" ELSE life

(* Fault: the index is written first.                                      *)
WriteWalFault ==
  /\ flush = "wal"
  /\ index' = index \o batch /\ flush' = "index"
  /\ UNCHANGED <<cursor, entry, step, pel, acked, pool, batch, life, lives, file,
                 inserted, forgone, amiss>>

(* The first of the lines goes into the line the file ends in, if it does. *)
WriteLines(lines) ==
  /\ glued' = glued \o SubSeq(lines, 1, torn)
  /\ wal' = wal \o SubSeq(lines, torn + 1, Len(lines))

WriteWal ==
  /\ flush = "wal"
  /\ WriteLines(batch) /\ torn' = 0 /\ flush' = "index"
  /\ UNCHANGED <<cursor, entry, step, pel, acked, pool, batch, life, lives, cuts,
                 db, forgone, amiss>>

(* The commit takes along what an earlier flush left in the transaction.   *)
Committed == (index \o inserted) \o batch

SqliteInsert ==
  /\ flush = "index"
  /\ index' = Committed /\ inserted' = <<>> /\ batch' = <<>>
  /\ FlushEnds
  /\ UNCHANGED <<cursor, entry, step, pel, acked, pool, lives, file, forgone, amiss>>

Lost == Range(pool) \cup Range(batch)

(* What is left of a batch when its flush does not end: some of the lines, *)
(* and perhaps part of the next ...                                        *)
CutFile ==
  /\ cuts' = cuts + 1
  /\ \/ torn' \in {torn, 1} /\ UNCHANGED <<wal, glued>>
     \/ \E k \in 1..Len(batch) :
          /\ WriteLines(SubSeq(batch, 1, k))
          /\ torn' \in (IF k < Len(batch) THEN {0, 1} ELSE {0})

(* ... or some of the rows, in a transaction nobody rolls back; or SQLite  *)
(* did that, or committed before the call ended.                           *)
CutIndex ==
  \/ /\ \E k \in 0..Len(batch) : inserted' = inserted \o SubSeq(batch, 1, k)
     /\ UNCHANGED index
  \/ inserted' = <<>> /\ index' \in {index, Committed}

CutShort ==
  /\ batch' = <<>>
  /\ \/ flush = "wal" /\ CutFile /\ UNCHANGED db
     \/ flush = "index" /\ CutIndex /\ UNCHANGED file
     \/ flush = "sleep" /\ UNCHANGED disk

Forgo(entries) == forgone' = forgone \cup entries /\ amiss' = (amiss \/ entries # {})

(* A write raises: the flush loop logs it and goes on with the next batch; *)
(* in close() it ends the process.                                         *)
FlushRaises ==
  /\ conduct.diskFails /\ flush # "sleep"
  /\ CutShort /\ Forgo(Range(batch)) /\ FlushEnds
  /\ UNCHANGED <<cursor, entry, step, pel, acked, pool, lives>>

-----------------------------------------------------------------------------
(* close() cancels the flush task at whatever it awaits and flushes once   *)
(* more.  The thread that was writing may come to its end all the same.    *)
Close ==
  /\ conduct.ends = "close" /\ life = "up" /\ lives < MaxLives
  /\ life' = "closing" /\ flush' = "sleep"
  /\ CutShort /\ Forgo(Range(batch))
  /\ UNCHANGED <<cursor, entry, step, pel, acked, pool, lives>>

LastFlush ==
  /\ life = "closing"
  /\ \/ TakeBatch /\ UNCHANGED life
     \/ flush = "sleep" /\ pool = <<>> /\ life' = "closed" /\ UNCHANGED <<pool, batch, flush>>
  /\ UNCHANGED <<cursor, entry, step, pel, acked, lives, disk, forgone, amiss>>

(* The process ends: what was in memory is gone; an open transaction is    *)
(* undone by the time the process starts again.                            *)
Exit ==
  /\ life = "closed" /\ life' = "down"
  /\ Forgo(Lost) /\ pool' = <<>> /\ entry' = 0
  /\ UNCHANGED <<cursor, step, pel, acked, batch, flush, lives, disk>>

Crash ==
  /\ conduct.ends = "crash" /\ life = "up" /\ lives < MaxLives
  /\ life' = "down" /\ flush' = "sleep" /\ pool' = <<>> /\ entry' = 0
  /\ CutShort /\ Forgo(Lost)
  /\ UNCHANGED <<cursor, step, pel, acked, lives>>

Restart ==
  /\ life = "down" /\ life' = "up" /\ lives' = lives + 1
  /\ inserted' = <<>>
  /\ UNCHANGED <<cursor, entry, step, pel, acked, pool, batch, flush, file, index,
                 forgone, amiss>>

SubscriptionStep == ReadEntry \/ HandleMessage \/ Ack
FlushStep == FlushBegins \/ WriteWal \/ SqliteInsert \/ FlushRaises \/ LastFlush
LifeStep  == Close \/ Exit \/ Crash \/ Restart

Next ==
  \/ ProducerStep /\ UNCHANGED <<archiver, conduct>>
  \/ (SubscriptionStep \/ FlushStep \/ LifeStep) /\ UNCHANGED <<producer, conduct>>

Spec == Init /\ [][Next]_vars

(* The event loops run their tasks, and Redis and the disk answer.         *)
FairSpec ==
  /\ Spec
  /\ WF_vars(DrainOne /\ UNCHANGED <<archiver, conduct>>)
  /\ \A m \in Messages : WF_vars(XAdd(m) /\ UNCHANGED <<archiver, conduct>>)
  /\ WF_vars(SubscriptionStep /\ UNCHANGED <<producer, conduct>>)
  /\ WF_vars(FlushStep /\ UNCHANGED <<producer, conduct>>)

-----------------------------------------------------------------------------
(* No entry is archived twice, over failed, cancelled and repeated flushes *)
(* and restarts, though rows may stay in the transaction of a failed flush *)
(* and lines may be torn.  The index names only entries the file holds     *)
(* ("WAL is the source of truth", oms_emsx_spec.md:269), but for those     *)
(* glued to a torn line, at most one for every write that was cut short;   *)
(* and it names all of them when no flush is going on and none went amiss. *)
IndexFollowsWal ==
  /\ IsInjective(wal) /\ IsInjective(index)
  /\ Range(index) \subseteq Range(wal) \cup Range(glued)
  /\ Len(glued) <= cuts
  /\ flush = "sleep" /\ ~amiss => Range(index) = Range(wal)

(* An acknowledged entry is in memory or was written to the file ("the     *)
(* in-memory buffer + WAL is the source of truth", archiver.py:8), but for *)
(* those of a flush that failed or was cancelled or of a process that      *)
(* ended.                                                                  *)
AckedIsHeld ==
  acked \subseteq Range(pool) \cup Range(batch) \cup Range(wal) \cup Range(glued)
                  \cup forgone

=============================================================================
