----------------------------- MODULE Durability -----------------------------
(***************************************************************************)
(* How tables reach the disk and come back: flush_dirty_tables_locked of   *)
(* core/database.cc, the journal of storage/wal_manager.cc and             *)
(* load_database of storage/persistence_manager.cc, with the server killed *)
(* between any two writes and any write refused by the file system.        *)
(*                                                                         *)
(* The content of a table is a version number that grows with every        *)
(* change; one statement or transaction may change several tables at once. *)
(* save_table writes a temporary file and renames it, so a staged file     *)
(* appears as a whole.  A journal record that a crash cuts short is the    *)
(* last one; it is not read back, as if it had not been appended.  An      *)
(* append that fails may leave part of its record too, and the server goes *)
(* on: later records follow the torn one.  The files survive the death of  *)
(* the process; power failure is not considered.                           *)
(***************************************************************************)
EXTENDS Integers, Sequences, SequencesExt

CONSTANTS NumTables,   \* tables are numbered in the order of tables_
          MaxVersion,  \* bound on the number of changes
          MaxJournal   \* bound on the records that a flush finds in the journal

ASSUME DurabilityAssumption ==
  NumTables \in Nat /\ MaxVersion \in Nat /\ MaxJournal \in Nat

Tables == 1 .. NumTables
Contents == 0 .. MaxVersion      \* 0 stands for no table, and for no file or
                                 \* one that load_table refuses

VARIABLES mem,        \* mem[t]: the table in memory
          dirty,      \* tables marked dirty
          clock,      \* the last version number given out
          file,       \* file[t]: t.db
          stage,      \* stage[t]: .wal_stage_t.db
          wal,        \* the records of wal.log
          pc,         \* the step of the flush or of the start-up
          staged,     \* the tables that the flush has staged
          todo,       \* those that the current step still has to treat
          committed,  \* committed[t]: content covered by the last commit
                      \* record about t (history; 0 after DROP TABLE)
          failed,     \* whether a write has ever failed (history)
          damaged     \* whether recover has misread a journal or has written a
                      \* file in part (history)

diskVars == <<file, stage, wal>>
flushVars == <<pc, staged, todo>>
historyVars == <<committed, failed, damaged>>
vars == <<mem, dirty, clock, diskVars, flushVars, historyVars>>

Blob(t, v) == [type |-> "blob", table |-> t, content |-> v, torn |-> FALSE]
CommitRecord == [type |-> "commit", table |-> 0, content |-> 0, torn |-> FALSE]
Torn(r) == [r EXCEPT !.torn = TRUE]
Whole == {Blob(t, v) : t \in Tables, v \in Contents} \cup {CommitRecord}
Records == Whole \cup {Torn(r) : r \in Whole}

TypeOK ==
  /\ mem \in [Tables -> Contents] /\ dirty \subseteq {t \in Tables : mem[t] # 0}
  /\ clock \in Contents
  /\ file \in [Tables -> Contents] /\ stage \in [Tables -> Contents]
  /\ wal \in Seq(Records)
  /\ pc \in {"idle", "stage", "append", "commit", "rename", "truncate", "recover", "load"}
  /\ staged \subseteq Tables /\ todo \subseteq Tables
  /\ committed \in [Tables -> Contents] /\ {failed, damaged} \subseteq BOOLEAN

Init ==
  /\ mem = [t \in Tables |-> 0] /\ dirty = {} /\ clock = 0
  /\ file = [t \in Tables |-> 0] /\ stage = [t \in Tables |-> 0] /\ wal = <<>>
  /\ pc = "idle" /\ staged = {} /\ todo = {}
  /\ committed = [t \in Tables |-> 0] /\ failed = FALSE /\ damaged = FALSE

-----------------------------------------------------------------------------

\* A statement, or the COMMIT of a transaction, changes or creates the tables S.
Change(S) ==
  /\ pc = "idle" /\ clock < MaxVersion
  /\ clock' = clock + 1
  /\ mem' = [t \in Tables |-> IF t \in S THEN clock' ELSE mem[t]]
  /\ dirty' = dirty \cup S
  /\ UNCHANGED <<diskVars, flushVars, historyVars>>

\* Faulty variant of DropTable: the dirty mark stays.
DropTableStillDirty(t) ==
  /\ pc = "idle" /\ mem[t] # 0
  /\ mem' = [mem EXCEPT ![t] = 0]
  /\ file' = [file EXCEPT ![t] = 0]
  /\ committed' = [committed EXCEPT ![t] = 0]
  /\ UNCHANGED <<dirty, clock, stage, wal, flushVars, failed, damaged>>

\* DROP TABLE removes the table and its file; nothing is flushed.
DropTable(t) ==
  /\ pc = "idle" /\ mem[t] # 0
  /\ mem' = [mem EXCEPT ![t] = 0]
  /\ dirty' = dirty \ {t}
  /\ file' = [file EXCEPT ![t] = 0]
  /\ committed' = [committed EXCEPT ![t] = 0]
  /\ UNCHANGED <<clock, stage, wal, flushVars, failed, damaged>>

\* flush_dirty_tables_locked, one step per write.
StartFlush ==
  /\ pc = "idle" /\ dirty # {}
  /\ Len(wal) <= MaxJournal
  /\ pc' = "stage" /\ staged' = dirty /\ todo' = dirty
  /\ UNCHANGED <<mem, dirty, clock, diskVars, historyVars>>

First == CHOOSE t \in todo : \A u \in todo : t <= u

\* The current step has treated its first table; after the last one comes next.
Advance(next) ==
  /\ IF todo = {First} THEN pc' = next /\ todo' = staged
                       ELSE pc' = pc /\ todo' = todo \ {First}
  /\ UNCHANGED staged

StageTable ==
  /\ pc = "stage"
  /\ stage' = [stage EXCEPT ![First] = mem[First]]
  /\ Advance("append")
  /\ UNCHANGED <<mem, dirty, clock, file, wal, historyVars>>

append_table_blob ==
  /\ pc = "append"
  /\ wal' = Append(wal, Blob(First, stage[First]))
  /\ Advance("commit")
  /\ UNCHANGED <<mem, dirty, clock, file, stage, historyVars>>

append_commit ==
  /\ pc = "commit"
  /\ wal' = Append(wal, CommitRecord)
  /\ pc' = "rename"
  /\ committed' = [t \in Tables |-> IF t \in staged THEN stage[t] ELSE committed[t]]
  /\ UNCHANGED <<mem, dirty, clock, file, stage, staged, todo, failed, damaged>>

RenameStaged ==
  /\ pc = "rename"
  /\ file' = [file EXCEPT ![First] = stage[First]]
  /\ stage' = [stage EXCEPT ![First] = 0]
  /\ dirty' = dirty \ {First}
  /\ Advance("truncate")
  /\ UNCHANGED <<mem, clock, wal, historyVars>>

\* The buffer pool is flushed and the journal removed.  That it cannot be
\* removed goes unnoticed, which is Fail here.
truncate ==
  /\ pc = "truncate"
  /\ wal' = <<>>
  /\ pc' = "idle" /\ staged' = {} /\ todo' = {}
  /\ UNCHANGED <<mem, dirty, clock, file, stage, historyVars>>

\* Faulty variant of Fail: the journal is cleaned up.
FailAndTruncate ==
  /\ pc \in {"stage", "append", "commit", "rename", "truncate"}
  /\ pc' = "idle" /\ staged' = {} /\ todo' = {} /\ wal' = <<>>
  /\ failed' = TRUE
  /\ UNCHANGED <<mem, dirty, clock, file, stage, committed, damaged>>

\* A write fails: the exception ends the flush where it is.  append_record may
\* have written part of its record, which stays in the journal.
Fail ==
  /\ pc \in {"stage", "append", "commit", "rename", "truncate"}
  /\ pc' = "idle" /\ staged' = {} /\ todo' = {}
  /\ \/ wal' = wal
     \/ pc = "append" /\ wal' = Append(wal, Torn(Blob(First, stage[First])))
     \/ pc = "commit" /\ wal' = Append(wal, Torn(CommitRecord))
  /\ failed' = TRUE
  /\ UNCHANGED <<mem, dirty, clock, file, stage, committed, damaged>>

-----------------------------------------------------------------------------

\* The server is killed, while it runs or while it starts.
Crash ==
  /\ pc' = "recover" /\ staged' = {} /\ todo' = {}
  /\ mem' = [t \in Tables |-> 0] /\ dirty' = {}
  /\ UNCHANGED <<clock, diskVars, historyVars>>

TornRecords == {i \in DOMAIN wal : wal[i].torn}

\* A record follows a torn one, so its bytes are read as the missing ones.
Misread == \E i \in TornRecords : i < Len(wal)

\* Of the records of wal, recover reads the ones in D as they were written and
\* the torn ones in J with the bytes of others in them: a table that load_table
\* refuses, or a commit record, whose payload no one looks at.
Reading(D, J) ==
  FlattenSeq([i \in DOMAIN wal |->
                IF i \in D THEN <<wal[i]>>
                ELSE IF i \in J THEN <<[wal[i] EXCEPT !.content = 0, !.torn = FALSE]>>
                ELSE <<>>])

\* What recover may read.  Up to the first torn record the journal is intact.
\* A torn record swallows at least the next one, and then reading goes on at
\* some later record or comes to the end of the file.
Readings ==
  LET intact == {k \in DOMAIN wal : \A i \in TornRecords : k < i}
      after == DOMAIN wal \ (intact \cup TornRecords)
      InStep(D) == \A k \in after :
                     /\ k - 1 \in TornRecords => k \notin D
                     /\ k \notin D => \E i \in TornRecords : i < k /\ (i + 1 .. k) \cap D = {}
  IN  {Reading(intact \cup D, J) : D \in {E \in SUBSET after : InStep(E)},
                                   J \in SUBSET {i \in TornRecords : i < Len(wal)}}

\* Faulty variant of Pending: the commit record is not waited for.
PendingUncommitted(records) == SelectSeq(records, LAMBDA r : r.type = "blob")

\* recover keeps the blobs of the whole journal and replays them all if there
\* is a commit record anywhere in it.
Pending(records) ==
  IF \E i \in DOMAIN records : records[i].type = "commit"
  THEN SelectSeq(records, LAMBDA r : r.type = "blob") ELSE <<>>

\* The files after the first n blobs of pending have been replayed.
Replay(pending, n) ==
  [t \in Tables |->
     LET I == {i \in 1 .. n : pending[i].table = t}
     IN  IF I = {} THEN file[t]
         ELSE pending[CHOOSE i \in I : \A j \in I : j <= i].content]

\* recover restores every file and removes the journal, or is killed after some
\* files.  It does not look whether a file was written in full (those in bad
\* were not), nor whether the journal could be removed.
recover ==
  /\ pc = "recover"
  /\ \E pending \in {Pending(records) : records \in Readings} :
       \E n \in 0 .. Len(pending) : \E bad \in SUBSET {pending[i].table : i \in 1 .. n} :
         /\ file' = [t \in Tables |-> IF t \in bad THEN 0 ELSE Replay(pending, n)[t]]
         /\ \/ /\ n > 0
               /\ failed' = (failed \/ bad # {})
               /\ UNCHANGED <<wal, pc, damaged>>
            \/ /\ n = Len(pending) /\ pc' = "load"
               /\ wal' \in {<<>>, wal}
               /\ failed' = (failed \/ bad # {} \/ wal' # <<>>)
               /\ damaged' = (damaged \/ bad # {} \/ Misread)
  /\ UNCHANGED <<mem, dirty, clock, stage, staged, todo, committed>>

\* load_database reads every *.db file, leftover staged files included; two
\* files of one table are read in the order in which the directory lists them.
Loaded(f) == {v \in {f[1], f[2]} : v # 0 \/ f[1] = f[2]}

load_from_disk ==
  /\ pc = "load"
  /\ mem' \in [Tables -> Contents]
  /\ \A t \in Tables : mem'[t] \in Loaded(<<file[t], stage[t]>>)
  /\ pc' = "idle"
  /\ UNCHANGED <<dirty, clock, diskVars, staged, todo, historyVars>>

Next ==
  \/ \E S \in SUBSET Tables \ {{}} : Change(S)
  \/ \E t \in Tables : DropTable(t)
  \/ StartFlush \/ StageTable \/ append_table_blob \/ append_commit
  \/ RenameStaged \/ truncate \/ Fail
  \/ Crash \/ recover \/ load_from_disk

Spec == Init /\ [][Next]_vars

-----------------------------------------------------------------------------

\* What a crash now, followed by a start, may load for table t.
Reload(t) ==
  UNION {Loaded(<<Replay(pending, Len(pending))[t], stage[t]>>) :
           pending \in {Pending(records) : records \in Readings}}

\* Once the commit record of a flush is in the journal, no crash and no failed
\* write at any later point brings back an older content of its tables, also
\* when the failure tore a record, up to the point where a later flush appends
\* to a torn record (append_record does not cut it off) and as long as the
\* writes of recover itself succeed (it does not look).
CommittedSurvives ==
  ~damaged /\ ~Misread => \A t \in Tables : \A v \in Reload(t) : v >= committed[t]

\* As long as no write has failed, recover leaves in the .db files exactly what
\* commit records cover: all the tables of a flush or none of them, however
\* often it is interrupted.
RecoveryExact == pc = "load" /\ ~failed => file = committed

\* Only what a commit record covers is loaded at start-up.
LoadsCommittedOnly ==
  [][pc = "load" /\ pc' = "idle" => \A t \in Tables : mem'[t] <= committed[t]]_vars
=============================================================================
