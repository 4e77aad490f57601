----------------------------- MODULE ConfigCache -----------------------------
(***************************************************************************)
(* How a process comes to know that its configuration was changed by       *)
(* another: each keeps what it last read of a table, and nobody tells it.  *)
(*                                                                         *)
(* src/services/config_versions.py (the stamp of a table), and the three   *)
(* caches over it and beside it: runtime_tunables_service.py,              *)
(* agents/prompt_templates.py and settings_store.py.  A behaviour is about *)
(* one of the three tables and about one process: the caches of two have   *)
(* nothing in common but the table, so of the other processes only their   *)
(* writes are here.  The contents of a row are the time it was written at, *)
(* zero when there is no row.  Times to live are not counted: an entry may *)
(* be out of date whenever that matters.                                   *)
(***************************************************************************)
EXTENDS Naturals, FiniteSets, FiniteSetsExt

CONSTANTS
    Tables,         \* those of "tunables", "prompts", "settings" to look at
    ConfigKeys,     \* rows of the table
    Readers,        \* places for concurrent readers of the process
    LastTick        \* bound: table -> the time of the last write

ASSUME ConfigAssumption ==
    /\ Tables \subseteq {"tunables", "prompts", "settings"}
    /\ IsFiniteSet(ConfigKeys) /\ ConfigKeys # {}
    /\ Readers \subseteq Nat
    /\ LastTick \in [Tables -> Nat]

VARIABLES
    cached,     \* which table this is about
    rows, tick, \* the table, and the time of the last write
    open,       \* writes that are flushed and not committed
    known,      \* the stamp the cache belongs to
    snap,       \* row -> what is cached of it
    reads,      \* reader -> the read under way
    owed,       \* writes of the process that are committed and not yet in its cache
    own,        \* history: the last save of the process that has returned
    late,       \* history: a write was committed after one of a later time
    ahead,      \* history: rows cached under a stamp the table had left when they
                \* were read
    mismatched  \* history: rows cached under a stamp that is not of their read

configVars == <<cached, rows, tick, open, known, snap, reads, owed, own, late, ahead, mismatched>>

NotCached == Max({LastTick[t] : t \in Tables}) + 1
NoStamp == <<0, NotCached>>
NoRead == [phase |-> "none", key |-> CHOOSE k \in ConfigKeys : TRUE, stamp |-> NoStamp,
           got |-> [k \in ConfigKeys |-> 0], torn |-> FALSE]

\* Mutant: the latest time alone.
StampOfLatest(t) == <<0, Max({t[k] : k \in ConfigKeys})>>

\* table_version_stamp: the number of rows and the latest time.
StampOf(t) == <<Cardinality({k \in ConfigKeys : t[k] # 0}), Max({t[k] : k \in ConfigKeys})>>

ConfigInit ==
    /\ cached \in Tables
    /\ rows = [k \in ConfigKeys |-> IF k = NoRead.key THEN 1 ELSE 0]
    /\ tick = 1
    /\ open = {} /\ owed = {} /\ late = FALSE /\ ahead = {} /\ mismatched = {}
    /\ known = NoStamp
    /\ snap = [k \in ConfigKeys |-> IF cached = "tunables" THEN 0 ELSE NotCached]
    /\ reads = [r \in Readers |-> NoRead]
    /\ own = 0

LockFree == \A r \in Readers : reads[r] = NoRead

----------------------------------------------------------------------------
(* Writes.  The time of a row is taken when it is flushed.                 *)

Flush(here, k) ==
    /\ cached # "settings" /\ tick < LastTick[cached]
    /\ \A w \in open : w.key # k
    /\ open' = open \cup {[here |-> here, key |-> k, at |-> tick + 1]}
    /\ tick' = tick + 1
    /\ UNCHANGED <<cached, rows, known, snap, reads, owed, own, late, ahead, mismatched>>

CommitWrite(w) ==
    /\ open' = open \ {w}
    /\ rows' = [rows EXCEPT ![w.key] = w.at]
    /\ late' = (late \/ w.at < Max({rows[k] : k \in ConfigKeys}))
    /\ owed' = IF w.here THEN owed \cup {[key |-> w.key, at |-> w.at]} ELSE owed
    /\ UNCHANGED <<cached, tick, known, snap, reads, own, ahead, mismatched>>

\* Rows are dropped, or are under no stamp.
Unmarked(ks) == ahead' = ahead \ ks /\ mismatched' = mismatched \ ks

\* The coroutine that wrote goes on.  update_values: the snapshot takes the value
\* and forgets its stamp; update_prompt_template and delete_prompt_template: the
\* entry is dropped.
WriterReturns(w) ==
    /\ cached # "settings"
    /\ owed' = owed \ {w}
    /\ known' = IF cached = "tunables" THEN NoStamp ELSE known
    /\ snap' = [snap EXCEPT ![w.key] = IF cached = "tunables" THEN w.at ELSE NotCached]
    /\ Unmarked(IF cached = "tunables" THEN ConfigKeys ELSE {w.key})
    /\ UNCHANGED <<cached, rows, tick, open, reads, own, late>>

RollBackWrite(w) ==
    /\ open' = open \ {w}
    /\ UNCHANGED <<cached, rows, tick, known, snap, reads, owed, own, late, ahead, mismatched>>

\* delete_prompt_template; a row of the tunables is deleted by hand.  The count
\* and the latest time may be again what they were when the process last looked:
\* what it has read since then is then under the table's stamp.
DeleteRow(here, k) ==
    LET back == known = StampOf([rows EXCEPT ![k] = 0]) IN
    /\ cached # "settings" /\ rows[k] # 0
    /\ \A w \in open : w.key # k
    /\ rows' = [rows EXCEPT ![k] = 0]
    /\ owed' = IF here /\ cached = "prompts" THEN owed \cup {[key |-> k, at |-> 0]} ELSE owed
    /\ ahead' = IF back THEN {} ELSE ahead
    /\ mismatched' = IF back THEN mismatched \cup ahead ELSE mismatched
    /\ UNCHANGED <<cached, tick, open, known, snap, reads, own, late>>

\* save_settings commits, and then clears the cache when it has its lock.
Save(here, k) ==
    /\ cached = "settings" /\ k = NoRead.key /\ tick < LastTick[cached]
    /\ tick' = tick + 1
    /\ rows' = [rows EXCEPT ![k] = tick + 1]
    /\ owed' = IF here THEN owed \cup {[key |-> k, at |-> tick + 1]} ELSE owed
    /\ UNCHANGED <<cached, open, known, snap, reads, own, late, ahead, mismatched>>

\* Mutant: nobody waits for the lock.
ClearAtOnce(w) ==
    /\ owed' = owed \ {w}
    /\ snap' = [snap EXCEPT ![w.key] = NotCached]
    /\ own' = Max({own, w.at})
    /\ UNCHANGED <<cached, rows, tick, open, known, reads, late, ahead, mismatched>>

ClearSettings(w) == cached = "settings" /\ LockFree /\ ClearAtOnce(w)

----------------------------------------------------------------------------
(* Reads.  The tunables and the settings are read under a lock of the      *)
(* process, the prompts are not.                                           *)

Reading(r, read) == reads' = [reads EXCEPT ![r] = read]

\* A reader takes the first place there is.
Free(r) == reads[r] = NoRead /\ \A q \in Readers : q < r => reads[q] # NoRead

Started(r, k) ==
    Free(r) /\
    Reading(r, [NoRead EXCEPT !.phase = "stamped", !.key = k, !.stamp = StampOf(rows)])

\* ensure_fresh up to the answer about the stamp: nothing follows when it is
\* the known one.
CheckTunables(r) ==
    /\ cached = "tunables" /\ LockFree
    /\ known # StampOf(rows)
    /\ Started(r, NoRead.key)
    /\ UNCHANGED <<cached, rows, tick, open, known, snap, owed, own, late, ahead, mismatched>>

\* load_settings, when nothing is cached.
CheckSettings(r) ==
    /\ cached = "settings" /\ LockFree
    /\ snap[NoRead.key] = NotCached
    /\ Started(r, NoRead.key)
    /\ UNCHANGED <<cached, rows, tick, open, known, snap, owed, own, late, ahead, mismatched>>

\* load_prompt_template: another stamp empties the cache and is the known one
\* from here on, before the text is read.
CheckPrompts(r, k) ==
    /\ cached = "prompts"
    /\ known = StampOf(rows) => snap[k] = NotCached
    /\ Started(r, k)
    /\ known' = StampOf(rows)
    /\ snap' = IF known = StampOf(rows) THEN snap ELSE [c \in ConfigKeys |-> NotCached]
    /\ Unmarked(IF known = StampOf(rows) THEN {} ELSE ConfigKeys)
    /\ UNCHANGED <<cached, rows, tick, open, owed, own, late>>

\* load_prompt_template when the stamp cannot be had: what is in the cache and
\* not out of date is taken, else the table is read all the same.
ReadUnstamped(r, k) ==
    /\ cached = "prompts" /\ Free(r)
    /\ Reading(r, [NoRead EXCEPT !.phase = "stamped", !.key = k, !.stamp = known])
    /\ snap' = [snap EXCEPT ![k] = NotCached]
    /\ Unmarked({k})
    /\ UNCHANGED <<cached, rows, tick, open, known, owed, own, late>>

\* The second query; a prompt that is not there is an error.
FetchRows(r) ==
    LET read == reads[r]
        taken == [k \in ConfigKeys |-> IF cached = "tunables" \/ k = read.key THEN rows[k] ELSE 0]
    IN
    /\ read.phase = "stamped"
    /\ Reading(r, IF cached = "prompts" /\ rows[read.key] = 0 THEN NoRead
                  ELSE [read EXCEPT !.phase = "fetched", !.got = taken,
                                    !.torn = read.stamp # StampOf(rows)])
    /\ UNCHANGED <<cached, rows, tick, open, known, snap, owed, own, late, ahead, mismatched>>

\* What was read is cached.  It may be newer than the stamp it is cached under,
\* and in the prompts that stamp may be of another load of the process.
Install(r) ==
    LET read == reads[r]
        taken == IF cached = "tunables" THEN ConfigKeys ELSE {read.key}
        stamp == IF cached = "tunables" THEN read.stamp ELSE known
        wrong == read.stamp # stamp \/ (read.torn /\ stamp = StampOf(rows))
    IN
    /\ read.phase = "fetched"
    /\ known' = stamp
    /\ snap' = IF cached = "tunables" THEN read.got
               ELSE [snap EXCEPT ![read.key] = read.got[read.key]]
    /\ ahead' = (ahead \ taken) \cup (IF read.torn /\ ~wrong THEN taken ELSE {})
    /\ mismatched' = (mismatched \ taken) \cup (IF wrong THEN taken ELSE {})
    /\ Reading(r, NoRead)
    /\ UNCHANGED <<cached, rows, tick, open, owed, own, late>>

\* A timeout or an error of the database: the snapshot stays as it is.
GiveUpRead(r) ==
    /\ reads[r] # NoRead
    /\ Reading(r, NoRead)
    /\ UNCHANGED <<cached, rows, tick, open, known, snap, owed, own, late, ahead, mismatched>>

\* An entry is out of date, or there are too many.
Expire(k) ==
    /\ cached # "tunables" /\ snap[k] # NotCached
    /\ snap' = [snap EXCEPT ![k] = NotCached]
    /\ Unmarked({k})
    /\ UNCHANGED <<cached, rows, tick, open, known, reads, owed, own, late>>

ConfigNext ==
    \/ \E here \in BOOLEAN, k \in ConfigKeys : Flush(here, k) \/ DeleteRow(here, k) \/ Save(here, k)
    \/ \E w \in open : CommitWrite(w) \/ RollBackWrite(w)
    \/ \E w \in owed : WriterReturns(w) \/ ClearSettings(w)
    \/ \E r \in Readers, k \in ConfigKeys : CheckPrompts(r, k) \/ ReadUnstamped(r, k)
    \/ \E r \in Readers : CheckTunables(r) \/ CheckSettings(r) \/ FetchRows(r) \/ Install(r) \/ GiveUpRead(r)
    \/ \E k \in ConfigKeys : Expire(k)

ConfigSpec == ConfigInit /\ [][ConfigNext]_configVars

----------------------------------------------------------------------------
(* Properties.                                                             *)

\* "When the table has changed the stamp has" (table_version_stamp): a process
\* whose stamp is the table's has the table's contents, whoever wrote or deleted
\* rows, and although rows may change between the query of the stamp and theirs.
\* Two things that this leaves out by name are real and last until the next
\* change of the table.  A commit that comes after one of a later time leaves the
\* stamp as it was (late).  A prompt is cached under a stamp that is not of its
\* read (mismatched): another load of the process has moved the stamp meanwhile and
\* the old text stands under the new one; or a row was read ahead of the stamp,
\* and a deletion then brought the stamp back.  The other rows are not affected.
StampTellsContents ==
    ~late /\ cached # "settings" /\ known = StampOf(rows) =>
        \A k \in ConfigKeys \ mismatched :
            snap[k] = rows[k] \/ (cached = "prompts" /\ snap[k] = NotCached)

\* Once save_settings has returned no load of its process answers with
\* anything older.
SavedSettingsAreSeen ==
    cached = "settings" => snap[NoRead.key] = NotCached \/ snap[NoRead.key] >= own

\* What a process has cached is what it may answer with.
CachesAreCurrent == StampTellsContents /\ SavedSettingsAreSeen
=============================================================================
