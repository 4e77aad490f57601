--------------------------- MODULE ConfigCache_proofs ---------------------------
(***************************************************************************)
(* Proofs about ConfigCache: what a process has cached is what it may      *)
(* answer with, for any number of rows, readers and writes.                *)
(*                                                                         *)
(* That equal stamps mean equal contents is a fact about the history of    *)
(* the table, of which the process keeps nothing but two numbers.  The     *)
(* invariant therefore speaks of a set of tables that the table has been,  *)
(* with the present one among them (Past): of each it says what is left of *)
(* it as long as its latest row is there (Earlier), and cache and reads    *)
(* under way are copies of members of the set.                             *)
(***************************************************************************)
EXTENDS ConfigCache, FiniteSetTheorems, WellFoundedInduction, TLAPS

Contents == [ConfigKeys -> Nat]
OpenWrites == [here : BOOLEAN, key : ConfigKeys, at : Nat]
OwedReturns == [key : ConfigKeys, at : Nat]
ReadsUnderWay ==
    [phase : {"none", "stamped", "fetched"}, key : ConfigKeys, stamp : Nat \X Nat,
     got : Contents, torn : BOOLEAN]

ConfigTypes ==
    /\ cached \in Tables
    /\ rows \in Contents /\ tick \in Nat
    /\ open \subseteq OpenWrites
    /\ known \in Nat \X Nat
    /\ snap \in Contents
    /\ reads \in [Readers -> ReadsUnderWay]
    /\ owed \subseteq OwedReturns
    /\ own \in Nat
    /\ late \in BOOLEAN
    /\ ahead \subseteq ConfigKeys /\ mismatched \subseteq ConfigKeys

\* No two writes have a time in common, and none comes from the future.
Times ==
    /\ \A k \in ConfigKeys : rows[k] <= tick
    /\ \A w \in open : w.at # 0 /\ w.at <= tick /\ \A k \in ConfigKeys : rows[k] # w.at
    /\ \A v, w \in open : v.at = w.at => v = w

TopOf(t) == Max({t[k] : k \in ConfigKeys})

\* The table has been t.  While its latest row is there no row was written and
\* is still there that is not later.
Earlier(t) ==
    /\ \A k \in ConfigKeys : t[k] <= tick
    /\ \A w \in open : \A k \in ConfigKeys : t[k] # w.at
    /\ (\E j \in ConfigKeys : rows[j] = TopOf(t)) =>
           \A k \in ConfigKeys : rows[k] <= TopOf(t) => rows[k] = 0 \/ rows[k] = t[k]

PastRows(past) ==
    /\ past \subseteq Contents
    /\ rows \in past
    /\ \A t \in past : Earlier(t)
    /\ \A t, u \in past : StampOf(t) = StampOf(u) => t = u

\* What is cached of t, under its stamp, but for the rows that are told apart.
CopyOf(t) ==
    /\ known = StampOf(t)
    /\ \A k \in ConfigKeys \ (mismatched \cup ahead) :
           snap[k] = t[k] \/ (cached = "prompts" /\ snap[k] = NotCached)

ReadOf(read, t) ==
    /\ read.stamp = StampOf(t)
    /\ read.got[read.key] = t[read.key]
    /\ cached = "tunables" => read.got = t

Seen(past, stamp) == stamp = NoStamp \/ \E t \in past : stamp = StampOf(t)

\* What was read ahead of the stamp is not yet under the table's.
AheadOfStamp == ahead # {} => known # StampOf(rows)

PastCopies(past) ==
    /\ known = NoStamp \/ \E t \in past : CopyOf(t)
    /\ AheadOfStamp
    /\ \A r \in Readers :
           /\ reads[r].phase = "fetched" /\ ~reads[r].torn => \E t \in past : ReadOf(reads[r], t)
           /\ Seen(past, reads[r].stamp)

Past == \E past \in SUBSET Contents : PastRows(past) /\ PastCopies(past)

History == ~late /\ cached # "settings" => Past

\* The settings are saved at once.
ByTable == cached = "settings" => open = {}

OnTheWay ==
    cached = "settings" =>
        /\ own <= rows[NoRead.key]
        /\ \A w \in owed : w.key = NoRead.key /\ w.at <= rows[NoRead.key]
        /\ \A r \in Readers :
               reads[r].key = NoRead.key /\ (reads[r].phase = "fetched" => own <= reads[r].got[NoRead.key])

ConfigInv ==
    ConfigTypes /\ Times /\ ByTable /\ History /\ OnTheWay /\ SavedSettingsAreSeen

-----------------------------------------------------------------------------
(* Greatest numbers of bounded sets.                                       *)

LEMMA LessThanPair ==
    ASSUME NEW y \in Nat, NEW x \in Nat, y < x
    PROVE  <<y, x>> \in OpToRel(<, Nat)
  <1> DEFINE p == <<y, x>>
  <1>1. p \in Nat \X Nat /\ p[1] = y /\ p[2] = x
    OBVIOUS
  <1>2. p[1] < p[2]
    BY <1>1
  <1> HIDE DEF p
  <1>3. p \in OpToRel(<, Nat)
    BY <1>1, <1>2, Zenon DEF OpToRel
  <1> QED
    BY <1>3 DEF p

LEMMA LeastOf ==
    ASSUME NEW S, S \subseteq Nat, S # {}
    PROVE  \E x \in S : \A y \in S : x <= y
  <1>1. PICK x \in S : \A y \in S : ~ (<<y, x>> \in OpToRel(<, Nat))
    BY NatLessThanWellFounded, WFMin, Zenon
  <1>2. ASSUME NEW y \in S
        PROVE  x <= y
    <2>1. x \in Nat /\ y \in Nat
      OBVIOUS
    <2>2. ~ (y < x)
      BY <1>1, <2>1, LessThanPair, Zenon
    <2> QED BY <2>1, <2>2
  <1> QED BY <1>2

LEMMA GreatestOf ==
    ASSUME NEW S, S \subseteq Nat, S # {}, NEW n \in Nat, \A x \in S : x <= n
    PROVE  \E m \in S : \A x \in S : x <= m
  <1> DEFINE T == {n - x : x \in S}
  <1>1. T \subseteq Nat /\ T # {}
    <2>1. ASSUME NEW x \in S PROVE n - x \in Nat
      <3>1. x \in Nat /\ x <= n
        OBVIOUS
      <3> QED BY <3>1
    <2> QED BY <2>1
  <1>2. PICK d \in T : \A y \in T : d <= y
    <2> HIDE DEF T
    <2> QED BY <1>1, LeastOf
  <1>3. PICK m \in S : d = n - m
    OBVIOUS
  <1>4. ASSUME NEW x \in S
        PROVE  x <= m
    <2>1. n - x \in T
      OBVIOUS
    <2>2. n - m <= n - x
      BY <1>2, <1>3, <2>1
    <2>3. x \in Nat /\ m \in Nat
      OBVIOUS
    <2> QED BY <2>2, <2>3
  <1> QED BY <1>4

LEMMA MaxOf ==
    ASSUME NEW S, S \subseteq Nat, S # {}, NEW n \in Nat, \A x \in S : x <= n
    PROVE  Max(S) \in S /\ \A x \in S : x <= Max(S)
  <1>1. \E m \in S : \A x \in S : m >= x
    <2>1. PICK m \in S : \A x \in S : x <= m
      BY GreatestOf
    <2>2. \A x \in S : m >= x
      BY <2>1
    <2> QED BY <2>2
  <1>2. Max(S) \in S /\ \A x \in S : Max(S) >= x
    BY <1>1 DEF Max
  <1> QED BY <1>2

-----------------------------------------------------------------------------
(* Stamps.                                                                 *)

LEMMA NotCachedIsTime ==
    ASSUME Tables # {}
    PROVE  NotCached \in Nat \ {0}
  <1> DEFINE S == {LastTick[t] : t \in Tables}
             up(s) == IF s \in Tables THEN LastTick[s] ELSE 0
             n == up("tunables") + up("prompts") + up("settings")
  <1>0. ASSUME NEW s PROVE up(s) \in Nat
    BY ConfigAssumption
  <1>1. S \subseteq Nat /\ S # {}
    BY ConfigAssumption
  <1>2. \A x \in S : x <= n
    <2>1. ASSUME NEW t \in Tables PROVE LastTick[t] <= n
      <3>1. t \in {"tunables", "prompts", "settings"} /\ up(t) = LastTick[t]
        BY ConfigAssumption
      <3> HIDE DEF up
      <3> QED BY <1>0, <3>1
    <2> QED BY <2>1
  <1>3. n \in Nat
    <2> HIDE DEF up
    <2> QED BY <1>0
  <1> HIDE DEF n
  <1>4. Max(S) \in Nat
    <2> HIDE DEF S
    <2> QED BY <1>1, <1>2, <1>3, MaxOf
  <1> QED BY <1>4 DEF NotCached

LEMMA NoReadType ==
    ASSUME Tables # {}
    PROVE  /\ NoRead \in ReadsUnderWay
           /\ NoRead.phase = "none" /\ NoRead.key \in ConfigKeys
           /\ NoStamp \in Nat \X Nat
  <1>1. (CHOOSE k \in ConfigKeys : TRUE) \in ConfigKeys
    BY ConfigAssumption
  <1>2. NoStamp \in Nat \X Nat
    BY NotCachedIsTime DEF NoStamp
  <1> QED BY <1>1, <1>2 DEF NoRead, ReadsUnderWay, Contents

\* The latest time of a table is that of one of its rows.
LEMMA TopIsThere ==
    ASSUME NEW t \in Contents, NEW n \in Nat, \A k \in ConfigKeys : t[k] <= n
    PROVE  /\ TopOf(t) \in Nat
           /\ \A k \in ConfigKeys : t[k] <= TopOf(t)
           /\ \E j \in ConfigKeys : t[j] = TopOf(t)
  <1> DEFINE S == {t[k] : k \in ConfigKeys}
  <1>1. S \subseteq Nat /\ S # {} /\ \A x \in S : x <= n
    BY ConfigAssumption DEF Contents
  <1>2. Max(S) \in S /\ \A x \in S : x <= Max(S)
    <2> HIDE DEF S
    <2> QED BY <1>1, MaxOf
  <1>3. TopOf(t) = Max(S)
    BY DEF TopOf
  <1> HIDE DEF TopOf
  <1>4. TopOf(t) \in S /\ \A k \in ConfigKeys : t[k] <= TopOf(t)
    BY <1>2, <1>3
  <1> QED BY <1>1, <1>4

LEMMA StampParts ==
    ASSUME NEW t, NEW u, StampOf(t) = StampOf(u)
    PROVE  /\ Cardinality({k \in ConfigKeys : t[k] # 0}) = Cardinality({k \in ConfigKeys : u[k] # 0})
           /\ TopOf(t) = TopOf(u)
  BY DEF StampOf, TopOf

LEMMA StampType ==
    ASSUME NEW t \in Contents, NEW n \in Nat, \A k \in ConfigKeys : t[k] <= n
    PROVE  StampOf(t) \in Nat \X Nat
  <1> DEFINE S == {k \in ConfigKeys : t[k] # 0}
  <1>1. Cardinality(S) \in Nat
    <2>1. IsFiniteSet(S)
      BY ConfigAssumption, FS_Subset
    <2> HIDE DEF S
    <2> QED BY <2>1, FS_CardinalityType
  <1> QED BY <1>1, TopIsThere DEF StampOf, TopOf

\* No table has the stamp that stands for none.
LEMMA NoTableNoStamp ==
    ASSUME Tables # {}, NEW t \in Contents, NEW n \in Nat, \A k \in ConfigKeys : t[k] <= n
    PROVE  StampOf(t) # NoStamp
  <1> SUFFICES ASSUME StampOf(t) = NoStamp PROVE FALSE
    OBVIOUS
  <1> DEFINE S == {k \in ConfigKeys : t[k] # 0}
  <1>1. Cardinality(S) = 0 /\ TopOf(t) = NotCached
    BY DEF StampOf, NoStamp, TopOf
  <1>2. IsFiniteSet(S)
    BY ConfigAssumption, FS_Subset
  <1>3. S = {}
    <2> HIDE DEF S
    <2> QED BY <1>1, <1>2, FS_EmptySet
  <1>4. TopOf(t) = 0
    BY <1>3, TopIsThere
  <1> QED BY <1>1, <1>4, NotCachedIsTime

\* Two numbers tell a table from what became of it: a table u of the same stamp
\* as t, of which nothing is left but rows of t, is t.
LEMMA SameStamp ==
    ASSUME NEW t \in Contents, NEW u \in Contents, NEW n \in Nat,
           \A k \in ConfigKeys : t[k] <= n /\ u[k] <= n,
           StampOf(t) = StampOf(u),
           (\E j \in ConfigKeys : u[j] = TopOf(t)) =>
               \A k \in ConfigKeys : u[k] <= TopOf(t) => u[k] = 0 \/ u[k] = t[k]
    PROVE  t = u
  <1> DEFINE S(x) == {k \in ConfigKeys : x[k] # 0}
  <1>1. \A k \in ConfigKeys : u[k] = 0 \/ u[k] = t[k]
    <2>1. (\E j \in ConfigKeys : u[j] = TopOf(t)) /\ \A k \in ConfigKeys : u[k] <= TopOf(t)
      BY TopIsThere, StampParts
    <2> QED BY <2>1
  <1>2. IsFiniteSet(S(t)) /\ S(u) \subseteq S(t)
    BY <1>1, ConfigAssumption, FS_Subset
  <1>3. Cardinality(S(t)) = Cardinality(S(u))
    BY StampParts
  <1>4. S(t) = S(u)
    <2> HIDE DEF S
    <2> QED BY <1>2, <1>3, FS_Subset
  <1>5. \A k \in ConfigKeys : t[k] = u[k]
    BY <1>1, <1>4
  <1> QED BY <1>5 DEF Contents

-----------------------------------------------------------------------------
(* What the table has been.                                                *)

LEMMA WithPresent ==
    ASSUME ConfigTypes, ConfigTypes', Times', NEW past, PastRows(past), \A t \in past : Earlier(t)'
    PROVE  \E more : past \subseteq more /\ PastRows(more)'
  <1>1. PICK new : new = rows'
    OBVIOUS
  <1> DEFINE more == past \cup {new}
  <1>2. more \subseteq Contents /\ new \in Contents /\ past \subseteq Contents /\ tick' \in Nat
    BY <1>1 DEF PastRows, ConfigTypes
  <1>3. Earlier(new)'
    BY <1>1 DEF Earlier, Times
  <1>4. ASSUME NEW t \in past, StampOf(t) = StampOf(new)
        PROVE  t = new
    <2>1. Earlier(t)' /\ t \in Contents
      BY <1>2
    <2>2. \A k \in ConfigKeys : t[k] <= tick' /\ new[k] <= tick'
      BY <2>1, <1>3 DEF Earlier
    <2>3. (\E j \in ConfigKeys : new[j] = TopOf(t)) =>
               \A k \in ConfigKeys : new[k] <= TopOf(t) => new[k] = 0 \/ new[k] = t[k]
      BY <2>1, <1>1 DEF Earlier
    <2> QED BY <1>2, <1>4, <2>1, <2>2, <2>3, SameStamp
  <1>5. \A t, u \in more : StampOf(t) = StampOf(u) => t = u
    BY <1>4 DEF PastRows
  <1>6. PastRows(more)'
    <2>1. rows' \in more /\ \A t \in more : Earlier(t)'
      BY <1>1, <1>3
    <2>2. more \subseteq Contents
      BY <1>2
    <2> HIDE DEF more
    <2> QED BY <2>1, <2>2, <1>5 DEF PastRows, StampOf
  <1> QED BY <1>6

LEMMA TypedPast ==
    ASSUME ConfigTypes, NEW past, PastRows(past), NEW t \in past
    PROVE  /\ t \in Contents /\ tick \in Nat /\ \A k \in ConfigKeys : t[k] <= tick
           /\ TopOf(t) \in Nat /\ \E j \in ConfigKeys : t[j] = TopOf(t)
  <1>1. t \in Contents /\ tick \in Nat /\ \A k \in ConfigKeys : t[k] <= tick
    BY DEF PastRows, ConfigTypes, Earlier
  <1> QED BY <1>1, TopIsThere

LEMMA CommitKeepsEarlier ==
    ASSUME ConfigTypes, Times, NEW past, PastRows(past), NEW t \in past,
           NEW w \in open, CommitWrite(w), ~late'
    PROVE  Earlier(t)'
  <1>1. Earlier(t) /\ t \in Contents
    BY DEF PastRows
  <1>2. w \in OpenWrites /\ w.key \in ConfigKeys /\ w.at \in Nat
    BY DEF ConfigTypes, OpenWrites
  <1>3. rows \in Contents /\ tick \in Nat /\ \A k \in ConfigKeys : rows[k] <= tick
    BY DEF ConfigTypes, Times
  <1>4. ~(w.at < TopOf(rows)) /\ rows' = [rows EXCEPT ![w.key] = w.at]
        /\ open' = open \ {w} /\ tick' = tick
    BY DEF CommitWrite, TopOf
  <1>5. TopOf(rows) \in Nat /\ \A k \in ConfigKeys : rows[k] <= TopOf(rows)
    BY <1>3, TopIsThere
  <1>6. rows'[w.key] = w.at /\ \A k \in ConfigKeys : k # w.key => rows'[k] = rows[k]
    BY <1>2, <1>3, <1>4 DEF Contents
  <1>7. TopOf(t) \in Nat /\ TopOf(t) # w.at
    BY <1>1, TypedPast DEF Earlier
  <1>8. ASSUME NEW j \in ConfigKeys, rows'[j] = TopOf(t),
               NEW k \in ConfigKeys, rows'[k] <= TopOf(t)
        PROVE  rows'[k] = 0 \/ rows'[k] = t[k]
    <2>1. rows[j] = TopOf(t)
      BY <1>6, <1>7, <1>8
    <2>2. w.at > TopOf(t)
      BY <2>1, <1>2, <1>4, <1>5, <1>7
    <2>3. rows'[k] = rows[k]
      BY <2>2, <1>2, <1>6, <1>7, <1>8
    <2> QED BY <1>1, <1>8, <2>1, <2>3 DEF Earlier
  <1> QED BY <1>1, <1>4, <1>8 DEF Earlier, TopOf

LEMMA DeleteKeepsEarlier ==
    ASSUME ConfigTypes, Times, NEW past, PastRows(past), NEW t \in past,
           NEW here, NEW d \in ConfigKeys, DeleteRow(here, d)
    PROVE  Earlier(t)'
  <1>1. Earlier(t) /\ t \in Contents /\ rows \in Contents
    BY DEF PastRows, ConfigTypes
  <1>2. rows' = [rows EXCEPT ![d] = 0] /\ open' = open /\ tick' = tick
    BY DEF DeleteRow
  <1>3. rows'[d] = 0 /\ \A k \in ConfigKeys : k # d => rows'[k] = rows[k]
    BY <1>1, <1>2 DEF Contents
  <1>4. TopOf(t) \in Nat /\ \A k \in ConfigKeys : rows[k] \in Nat
    BY <1>1, TypedPast DEF Contents
  <1>5. ASSUME NEW j \in ConfigKeys, rows'[j] = TopOf(t),
               NEW k \in ConfigKeys, rows'[k] <= TopOf(t)
        PROVE  rows'[k] = 0 \/ rows'[k] = t[k]
    <2>1. CASE TopOf(t) = 0
      BY <2>1, <1>3, <1>4, <1>5
    <2>2. CASE TopOf(t) # 0 /\ k # d
      <3>1. rows[j] = TopOf(t) /\ rows'[k] = rows[k]
        BY <2>2, <1>3, <1>5
      <3> QED BY <3>1, <1>1, <1>5 DEF Earlier
    <2>3. CASE k = d
      BY <2>3, <1>3
    <2> QED BY <2>1, <2>2, <2>3
  <1> QED BY <1>1, <1>2, <1>5 DEF Earlier, TopOf

LEMMA FlushKeepsEarlier ==
    ASSUME ConfigTypes, Times, NEW past, PastRows(past), NEW t \in past,
           NEW here, NEW f \in ConfigKeys, Flush(here, f)
    PROVE  Earlier(t)'
  <1>1. Earlier(t) /\ t \in Contents /\ tick \in Nat
    BY DEF PastRows, ConfigTypes
  <1>2. rows' = rows /\ open' = open \cup {[here |-> here, key |-> f, at |-> tick + 1]}
        /\ tick' = tick + 1
    BY DEF Flush
  <1>3. \A k \in ConfigKeys : t[k] \in Nat /\ t[k] <= tick
    BY <1>1 DEF Contents, Earlier
  <1>4. ASSUME NEW w \in open', NEW k \in ConfigKeys
        PROVE  t[k] # w.at
    <2>1. CASE w \in open
      BY <2>1, <1>1 DEF Earlier
    <2>2. CASE w = [here |-> here, key |-> f, at |-> tick + 1]
      BY <2>2, <1>1, <1>3
    <2> QED BY <1>2, <2>1, <2>2
  <1>5. \A k \in ConfigKeys : t[k] <= tick'
    BY <1>1, <1>2, <1>3
  <1> QED BY <1>1, <1>2, <1>4, <1>5 DEF Earlier, TopOf

LEMMA RestKeepsEarlier ==
    ASSUME NEW past, PastRows(past), NEW t \in past,
           rows' = rows, open' \subseteq open, tick' = tick
    PROVE  Earlier(t)'
  BY DEF PastRows, Earlier, TopOf

\* The past of a table of which nothing is written.
LEMMA SamePast ==
    ASSUME NEW past, PastRows(past), rows' = rows, open' \subseteq open, tick' = tick
    PROVE  PastRows(past)'
  <1>1. \A t \in past : Earlier(t)'
    BY RestKeepsEarlier
  <1> QED BY <1>1 DEF PastRows, StampOf

-----------------------------------------------------------------------------
(* What is copied of it.                                                   *)

LEMMA PresentStamp ==
    ASSUME ConfigTypes, Times
    PROVE  StampOf(rows) \in Nat \X Nat
  <1>1. rows \in Contents /\ tick \in Nat /\ \A k \in ConfigKeys : rows[k] <= tick
    BY DEF ConfigTypes, Times
  <1> QED BY <1>1, StampType

ReadOfStamp(k, stamp) == [NoRead EXCEPT !.phase = "stamped", !.key = k, !.stamp = stamp]

LEMMA StampedRead ==
    ASSUME Tables # {}, NEW k \in ConfigKeys, NEW stamp \in Nat \X Nat
    PROVE  /\ ReadOfStamp(k, stamp) \in ReadsUnderWay
           /\ ReadOfStamp(k, stamp).key = k
           /\ ReadOfStamp(k, stamp).phase = "stamped"
           /\ ReadOfStamp(k, stamp).stamp = stamp
  <1>1. PICK none : none = NoRead
    OBVIOUS
  <1>2. none \in ReadsUnderWay
    BY <1>1, NoReadType
  <1>3. PICK read : read = [none EXCEPT !.phase = "stamped", !.key = k, !.stamp = stamp]
    OBVIOUS
  <1>4. read \in ReadsUnderWay /\ read.key = k /\ read.phase = "stamped" /\ read.stamp = stamp
    BY <1>2, <1>3 DEF ReadsUnderWay
  <1>5. ReadOfStamp(k, stamp) = read
    BY <1>1, <1>3 DEF ReadOfStamp
  <1> QED BY <1>4, <1>5

\* Rows stay as they are cached or are dropped.
SnapStays ==
    \A k \in ConfigKeys :
        \/ cached = "prompts" /\ snap'[k] = NotCached
        \/ snap'[k] = snap[k] /\ (k \in mismatched \cup ahead => k \in mismatched' \cup ahead')

LEMMA CopiesStay ==
    ASSUME ConfigTypes, NEW past, PastCopies(past), NEW more, past \subseteq more,
           cached' = cached, AheadOfStamp',
           known' = known \/ known' = NoStamp,
           known' = NoStamp \/ SnapStays,
           \A r \in Readers :
               \/ reads'[r] = reads[r]
               \/ reads'[r].phase # "fetched" /\ Seen(more, reads'[r].stamp)
    PROVE  PastCopies(more)'
  <1>1. known' = NoStamp \/ \E t \in more : CopyOf(t)'
    <2>1. CASE known' = NoStamp
      BY <2>1
    <2>2. CASE known' # NoStamp
      <3>1. PICK t \in past : CopyOf(t)
        BY <2>2 DEF PastCopies
      <3>2. CopyOf(t)'
        <4>1. \A k \in ConfigKeys \ (mismatched' \cup ahead') :
                  snap'[k] = t[k] \/ (cached = "prompts" /\ snap'[k] = NotCached)
          BY <2>2, <3>1 DEF CopyOf, SnapStays
        <4> QED BY <2>2, <3>1, <4>1 DEF CopyOf, StampOf, NotCached
      <3> QED BY <3>1, <3>2
    <2> QED BY <2>1, <2>2
  <1>2. ASSUME NEW r \in Readers, reads'[r].phase = "fetched" /\ ~reads'[r].torn
        PROVE  \E t \in more : ReadOf(reads'[r], t)
    <2>1. PICK t \in past : ReadOf(reads[r], t)
      BY <1>2 DEF PastCopies
    <2> QED BY <2>1, <1>2 DEF ReadOf
  <1>3. \A r \in Readers : reads'[r].phase = "fetched" /\ ~reads'[r].torn =>
            \E t \in more : ReadOf(reads[r], t)'
    BY <1>2 DEF ReadOf, StampOf
  <1>4. \A r \in Readers : Seen(more, reads[r].stamp)'
    <2>1. ASSUME NEW r \in Readers PROVE Seen(more, reads'[r].stamp)
      BY DEF PastCopies, Seen
    <2> QED BY <2>1 DEF Seen, StampOf, NoStamp, NotCached
  <1> QED BY <1>1, <1>3, <1>4 DEF PastCopies, NoStamp, NotCached

LEMMA ReadingChanges ==
    ASSUME ConfigTypes, NEW r \in Readers, NEW read, Reading(r, read)
    PROVE  /\ reads'[r] = read
           /\ \A q \in Readers : q # r => reads'[q] = reads[q]
  BY DEF ConfigTypes, Reading

LEMMA StartedChanges ==
    ASSUME ConfigTypes, Times, NEW r \in Readers, NEW k \in ConfigKeys, Started(r, k),
           NEW past, PastRows(past)
    PROVE  \A q \in Readers :
               \/ reads'[q] = reads[q]
               \/ reads'[q].phase # "fetched" /\ Seen(past, reads'[q].stamp)
  <1>1. PICK stamp \in Nat \X Nat : stamp = StampOf(rows)
    BY PresentStamp
  <1>2. PICK read : read = ReadOfStamp(k, stamp)
    OBVIOUS
  <1>3. read.phase = "stamped" /\ read.stamp = stamp
    BY <1>2, StampedRead DEF ConfigTypes
  <1>4. Reading(r, read)
    BY <1>1, <1>2 DEF Started, ReadOfStamp
  <1>5. Seen(past, stamp)
    BY <1>1 DEF PastRows, Seen
  <1> QED BY <1>3, <1>4, <1>5, ReadingChanges

LEMMA NothingRead ==
    ASSUME ConfigTypes, NEW r \in Readers, Reading(r, NoRead), NEW past
    PROVE  \A q \in Readers :
               \/ reads'[q] = reads[q]
               \/ reads'[q].phase # "fetched" /\ Seen(past, reads'[q].stamp)
  <1>1. NoRead.phase = "none" /\ NoRead.stamp = NoStamp
    BY NoReadType DEF ConfigTypes, NoRead
  <1>2. Seen(past, NoRead.stamp)
    BY <1>1 DEF Seen
  <1> QED BY <1>1, <1>2, ReadingChanges

LEMMA CheckPromptsCopies ==
    ASSUME ConfigTypes, Times, NEW past, PastRows(past), PastCopies(past),
           NEW r \in Readers, NEW k \in ConfigKeys, CheckPrompts(r, k)
    PROVE  PastCopies(past)'
  <1>1. \A q \in Readers :
            \/ reads'[q] = reads[q]
            \/ reads'[q].phase # "fetched" /\ Seen(past, reads'[q].stamp)
    BY StartedChanges DEF CheckPrompts
  <1>2. CASE known = StampOf(rows)
    <2>1. cached' = cached /\ mismatched' = mismatched /\ ahead' = ahead /\ known' = known
          /\ snap' = snap /\ rows' = rows /\ SnapStays
      BY <1>2 DEF CheckPrompts, Unmarked, ConfigTypes, SnapStays
    <2>2. AheadOfStamp'
      BY <2>1 DEF PastCopies, AheadOfStamp, StampOf
    <2> QED BY <2>1, <2>2, <1>1, CopiesStay
  <1>3. CASE known # StampOf(rows)
    <2>1. PICK now \in past : now = rows
      BY DEF PastRows
    <2>2. cached = "prompts" /\ cached' = cached /\ known' = StampOf(now) /\ ahead' = {}
          /\ snap' = [c \in ConfigKeys |-> NotCached]
      BY <1>3, <2>1 DEF CheckPrompts, Unmarked, ConfigTypes
    <2>3. CopyOf(now)'
      BY <2>2 DEF CopyOf, StampOf, NotCached
    <2>4. ASSUME NEW q \in Readers, reads'[q].phase = "fetched" /\ ~reads'[q].torn
          PROVE  \E t \in past : ReadOf(reads'[q], t)
      BY <2>4, <1>1 DEF PastCopies
    <2>5. \A q \in Readers : reads'[q].phase = "fetched" /\ ~reads'[q].torn =>
            \E t \in past : ReadOf(reads[q], t)'
      BY <2>2, <2>4 DEF ReadOf, StampOf
    <2>6. \A q \in Readers : Seen(past, reads[q].stamp)'
      <3>1. ASSUME NEW q \in Readers PROVE Seen(past, reads'[q].stamp)
        BY <1>1 DEF PastCopies
      <3> QED BY <3>1 DEF Seen, StampOf, NoStamp, NotCached
    <2>7. AheadOfStamp'
      BY <2>2 DEF AheadOfStamp
    <2> QED BY <2>3, <2>5, <2>6, <2>7 DEF PastCopies
  <1> QED BY <1>2, <1>3

LEMMA FetchCopies ==
    ASSUME ConfigTypes, NEW past, PastRows(past), PastCopies(past),
           NEW r \in Readers, FetchRows(r)
    PROVE  PastCopies(past)'
  <1> DEFINE taken == [k \in ConfigKeys |->
                 IF cached = "tunables" \/ k = reads[r].key THEN rows[k] ELSE 0]
  <1>0. PICK read : read = reads[r]
    OBVIOUS
  <1>1. PICK got : got = taken
    OBVIOUS
  <1>2. PICK torn : torn = (read.stamp # StampOf(rows))
    OBVIOUS
  <1>3. PICK new : new = [read EXCEPT !.phase = "fetched", !.got = got, !.torn = torn]
    OBVIOUS
  <1>4. cached' = cached /\ known' = known /\ snap' = snap /\ mismatched' = mismatched /\ ahead' = ahead
        /\ rows' = rows /\ SnapStays
    BY DEF FetchRows, SnapStays
  <1>5. Reading(r, NoRead) \/ Reading(r, new)
    BY <1>0, <1>1, <1>2, <1>3 DEF FetchRows
  <1>a. AheadOfStamp'
    BY <1>4 DEF PastCopies, AheadOfStamp, StampOf
  <1>6. CASE Reading(r, NoRead)
    BY <1>4, <1>6, <1>a, NothingRead, CopiesStay
  <1>7. CASE Reading(r, new)
    <2>1. reads'[r] = new /\ \A q \in Readers : q # r => reads'[q] = reads[q]
      BY <1>7, ReadingChanges
    <2>2. read \in ReadsUnderWay
      BY <1>0 DEF ConfigTypes
    <2>3. new.key = read.key /\ new.stamp = read.stamp /\ new.got = got /\ new.torn = torn
          /\ read.key \in ConfigKeys
      BY <2>2, <1>3 DEF ReadsUnderWay
    <2>4. PICK now \in past : now = rows
      BY DEF PastRows
    <2>5. ASSUME ~new.torn PROVE ReadOf(new, now)
      <3>1. new.stamp = StampOf(now)
        BY <2>3, <2>4, <2>5, <1>2
      <3>2. got[read.key] = now[read.key]
        BY <2>3, <2>4, <1>0, <1>1
      <3>3. cached = "tunables" => got = now
        BY <2>4, <1>1 DEF ConfigTypes, Contents
      <3> QED BY <3>1, <3>2, <3>3, <2>3 DEF ReadOf
    <2>6. ASSUME NEW q \in Readers, reads'[q].phase = "fetched" /\ ~reads'[q].torn
          PROVE  \E t \in past : ReadOf(reads'[q], t)
      <3>1. CASE q = r
        BY <3>1, <2>1, <2>4, <2>5, <2>6
      <3>2. CASE q # r
        BY <3>2, <2>1, <2>6 DEF PastCopies
      <3> QED BY <3>1, <3>2
    <2>7. \A q \in Readers : reads'[q].phase = "fetched" /\ ~reads'[q].torn =>
            \E t \in past : ReadOf(reads[q], t)'
      BY <1>4, <2>6 DEF ReadOf, StampOf
    <2>8. known' = NoStamp \/ \E t \in past : CopyOf(t)'
      BY <1>4 DEF PastCopies, CopyOf, StampOf, NotCached
    <2>9. \A q \in Readers : Seen(past, reads[q].stamp)'
      <3>1. ASSUME NEW q \in Readers PROVE Seen(past, reads'[q].stamp)
        BY <2>1, <2>3, <1>0 DEF PastCopies
      <3> QED BY <3>1 DEF Seen, StampOf, NoStamp, NotCached
    <2> QED BY <2>7, <2>8, <2>9, <1>a DEF PastCopies, NoStamp, NotCached
  <1> QED BY <1>5, <1>6, <1>7

\* A snapshot of all rows: each is in it what it was in the read, or is told apart.
LEMMA InstallTunables ==
    ASSUME ConfigTypes, NEW past, PastRows(past), PastCopies(past), cached = "tunables",
           NEW r \in Readers, Install(r)
    PROVE  (known' = NoStamp \/ \E t \in past : CopyOf(t)') /\ AheadOfStamp'
  <1>0. PICK read : read = reads[r]
    OBVIOUS
  <1>1. read.phase = "fetched" /\ known' = read.stamp /\ snap' = read.got /\ cached' = cached
        /\ rows' = rows
    BY <1>0 DEF Install
  <1>2. CASE read.torn
    <2>1. mismatched' \cup ahead' = ConfigKeys
      BY <1>0, <1>2 DEF Install, ConfigTypes
    <2>2. Seen(past, known')
      BY <1>0, <1>1 DEF PastCopies
    <2>3. ASSUME NEW t \in past, known' = StampOf(t) PROVE CopyOf(t)'
      BY <2>1, <2>3 DEF CopyOf, StampOf
    <2>4. ahead' # {} => known' # StampOf(rows')
      <3>1. ASSUME known' = StampOf(rows) PROVE ahead' = {}
        BY <3>1, <1>0, <1>2 DEF Install, ConfigTypes
      <3> QED BY <3>1, <1>1
    <2> QED BY <2>2, <2>3, <2>4 DEF Seen, AheadOfStamp, StampOf
  <1>3. CASE ~read.torn
    <2>1. PICK t \in past : ReadOf(read, t)
      BY <1>0, <1>1, <1>3 DEF PastCopies
    <2>2. CopyOf(t)'
      BY <1>1, <2>1 DEF CopyOf, ReadOf, StampOf
    <2>3. ahead' = {}
      BY <1>0, <1>3 DEF Install, ConfigTypes
    <2> QED BY <2>2, <2>3 DEF AheadOfStamp
  <1> QED BY <1>2, <1>3

\* One text, under the stamp that is known when it comes.
LEMMA InstallPrompt ==
    ASSUME ConfigTypes, NEW past, PastRows(past), PastCopies(past), cached = "prompts",
           NEW r \in Readers, Install(r)
    PROVE  (known' = NoStamp \/ \E t \in past : CopyOf(t)') /\ AheadOfStamp'
  <1>0. PICK read : read = reads[r]
    OBVIOUS
  <1>1. read.phase = "fetched" /\ known' = known /\ cached' = cached /\ rows' = rows
        /\ snap' = [snap EXCEPT ![read.key] = read.got[read.key]]
    BY <1>0 DEF Install
  <1>2. read.key \in ConfigKeys /\ read \in ReadsUnderWay
    BY <1>0 DEF ConfigTypes, ReadsUnderWay
  <1>3. \A k \in ConfigKeys : k # read.key =>
            (k \in mismatched' \cup ahead' <=> k \in mismatched \cup ahead) /\ snap'[k] = snap[k]
    BY <1>0, <1>1 DEF Install, ConfigTypes, Contents
  <1>4. AheadOfStamp'
    <2>1. ahead' # {} => known' # StampOf(rows')
      <3>1. CASE ahead # {}
        BY <3>1, <1>1 DEF PastCopies, AheadOfStamp
      <3>2. CASE ahead = {}
        BY <3>2, <1>0, <1>1 DEF Install
      <3> QED BY <3>1, <3>2
    <2> QED BY <2>1 DEF AheadOfStamp, StampOf
  <1>5. ASSUME known' # NoStamp
        PROVE  \E u \in past : CopyOf(u)'
    <2>1. PICK u \in past : CopyOf(u)
      BY <1>1, <1>5 DEF PastCopies
    <2>2. read.key \notin mismatched' \cup ahead' => snap'[read.key] = u[read.key]
      <3>1. SUFFICES ASSUME read.key \notin mismatched' \cup ahead'
                     PROVE  snap'[read.key] = u[read.key]
        OBVIOUS
      <3>2. ~read.torn /\ read.stamp = known
        BY <3>1, <1>0, <1>1 DEF Install
      <3>3. PICK t \in past : ReadOf(read, t)
        BY <1>0, <1>1, <3>2 DEF PastCopies
      <3>4. t = u
        BY <2>1, <3>2, <3>3 DEF PastRows, CopyOf, ReadOf
      <3> QED BY <3>3, <3>4, <1>1, <1>2 DEF ReadOf, ConfigTypes, Contents
    <2>3. \A k \in ConfigKeys \ (mismatched' \cup ahead') : snap'[k] = u[k] \/ snap'[k] = NotCached
      <3>1. ASSUME NEW k \in ConfigKeys \ (mismatched' \cup ahead'), k # read.key
            PROVE  snap'[k] = u[k] \/ snap'[k] = NotCached
        BY <3>1, <1>3, <2>1 DEF CopyOf
      <3> QED BY <2>2, <3>1
    <2>4. CopyOf(u)'
      BY <2>1, <2>3, <1>1 DEF CopyOf, StampOf, NotCached
    <2> QED BY <2>4
  <1> QED BY <1>4, <1>5

LEMMA InstallCopies ==
    ASSUME ConfigTypes, NEW past, PastRows(past), PastCopies(past), cached # "settings",
           NEW r \in Readers, Install(r)
    PROVE  PastCopies(past)'
  <1>1. cached' = cached /\ Reading(r, NoRead)
    BY DEF Install
  <1>2. \A q \in Readers :
            \/ reads'[q] = reads[q]
            \/ reads'[q].phase # "fetched" /\ Seen(past, reads'[q].stamp)
    BY <1>1, NothingRead
  <1>3. \A q \in Readers : reads'[q].phase = "fetched" /\ ~reads'[q].torn =>
            \E t \in past : ReadOf(reads'[q], t)
    BY <1>2 DEF PastCopies
  <1>4. \A q \in Readers : reads'[q].phase = "fetched" /\ ~reads'[q].torn =>
            \E t \in past : ReadOf(reads[q], t)'
    BY <1>1, <1>3 DEF ReadOf, StampOf
  <1>5. \A q \in Readers : Seen(past, reads[q].stamp)'
    <2>1. ASSUME NEW q \in Readers PROVE Seen(past, reads'[q].stamp)
      BY <1>2 DEF PastCopies
    <2> QED BY <2>1 DEF Seen, StampOf, NoStamp, NotCached
  <1>6. cached = "tunables" \/ cached = "prompts"
    BY ConfigAssumption DEF ConfigTypes
  <1>7. (known' = NoStamp \/ \E t \in past : CopyOf(t)') /\ AheadOfStamp'
    BY <1>6, InstallTunables, InstallPrompt
  <1> QED BY <1>4, <1>5, <1>7 DEF PastCopies, NoStamp, NotCached

-----------------------------------------------------------------------------
(* Every step keeps the types.                                             *)

LEMMA ReadingTypes ==
    ASSUME ConfigTypes, NEW r \in Readers, NEW read \in ReadsUnderWay, Reading(r, read)
    PROVE  reads' \in [Readers -> ReadsUnderWay]
  BY DEF ConfigTypes, Reading

LEMMA StartedTypes ==
    ASSUME ConfigTypes, Times, NEW r \in Readers, NEW k \in ConfigKeys, Started(r, k)
    PROVE  reads' \in [Readers -> ReadsUnderWay]
  <1>1. PICK stamp \in Nat \X Nat : stamp = StampOf(rows)
    BY PresentStamp
  <1>2. PICK read : read = ReadOfStamp(k, stamp)
    OBVIOUS
  <1>3. read \in ReadsUnderWay
    BY <1>2, StampedRead DEF ConfigTypes
  <1>4. Reading(r, read)
    BY <1>1, <1>2 DEF Started, ReadOfStamp
  <1> QED BY <1>3, <1>4, ReadingTypes

LEMMA FetchTypes ==
    ASSUME ConfigTypes, Times, NEW r \in Readers, FetchRows(r)
    PROVE  ConfigTypes'
  <1>0. PICK read : read = reads[r]
    OBVIOUS
  <1>1. PICK got : got = [k \in ConfigKeys |->
                 IF cached = "tunables" \/ k = reads[r].key THEN rows[k] ELSE 0]
    OBVIOUS
  <1>2. PICK torn : torn = (read.stamp # StampOf(rows))
    OBVIOUS
  <1>3. PICK new : new = [read EXCEPT !.phase = "fetched", !.got = got, !.torn = torn]
    OBVIOUS
  <1>4. Reading(r, NoRead) \/ Reading(r, new)
    BY <1>0, <1>1, <1>2, <1>3 DEF FetchRows
  <1>5. got \in Contents /\ torn \in BOOLEAN /\ read \in ReadsUnderWay
    BY <1>0, <1>1, <1>2 DEF ConfigTypes, Contents
  <1>6. new \in ReadsUnderWay /\ NoRead \in ReadsUnderWay
    BY <1>3, <1>5, NoReadType DEF ReadsUnderWay, ConfigTypes
  <1>7. reads' \in [Readers -> ReadsUnderWay]
    BY <1>4, <1>6, ReadingTypes
  <1> QED BY <1>7 DEF FetchRows, ConfigTypes

LEMMA InstallTypes ==
    ASSUME ConfigTypes, Times, NEW r \in Readers, Install(r)
    PROVE  ConfigTypes'
  <1>1. reads' \in [Readers -> ReadsUnderWay]
    BY NoReadType, ReadingTypes DEF Install, ConfigTypes
  <1>0. PICK read : read = reads[r]
    OBVIOUS
  <1>2. read \in ReadsUnderWay
    BY <1>0 DEF ConfigTypes
  <1>3. read.got \in Contents /\ read.key \in ConfigKeys /\ read.stamp \in Nat \X Nat
        /\ read.torn \in BOOLEAN /\ read.got[read.key] \in Nat
    BY <1>2 DEF ReadsUnderWay, Contents
  <1>4. snap' = read.got \/ snap' = [snap EXCEPT ![read.key] = read.got[read.key]]
    BY <1>0 DEF Install
  <1>5. snap' \in Contents
    BY <1>3, <1>4 DEF ConfigTypes, Contents
  <1>6. known' \in Nat \X Nat /\ ahead' \subseteq ConfigKeys /\ mismatched' \subseteq ConfigKeys
    BY <1>0, <1>3 DEF Install, ConfigTypes
  <1> QED BY <1>1, <1>5, <1>6 DEF Install, ConfigTypes

LEMMA WriteTypes ==
    ASSUME ConfigTypes, Times
    PROVE  /\ \A here \in BOOLEAN, k \in ConfigKeys : Flush(here, k) => ConfigTypes'
           /\ \A w \in open : CommitWrite(w) => ConfigTypes'
           /\ \A w \in open : RollBackWrite(w) => ConfigTypes'
           /\ \A here \in BOOLEAN, k \in ConfigKeys : DeleteRow(here, k) => ConfigTypes'
           /\ \A here \in BOOLEAN, k \in ConfigKeys : Save(here, k) => ConfigTypes'
  <1>1. ASSUME NEW here \in BOOLEAN, NEW k \in ConfigKeys, Flush(here, k) PROVE ConfigTypes'
    <2>1. tick + 1 \in Nat
      BY DEF ConfigTypes
    <2>2. open' \subseteq OpenWrites
      BY <1>1, <2>1 DEF Flush, ConfigTypes, OpenWrites
    <2> QED BY <1>1, <2>1, <2>2 DEF Flush, ConfigTypes
  <1>2. ASSUME NEW w \in open, CommitWrite(w) PROVE ConfigTypes'
    <2>1. w.key \in ConfigKeys /\ w.at \in Nat
      BY DEF ConfigTypes, OpenWrites
    <2>2. rows' \in Contents /\ late' \in BOOLEAN
      BY <1>2, <2>1 DEF CommitWrite, ConfigTypes, Contents
    <2>3. owed' \subseteq OwedReturns
      BY <1>2, <2>1 DEF CommitWrite, ConfigTypes, OwedReturns
    <2> QED BY <1>2, <2>2, <2>3 DEF CommitWrite, ConfigTypes
  <1>3. ASSUME NEW w \in open, RollBackWrite(w) PROVE ConfigTypes'
    BY <1>3 DEF RollBackWrite, ConfigTypes
  <1>4. ASSUME NEW here \in BOOLEAN, NEW k \in ConfigKeys, DeleteRow(here, k) PROVE ConfigTypes'
    <2>1. rows' \in Contents
      BY <1>4 DEF DeleteRow, ConfigTypes, Contents
    <2>2. owed' \subseteq OwedReturns
      BY <1>4 DEF DeleteRow, ConfigTypes, OwedReturns
    <2>3. ahead' \subseteq ConfigKeys /\ mismatched' \subseteq ConfigKeys
      BY <1>4 DEF DeleteRow, ConfigTypes
    <2> QED BY <1>4, <2>1, <2>2, <2>3 DEF DeleteRow, ConfigTypes
  <1>5. ASSUME NEW here \in BOOLEAN, NEW k \in ConfigKeys, Save(here, k) PROVE ConfigTypes'
    <2>1. tick + 1 \in Nat
      BY DEF ConfigTypes
    <2>2. rows' \in Contents /\ owed' \subseteq OwedReturns
      BY <1>5, <2>1 DEF Save, ConfigTypes, Contents, OwedReturns
    <2> QED BY <1>5, <2>1, <2>2 DEF Save, ConfigTypes
  <1> QED BY <1>1, <1>2, <1>3, <1>4, <1>5

LEMMA MaxOfTwo ==
    ASSUME NEW a \in Nat, NEW b \in Nat
    PROVE  Max({a, b}) \in {a, b} /\ a <= Max({a, b}) /\ b <= Max({a, b})
  <1> DEFINE S == {a, b}
  <1>1. S \subseteq Nat /\ S # {} /\ a + b \in Nat /\ a \in S /\ b \in S
    OBVIOUS
  <1>2. \A x \in S : x <= a + b
    OBVIOUS
  <1>3. Max(S) \in S /\ \A x \in S : x <= Max(S)
    <2> HIDE DEF S
    <2>1. PICK n \in Nat : n = a + b
      OBVIOUS
    <2> QED BY <1>1, <1>2, <2>1, MaxOf
  <1> QED BY <1>1, <1>3

LEMMA ReadTypes ==
    ASSUME ConfigTypes, Times
    PROVE  /\ \A w \in owed : WriterReturns(w) => ConfigTypes'
           /\ \A w \in owed : ClearSettings(w) => ConfigTypes'
           /\ \A r \in Readers, k \in ConfigKeys : CheckPrompts(r, k) => ConfigTypes'
           /\ \A r \in Readers, k \in ConfigKeys : ReadUnstamped(r, k) => ConfigTypes'
           /\ \A r \in Readers : CheckTunables(r) => ConfigTypes'
           /\ \A r \in Readers : CheckSettings(r) => ConfigTypes'
           /\ \A r \in Readers : GiveUpRead(r) => ConfigTypes'
           /\ \A k \in ConfigKeys : Expire(k) => ConfigTypes'
  <1>0. NotCached \in Nat
    BY NotCachedIsTime DEF ConfigTypes
  <1>1. ASSUME NEW w \in owed, ClearSettings(w) PROVE ConfigTypes'
    <2>1. w.key \in ConfigKeys /\ w.at \in Nat
      BY DEF ConfigTypes, OwedReturns
    <2>2. own' \in Nat
      <3>1. own' = Max({own, w.at})
        BY <1>1 DEF ClearSettings, ClearAtOnce
      <3> QED BY <3>1, <2>1, MaxOfTwo DEF ConfigTypes
    <2>3. snap' \in Contents /\ owed' \subseteq OwedReturns
      BY <1>0, <1>1, <2>1 DEF ClearSettings, ClearAtOnce, ConfigTypes, Contents
    <2> QED BY <1>1, <2>2, <2>3 DEF ClearSettings, ClearAtOnce, ConfigTypes
  <1>2. ASSUME NEW r \in Readers, NEW k \in ConfigKeys, CheckPrompts(r, k) PROVE ConfigTypes'
    <2>1. reads' \in [Readers -> ReadsUnderWay]
      BY <1>2, StartedTypes DEF CheckPrompts
    <2>2. known' \in Nat \X Nat
      BY <1>2, PresentStamp DEF CheckPrompts
    <2>3. snap' \in Contents
      BY <1>0, <1>2 DEF CheckPrompts, ConfigTypes, Contents
    <2>4. ahead' \subseteq ConfigKeys /\ mismatched' \subseteq ConfigKeys
      BY <1>2 DEF CheckPrompts, Unmarked, ConfigTypes
    <2> QED BY <1>2, <2>1, <2>2, <2>3, <2>4 DEF CheckPrompts, ConfigTypes
  <1>3. ASSUME NEW r \in Readers, NEW k \in ConfigKeys, ReadUnstamped(r, k) PROVE ConfigTypes'
    <2>1. PICK read : read = ReadOfStamp(k, known)
      OBVIOUS
    <2>2. read \in ReadsUnderWay
      BY <2>1, StampedRead DEF ConfigTypes
    <2>3. reads' \in [Readers -> ReadsUnderWay]
      BY <1>3, <2>1, <2>2, ReadingTypes DEF ReadUnstamped, ReadOfStamp
    <2>4. snap' \in Contents
      BY <1>0, <1>3 DEF ReadUnstamped, ConfigTypes, Contents
    <2>5. ahead' \subseteq ConfigKeys /\ mismatched' \subseteq ConfigKeys
      BY <1>3 DEF ReadUnstamped, Unmarked, ConfigTypes
    <2> QED BY <1>3, <2>3, <2>4, <2>5 DEF ReadUnstamped, ConfigTypes
  <1>4. ASSUME NEW r \in Readers, CheckTunables(r) PROVE ConfigTypes'
    <2>1. reads' \in [Readers -> ReadsUnderWay]
      BY <1>4, NoReadType, StartedTypes DEF CheckTunables, ConfigTypes
    <2> QED BY <1>4, <2>1 DEF CheckTunables, ConfigTypes
  <1>5. ASSUME NEW r \in Readers, CheckSettings(r) PROVE ConfigTypes'
    <2>1. reads' \in [Readers -> ReadsUnderWay]
      BY <1>5, NoReadType, StartedTypes DEF CheckSettings, ConfigTypes
    <2> QED BY <1>5, <2>1 DEF CheckSettings, ConfigTypes
  <1>6. ASSUME NEW r \in Readers, GiveUpRead(r) PROVE ConfigTypes'
    <2>1. reads' \in [Readers -> ReadsUnderWay]
      BY <1>6, NoReadType, ReadingTypes DEF GiveUpRead, ConfigTypes
    <2> QED BY <1>6, <2>1 DEF GiveUpRead, ConfigTypes
  <1>7. ASSUME NEW k \in ConfigKeys, Expire(k) PROVE ConfigTypes'
    <2>1. snap' \in Contents
      BY <1>0, <1>7 DEF Expire, ConfigTypes, Contents
    <2>2. ahead' \subseteq ConfigKeys /\ mismatched' \subseteq ConfigKeys
      BY <1>7 DEF Expire, Unmarked, ConfigTypes
    <2> QED BY <1>7, <2>1, <2>2 DEF Expire, ConfigTypes
  <1>8. ASSUME NEW w \in owed, WriterReturns(w) PROVE ConfigTypes'
    <2>1. w.key \in ConfigKeys /\ w.at \in Nat
      BY DEF ConfigTypes, OwedReturns
    <2>2. snap' \in Contents /\ owed' \subseteq OwedReturns
      BY <1>0, <1>8, <2>1 DEF WriterReturns, ConfigTypes, Contents
    <2>3. known' \in Nat \X Nat
      BY <1>8, NoReadType DEF WriterReturns, ConfigTypes
    <2>4. ahead' \subseteq ConfigKeys /\ mismatched' \subseteq ConfigKeys
      BY <1>8 DEF WriterReturns, Unmarked, ConfigTypes
    <2> QED BY <1>8, <2>2, <2>3, <2>4 DEF WriterReturns, ConfigTypes
  <1> QED BY <1>1, <1>2, <1>3, <1>4, <1>5, <1>6, <1>7, <1>8

LEMMA TypesStep ==
    ASSUME ConfigTypes, Times, ConfigNext
    PROVE  ConfigTypes'
  BY WriteTypes, ReadTypes, FetchTypes, InstallTypes DEF ConfigNext

-----------------------------------------------------------------------------
(* Times and tables.                                                       *)

\* Nothing is written.
LEMMA TimesStay ==
    ASSUME Times, rows' = rows, open' \subseteq open, tick' = tick
    PROVE  Times'
  BY DEF Times

LEMMA TimesStep ==
    ASSUME ConfigTypes, Times, ByTable, ConfigNext
    PROVE  Times'
  <1>1. ASSUME NEW here \in BOOLEAN, NEW f \in ConfigKeys, Flush(here, f) PROVE Times'
    <2>0. PICK new : new = [here |-> here, key |-> f, at |-> tick + 1]
      OBVIOUS
    <2>1. rows' = rows /\ open' = open \cup {new} /\ tick' = tick + 1 /\ new.at = tick + 1
      BY <1>1, <2>0 DEF Flush
    <2>2. tick \in Nat /\ (\A k \in ConfigKeys : rows[k] \in Nat) /\ \A w \in open : w.at \in Nat
      BY DEF ConfigTypes, Contents, OpenWrites
    <2>3. \A k \in ConfigKeys : rows'[k] <= tick'
      BY <2>1, <2>2 DEF Times
    <2>4. \A w \in open' : w.at # 0 /\ w.at <= tick' /\ \A k \in ConfigKeys : rows'[k] # w.at
      BY <2>1, <2>2 DEF Times
    <2>5. \A v, w \in open' : v.at = w.at => v = w
      <3>1. \A w \in open : w.at # new.at
        BY <2>1, <2>2 DEF Times
      <3> QED BY <2>1, <3>1 DEF Times
    <2> QED BY <2>3, <2>4, <2>5 DEF Times
  <1>2. ASSUME NEW w \in open, CommitWrite(w) PROVE Times'
    <2>1. rows' = [rows EXCEPT ![w.key] = w.at] /\ open' = open \ {w} /\ tick' = tick
      BY <1>2 DEF CommitWrite
    <2>2. \A k \in ConfigKeys : rows'[k] = rows[k] \/ rows'[k] = w.at
      BY <2>1 DEF ConfigTypes, Contents
    <2>3. \A k \in ConfigKeys : rows'[k] <= tick'
      BY <2>1, <2>2 DEF Times
    <2>4. \A v \in open' : v.at # 0 /\ v.at <= tick' /\ \A k \in ConfigKeys : rows'[k] # v.at
      BY <2>1, <2>2 DEF Times
    <2>5. \A u, v \in open' : u.at = v.at => u = v
      BY <2>1 DEF Times
    <2> QED BY <2>3, <2>4, <2>5 DEF Times
  <1>3. ASSUME NEW here \in BOOLEAN, NEW d \in ConfigKeys, DeleteRow(here, d) PROVE Times'
    <2>1. rows' = [rows EXCEPT ![d] = 0] /\ open' = open /\ tick' = tick
      BY <1>3 DEF DeleteRow
    <2>2. \A k \in ConfigKeys : rows'[k] = rows[k] \/ rows'[k] = 0
      BY <2>1 DEF ConfigTypes, Contents
    <2>3. \A k \in ConfigKeys : rows'[k] <= tick'
      BY <2>1, <2>2 DEF Times, ConfigTypes
    <2>4. \A w \in open : w.at # 0
      BY DEF Times
    <2> QED BY <2>1, <2>2, <2>3, <2>4 DEF Times
  <1>4. ASSUME NEW here \in BOOLEAN, NEW k \in ConfigKeys, Save(here, k) PROVE Times'
    <2>1. open = {} /\ open' = {} /\ tick' = tick + 1 /\ rows' = [rows EXCEPT ![k] = tick + 1]
      BY <1>4 DEF Save, ByTable
    <2>2. \A c \in ConfigKeys : rows'[c] = rows[c] \/ rows'[c] = tick + 1
      BY <2>1 DEF ConfigTypes, Contents
    <2>3. \A c \in ConfigKeys : rows'[c] <= tick'
      BY <2>1, <2>2 DEF Times, ConfigTypes, Contents
    <2> QED BY <2>1, <2>3 DEF Times
  <1>5. ASSUME NEW w \in open, RollBackWrite(w) PROVE Times'
    BY <1>5, TimesStay DEF RollBackWrite
  <1>6. ASSUME NEW w \in owed, WriterReturns(w) \/ ClearSettings(w) PROVE Times'
    BY <1>6, TimesStay DEF WriterReturns, ClearSettings, ClearAtOnce
  <1>7. ASSUME NEW r \in Readers, NEW k \in ConfigKeys, CheckPrompts(r, k) \/ ReadUnstamped(r, k)
        PROVE  Times'
    BY <1>7, TimesStay DEF CheckPrompts, ReadUnstamped
  <1>8. ASSUME NEW r \in Readers,
               CheckTunables(r) \/ CheckSettings(r) \/ FetchRows(r) \/ Install(r) \/ GiveUpRead(r)
        PROVE  Times'
    BY <1>8, TimesStay DEF CheckTunables, CheckSettings, FetchRows, Install, GiveUpRead
  <1>9. ASSUME NEW k \in ConfigKeys, Expire(k) PROVE Times'
    BY <1>9, TimesStay DEF Expire
  <1> QED BY <1>1, <1>2, <1>3, <1>4, <1>5, <1>6, <1>7, <1>8, <1>9 DEF ConfigNext

LEMMA ByTableStep ==
    ASSUME ByTable, ConfigNext
    PROVE  ByTable' /\ cached' = cached
  <1>1. ASSUME NEW here \in BOOLEAN, NEW k \in ConfigKeys, Flush(here, k) \/ DeleteRow(here, k)
        PROVE  ByTable' /\ cached' = cached
    BY <1>1 DEF Flush, DeleteRow, ByTable
  <1>2. ASSUME NEW here \in BOOLEAN, NEW k \in ConfigKeys, Save(here, k)
        PROVE  ByTable' /\ cached' = cached
    BY <1>2 DEF Save, ByTable
  <1>3. ASSUME NEW w \in open, CommitWrite(w) \/ RollBackWrite(w)
        PROVE  ByTable' /\ cached' = cached
    BY <1>3 DEF CommitWrite, RollBackWrite, ByTable
  <1>4. ASSUME NEW w \in owed, WriterReturns(w) \/ ClearSettings(w)
        PROVE  ByTable' /\ cached' = cached
    BY <1>4 DEF WriterReturns, ClearSettings, ClearAtOnce, ByTable
  <1>5. ASSUME NEW r \in Readers, NEW k \in ConfigKeys, CheckPrompts(r, k) \/ ReadUnstamped(r, k)
        PROVE  ByTable' /\ cached' = cached
    BY <1>5 DEF CheckPrompts, ReadUnstamped, ByTable
  <1>6. ASSUME NEW r \in Readers,
               CheckTunables(r) \/ CheckSettings(r) \/ FetchRows(r) \/ Install(r) \/ GiveUpRead(r)
        PROVE  ByTable' /\ cached' = cached
    BY <1>6 DEF CheckTunables, CheckSettings, FetchRows, Install, GiveUpRead, ByTable
  <1>7. ASSUME NEW k \in ConfigKeys, Expire(k) PROVE ByTable' /\ cached' = cached
    BY <1>7 DEF Expire, ByTable
  <1> QED BY <1>1, <1>2, <1>3, <1>4, <1>5, <1>6, <1>7 DEF ConfigNext

-----------------------------------------------------------------------------
(* The past goes on.                                                       *)

\* A step that writes nothing and of whose copies the same can be said.
LEMMA PastStays ==
    ASSUME NEW past \in SUBSET Contents, PastRows(past), PastCopies(past)',
           rows' = rows, open' \subseteq open, tick' = tick
    PROVE  Past'
  BY SamePast DEF Past

\* What the table has become by a commit it has not been.
LEMMA CommitLeavesKnown ==
    ASSUME ConfigTypes, ConfigTypes', Times', NEW past, PastRows(past), PastCopies(past),
           NEW more, past \subseteq more, PastRows(more)', NEW w \in open, CommitWrite(w)
    PROVE  AheadOfStamp'
  <1>1. known' = known /\ rows' = [rows EXCEPT ![w.key] = w.at] /\ w.key \in ConfigKeys
        /\ rows \in Contents
    BY DEF CommitWrite, ConfigTypes, OpenWrites
  <1>2. rows'[w.key] = w.at
    BY <1>1 DEF Contents
  <1>3. SUFFICES ASSUME known = StampOf(rows') PROVE FALSE
    BY <1>1 DEF AheadOfStamp, StampOf
  <1>4. PICK now : now = rows'
    OBVIOUS
  <1>5. now \in more /\ \A t, u \in more : StampOf(t) = StampOf(u) => t = u
    BY <1>4 DEF PastRows, StampOf
  <1>6. known # NoStamp
    <2>1. now \in Contents /\ tick' \in Nat /\ (\A k \in ConfigKeys : now[k] <= tick') /\ Tables # {}
      BY <1>4 DEF ConfigTypes, Times
    <2> QED BY <1>3, <1>4, <2>1, NoTableNoStamp
  <1>7. PICK u \in past : known = StampOf(u)
    BY <1>6 DEF PastCopies, CopyOf
  <1>8. u = now
    BY <1>3, <1>4, <1>5, <1>7
  <1>9. u[w.key] # w.at
    BY <1>1 DEF PastRows, Earlier
  <1> QED BY <1>2, <1>4, <1>8, <1>9

LEMMA WritesKeepPast ==
    ASSUME ConfigTypes, ConfigTypes', Times, Times', ByTable, cached # "settings", Past, ~late'
    PROVE  /\ \A here \in BOOLEAN, f \in ConfigKeys : Flush(here, f) => Past'
           /\ \A w \in open : CommitWrite(w) => Past'
           /\ \A here \in BOOLEAN, d \in ConfigKeys : DeleteRow(here, d) => Past'
  <1>1. PICK past \in SUBSET Contents : PastRows(past) /\ PastCopies(past)
    BY DEF Past
  <1>2. ASSUME NEW more, past \subseteq more, PastRows(more)', AheadOfStamp',
               cached' = cached, mismatched' \cup ahead' = mismatched \cup ahead, known' = known,
               snap' = snap, reads' = reads
        PROVE  Past'
    <2>0. SnapStays
      BY <1>2 DEF SnapStays
    <2>1. PastCopies(more)'
      BY <1>1, <1>2, <2>0, CopiesStay
    <2>2. more \in SUBSET Contents
      BY <1>2 DEF PastRows
    <2> QED BY <1>2, <2>1, <2>2 DEF Past
  <1>3. ASSUME NEW here \in BOOLEAN, NEW f \in ConfigKeys, Flush(here, f) PROVE Past'
    <2>1. \A t \in past : Earlier(t)'
      BY <1>1, <1>3, FlushKeepsEarlier
    <2>2. PICK more : past \subseteq more /\ PastRows(more)'
      BY <1>1, <2>1, WithPresent
    <2>3. cached' = cached /\ mismatched' = mismatched /\ ahead' = ahead /\ known' = known
          /\ snap' = snap /\ reads' = reads /\ rows' = rows
      BY <1>3 DEF Flush
    <2>4. AheadOfStamp'
      BY <1>1, <2>3 DEF PastCopies, AheadOfStamp, StampOf
    <2> QED BY <1>2, <2>2, <2>3, <2>4
  <1>4. ASSUME NEW w \in open, CommitWrite(w) PROVE Past'
    <2>1. \A t \in past : Earlier(t)'
      BY <1>1, <1>4, CommitKeepsEarlier
    <2>2. PICK more : past \subseteq more /\ PastRows(more)'
      BY <1>1, <2>1, WithPresent
    <2>3. cached' = cached /\ mismatched' = mismatched /\ ahead' = ahead /\ known' = known
          /\ snap' = snap /\ reads' = reads
      BY <1>4 DEF CommitWrite
    <2>4. AheadOfStamp'
      BY <1>1, <1>4, <2>2, CommitLeavesKnown
    <2> QED BY <1>2, <2>2, <2>3, <2>4
  <1>5. ASSUME NEW here \in BOOLEAN, NEW d \in ConfigKeys, DeleteRow(here, d) PROVE Past'
    <2>1. \A t \in past : Earlier(t)'
      BY <1>1, <1>5, DeleteKeepsEarlier
    <2>2. PICK more : past \subseteq more /\ PastRows(more)'
      BY <1>1, <2>1, WithPresent
    <2>3. cached' = cached /\ known' = known /\ snap' = snap /\ reads' = reads
      BY <1>5 DEF DeleteRow
    <2>4. mismatched' \cup ahead' = mismatched \cup ahead
      BY <1>5 DEF DeleteRow
    <2>5. AheadOfStamp'
      <3>1. rows' = [rows EXCEPT ![d] = 0] /\ (ahead' = {} \/ known # StampOf([rows EXCEPT ![d] = 0]))
        BY <1>5 DEF DeleteRow
      <3> QED BY <2>3, <3>1 DEF AheadOfStamp, StampOf
    <2> QED BY <1>2, <2>2, <2>3, <2>4, <2>5
  <1> QED BY <1>3, <1>4, <1>5

LEMMA ReadsKeepPast ==
    ASSUME ConfigTypes, Times, cached # "settings", Past
    PROVE  /\ \A w \in open : RollBackWrite(w) => Past'
           /\ \A w \in owed : WriterReturns(w) => Past'
           /\ \A r \in Readers, k \in ConfigKeys : CheckPrompts(r, k) => Past'
           /\ \A r \in Readers, k \in ConfigKeys : ReadUnstamped(r, k) => Past'
           /\ \A r \in Readers : CheckTunables(r) => Past'
           /\ \A r \in Readers : FetchRows(r) => Past'
           /\ \A r \in Readers : Install(r) => Past'
           /\ \A r \in Readers : GiveUpRead(r) => Past'
           /\ \A k \in ConfigKeys : Expire(k) => Past'
  <1>1. PICK past \in SUBSET Contents : PastRows(past) /\ PastCopies(past)
    BY DEF Past
  <1>2. ASSUME cached' = cached, ahead' \subseteq ahead, known' = known, SnapStays,
               \A q \in Readers :
                   \/ reads'[q] = reads[q]
                   \/ reads'[q].phase # "fetched" /\ Seen(past, reads'[q].stamp),
               rows' = rows, open' \subseteq open, tick' = tick
        PROVE  Past'
    <2>0. AheadOfStamp'
      BY <1>1, <1>2 DEF PastCopies, AheadOfStamp, StampOf
    <2>1. PastCopies(past)'
      BY <1>1, <1>2, <2>0, CopiesStay
    <2> QED BY <1>1, <1>2, <2>1, PastStays
  <1>3. ASSUME NEW w \in open, RollBackWrite(w) PROVE Past'
    <2>1. SnapStays
      BY <1>3 DEF RollBackWrite, SnapStays
    <2> QED BY <1>2, <1>3, <2>1 DEF RollBackWrite
  <1>4. ASSUME NEW r \in Readers, NEW k \in ConfigKeys, CheckPrompts(r, k) PROVE Past'
    <2>1. PastCopies(past)'
      BY <1>1, <1>4, CheckPromptsCopies
    <2>2. rows' = rows /\ open' = open /\ tick' = tick
      BY <1>4 DEF CheckPrompts
    <2> QED BY <1>1, <2>1, <2>2, PastStays
  <1>5. ASSUME NEW r \in Readers, NEW k \in ConfigKeys, ReadUnstamped(r, k) PROVE Past'
    <2>1. PICK read : read = ReadOfStamp(k, known)
      OBVIOUS
    <2>2. read.phase = "stamped" /\ read.stamp = known
      BY <2>1, StampedRead DEF ConfigTypes
    <2>a. Seen(past, known)
      BY <1>1 DEF PastCopies, CopyOf, Seen
    <2>3. \A q \in Readers :
              \/ reads'[q] = reads[q]
              \/ reads'[q].phase # "fetched" /\ Seen(past, reads'[q].stamp)
      BY <1>5, <2>1, <2>2, <2>a, ReadingChanges DEF ReadUnstamped, ReadOfStamp
    <2>4. SnapStays
      BY <1>5 DEF ReadUnstamped, Unmarked, SnapStays, ConfigTypes, Contents
    <2>5. cached' = cached /\ ahead' \subseteq ahead /\ known' = known
          /\ rows' = rows /\ open' = open /\ tick' = tick
      BY <1>5 DEF ReadUnstamped, Unmarked
    <2> QED BY <1>2, <2>3, <2>4, <2>5
  <1>6. ASSUME NEW r \in Readers, CheckTunables(r) PROVE Past'
    <2>0. NoRead.key \in ConfigKeys
      BY NoReadType DEF ConfigTypes
    <2>1. \A q \in Readers :
              \/ reads'[q] = reads[q]
              \/ reads'[q].phase # "fetched" /\ Seen(past, reads'[q].stamp)
      BY <1>1, <1>6, <2>0, StartedChanges DEF CheckTunables
    <2>2. cached' = cached /\ mismatched' = mismatched /\ ahead' = ahead /\ known' = known /\ snap' = snap
          /\ rows' = rows /\ open' = open /\ tick' = tick
      BY <1>6 DEF CheckTunables
    <2>3. SnapStays
      BY <2>2 DEF SnapStays
    <2> QED BY <1>2, <2>1, <2>2, <2>3
  <1>7. ASSUME NEW r \in Readers, FetchRows(r) PROVE Past'
    <2>1. PastCopies(past)'
      BY <1>1, <1>7, FetchCopies
    <2>2. rows' = rows /\ open' = open /\ tick' = tick
      BY <1>7 DEF FetchRows
    <2> QED BY <1>1, <2>1, <2>2, PastStays
  <1>8. ASSUME NEW r \in Readers, Install(r) PROVE Past'
    <2>1. PastCopies(past)'
      BY <1>1, <1>8, InstallCopies
    <2>2. rows' = rows /\ open' = open /\ tick' = tick
      BY <1>8 DEF Install
    <2> QED BY <1>1, <2>1, <2>2, PastStays
  <1>9. ASSUME NEW r \in Readers, GiveUpRead(r) PROVE Past'
    <2>1. \A q \in Readers :
              \/ reads'[q] = reads[q]
              \/ reads'[q].phase # "fetched" /\ Seen(past, reads'[q].stamp)
      BY <1>9, NothingRead DEF GiveUpRead
    <2>2. cached' = cached /\ mismatched' = mismatched /\ ahead' = ahead /\ known' = known /\ snap' = snap
          /\ rows' = rows /\ open' = open /\ tick' = tick
      BY <1>9 DEF GiveUpRead
    <2>3. SnapStays
      BY <2>2 DEF SnapStays
    <2> QED BY <1>2, <2>1, <2>2, <2>3
  <1>10. ASSUME NEW k \in ConfigKeys, Expire(k) PROVE Past'
    <2>1. cached = "prompts"
      BY <1>10, ConfigAssumption DEF Expire, ConfigTypes
    <2>2. SnapStays
      BY <1>10, <2>1 DEF Expire, Unmarked, SnapStays, ConfigTypes, Contents
    <2>3. cached' = cached /\ ahead' \subseteq ahead /\ known' = known /\ reads' = reads
          /\ rows' = rows /\ open' = open /\ tick' = tick
      BY <1>10 DEF Expire, Unmarked
    <2> QED BY <1>2, <2>2, <2>3
  <1>11. ASSUME NEW w \in owed, WriterReturns(w) PROVE Past'
    <2>1. cached = "tunables" \/ cached = "prompts"
      BY ConfigAssumption DEF ConfigTypes
    <2>2. cached' = cached /\ reads' = reads
          /\ rows' = rows /\ open' = open /\ tick' = tick
      BY <1>11 DEF WriterReturns
    <2>3. CASE cached = "tunables"
      <3>1. known' = NoStamp
        BY <1>11, <2>3 DEF WriterReturns
      <3>2. AheadOfStamp'
        <4>1. rows \in Contents /\ tick \in Nat /\ (\A k \in ConfigKeys : rows[k] <= tick) /\ Tables # {}
          BY DEF ConfigTypes, Times
        <4> QED BY <2>2, <3>1, <4>1, NoTableNoStamp DEF AheadOfStamp, StampOf, NoStamp, NotCached
      <3>3. PastCopies(past)'
        BY <1>1, <2>2, <3>1, <3>2, CopiesStay
      <3> QED BY <1>1, <2>2, <3>3, PastStays
    <2>4. CASE cached = "prompts"
      <3>1. known' = known /\ ahead' \subseteq ahead
        BY <1>11, <2>4 DEF WriterReturns, Unmarked
      <3>2. SnapStays
        BY <1>11, <2>4 DEF WriterReturns, Unmarked, SnapStays, ConfigTypes, Contents
      <3> QED BY <1>2, <2>2, <3>1, <3>2
    <2> QED BY <2>1, <2>3, <2>4
  <1> QED BY <1>3, <1>4, <1>5, <1>6, <1>7, <1>8, <1>9, <1>10, <1>11

LEMMA LateStays ==
    ASSUME late, ConfigNext
    PROVE  late'
  <1>1. ASSUME NEW here \in BOOLEAN, NEW k \in ConfigKeys,
               Flush(here, k) \/ DeleteRow(here, k) \/ Save(here, k)
        PROVE  late'
    BY <1>1 DEF Flush, DeleteRow, Save
  <1>2. ASSUME NEW w \in open, CommitWrite(w) \/ RollBackWrite(w) PROVE late'
    BY <1>2 DEF CommitWrite, RollBackWrite
  <1>3. ASSUME NEW w \in owed, WriterReturns(w) \/ ClearSettings(w) PROVE late'
    BY <1>3 DEF WriterReturns, ClearSettings, ClearAtOnce
  <1>4. ASSUME NEW r \in Readers, NEW k \in ConfigKeys, CheckPrompts(r, k) \/ ReadUnstamped(r, k)
        PROVE  late'
    BY <1>4 DEF CheckPrompts, ReadUnstamped
  <1>5. ASSUME NEW r \in Readers,
               CheckTunables(r) \/ CheckSettings(r) \/ FetchRows(r) \/ Install(r) \/ GiveUpRead(r)
        PROVE  late'
    BY <1>5 DEF CheckTunables, CheckSettings, FetchRows, Install, GiveUpRead
  <1>6. ASSUME NEW k \in ConfigKeys, Expire(k) PROVE late'
    BY <1>6 DEF Expire
  <1> QED BY <1>1, <1>2, <1>3, <1>4, <1>5, <1>6 DEF ConfigNext

LEMMA HistoryStep ==
    ASSUME ConfigTypes, ConfigTypes', Times, Times', ByTable, History, ConfigNext
    PROVE  History'
  <1> SUFFICES ASSUME ~late', cached' # "settings" PROVE Past'
    BY DEF History
  <1>1. cached # "settings"
    BY ByTableStep
  <1>2. ~late
    BY LateStays
  <1>3. Past
    BY <1>1, <1>2 DEF History
  <1>4. /\ \A here \in BOOLEAN, k \in ConfigKeys : ~Save(here, k)
        /\ \A r \in Readers : ~CheckSettings(r)
        /\ \A w \in owed : ~ClearSettings(w)
    BY <1>1 DEF Save, CheckSettings, ClearSettings
  <1> QED BY <1>1, <1>3, <1>4, WritesKeepPast, ReadsKeepPast DEF ConfigNext

-----------------------------------------------------------------------------
(* The settings.  Nothing is cleared while one reads, so what is read is   *)
(* not older than what has been cleared.                                   *)

SettingsSeen == OnTheWay /\ SavedSettingsAreSeen

LEMMA SavingSeen ==
    ASSUME ConfigTypes, Times, ByTable, SettingsSeen, cached = "settings"
    PROVE  /\ \A here \in BOOLEAN, k \in ConfigKeys : Save(here, k) => SettingsSeen'
           /\ \A w \in owed : ClearSettings(w) => SettingsSeen'
           /\ \A k \in ConfigKeys : Expire(k) => SettingsSeen'
  <1> DEFINE key == NoRead.key
  <1>0. key \in ConfigKeys /\ rows[key] \in Nat /\ tick \in Nat /\ own \in Nat /\ snap \in Contents
        /\ rows \in Contents /\ rows[key] <= tick /\ key' = key
    BY NoReadType DEF ConfigTypes, Contents, Times, NoRead, NoStamp, NotCached
  <1>1. /\ own <= rows[key]
        /\ \A w \in owed : w.key = key /\ w.at <= rows[key] /\ w.at \in Nat
        /\ \A r \in Readers :
               reads[r].key = key /\ (reads[r].phase = "fetched" => own <= reads[r].got[key])
        /\ snap[key] = NotCached \/ snap[key] >= own
    BY DEF SettingsSeen, OnTheWay, SavedSettingsAreSeen, ConfigTypes, OwedReturns
  <1>2. ASSUME cached' = cached, own' <= rows'[key],
               \A w \in owed' : w.key = key /\ w.at <= rows'[key],
               \A r \in Readers :
                   reads'[r].key = key /\ (reads'[r].phase = "fetched" => own' <= reads'[r].got[key]),
               snap'[key] = NotCached \/ snap'[key] >= own'
        PROVE  SettingsSeen'
    BY <1>0, <1>2 DEF SettingsSeen, OnTheWay, SavedSettingsAreSeen, NotCached
  <1> HIDE DEF key
  <1>3. ASSUME NEW here \in BOOLEAN, NEW k \in ConfigKeys, Save(here, k) PROVE SettingsSeen'
    <2>0. k = key
      BY <1>3 DEF Save, key
    <2>1. PICK new : new = [key |-> key, at |-> tick + 1]
      OBVIOUS
    <2>2. rows' = [rows EXCEPT ![key] = tick + 1] /\ (owed' = owed \/ owed' = owed \cup {new})
          /\ cached' = cached /\ snap' = snap /\ reads' = reads /\ own' = own
      BY <1>3, <2>0, <2>1 DEF Save
    <2>3. rows'[key] = tick + 1
      BY <1>0, <2>2 DEF Contents
    <2>4. own' <= rows'[key]
      BY <1>0, <1>1, <2>2, <2>3
    <2>5. \A w \in owed' : w.key = key /\ w.at <= rows'[key]
      <3>1. new.key = key /\ new.at = tick + 1
        BY <2>1
      <3> QED BY <1>0, <1>1, <2>2, <2>3, <3>1
    <2> QED BY <1>1, <1>2, <2>2, <2>4, <2>5
  <1>4. ASSUME NEW w \in owed, ClearSettings(w) PROVE SettingsSeen'
    <2>1. owed' = owed \ {w} /\ snap' = [snap EXCEPT ![key] = NotCached]
          /\ cached' = cached /\ rows' = rows /\ reads' = reads /\ own' = Max({own, w.at})
      BY <1>1, <1>4 DEF ClearSettings, ClearAtOnce
    <2>2. snap'[key] = NotCached
      BY <1>0, <2>1 DEF Contents
    <2>3. own' <= rows'[key]
      <3>1. own' \in {own, w.at}
        BY <1>0, <1>1, <2>1, MaxOfTwo
      <3> QED BY <1>1, <2>1, <3>1
    <2>4. \A r \in Readers : reads[r].phase = "none"
      BY <1>4, NoReadType DEF ClearSettings, LockFree, ConfigTypes
    <2> QED BY <1>1, <1>2, <2>1, <2>2, <2>3, <2>4
  <1>5. ASSUME NEW k \in ConfigKeys, Expire(k) PROVE SettingsSeen'
    <2>1. cached' = cached /\ rows' = rows /\ owed' = owed /\ reads' = reads /\ own' = own
          /\ snap' = [snap EXCEPT ![k] = NotCached]
      BY <1>5 DEF Expire
    <2>2. snap'[key] = NotCached \/ snap'[key] = snap[key]
      BY <1>0, <2>1 DEF Contents
    <2> QED BY <1>1, <1>2, <2>1, <2>2
  <1> QED BY <1>3, <1>4, <1>5

LEMMA LoadingSeen ==
    ASSUME ConfigTypes, Times, ByTable, SettingsSeen, cached = "settings"
    PROVE  /\ \A r \in Readers : CheckSettings(r) => SettingsSeen'
           /\ \A r \in Readers : FetchRows(r) => SettingsSeen'
           /\ \A r \in Readers : Install(r) => SettingsSeen'
           /\ \A r \in Readers : GiveUpRead(r) => SettingsSeen'
  <1> DEFINE key == NoRead.key
  <1>0. key \in ConfigKeys /\ snap \in Contents /\ rows \in Contents /\ key' = key
    BY NoReadType DEF ConfigTypes, NoRead, NoStamp, NotCached
  <1>1. /\ own <= rows[key]
        /\ \A w \in owed : w.key = key /\ w.at <= rows[key]
        /\ \A r \in Readers :
               reads[r].key = key /\ (reads[r].phase = "fetched" => own <= reads[r].got[key])
        /\ snap[key] = NotCached \/ snap[key] >= own
    BY DEF SettingsSeen, OnTheWay, SavedSettingsAreSeen
  <1>2. ASSUME cached' = cached, rows' = rows, owed' = owed, own' = own,
               NEW r \in Readers, NEW read, Reading(r, read),
               read.key = key, read.phase = "fetched" => own <= read.got[key],
               snap'[key] = NotCached \/ snap'[key] >= own
        PROVE  SettingsSeen'
    <2>1. reads'[r] = read /\ \A q \in Readers : q # r => reads'[q] = reads[q]
      BY <1>2, ReadingChanges
    <2>2. \A q \in Readers :
              reads'[q].key = key /\ (reads'[q].phase = "fetched" => own' <= reads'[q].got[key])
      BY <1>1, <1>2, <2>1
    <2> QED BY <1>0, <1>1, <1>2, <2>2 DEF SettingsSeen, OnTheWay, SavedSettingsAreSeen, NotCached
  <1>3. NoRead.key = key /\ NoRead.phase = "none"
    BY NoReadType DEF ConfigTypes
  <1> HIDE DEF key
  <1>4. ASSUME NEW r \in Readers, CheckSettings(r) PROVE SettingsSeen'
    <2>1. PICK read : read = ReadOfStamp(key, StampOf(rows))
      OBVIOUS
    <2>2. read.phase = "stamped" /\ read.key = key
      <3>1. StampOf(rows) \in Nat \X Nat
        BY PresentStamp
      <3> QED BY <1>0, <2>1, <3>1, StampedRead DEF ConfigTypes
    <2>3. Reading(r, read)
      BY <1>3, <1>4, <2>1 DEF CheckSettings, Started, ReadOfStamp
    <2> QED BY <1>1, <1>2, <1>4, <2>2, <2>3 DEF CheckSettings
  <1>5. ASSUME NEW r \in Readers, FetchRows(r) PROVE SettingsSeen'
    <2>0. PICK read : read = reads[r]
      OBVIOUS
    <2>1. PICK got : got = [k \in ConfigKeys |->
                   IF cached = "tunables" \/ k = reads[r].key THEN rows[k] ELSE 0]
      OBVIOUS
    <2>2. PICK torn : torn = (read.stamp # StampOf(rows))
      OBVIOUS
    <2>3. PICK new : new = [read EXCEPT !.phase = "fetched", !.got = got, !.torn = torn]
      OBVIOUS
    <2>4. cached' = cached /\ rows' = rows /\ owed' = owed /\ own' = own /\ snap' = snap
          /\ Reading(r, new)
      BY <1>5, <2>0, <2>1, <2>2, <2>3 DEF FetchRows
    <2>5. read \in ReadsUnderWay /\ read.key = key
      BY <1>1, <2>0 DEF ConfigTypes
    <2>6. new.key = key /\ new.got = got
      BY <2>3, <2>5 DEF ReadsUnderWay
    <2>7. got[key] = rows[key]
      BY <1>0, <2>0, <2>1, <2>5
    <2> QED BY <1>1, <1>2, <2>4, <2>6, <2>7
  <1>6. ASSUME NEW r \in Readers, Install(r) PROVE SettingsSeen'
    <2>0. PICK read : read = reads[r]
      OBVIOUS
    <2>1. cached' = cached /\ rows' = rows /\ owed' = owed /\ own' = own /\ Reading(r, NoRead)
          /\ snap' = [snap EXCEPT ![read.key] = read.got[read.key]] /\ read.phase = "fetched"
      BY <1>6, <2>0 DEF Install
    <2>2. read.key = key /\ own <= read.got[key]
      BY <1>1, <2>0, <2>1
    <2>3. snap'[key] = read.got[key]
      BY <1>0, <2>1, <2>2 DEF Contents
    <2>4. read.got[key] \in Nat /\ own \in Nat
      BY <1>0, <2>0 DEF ConfigTypes, ReadsUnderWay, Contents
    <2> QED BY <1>2, <1>3, <2>1, <2>2, <2>3, <2>4
  <1>7. ASSUME NEW r \in Readers, GiveUpRead(r) PROVE SettingsSeen'
    BY <1>1, <1>2, <1>3, <1>7 DEF GiveUpRead
  <1> QED BY <1>4, <1>5, <1>6, <1>7

LEMMA SettingsStep ==
    ASSUME ConfigTypes, Times, ByTable, SettingsSeen, ConfigNext
    PROVE  SettingsSeen'
  <1>1. CASE cached # "settings"
    BY <1>1, ByTableStep DEF SettingsSeen, OnTheWay, SavedSettingsAreSeen
  <1>2. CASE cached = "settings"
    <2>1. /\ \A here \in BOOLEAN, k \in ConfigKeys : ~Flush(here, k) /\ ~DeleteRow(here, k)
          /\ open = {}
          /\ \A w \in owed : ~WriterReturns(w)
          /\ \A r \in Readers, k \in ConfigKeys : ~CheckPrompts(r, k) /\ ~ReadUnstamped(r, k)
          /\ \A r \in Readers : ~CheckTunables(r)
      BY <1>2 DEF Flush, DeleteRow, WriterReturns, CheckPrompts, ReadUnstamped, CheckTunables, ByTable
    <2> QED BY <1>2, <2>1, SavingSeen, LoadingSeen DEF ConfigNext
  <1> QED BY <1>1, <1>2

-----------------------------------------------------------------------------
(* The theorem.                                                            *)

LEMMA ConfigInitially == ConfigInit => ConfigInv
  <1> SUFFICES ASSUME ConfigInit PROVE ConfigInv
    OBVIOUS
  <1>0. cached \in Tables /\ NotCached \in Nat /\ NoRead \in ReadsUnderWay
        /\ NoRead.phase = "none" /\ NoRead.key \in ConfigKeys /\ NoStamp \in Nat \X Nat
    BY NotCachedIsTime, NoReadType DEF ConfigInit
  <1>1. ConfigTypes
    BY <1>0 DEF ConfigInit, ConfigTypes, Contents
  <1>2. Times /\ ByTable
    BY DEF ConfigInit, Times, ByTable
  <1>3. Past
    <2>1. PICK now : now = rows
      OBVIOUS
    <2>2. Earlier(now)
      BY <1>2, <2>1 DEF Earlier, Times, ConfigInit
    <2>3. PastRows({now})
      BY <1>1, <2>1, <2>2 DEF PastRows, ConfigTypes
    <2>4. PastCopies({now})
      <3>1. NoRead.stamp = NoStamp
        BY DEF NoRead
      <3> QED BY <1>0, <3>1 DEF PastCopies, ConfigInit, AheadOfStamp, Seen
    <2> QED BY <2>3, <2>4 DEF Past, PastRows
  <1>4. OnTheWay /\ SavedSettingsAreSeen
    <2>1. own = 0 /\ owed = {} /\ \A r \in Readers : reads[r] = NoRead
      BY DEF ConfigInit
    <2>2. rows[NoRead.key] \in Nat /\ snap[NoRead.key] \in Nat
      BY <1>0, <1>1 DEF ConfigTypes, Contents
    <2> QED BY <1>0, <2>1, <2>2 DEF OnTheWay, SavedSettingsAreSeen
  <1> QED BY <1>1, <1>2, <1>3, <1>4 DEF ConfigInv, History

LEMMA ConfigStep == ConfigInv /\ [ConfigNext]_configVars => ConfigInv'
  <1> SUFFICES ASSUME ConfigInv, [ConfigNext]_configVars PROVE ConfigInv'
    OBVIOUS
  <1>1. CASE ConfigNext
    <2>1. ConfigTypes' /\ Times' /\ ByTable'
      BY <1>1, TypesStep, TimesStep, ByTableStep DEF ConfigInv
    <2>2. History'
      BY <1>1, <2>1, HistoryStep DEF ConfigInv
    <2>3. SettingsSeen'
      BY <1>1, SettingsStep DEF ConfigInv, SettingsSeen
    <2> QED BY <2>1, <2>2, <2>3 DEF ConfigInv, SettingsSeen
  <1>2. CASE UNCHANGED configVars
    <2>1. ConfigTypes' /\ Times' /\ ByTable'
      BY <1>2 DEF configVars, ConfigInv, ConfigTypes, Times, ByTable
    <2>2. ASSUME ~late, cached # "settings"
          PROVE  Past'
      <3>1. PICK past \in SUBSET Contents : PastRows(past) /\ PastCopies(past)
        BY <2>2 DEF ConfigInv, History, Past
      <3>2. AheadOfStamp'
        BY <1>2, <3>1 DEF configVars, PastCopies, AheadOfStamp, StampOf
      <3>3. PastCopies(past)'
        <4>1. SnapStays
          BY <1>2 DEF configVars, SnapStays
        <4> QED BY <1>2, <3>1, <3>2, <4>1, CopiesStay DEF configVars, ConfigInv
      <3> QED BY <1>2, <3>1, <3>3, PastStays DEF configVars
    <2>3. OnTheWay' /\ SavedSettingsAreSeen'
      BY <1>2 DEF configVars, ConfigInv, OnTheWay, SavedSettingsAreSeen, NoRead, NoStamp, NotCached
    <2> QED BY <1>2, <2>1, <2>2, <2>3 DEF configVars, ConfigInv, History
  <1> QED BY <1>1, <1>2

LEMMA CurrentOfInv == ConfigInv => CachesAreCurrent
  <1> SUFFICES ASSUME ConfigInv PROVE StampTellsContents
    BY DEF CachesAreCurrent, ConfigInv
  <1> SUFFICES ASSUME ~late, cached # "settings", known = StampOf(rows)
               PROVE  \A k \in ConfigKeys \ mismatched :
                          snap[k] = rows[k] \/ (cached = "prompts" /\ snap[k] = NotCached)
    BY DEF StampTellsContents
  <1>1. PICK past \in SUBSET Contents : PastRows(past) /\ PastCopies(past)
    BY DEF ConfigInv, History, Past
  <1>2. known # NoStamp
    <2>1. rows \in Contents /\ tick \in Nat /\ (\A k \in ConfigKeys : rows[k] <= tick) /\ Tables # {}
      BY DEF ConfigInv, ConfigTypes, Times
    <2> QED BY <2>1, NoTableNoStamp
  <1>3. PICK t \in past : CopyOf(t)
    BY <1>1, <1>2 DEF PastCopies
  <1>4. t = rows
    BY <1>1, <1>3 DEF PastRows, CopyOf
  <1>5. ahead = {}
    BY <1>1 DEF PastCopies, AheadOfStamp
  <1> QED BY <1>3, <1>4, <1>5 DEF CopyOf

\* What a process has cached is what it may answer with, whoever writes, deletes,
\* rolls back or reads in whatever order.  Under the table's stamp each row is the
\* table's, if no commit came after one of a later time (~late) and but for the
\* rows that were cached under a stamp that is not of their read (mismatched); and
\* settings are never older than a save of the process that has returned
\* (config_versions.py, ensure_fresh, load_prompt_template, load_settings,
\* save_settings).
THEOREM CachesStayCurrent == ConfigSpec => []CachesAreCurrent
  BY ConfigInitially, ConfigStep, CurrentOfInv, PTL DEF ConfigSpec

=============================================================================
