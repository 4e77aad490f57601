----------------------------- MODULE CharacterCards -----------------------------
(***************************************************************************)
(* Character cards: what users edit and roll back, what extractions of     *)
(* chapters observe, the sparse history of states, the links between       *)
(* cards, their digests, and what the writer of a chapter is shown.        *)
(*                                                                         *)
(* src/services/character_card_service.py, character_relationship_service, *)
(* character_manifest_service, character_context, chapter_deletion and     *)
(* routers/characters.py. An extraction lists the cards first and locks    *)
(* them one by one later; its session goes on with the objects it has      *)
(* listed and writes the columns that differ from them. Arcs, which are    *)
(* derived from the card alone, importance and statuses are left out.      *)
(***************************************************************************)
EXTENDS Naturals, FiniteSets, Sequences, SequencesExt

CONSTANTS
    Cards,          \* bound: cards, as numbers
    CardNames,      \* names and aliases
    CardStates,     \* what a card's current_state may say
    CardChapters,   \* bound: chapters
    MaxUpdates,     \* bound: updates in one extraction
    MaxEdits,       \* bound: user's edits, rollbacks, creations and deletions
    MaxBatches      \* bound: extractions

NoName == "none"
NoState == "no state"

ASSUME CardsAssumption ==
    /\ Cards \subseteq Nat \ {0} /\ IsFiniteSet(Cards)
    /\ NoName \notin CardNames /\ NoState \notin CardStates
    /\ CardChapters \in Nat \ {0} /\ MaxUpdates \in Nat
    /\ MaxEdits \in Nat /\ MaxBatches \in Nat

VARIABLES
    cast,       \* the tables: cards, states, links, digests and past payloads
    chapters,   \* chapters whose cards have been extracted, and not deleted
    batch,      \* the extraction in flight: its chapter, updates and cards read
    seen,       \* history: card -> chapter -> state its extraction arrived at
    origin,     \* history: card -> chapter its state comes from, 0: from the user
    orderly,    \* history: chapters extracted once, in order, no card by two names
    meddled,    \* history: cards redated by hand or seen in a deleted chapter
    edits, batches

cardVars == <<cast, chapters, batch, seen, origin, orderly, meddled, edits, batches>>

Blank == "blank"
Same == "same"
Unborn == [name |-> NoName, aliases |-> {}, state |-> NoState, last |-> 0, links |-> {}]
NoBatch == [ch |-> 0, updates |-> <<>>, read |-> [c \in Cards |-> Unborn]]

CardsInit ==
    /\ cast = [card   |-> [c \in Cards |-> Unborn],
               row    |-> [c \in Cards |-> [d \in 1..CardChapters |-> NoState]],
               link   |-> [c \in Cards |-> [t \in Cards |-> 0]],
               digest |-> [c \in Cards |-> {}],
               past   |-> [c \in Cards |-> {}]]
    /\ chapters = 0
    /\ batch = NoBatch
    /\ seen = [c \in Cards |-> [d \in 1..CardChapters |-> NoState]]
    /\ origin = [c \in Cards |-> 0]
    /\ orderly = TRUE /\ meddled = {}
    /\ edits = 0 /\ batches = 0

-----------------------------------------------------------------------------
(* A session: the tables, the cards it has in memory, and what it created. *)

Session(read) == [db |-> cast, mem |-> read, born |-> {}, ok |-> TRUE,
                  seen |-> seen, origin |-> origin]
Fresh == Session([c \in Cards |-> Unborn])
View(s) == [c \in Cards |-> IF s.mem[c] = Unborn THEN s.db.card[c] ELSE s.mem[c]]
Latest(S) == CHOOSE n \in S : \A m \in S : m <= n

\* The card a name or alias stands for; of several, one end of an order that the
\* data decide.
Holders(view, n) == {c \in Cards : n = view[c].name \/ n \in view[c].aliases}
Find(view, n, high) ==
    LET H == Holders(view, n)
    IN IF H = {} THEN 0
       ELSE CHOOSE c \in H : \A d \in H : IF high THEN d <= c ELSE c <= d

\* sync_card_relationships, of each card of C: names that find another card are
\* its links; one that is there already keeps the chapter it starts with.
Linked(s, C, ch, high) ==
    LET view == View(s)
        wanted(c) == {Find(view, n, high) : n \in view[c].links} \ {0, c}
    IN [s EXCEPT !.db.link = [c \in Cards |->
          IF c \notin C THEN @[c]
          ELSE [t \in Cards |-> IF t \notin wanted(c) THEN 0
                                 ELSE IF @[c][t] # 0 THEN @[c][t] ELSE ch]]]

\* refresh_manifest: the digest names the linked cards as they are called now.
Digested(s, C) ==
    [s EXCEPT !.db.digest = [c \in Cards |->
        IF c \notin C THEN @[c]
        ELSE {<<t, s.db.card[t].name>> : t \in {u \in Cards : s.db.link[c][u] # 0}}]]
Settled(s, C, ch, high) == Digested(Linked(s, C, ch, high), C)

\* A card is written: the columns that differ from those in memory.
Written(s, c, new) ==
    LET old == View(s)[c] IN
    [s EXCEPT !.mem[c] = new,
              !.db.card[c] = [f \in DOMAIN new |-> IF new[f] # old[f] THEN new[f] ELSE @[f]]]

\* update_character_card, under the lock of the card's row: the payload before
\* the change is kept.
Updated(s, c, new, ch, high) ==
    LET old == View(s)[c]
        kept == IF new = old THEN s ELSE [s EXCEPT !.db.past[c] = @ \cup {old}]
    IN Settled(Written(kept, c, new), {c}, ch, high)

NameTaken(s, n) == \E c \in Cards : s.db.card[c].name = n

\* create_character_card.
Created(s, c, new, high) ==
    Settled([s EXCEPT !.mem[c] = new, !.db.card[c] = new], {c}, 1, high)

\* get_state_at_chapter.
StateAt(db, c, ch) ==
    LET R == {d \in 1..ch : db.row[c][d] # NoState}
    IN IF R = {} THEN NoState ELSE db.row[c][Latest(R)]

\* Mutant: compared with the state the card has.
StateKeptIfNew(s, c, ch, state, high) ==
    IF cast.card[c].state = state THEN s
    ELSE Settled(Written([s EXCEPT !.db.row[c][ch] = state], c,
                         [View(s)[c] EXCEPT !.state = state, !.last = ch]), {c}, ch, high)

\* record_chapter_state_if_changed: a state that is the same as one chapter
\* before leaves everything as it is.
StateKept(s, c, ch, state, high) ==
    IF StateAt(s.db, c, ch - 1) = state THEN s
    ELSE Settled(Written([s EXCEPT !.db.row[c][ch] = state], c,
                         [View(s)[c] EXCEPT !.state = state, !.last = ch]), {c}, ch, high)

-----------------------------------------------------------------------------
(* Extractions.                                                            *)

\* An update says of a name: a state, a relation to a name, and whether it has
\* data enough for a new card. A relation changes the state as well (the list
\* of relationship_changes in it).
Updates ==
    {u \in [name : CardNames, says : CardStates \cup {Same},
            to : CardNames \cup {NoName}, data : BOOLEAN] :
        /\ u.to # NoName => u.says # Same /\ u.to # u.name
        /\ u.data => u.says # Same}

Relations(u) == IF u.to = NoName THEN {} ELSE {u.to}

Observed(s, c, ch, state) ==
    [s EXCEPT !.seen[c][ch] = state, !.origin[c] = ch]

\* One update of apply_character_card_updates. A name that finds no card makes
\* one, unless a user has just given a card that name: then the extraction
\* fails as a whole.
Applied(s, ch, u, high) ==
    LET known == Find(s.mem, u.name, high)
        unborn == {d \in Cards : s.db.card[d] = Unborn}
        c == Latest(unborn)
        newcomer == [Unborn EXCEPT !.name = u.name, !.last = ch, !.links = Relations(u),
                                   !.state = IF u.says = Same THEN Blank ELSE u.says]
        old == s.mem[known]
        next == IF u.says = Same THEN old.state ELSE u.says
        changed == [old EXCEPT !.links = @ \cup Relations(u), !.state = next, !.last = ch]
        updated == Updated(s, known, changed, ch, high)
    IN IF ~s.ok \/ (known = 0 /\ (~u.data \/ unborn = {})) THEN s    \* bound: cards
       ELSE CASE known = 0 /\ NameTaken(s, u.name) -> [s EXCEPT !.ok = FALSE]
              [] known = 0 /\ ~NameTaken(s, u.name) ->
                   Observed(StateKept(Created([s EXCEPT !.born = @ \cup {c}], c, newcomer, high),
                                     c, ch, newcomer.state, high), c, ch, newcomer.state)
              [] known # 0 /\ u.says = Same -> updated
              [] known # 0 /\ u.says # Same ->
                   Observed(StateKept(updated, known, ch, next, high), known, ch, next)

\* One update after the other.
AfterUpdates(s, ch, updates, high) ==
    LET after[i \in 0..Len(updates)] ==
            IF i = 0 THEN s ELSE Applied(after[i - 1], ch, updates[i], high)
    IN after[Len(updates)]

\* Mutant: newcomers are not linked again.
UnlinkedBatch(s, ch, updates, high) == AfterUpdates(s, ch, updates, high)

\* apply_character_card_updates: at its end the newcomers are linked once more,
\* now that all of them exist.
Batched(s, ch, updates, high) ==
    LET done == AfterUpdates(s, ch, updates, high)
    IN Settled(done, done.born, ch, high)

\* merge_initial_character_updates leaves one update for a name. Bound: of several
\* updates all have data for a new card, which a known card does not take.
Batches ==
    {us \in SeqOf(Updates, MaxUpdates) :
        \A i, j \in DOMAIN us : i # j => us[i].name # us[j].name /\ us[i].data}

\* The cards are listed; a chapter is extracted when it has been written, or
\* again.
ListCards(ch, updates) ==
    /\ batch = NoBatch /\ batches < MaxBatches /\ ch <= chapters + 1
    /\ Cardinality({i \in DOMAIN updates : updates[i].data}) <=
         Cardinality({c \in Cards : cast.card[c] = Unborn})     \* bound: cards
    /\ batch' = [ch |-> ch, updates |-> updates, read |-> cast.card]
    /\ batches' = batches + 1
    /\ UNCHANGED <<cast, chapters, seen, origin, orderly, meddled, edits>>

\* No card is observed under two of its names.
OneNameEach ==
    \A i, j \in DOMAIN batch.updates :
        \A high \in BOOLEAN :
            LET c(k) == Find(batch.read, batch.updates[k].name, high)
            IN i # j => c(i) = 0 \/ c(i) # c(j)

ApplyBatch ==
    /\ batch # NoBatch
    /\ \E high \in BOOLEAN :
       LET s == Batched(Session(batch.read), batch.ch, batch.updates, high) IN
       IF s.ok
       THEN /\ cast' = s.db /\ seen' = s.seen /\ origin' = s.origin
            /\ orderly' = (orderly /\ batch.ch = chapters + 1 /\ OneNameEach)
            /\ chapters' = IF batch.ch > chapters THEN batch.ch ELSE chapters
       ELSE UNCHANGED <<cast, seen, origin, orderly, chapters>>
    /\ batch' = NoBatch
    /\ UNCHANGED <<meddled, edits, batches>>

-----------------------------------------------------------------------------
(* The user.                                                               *)

Edit == edits < MaxEdits /\ edits' = edits + 1

\* generate_characters, for one card: then all cards are linked and digested.
GenerateCard(n, state, links) ==
    /\ Edit
    /\ ~NameTaken(Fresh, n)
    /\ \E c \in Cards, high \in BOOLEAN :
          /\ cast.card[c] = Unborn
          /\ \A d \in Cards : cast.card[d] = Unborn => d <= c
          /\ cast' =
               LET s == Created(Fresh, c, [Unborn EXCEPT !.name = n, !.state = state,
                                                         !.links = links], high)
                   living == {d \in Cards : s.db.card[d] # Unborn}
               IN Settled(s, living, 1, high).db
    /\ UNCHANGED <<chapters, batch, seen, origin, orderly, meddled, batches>>

\* A rename leaves the old name among the aliases, whatever aliases are asked for.
Renamed(old, n) == [old EXCEPT !.name = n, !.aliases = @ \cup {old.name}]

\* patch_character_card with some of the fields; the links it makes start with
\* the chapter it gives.
PatchCard(c, new, from) ==
    /\ Edit
    /\ cast.card[c] # Unborn
    /\ new.name # cast.card[c].name => ~NameTaken(Fresh, new.name)
    /\ \E high \in BOOLEAN : cast' = Updated(Fresh, c, new, from, high).db
    /\ origin' = IF new.state = cast.card[c].state THEN origin ELSE [origin EXCEPT ![c] = 0]
    /\ meddled' = IF new.last = cast.card[c].last THEN meddled ELSE meddled \cup {c}
    /\ UNCHANGED <<chapters, batch, seen, orderly, batches>>

\* The patches that change one field (bound), and a chapter given with new links.
Relinked(c) == [cast.card[c] EXCEPT !.links = CardNames \ {cast.card[c].name}]
Patched(c) ==
    LET old == cast.card[c] IN
    {Renamed(old, n) : n \in CardNames \ {old.name}}
    \cup {[old EXCEPT !.aliases = A] : A \in {{n} : n \in CardNames}}
    \cup {[old EXCEPT !.state = x] : x \in CardStates}
    \cup {Relinked(c)}
    \cup {[old EXCEPT !.last = d] : d \in 1..CardChapters}

\* rollback_character_card: an earlier payload is written over the card; when
\* it knew of no appearance the card's own stays.
RolledBack(old, p) ==
    [p EXCEPT !.last = IF p.last = 0 THEN old.last ELSE p.last,
              !.aliases = IF p.name = old.name THEN @ ELSE Renamed(old, p.name).aliases]

RollbackCard(c, p) == p \in cast.past[c] /\ PatchCard(c, RolledBack(cast.card[c], p), 1)

\* delete_related_chapter_rows for the last chapter: digests and current states
\* stay as they are.
DeleteCardsChapter ==
    /\ Edit
    /\ chapters > 0
    /\ LET rows == [c \in Cards |-> [cast.row[c] EXCEPT ![chapters] = NoState]]
           left(c) == {d \in 1..CardChapters : rows[c][d] # NoState}
       IN cast' = [cast EXCEPT
             !.row = rows,
             !.card = [c \in Cards |->
                IF @[c].last # chapters THEN @[c]
                ELSE [@[c] EXCEPT !.last = Latest({0} \cup left(c))]],
             !.link = [c \in Cards |-> [t \in Cards |->
                IF @[c][t] >= chapters THEN 0 ELSE @[c][t]]]]
    /\ meddled' = meddled \cup {c \in Cards : seen[c][chapters] # NoState
                                               \/ cast.card[c].last = chapters}
    /\ seen' = [c \in Cards |-> [seen[c] EXCEPT ![chapters] = NoState]]
    /\ batch' = IF batch.ch = chapters THEN NoBatch ELSE batch
    /\ chapters' = chapters - 1
    /\ UNCHANGED <<origin, orderly, batches>>

-----------------------------------------------------------------------------
CardsNext ==
    \/ \E ch \in 1..CardChapters, updates \in Batches : ListCards(ch, updates)
    \/ ApplyBatch
    \/ \E n \in CardNames, x \in CardStates, links \in SUBSET CardNames :
          GenerateCard(n, x, links \ {n})
    \/ \E c \in Cards : \/ \E new \in Patched(c) : PatchCard(c, new, 1)
                        \/ \E from \in 2..CardChapters : PatchCard(c, Relinked(c), from)
                        \/ \E p \in cast.past[c] : RollbackCard(c, p)
    \/ DeleteCardsChapter

CardsSpec == CardsInit /\ [][CardsNext]_cardVars

-----------------------------------------------------------------------------
(* What the writer of chapter n is shown (build_writer_character_context). *)

\* Mutant: a card first seen in the very chapter is not of the future.
FutureTooLate(c, n) == cast.card[c].last > n

Future(c, n) == cast.card[c].last > n - 1

ShownAsIs(c, n) ==
    cast.card[c] # Unborn /\ StateAt(cast, c, n - 1) = NoState /\ ~Future(c, n)

\* Equal states write no row, and yet the history answers exactly: with chapters
\* extracted once and in order and no card observed under two names, the state at
\* a chapter is the one the last extraction up to it arrived at, whatever users
\* edit and roll back meanwhile.
SparseHistoryIsExact ==
    orderly => \A c \in Cards, ch \in 1..chapters :
        LET S == {d \in 1..ch : seen[c][d] # NoState}
        IN StateAt(cast, c, ch) = IF S = {} THEN NoState ELSE seen[c][Latest(S)]

\* "without exposing future state": a card shown with the state it has now, for
\* want of an earlier one, has it from an earlier chapter or from the user. Not
\* so after late extractions, after the deletion of a chapter, which leaves the
\* current state behind, or for a card redated by hand.
WriterSeesNoFuture ==
    orderly => \A c \in Cards \ meddled, n \in 1..(chapters + 1) :
        ShownAsIs(c, n) => origin[c] <= n - 1

\* "Resolve relationships after all first-seen cards from this chapter exist":
\* a card created by an extraction is linked to every other card it names, those
\* created after it included. A card that had another name when the cards were
\* listed is one its session still knows by that name.
NamesAsListed ==
    \A c \in Cards : batch.read[c] # Unborn =>
        /\ batch.read[c].name = cast.card[c].name
        /\ batch.read[c].aliases = cast.card[c].aliases

NewcomersAreLinked ==
    [][\A c \in Cards :
         batch # NoBatch /\ batch' = NoBatch /\ cast.card[c] = Unborn /\ cast'.card[c] # Unborn =>
            \A n \in cast'.card[c].links :
                LET t == Find(cast'.card, n, TRUE)
                    u == Find(cast'.card, n, FALSE)
                IN t \notin {0, c} /\ t = u /\ (cast.card[t] = Unborn \/ NamesAsListed) =>
                       cast'.link[c][t] # 0]_cardVars
=============================================================================
