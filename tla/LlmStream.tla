------------------------------- MODULE LlmStream -------------------------------
(***************************************************************************)
(* One streamed answer of a provider: chunks of a text whose <think> parts  *)
(* are not for the reader, cut anywhere, with events that cannot be read   *)
(* among them; and what the listener is shown of it meanwhile.             *)
(*                                                                         *)
(* src/agents/llm_streaming.py and llm_responses.py, under the deadline of *)
(* llm_transport.py. A text is a sequence of characters. Events that carry *)
(* no text (reasoning of their own, unreadable JSON, usage) change nothing *)
(* here and are left out.                                                  *)
(***************************************************************************)
EXTENDS Naturals, Sequences, SequencesExt

CONSTANTS
    OpenTag,        \* what begins a thought
    CloseTag,       \* and what ends it
    Replies,        \* what a provider may have to say
    ChunkSizes      \* how many characters a chunk may have

ASSUME StreamAssumption ==
    /\ OpenTag \in Seq(STRING) \ {<<>>} /\ CloseTag \in Seq(STRING) \ {<<>>}
    /\ Replies \subseteq Seq(STRING) /\ ChunkSizes \subseteq Nat \ {0}

VARIABLES
    streamPc,   \* "idle", "open", "returned", "raised"
    reply,      \* what the provider has to say
    sent,       \* how much of it has arrived
    parser,     \* ThinkStreamParser: in_think and buffer
    content,    \* full_content
    shown       \* what the listener got on the "llm" channel

streamVars == <<streamPc, reply, sent, parser, content, shown>>

StreamInit ==
    /\ streamPc = "idle" /\ reply = <<>> /\ sent = 0
    /\ parser = [thinking |-> FALSE, buffer |-> <<>>]
    /\ content = <<>> /\ shown = <<>>

-----------------------------------------------------------------------------
(* ThinkStreamParser.                                                      *)

\* The tag that is looked for.
TagIn(thinking) == IF thinking THEN CloseTag ELSE OpenTag

Begins(tag, t, i) == i + Len(tag) - 1 <= Len(t) /\ SubSeq(t, i, i + Len(tag) - 1) = tag

\* buffer.find(tag): where the tag begins, 0 when it is not there.
Found(buffer, tag) ==
    LET at == {i \in 1..Len(buffer) : Begins(tag, buffer, i)}
    IN IF at = {} THEN 0 ELSE CHOOSE i \in at : \A j \in at : i <= j

\* The last n characters are the first ones of the tag.
EndsWith(buffer, tag, n) ==
    n <= Len(buffer) /\ SubSeq(buffer, Len(buffer) - n + 1, Len(buffer)) = SubSeq(tag, 1, n)

\* Mutant: a tag in two chunks is not looked for.
NoHeldBack(buffer, tag) == 0

\* _trailing_partial_tag_len: the longest end that could begin the tag.
HeldBack(buffer, tag) ==
    CHOOSE n \in 0..Len(tag) - 1 :
        /\ EndsWith(buffer, tag, n)
        /\ \A m \in n + 1..Len(tag) - 1 : ~EndsWith(buffer, tag, m)

\* The first n characters of the buffer go where the state says.
Put(p, n) == IF p.thinking THEN p.normal ELSE p.normal \o SubSeq(p.buffer, 1, n)

\* Once through the loop of process: up to the tag and over it, or up to what may
\* be the beginning of one.
Round(p) ==
    LET tag == TagIn(p.thinking)
        i == Found(p.buffer, tag)
        keep == Len(p.buffer) - HeldBack(p.buffer, tag)
    IN IF i # 0
       THEN [thinking |-> ~p.thinking, normal |-> Put(p, i - 1),
             buffer |-> SubSeq(p.buffer, i + Len(tag), Len(p.buffer))]
       ELSE [thinking |-> p.thinking, normal |-> Put(p, keep),
             buffer |-> SubSeq(p.buffer, keep + 1, Len(p.buffer))]

\* process: a round with a tag consumes a character at least, and what a round
\* without one leaves is left by the next one too.
Processed(before, chunk) ==
    LET start == [thinking |-> before.thinking, normal |-> <<>>,
                  buffer |-> before.buffer \o chunk]
        round[n \in 0..Len(start.buffer)] == IF n = 0 THEN start ELSE Round(round[n - 1])
    IN round[Len(start.buffer)]

-----------------------------------------------------------------------------
(* The response.                                                           *)

OpenStream(t) ==
    /\ streamPc = "idle" /\ streamPc' = "open" /\ reply' = t
    /\ UNCHANGED <<sent, parser, content, shown>>

\* A delta of n characters; the listener gets each part as it comes.
Chunk(n) ==
    /\ streamPc = "open" /\ sent + n <= Len(reply)
    /\ LET p == Processed(parser, SubSeq(reply, sent + 1, sent + n)) IN
       /\ parser' = [thinking |-> p.thinking, buffer |-> p.buffer]
       /\ content' = content \o p.normal
       /\ shown' = shown \o p.normal
    /\ sent' = sent + n
    /\ UNCHANGED <<streamPc, reply>>

\* An answer of HTML or of a status above 400, an error event, a connection
\* that breaks, the deadline: what has been shown stays shown.
StreamFails ==
    /\ streamPc = "open" /\ streamPc' = "raised"
    /\ UNCHANGED <<reply, sent, parser, content, shown>>

\* [DONE], or the end of the lines wherever it comes: flush. An answer of
\* reasoning alone is an error.
StreamEnds ==
    /\ streamPc = "open"
    /\ LET rest == IF parser.thinking THEN <<>> ELSE parser.buffer IN
       /\ content' = content \o rest
       /\ shown' = shown \o rest
       /\ streamPc' = IF content \o rest = <<>> THEN "raised" ELSE "returned"
    /\ parser' = [parser EXCEPT !.buffer = <<>>]
    /\ UNCHANGED <<reply, sent>>

StreamNext ==
    \/ \E t \in Replies : OpenStream(t)
    \/ \E n \in ChunkSizes : Chunk(n)
    \/ StreamFails \/ StreamEnds

StreamSpec == StreamInit /\ [][StreamNext]_streamVars

-----------------------------------------------------------------------------
(* Properties.                                                             *)

\* One character more of a reply that is there as a whole: a tag that begins
\* behind the last one turns the state, and its characters are for nobody.
Read(r, t, i) ==
    LET tag == TagIn(r.thinking) IN
    IF i <= r.until \/ (r.thinking /\ ~Begins(tag, t, i)) THEN r
    ELSE IF Begins(tag, t, i)
    THEN [thinking |-> ~r.thinking, until |-> i + Len(tag) - 1, kept |-> r.kept]
    ELSE [r EXCEPT !.kept = Append(@, t[i])]

Unread == [thinking |-> FALSE, until |-> 0, kept |-> <<>>]
ReadingOf(t) ==
    LET after[i \in 0..Len(t)] == IF i = 0 THEN Unread ELSE Read(after[i - 1], t, i)
    IN after

\* What is for the reader.
Visible(t) == ReadingOf(t)[Len(t)].kept

\* Wherever the provider cuts its reply, the answer returned is what a reader of
\* the whole reply would keep of it, and the listener has been shown exactly the
\* answer; while the stream is open it has been shown a beginning of that, and
\* no character of a thought (consume_streaming_response, ThinkStreamParser).
AnswerIsVisibleText ==
    LET visible == Visible(SubSeq(reply, 1, sent)) IN
    /\ streamPc = "returned" => content = visible /\ shown = visible /\ visible # <<>>
    /\ streamPc = "open" => content = shown /\ IsPrefix(shown, visible)
=============================================================================
