------------------------------ MODULE Answers ------------------------------
(***************************************************************************)
(* An assistant's answer on its way to a filtered account: the body         *)
(* callback of the proxy (ai_proxy.ResponseBody), the two framings          *)
(* (ai_sse.Decoder, ai_lines.LineDecoder), the two protocols that carry     *)
(* most answers (the API events of ai_api, the page lines of ai_lines) and  *)
(* the text policy with its held-back tail (ai_text).                       *)
(*                                                                         *)
(* A text is a sequence of letters, "x" and "k" and spaces "sp" among them, *)
(* long enough to cut a listed phrase and an innocent word anywhere.        *)
(***************************************************************************)
EXTENDS Integers, SequencesExt

CONSTANTS Letters,     \* what texts are made of
          TextBlocks,  \* indexes of an API answer that carry text
          ToolBlocks,  \* indexes that carry a tool call's arguments
          Messages,    \* messages of a page answer
          Pieces,      \* what one delta may add to a text
          Arguments,   \* what one delta may add to a tool call's arguments
          Lookahead,   \* TextFilter.lookahead
          MaxText,     \* MAX_TEXT_CHARS
          MaxInput,    \* MAX_INPUT
          MaxSent      \* bound: letters the model sends in all

Term == <<"x", "sp", "k">>  \* the listed phrase
Milder == <<"m">>           \* what "substitute" puts in its place, in no listed phrase
NOTICE == <<"notice">>      \* BLOCKED_TEXT

ASSUME AnswersAssumption ==
    /\ {Lookahead, MaxText, MaxInput, MaxSent} \subseteq Nat
    /\ Lookahead >= Len(Term)

\* A block is of one type. A delta of a tool call adds something to its arguments.
ASSUME BlocksAssumption ==
    /\ TextBlocks \intersect ToolBlocks = {}
    /\ Messages \intersect (TextBlocks \union ToolBlocks) = {}
ASSUME PiecesAssumption ==
    /\ {"x", "k", "sp", "m", "notice"} \subseteq Letters
    /\ Pieces \subseteq Seq(Letters)
    /\ Arguments \subseteq Seq(Letters) \ {<<>>}

Texts == TextBlocks \union Messages
All == Texts \union ToolBlocks

VARIABLES
    kind,       \* ResponseBody.kind: API "events" or page "lines"
    language,   \* TextPolicy.language
    part,       \* the decoder's unfinished event or line: <<>> or <<it>>
    streams,    \* ApiEvents.streams, LineStream.markdown: <<>> or <<[raw, released]>>
    inputs,     \* ApiEvents.inputs: <<>> or <<the arguments held so far>>
    snapshots,  \* LineStream.snapshots: <<>> or <<the last one, complete>>
    blocked,    \* LineStream.blocked
    refused,    \* ResponseBody.refused
    page,       \* what the person's side has: text, snapshot, tool calls
    sent,       \* what the model has sent for each block or message, as decoded
    closed,     \* the blocks and messages the model has finished
    phase       \* the answer: "open", "ended" by the model, "over" at the end of the body

vars == <<kind, language, part, streams, inputs, snapshots, blocked, refused, page,
          sent, closed, phase>>

-----------------------------------------------------------------------------
(* TextFilter and TextStream (ai_text).                                     *)

IsEdge(t, i) == i \notin 1..Len(t) \/ t[i] = "sp"

\* Where the listed phrase stands in t, a word boundary on both sides.
Hits(t) == {i \in 1..(Len(t) - Len(Term) + 1) :
               /\ SubSeq(t, i, i + Len(Term) - 1) = Term
               /\ IsEdge(t, i - 1) /\ IsEdge(t, i + Len(Term))}

Listed(t) == Hits(t) # {}

\* Wordlist.clean: one pass, every hit replaced.
Clean(t) == FlattenSeq([i \in 1..Len(t) |->
                IF i \in Hits(t) THEN Milder
                ELSE IF \E h \in Hits(t) : i \in h..(h + Len(Term) - 1) THEN <<>>
                ELSE <<t[i]>>])

\* TextFilter.check: does it raise, and what it returns.
Refuses(t) == Len(t) > MaxText \/ (language = "block" /\ Listed(t))
Checked(t) == IF language = "substitute" THEN Clean(t) ELSE t

\* As Boundaries would be with nothing held back for what may follow.
BoundariesToTheEnd(t, from) == {i \in (from + 1)..Len(t) : t[i] = "sp"}

\* The word boundaries of t after the first `from` letters, the tail aside.
Boundaries(t, from) == {i \in (from + 1)..(Len(t) - Lookahead) : t[i] = "sp"}

\* As UpTo would be if it cut words.
UpToTheTail(t, cuts, otherwise) ==
    IF Len(t) - Lookahead <= Len(otherwise) THEN otherwise ELSE SubSeq(t, 1, Len(t) - Lookahead)

UpTo(t, cuts, otherwise) == IF cuts = {} THEN otherwise ELSE SubSeq(t, 1, Max(cuts))

\* TextFilter.withhold
Withheld(t) == UpTo(t, Boundaries(t, 0), <<>>)

NewStream == [raw |-> <<>>, released |-> <<>>]
Stream(found) == IF found = <<>> THEN NewStream ELSE found[1]

\* TextStream.push and finish raise when the text is refused, or when what was
\* released already reads otherwise in the longer context.
Raises(stream) == \/ Refuses(stream.raw)
                  \/ ~IsPrefix(stream.released, Checked(stream.raw))
Heard(stream, piece) == [stream EXCEPT !.raw = @ \o piece]
Release(stream) ==
    UpTo(Checked(stream.raw), Boundaries(Checked(stream.raw), Len(stream.released)), stream.released)
Pushed(stream) == [stream EXCEPT !.released = Release(stream)]
Fresh(stream) == SubSeq(Release(stream), Len(stream.released) + 1, Len(Release(stream)))
Rest(stream) == SubSeq(Checked(stream.raw), Len(stream.released) + 1, Len(Checked(stream.raw)))

-----------------------------------------------------------------------------
(* ApiEvents (ai_api): the state `s` of the checker and the page after one  *)
(* event. A refusal is an exception: `s.raised`, and nothing else matters.  *)

Raise(s) == [s EXCEPT !.raised = TRUE]

\* content_block_delta with text
TextDelta(s, e) ==
    LET heard == Heard(Stream(s.streams[e.of]), e.piece)
    IN  IF Raises(heard) THEN Raise(s)
        ELSE [s EXCEPT !.streams[e.of] = <<Pushed(heard)>>,
                       !.page.text[e.of] = @ \o Fresh(heard)]

\* As Hold would be without its limit.
HoldAnyLength(s, e) ==
    [s EXCEPT !.inputs[e.of] = <<(IF @ = <<>> THEN <<>> ELSE @[1]) \o e.piece>>]

\* _hold: arguments are kept back, the delta goes on empty.
Hold(s, e) ==
    LET pending == (IF s.inputs[e.of] = <<>> THEN <<>> ELSE s.inputs[e.of][1]) \o e.piece
    IN  IF Len(pending) > MaxInput THEN Raise(s) ELSE [s EXCEPT !.inputs[e.of] = <<pending>>]

\* _flush: the checked remainder of these streams, which are forgotten.
Flush(s, keys) ==
    LET open == {b \in keys : s.streams[b] # <<>>}
    IN  IF \E b \in open : Raises(s.streams[b][1]) THEN Raise(s)
        ELSE [s EXCEPT !.streams = [b \in Texts |-> IF b \in open THEN <<>> ELSE @[b]],
                       !.page.text = [b \in Texts |-> IF b \in open THEN @[b] \o Rest(s.streams[b][1])
                                                      ELSE @[b]]]

\* parse fails on arguments cut short; ContentFilter.tool refuses those it would change.
IsWhole(arguments) == arguments # <<>> /\ Last(arguments) = "close"
ToolRefused(arguments) ==
    \/ ~IsWhole(arguments)
    \/ Listed(Front(arguments))

\* As Stop would be if it left the text to the end of the answer.
StopTool(s, e) ==
    IF e.of \in Texts \/ s.inputs[e.of] = <<>> THEN s
    ELSE IF ToolRefused(s.inputs[e.of][1]) THEN Raise(s)
    ELSE [s EXCEPT !.inputs[e.of] = <<>>, !.page.call[e.of] = s.inputs[e.of]]

\* content_block_stop: the rest of the text, then the whole arguments, then the stop.
Stop(s, e) ==
    IF e.of \in Texts THEN Flush(s, {e.of})
    ELSE IF s.inputs[e.of] = <<>> THEN s
    ELSE IF ToolRefused(s.inputs[e.of][1]) THEN Raise(s)
    ELSE [s EXCEPT !.inputs[e.of] = <<>>, !.page.call[e.of] = s.inputs[e.of]]

\* message_stop, and ApiEvents.finish at the end of the body
FlushAll(s) ==
    IF \E b \in ToolBlocks : s.inputs[b] # <<>> THEN Raise(s) ELSE Flush(s, Texts)

\* ApiEvents.event
ApiEvent(s, e) ==
    CASE e.type = "text" -> TextDelta(s, e)
      [] e.type = "args" -> Hold(s, e)
      [] e.type = "stop" -> Stop(s, e)
      [] e.type = "end"  -> FlushAll(s)

-----------------------------------------------------------------------------
(* LineStream (ai_lines): a refusal stays with its message, the others go   *)
(* on. A "content" line replaces or continues the text; while it streams it *)
(* carries a snapshot of the whole text so far.                             *)

Page(s, e) == IF e.mode = "replace" THEN <<>> ELSE s.page.text[e.of]

\* _notice: the line keeps its shape, the notice is its only prose.
Notice(s, e, first) ==
    [s EXCEPT !.page.text[e.of] = Page(s, e) \o (IF first THEN NOTICE ELSE <<>>),
              !.page.snapshot[e.of] = IF e.streaming THEN <<NOTICE>> ELSE @]

Block(s, e) ==
    Notice([s EXCEPT !.blocked = @ \union {e.of}, !.streams[e.of] = <<>>, !.snapshots[e.of] = <<>>],
           e, TRUE)

\* A line of a text still being written: the snapshot's tail is held back too.
Streaming(s, e, heard) ==
    LET full == Checked(s.sent[e.of])
    IN  IF Refuses(s.sent[e.of]) THEN Block(s, e)
        ELSE [s EXCEPT !.streams[e.of] = <<Pushed(heard)>>,
                       !.snapshots[e.of] = <<full>>,
                       !.page.text[e.of] = Page(s, e) \o Fresh(heard),
                       !.page.snapshot[e.of] = <<Withheld(full)>>]

\* The line that completes a message carries no snapshot: the last one, whole, goes with it.
Completed(s, e, heard) ==
    IF Raises(Pushed(heard)) THEN Block(s, e)
    ELSE [s EXCEPT !.streams[e.of] = <<>>,
                   !.snapshots[e.of] = <<>>,
                   !.page.text[e.of] = Page(s, e) \o Rest(heard),
                   !.page.snapshot[e.of] = IF s.snapshots[e.of] = <<>> THEN @ ELSE s.snapshots[e.of]]

\* _content
Content(s, e) ==
    LET heard == Heard(IF e.mode = "replace" THEN NewStream ELSE Stream(s.streams[e.of]), e.piece)
    IN  IF e.of \in s.blocked THEN Notice(s, e, FALSE)
        ELSE IF Raises(heard) THEN Block(s, e)
        ELSE IF e.streaming THEN Streaming(s, e, heard) ELSE Completed(s, e, heard)

\* Any other line; the last one holds the finished answer again. What may not
\* be shown is emptied, the record stays.
Shared(s, e) ==
    IF Refuses(s.sent[e.of]) THEN s
    ELSE [s EXCEPT !.page.whole[e.of] = <<Checked(s.sent[e.of])>>]

\* LineStream.line
Line(s, e) == IF e.type = "content" THEN Content(s, e) ELSE Shared(s, e)

-----------------------------------------------------------------------------
(* The model (external): what it may send next, for blocks it has not       *)
(* finished, until it ends the answer. A page line that replaces the text   *)
(* does not come in one chunk with the end of the line before it.           *)

Total == FoldFunction(LAMBDA t, n : Len(t) + n, 0, sent)
Room(piece) == Total + Len(piece) <= MaxSent

ApiEvents ==
    {e \in [type : {"text"}, of : TextBlocks \ closed, piece : Pieces] : Room(e.piece)}
    \union {e \in [type : {"args"}, of : ToolBlocks \ closed, piece : Arguments] : Room(e.piece)}
    \union [type : {"stop"}, of : (TextBlocks \union ToolBlocks) \ closed]
    \union {[type |-> "end"]}

PageLines ==
    {e \in [type : {"content"}, of : Messages \ closed, mode : {"replace", "append"},
            streaming : {TRUE}, piece : Pieces] :
         Room(e.piece) /\ (e.mode = "replace" => part = <<>>)}
    \union [type : {"content"}, of : Messages \ closed, mode : {"append"},
            streaming : {FALSE}, piece : {<<>>}]
    \union [type : {"shared"}, of : closed \intersect Messages]

Sendable == IF phase # "open" THEN {} ELSE IF kind = "events" THEN ApiEvents ELSE PageLines

Closes(e) == IF e.type = "stop" \/ (e.type = "content" /\ ~e.streaming) THEN {e.of} ELSE {}

\* The event as decoded joins what was sent.
Sent(s, e) ==
    IF e.type \notin {"text", "args", "content"} THEN s
    ELSE [s EXCEPT !.sent[e.of] =
             (IF e.type = "content" /\ e.mode = "replace" THEN <<>> ELSE @) \o e.piece]

-----------------------------------------------------------------------------
(* ResponseBody (ai_proxy).                                                 *)

Init ==
    /\ kind \in {"events", "lines"}
    /\ language \in {"substitute", "block"}
    /\ part = <<>>
    /\ streams = [b \in Texts |-> <<>>]
    /\ inputs = [b \in ToolBlocks |-> <<>>]
    /\ snapshots = [b \in Messages |-> <<>>]
    /\ blocked = {}
    /\ refused = FALSE
    /\ page = [text |-> [b \in Texts |-> <<>>], call |-> [b \in ToolBlocks |-> <<>>],
               snapshot |-> [b \in Messages |-> <<>>], whole |-> [b \in Messages |-> <<>>]]
    /\ sent = [b \in All |-> <<>>]
    /\ closed = {}
    /\ phase = "open"

Now == [streams |-> streams, inputs |-> inputs, snapshots |-> snapshots, blocked |-> blocked,
        page |-> page, sent |-> sent, raised |-> FALSE]

Step(s, e) ==
    IF s.raised THEN s
    ELSE IF kind = "events" THEN ApiEvent(Sent(s, e), e) ELSE Line(Sent(s, e), e)

\* What is left of the chunk before: the event it cut is complete now.
Pending == IF part = <<>> THEN Now ELSE Step(Now, part[1])

\* A refusal throws away what this call had ready, and ends the answer.
Becomes(s) ==
    /\ sent' = s.sent
    /\ refused' = s.raised
    /\ IF s.raised THEN UNCHANGED <<streams, inputs, snapshots, blocked, page>>
       ELSE /\ streams' = s.streams
            /\ inputs' = s.inputs
            /\ snapshots' = s.snapshots
            /\ blocked' = s.blocked
            /\ page' = s.page
    /\ UNCHANGED <<kind, language>>

\* ResponseBody.output with a chunk: it completes the event the last one cut,
\* and brings one more, or the beginning of one. Once refused, nothing passes.
Chunk ==
    \E e \in Sendable, cut \in BOOLEAN :
        /\ ~refused
        /\ Becomes(IF cut THEN Pending ELSE Step(Pending, e))
        /\ part' = IF cut THEN <<e>> ELSE <<>>
        /\ closed' = closed \union Closes(e)
        /\ phase' = IF e.type = "end" THEN "ended" ELSE phase

\* A chunk with the rest of a cut event and nothing more.
Remainder ==
    /\ ~refused /\ part # <<>>
    /\ Becomes(Pending)
    /\ part' = <<>>
    /\ UNCHANGED <<closed, phase>>

\* The end of the body, wherever it falls (the empty chunk). An event cut short
\* is refused; a last line may only lack its newline (`whole`).
Finish(s, whole) ==
    IF kind = "events" THEN IF part # <<>> THEN Raise(s) ELSE FlushAll(s)
    ELSE IF part = <<>> THEN s
    ELSE IF whole THEN Step(s, part[1]) ELSE Raise(s)

EndOfBody ==
    \E whole \in BOOLEAN :
        /\ ~refused /\ phase # "over"
        /\ Becomes(Finish(Now, whole))
        /\ phase' = "over"
        /\ part' = <<>>
        /\ UNCHANGED closed

Next == Chunk \/ Remainder \/ EndOfBody

Spec == Init /\ [][Next]_vars

-----------------------------------------------------------------------------
(* Properties.                                                              *)

\* What is held is bounded, and an answer has one protocol: the streams, the
\* snapshots and the held arguments are those of its kind and within their limits.
TypeOK ==
    /\ kind \in {"events", "lines"} /\ language \in {"substitute", "block"}
    /\ \A b \in Texts : \A i \in DOMAIN streams[b] :
           /\ Len(streams[b][i].raw) <= MaxText
           /\ b \in Messages <=> kind = "lines"
           /\ b \notin blocked
    /\ \A b \in ToolBlocks : \A i \in DOMAIN inputs[b] :
           Len(inputs[b][i]) <= MaxInput /\ kind = "events"
    /\ \A b \in Messages : snapshots[b] # <<>> => streams[b] # <<>>
    /\ refused \in BOOLEAN /\ blocked \subseteq Messages
    /\ phase \in {"open", "ended", "over"} /\ Len(part) <= 1

\* Wherever the deltas and the chunks cut a listed phrase, the person's side
\* never holds it: not in the text, not in a snapshot or the copy at the end,
\* not in a tool call.
NothingListedShown ==
    /\ \A b \in Texts : ~Listed(page.text[b])
    /\ \A b \in Messages : \A i \in DOMAIN page.snapshot[b] : ~Listed(page.snapshot[b][i])
    /\ \A b \in Messages : \A i \in DOMAIN page.whole[b] : ~Listed(page.whole[b][i])
    /\ \A b \in ToolBlocks : \A i \in DOMAIN page.call[b] : ~Listed(Front(page.call[b][i]))

\* What a page shows of a text is always the beginning of the text as checked
\* whole, each letter once and in order, and all of it once the text is done;
\* a tool call arrives whole or not at all.
ShownAsJudged ==
    /\ \A b \in Texts : b \notin blocked => IsPrefix(page.text[b], Checked(sent[b]))
    /\ \A b \in TextBlocks : part = <<>> /\ ~refused /\ (b \in closed \/ phase # "open")
                                => page.text[b] = Checked(sent[b])
    /\ \A b \in Messages : b \in closed /\ part = <<>> /\ ~refused /\ b \notin blocked
                                => /\ page.text[b] = Checked(sent[b])
                                   /\ page.snapshot[b] \in {<<>>, <<Checked(sent[b])>>}
    /\ \A b \in ToolBlocks : page.call[b] \in {<<>>, <<sent[b]>>}

TextAtFault(b) ==
    \/ Len(sent'[b]) > MaxText
    \/ language = "block" /\ \E i \in 0..Len(sent'[b]) : Listed(SubSeq(sent'[b], 1, i))

\* An answer, or a message of a page, is only refused for something it holds: a
\* listed phrase where words are not replaced, arguments that may not be changed
\* or are incomplete, a limit, an event cut short. Never because of how its
\* deltas were cut or because the filter disagreed with what it had released.
RefusedForCause == [][
    /\ refused' /\ ~refused =>
         \/ \E b \in TextBlocks : TextAtFault(b)
         \/ \E b \in ToolBlocks :
                /\ sent'[b] # <<>>
                /\ \/ Len(sent'[b]) > MaxInput \/ ToolRefused(sent'[b])
                   \/ b \notin closed /\ phase' # "open"
         \/ phase' = "over" /\ part # <<>>
    /\ \A b \in blocked' \ blocked : TextAtFault(b)]_vars
=============================================================================
