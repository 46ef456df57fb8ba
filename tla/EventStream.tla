----------------------------- MODULE EventStream -----------------------------
(***************************************************************************)
(* The event stream the router writes to a caller of the Anthropic         *)
(* interface: streamResponse (router/internal/api/handler.go) and the      *)
(* AnthropicStreamer it drives (router/internal/translate/translate.go).   *)
(* A chunk is the set of the kinds of output it carries; of a tool-call    *)
(* delta only the number of calls in it matters.  What the chunks are and  *)
(* when they end is any caller's channel: every sequence is possible.      *)
(***************************************************************************)
EXTENDS Integers, Sequences

CONSTANTS MaxCalls,    \* bound: tool calls in one delta
          MaxEvents    \* bound: no further chunk once so many events are written

ASSUME EventAssumption == MaxCalls \in Nat /\ MaxEvents \in Nat

VARIABLES streamer,    \* the AnthropicStreamer, and the events written so far
          phase        \* streamResponse: "reading", "closing" (inside Done), "returned"

eventVars == <<streamer, phase>>

ChunkKinds == {"text", "reason", "tool"}
Opening == {"start_thinking", "start_text", "start_tool"}
Deltas == {"thinking_delta", "text_delta", "tool_delta"}
Ending == {"message_delta", "message_stop", "error"}
EventNames == {"message_start", "block_stop"} \cup Opening \cup Deltas \cup Ending

Event(name, i) == [name |-> name, i |-> i]

EventTypeOK ==
    /\ streamer.out \in Seq([name : EventNames, i : Nat])
    /\ streamer.index \in Nat /\ streamer.calls \in 0 .. MaxCalls
    /\ streamer.started \in BOOLEAN /\ streamer.thinking \in BOOLEAN /\ streamer.text \in BOOLEAN
    /\ phase \in {"reading", "closing", "returned"}

NewStreamer == [out |-> <<>>, started |-> FALSE, thinking |-> FALSE, text |-> FALSE,
                index |-> 0, calls |-> 0]

EventInit == streamer = NewStreamer /\ phase = "reading"

-----------------------------------------------------------------------------
(* AnthropicStreamer.                                                      *)

Emit(s, name) == [s EXCEPT !.out = Append(@, Event(name, s.index))]

Start(s) == IF s.started THEN s ELSE [Emit(s, "message_start") EXCEPT !.started = TRUE]

MutantCloseBlock(s) == Emit(s, "block_stop")
CloseBlock(s) == [Emit(s, "block_stop") EXCEPT !.index = @ + 1]
CloseThinking(s) ==
    IF s.thinking THEN [CloseBlock(s) EXCEPT !.thinking = FALSE] ELSE s
CloseText(s) ==
    IF s.text THEN [CloseBlock(s) EXCEPT !.text = FALSE] ELSE s

Thinking(s) ==
    LET opened == IF s.thinking \/ s.text THEN s
                  ELSE [Emit(s, "start_thinking") EXCEPT !.thinking = TRUE]
    IN  IF opened.thinking THEN Emit(opened, "thinking_delta") ELSE opened

OpenText(s) == IF s.text THEN s ELSE [Emit(s, "start_text") EXCEPT !.text = TRUE]
Text(s) == Emit(OpenText(CloseThinking(s)), "text_delta")

\* Delta: only the calls of the last tool-call delta are kept.
StreamerDelta(s, has, calls) ==
    LET begun   == [Start(s) EXCEPT !.calls = IF "tool" \in has THEN calls ELSE @]
        thought == IF "reason" \in has THEN Thinking(begun) ELSE begun
    IN  IF "text" \in has THEN Text(thought) ELSE thought

-----------------------------------------------------------------------------
(* streamResponse.                                                         *)

\* A chunk that does not end the answer.
TakesChunk(has, calls) ==
    /\ phase = "reading" /\ Len(streamer.out) < MaxEvents
    /\ streamer' = StreamerDelta(streamer, has, calls)
    /\ UNCHANGED phase

\* The chunk that ends it is passed on like any other; Done then closes what is open,
TakesLast(has, calls) ==
    /\ phase = "reading" /\ phase' = "closing"
    /\ streamer' = CloseText(CloseThinking(Start(StreamerDelta(streamer, has, calls))))

\* flushes the calls it has kept, each with arguments or without,
FlushCall(args) ==
    LET opened == Emit(streamer, "start_tool")
        filled == IF args THEN Emit(opened, "tool_delta") ELSE opened
    IN  /\ phase = "closing" /\ streamer.calls > 0
        /\ streamer' = [CloseBlock(filled) EXCEPT !.calls = @ - 1]
        /\ UNCHANGED phase

\* and ends the message.
Finishes ==
    /\ phase = "closing" /\ streamer.calls = 0 /\ phase' = "returned"
    /\ streamer' = Emit(Emit(streamer, "message_delta"), "message_stop")

\* A chunk reports an error, the channel closes, or a timer fires.
AnswerFails ==
    /\ phase = "reading" /\ phase' = "returned"
    /\ streamer' = Emit(streamer, "error")

CallerLeaves == phase = "reading" /\ phase' = "returned" /\ UNCHANGED streamer

EventNext ==
    \/ \E has \in SUBSET ChunkKinds, calls \in 0 .. MaxCalls :
          TakesChunk(has, calls) \/ TakesLast(has, calls)
    \/ \E args \in BOOLEAN : FlushCall(args)
    \/ Finishes \/ AnswerFails \/ CallerLeaves

EventSpec == EventInit /\ [][EventNext]_eventVars

-----------------------------------------------------------------------------
(* Properties.                                                             *)

\* Event j opens a block which no event before the i-th closes.
StillOpen(ev, j, i) ==
    /\ j \in 1 .. i - 1 /\ ev[j].name \in Opening
    /\ \A k \in j + 1 .. i - 1 : ev[k].name # "block_stop"

Numbers(ev, i) == {ev[j].i : j \in {k \in 1 .. i - 1 : ev[k].name \in Opening}}

\* What may stand at place i after the events before it.
Nests(ev, i) ==
    LET In(start) == \E j \in 1 .. i - 1 : StillOpen(ev, j, i) /\ ev[j] = Event(start, ev[i].i)
        NoneOpen  == \A j \in 1 .. i - 1 : ~StillOpen(ev, j, i)
    IN  /\ ev[i].name = "message_start" => i = 1
        /\ ev[i].name \in Opening => i > 1 /\ NoneOpen /\ Numbers(ev, i) = 0 .. ev[i].i - 1
        /\ ev[i].name = "thinking_delta" => In("start_thinking")
        /\ ev[i].name = "text_delta" => In("start_text")
        /\ ev[i].name = "tool_delta" => In("start_tool")
        /\ ev[i].name = "block_stop" => \E start \in Opening : In(start)
        /\ ev[i].name = "message_delta" => i > 1 /\ NoneOpen
        /\ ev[i].name = "message_stop" => /\ i = Len(ev) /\ i > 1
                                          /\ ev[i - 1].name = "message_delta"
        /\ ev[i].name = "error" => i = Len(ev)

\* The events of the Anthropic stream nest: the message starts once, block
\* numbers count up from 0, a block is closed before the next opens and before
\* the message stops, text, thinking or a tool's input only arrives in an open
\* block of its kind, and nothing follows the end or an error
\* (translate.go:341-346: "a spec-compliant Anthropic message stream").
EventsNest == \A i \in DOMAIN streamer.out : Nests(streamer.out, i)
=============================================================================
