------------------------------- MODULE Streams -------------------------------
(***************************************************************************)
(* One answer on its way from an inference server to the caller: the       *)
(* readers of the client (client/internal/llamacpp/client.go) and of the   *)
(* shim (shim/internal/backend), what their workers send to the router,    *)
(* and the event streams the router writes from it                         *)
(* (router/internal/translate, streamResponse in api/handler.go).          *)
(*                                                                         *)
(* A line of the server's stream is the set of the marks it carries:       *)
(* output of three kinds, a finish reason ("finish"), the end marker       *)
(* ("end"), the start and the stop of an Anthropic block ("open", "stop"). *)
(* A line that carries nothing the reader knows is the empty set.          *)
(***************************************************************************)
EXTENDS Integers, Sequences

CONSTANTS
    LinesOf,          \* the lines each kind of server may send
    MaxLines,         \* bound: lines in one answer
    LineBuffer,       \* capacity of readStream's channel
    HealthFailures    \* health checks missed in a row that mean a hung server

Output == {"text", "reason", "tool"}
Kinds == DOMAIN LinesOf

\* Blocks are an idea of the Anthropic interface.  llama.cpp's end marker is a line
\* of its own: "data: [DONE]".
ASSUME StreamAssumption ==
    /\ Kinds \subseteq {"llamacpp", "openai", "anthropic", "command"}
    /\ \A via \in Kinds : \A line \in LinesOf[via] :
          /\ via # "anthropic" => line \cap {"open", "stop"} = {}
          /\ via = "llamacpp" /\ "end" \in line => line = {"end"}
    /\ MaxLines \in Nat /\ LineBuffer \in Nat /\ HealthFailures \in Nat

VARIABLES
    task,     \* the server's kind, and whether the answer is streamed
    peer,     \* the server: "up", "hung", or how its answer ended: "eof", "cut"
    said,     \* the lines it has sent
    lines,    \* readStream's scanner: lines handed over, closed, with an error
    reading,  \* the worker: where it is, lines taken, and the reader's variables
    watch,    \* health checks missed in a row, or -1 when nobody checks
    over,     \* the request's context: "no", "hung" (ended here), "cancelled"
    sent      \* messages to the router

streamVars == <<task, peer, said, lines, reading, watch, over, sent>>

Message(has, done, error) == [has |-> has, done |-> done, error |-> error]

StreamTypeOK ==
    /\ task \in [via : Kinds, stream : BOOLEAN]
    /\ peer \in {"up", "hung", "eof", "cut"}
    /\ said \in Seq(LinesOf[task.via]) /\ Len(said) <= MaxLines
    /\ lines \in [scanned : 0 .. Len(said), closed : BOOLEAN, err : BOOLEAN]
    /\ lines.scanned - reading.taken <= LineBuffer
    /\ reading \in [pc : {"wait", "read", "drain", "returned"}, taken : 0 .. Len(said),
                    finish : BOOLEAN, first : BOOLEAN, tool : BOOLEAN, done : BOOLEAN]
    /\ watch \in -1 .. HealthFailures
    /\ over \in {"no", "hung", "cancelled"}
    /\ sent \in Seq([has : SUBSET Output, done : BOOLEAN, error : BOOLEAN])

StreamInit ==
    /\ task \in [via : Kinds, stream : BOOLEAN]
    /\ peer = "up" /\ said = <<>> /\ sent = <<>> /\ over = "no"
    /\ lines = [scanned |-> 0, closed |-> FALSE, err |-> FALSE]
    /\ reading = [pc |-> "wait", taken |-> 0, finish |-> FALSE, first |-> FALSE,
                  tool |-> FALSE, done |-> FALSE]
    /\ watch = IF task.via = "llamacpp" THEN 0 ELSE -1

Ended == \E i \in DOMAIN said : "end" \in said[i]

-----------------------------------------------------------------------------
(* The server.                                                             *)

Says(line) ==
    /\ task.stream /\ reading.pc = "read" /\ peer = "up" /\ ~Ended /\ Len(said) < MaxLines
    /\ said' = Append(said, line)
    /\ UNCHANGED <<task, peer, lines, reading, watch, over, sent>>

\* The body ends, or the connection breaks.
Closes(how) ==
    /\ reading.pc # "wait" /\ peer = "up"
    /\ peer' = how
    /\ UNCHANGED <<task, said, lines, reading, watch, over, sent>>

\* It stops answering anything, but keeps the connection.
Hangs ==
    /\ peer = "up" /\ ~Ended /\ reading.pc # "returned"
    /\ peer' = "hung"
    /\ UNCHANGED <<task, said, lines, reading, watch, over, sent>>

-----------------------------------------------------------------------------
(* What the worker sends (Handle of either worker).                        *)

\* Infer or RunStream has returned an error: it is reported unless the job's
\* own context is over.
Returns(failed) ==
    /\ reading' = [reading EXCEPT !.pc = "returned"]
    /\ sent' = IF failed /\ over # "cancelled"
               THEN Append(sent, Message({}, FALSE, TRUE)) ELSE sent

\* No connection, or a status that is not OK.
Refused ==
    /\ reading.pc = "wait" /\ peer = "up"
    /\ Returns(TRUE)
    /\ UNCHANGED <<task, peer, said, lines, watch, over>>

Responds ==
    /\ reading.pc = "wait" /\ task.stream /\ peer = "up"
    /\ reading' = [reading EXCEPT !.pc = "read"]
    /\ UNCHANGED <<task, peer, said, lines, watch, over, sent>>

\* A reply that is not streamed comes whole, in one message with its end.
AwaitsReply == reading.pc = "wait" /\ ~task.stream /\ peer = "up" /\ over = "no"

BatchReply ==
    /\ AwaitsReply
    /\ reading' = [reading EXCEPT !.pc = "returned", !.done = TRUE]
    /\ sent' = Append(sent, Message({"text"}, TRUE, FALSE))
    /\ UNCHANGED <<task, peer, said, lines, watch, over>>

\* It breaks off, cannot be parsed, has no choices, or the command failed.
BatchFails ==
    /\ AwaitsReply /\ Returns(TRUE)
    /\ UNCHANGED <<task, peer, said, lines, watch, over>>

-----------------------------------------------------------------------------
(* The llama.cpp client.                                                   *)

Scans ==
    /\ task.via = "llamacpp" /\ reading.pc \in {"read", "drain"} /\ ~lines.closed
    /\ lines.scanned < Len(said) /\ lines.scanned - reading.taken < LineBuffer
    /\ lines' = [lines EXCEPT !.scanned = @ + 1]
    /\ UNCHANGED <<task, peer, said, reading, watch, over, sent>>

\* The scanner stops at the end of the body, or because the context is over.
ScanStops ==
    /\ task.via = "llamacpp" /\ reading.pc \in {"read", "drain"} /\ ~lines.closed
    /\ \/ over # "no"
       \/ lines.scanned = Len(said) /\ peer \in {"eof", "cut"}
    /\ lines' = [lines EXCEPT !.closed = TRUE, !.err = (over = "no" /\ peer = "cut")]
    /\ UNCHANGED <<task, peer, said, reading, watch, over, sent>>

Send(has, done) == sent' = Append(sent, Message(has, done, FALSE))

\* One line of readStream.  A finish reason is kept until the end marker; the
\* first output stops the health checks.
ReadLlama ==
    LET line == said[reading.taken + 1]
        next == [reading EXCEPT !.taken = @ + 1]
        has  == line \cap Output
    IN  /\ task.via = "llamacpp" /\ reading.pc = "read" /\ reading.taken < lines.scanned
        /\ IF "end" \in line
           THEN reading' = [next EXCEPT !.pc = "drain", !.done = TRUE] /\ Send({}, TRUE)
           ELSE /\ reading' = [next EXCEPT !.finish = @ \/ "finish" \in line,
                                           !.first = @ \/ has # {}]
                /\ IF has # {} THEN Send(has, FALSE) ELSE UNCHANGED sent
        /\ UNCHANGED <<task, peer, said, lines, watch, over>>

\* The channel is closed and empty.
MutantLlamaEOF ==
    /\ task.via = "llamacpp" /\ reading.pc = "read"
    /\ lines.closed /\ reading.taken = lines.scanned
    /\ IF over # "no" \/ lines.err
       THEN Returns(TRUE)
       ELSE reading' = [reading EXCEPT !.pc = "returned", !.done = TRUE] /\ Send({}, TRUE)
    /\ UNCHANGED <<task, peer, said, lines, watch, over>>

LlamaEOF ==
    /\ task.via = "llamacpp" /\ reading.pc = "read"
    /\ lines.closed /\ reading.taken = lines.scanned
    /\ IF over # "no" \/ lines.err \/ ~reading.finish
       THEN Returns(TRUE)
       ELSE reading' = [reading EXCEPT !.pc = "returned", !.done = TRUE] /\ Send({}, TRUE)
    /\ UNCHANGED <<task, peer, said, lines, watch, over>>

\* After the end marker the rest is read and thrown away.
Drains ==
    /\ reading.pc = "drain"
    /\ IF reading.taken < lines.scanned
       THEN reading' = [reading EXCEPT !.taken = @ + 1]
       ELSE lines.closed /\ reading' = [reading EXCEPT !.pc = "returned"]
    /\ UNCHANGED <<task, peer, said, lines, watch, over, sent>>

\* The idle timer, which runs once there has been output.
IdleTimeout ==
    /\ task.via = "llamacpp" /\ reading.pc = "read" /\ reading.first
    /\ over' = IF over = "no" THEN "hung" ELSE over
    /\ Returns(TRUE)
    /\ UNCHANGED <<task, peer, said, lines, watch>>

\* A call of the HTTP client or the reader sees the context end.
ContextEnds ==
    /\ over # "no" /\ reading.pc \in {"wait", "read"}
    /\ Returns(TRUE)
    /\ UNCHANGED <<task, peer, said, lines, watch, over>>

-----------------------------------------------------------------------------
(* The health checks, and the ends of contexts.                            *)

\* A check fails because the server hangs, or is slow.  It may still be under
\* way when the first output arrives.
MutantHealthMissed ==
    /\ watch >= 0 /\ over = "no"
    /\ watch' = 0
    /\ UNCHANGED <<task, peer, said, lines, reading, sent, over>>

HealthMissed ==
    /\ watch >= 0 /\ over = "no"
    /\ watch' = IF watch + 1 < HealthFailures THEN watch + 1 ELSE -1
    /\ over' = IF watch + 1 < HealthFailures THEN over ELSE "hung"
    /\ UNCHANGED <<task, peer, said, lines, reading, sent>>

\* A server that hangs misses every check.
HungMissed == peer = "hung" /\ HealthMissed

HealthAnswered ==
    /\ watch > 0 /\ peer # "hung"
    /\ watch' = 0
    /\ UNCHANGED <<task, peer, said, lines, reading, over, sent>>

HealthStops ==
    /\ watch >= 0 /\ (reading.first \/ over # "no" \/ reading.pc = "returned")
    /\ watch' = -1
    /\ UNCHANGED <<task, peer, said, lines, reading, over, sent>>

\* The router cancels the job, or the connection to it ends.
StreamCancelled ==
    /\ over # "cancelled" /\ reading.pc # "returned"
    /\ over' = "cancelled"
    /\ UNCHANGED <<task, peer, said, lines, reading, watch, sent>>

\* The shim bounds a whole call.
ShimTimeout ==
    /\ task.via # "llamacpp" /\ over = "no" /\ reading.pc # "returned"
    /\ over' = "hung"
    /\ UNCHANGED <<task, peer, said, lines, reading, watch, sent>>

-----------------------------------------------------------------------------
(* The shim's readers, which scan and send on one goroutine.               *)

\* What a line makes the reader send; a command's every line is sent.
Sends(line) ==
    CASE task.via = "openai" -> line \cap Output # {} \/ "end" \in line
      [] task.via = "command" -> line # {}
      [] task.via = "anthropic" -> \/ line \cap {"text", "reason", "end"} # {}
                                   \/ "stop" \in line /\ reading.tool

ReadShim ==
    LET line == said[reading.taken + 1]
        has  == IF "stop" \in line THEN {"tool"} ELSE line \cap Output
    IN  /\ task.via # "llamacpp" /\ reading.pc = "read" /\ reading.taken < Len(said)
        /\ task.via = "anthropic" \/ ~reading.done   \* the others break at the end
        /\ reading' = [reading EXCEPT !.taken = @ + 1,
                          !.finish = @ \/ "finish" \in line,
                          !.tool   = ("open" \in line) \/ (@ /\ "stop" \notin line),
                          !.done   = @ \/ "end" \in line]
        /\ IF Sends(line) THEN Send(has, "end" \in line) ELSE UNCHANGED sent
        /\ UNCHANGED <<task, peer, said, lines, watch, over>>

\* The loop is left.  A read error of an Anthropic stream is reported even after
\* its end; of a command, only the exit code comes after its end, and is logged.
ShimEnds ==
    /\ task.via # "llamacpp" /\ reading.pc = "read"
    /\ \/ /\ reading.done /\ task.via # "anthropic"
          /\ Returns(FALSE)
       \/ /\ reading.taken = Len(said) /\ (task.via = "anthropic" \/ ~reading.done)
          /\ peer \in {"eof", "cut"} \/ over # "no"
          /\ LET failed == \/ peer # "eof" \/ over # "no"
                           \/ ~reading.done /\ (task.via # "openai" \/ ~reading.finish)
             IN  IF ~failed /\ ~reading.done
                 THEN reading' = [reading EXCEPT !.pc = "returned", !.done = TRUE] /\ Send({}, TRUE)
                 ELSE Returns(failed)
    /\ UNCHANGED <<task, peer, said, lines, watch, over>>

Reader == ReadLlama \/ LlamaEOF \/ Drains \/ ContextEnds \/ ReadShim \/ ShimEnds

StreamNext ==
    \/ \E line \in LinesOf[task.via] : Says(line)
    \/ Closes("eof") \/ Closes("cut") \/ Hangs
    \/ Refused \/ Responds \/ BatchReply \/ BatchFails
    \/ Scans \/ ScanStops \/ Reader \/ IdleTimeout
    \/ HealthMissed \/ HealthAnswered \/ HealthStops \/ StreamCancelled \/ ShimTimeout

StreamSpec == StreamInit /\ [][StreamNext]_streamVars

\* Goroutines run and timers fire; a server that does not hang answers and ends
\* its answer, and one that hangs misses every health check.
StreamFairness ==
    /\ WF_streamVars(Reader) /\ WF_streamVars(Scans \/ ScanStops)
    /\ WF_streamVars(Refused \/ Responds \/ BatchReply \/ BatchFails)
    /\ WF_streamVars(Closes("eof") \/ Closes("cut"))
    /\ WF_streamVars(HungMissed)
    /\ WF_streamVars(IdleTimeout) /\ WF_streamVars(ShimTimeout)

-----------------------------------------------------------------------------
(* Properties.                                                             *)

\* Messages carry the output of the first n lines, in order and once: there is an
\* order-preserving map from the lines with output onto the messages with some.
Carry(messages, spoken, n) ==
    LET content == {i \in 1 .. n : spoken[i] \cap Output # {}}
        passed  == {k \in DOMAIN messages : messages[k].has # {}}
    IN  \E f \in [content -> passed] :
          /\ \A i, j \in content : i < j => f[i] < f[j]
          /\ \A k \in passed : \E i \in content : f[i] = k
          /\ \A i \in content : messages[f[i]].has = spoken[i] \cap Output

\* An answer is passed on as finished only when the server had finished it: its
\* end marker was read, or its body ended cleanly after a finish reason; and then
\* every line of output it sent is in the answer, in order and once
\* (client.go:554-560, http.go:390-397, backend.go:229-240: "an error, not a
\* silently-truncated success").
NoFalseSuccess ==
    task.stream /\ (\E i \in DOMAIN sent : sent[i].done) =>
        /\ reading.taken = Len(said)
        /\ Ended \/ (peer = "eof" /\ reading.finish)
        /\ task.via # "anthropic" => Carry(sent, said, Len(said))

\* A worker does not hold a job for ever: a hung server, a stalled stream and a
\* lost connection all end it.
JobReturns == <>(reading.pc = "returned")
=============================================================================
