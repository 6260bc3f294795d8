------------------------------- MODULE ChatStream -------------------------------
(***************************************************************************)
(* The way of an answer from the thread that generates it to the screen:   *)
(* the turn's bounded event channel (BoundedEventChannel), the response    *)
(* body that empties it (stream_chat.body), the connection, and the panel  *)
(* that reads it (streamQuestion and handleSend).                          *)
(*                                                                         *)
(* The answer is the sequence of tokens 1, 2, ...  An event is a piece of  *)
(* it, a stage, or the one event that ends the stream.  When the turn ends *)
(* and how is in ChatConcurrency.                                          *)
(***************************************************************************)
EXTENDS Integers, Sequences, SequencesExt, FiniteSetsExt, Subsequences

CONSTANTS
    MaxItems,           \* chat_event_queue_size
    MaxTokens,          \* bound on the answer
    MaxStages,          \* bound on stage events
    MaxWire             \* events that the connection can hold

ASSUME StreamAssumption == {MaxItems, MaxTokens, MaxStages, MaxWire} \subseteq Nat \ {0}

VARIABLES
    said,       \* how many tokens were generated
    staged,     \* how many stages were reported
    channel,    \* _items
    hungUp,     \* _closed
    ending,     \* the terminal event, once emitted
    cancelled,  \* the turn's cancel_event
    link,       \* the response: "open", "ended" by the body, or "cut"
    wire,       \* what was sent and has not been read
    panel,      \* the browser: what it shows of the answer, and its status
    discarded   \* history: the tokens that made room for the terminal event

streamVars == <<said, staged, channel, hungUp, ending, cancelled, link, wire, panel, discarded>>

Terminal == {"result", "error", "cancelled"}
Event(type, text) == [type |-> type, text |-> text]

\* The places of the channel's events of some types.
Places(types) == {i \in 1..Len(channel) : channel[i].type \in types}
Full == Len(channel) >= MaxItems

StreamInit ==
    /\ said = 0 /\ staged = 0
    /\ channel = <<>> /\ hungUp = FALSE /\ ending = "none" /\ cancelled = FALSE
    /\ link = "open" /\ wire = <<>>
    /\ panel = [status |-> "reading", shown |-> <<>>, buffer |-> <<>>, result |-> FALSE]
    /\ discarded = {}

-------------------------------------------------------------------------------
\* BoundedEventChannel.put; the channel after it.

\* _discard_nonterminal_event_locked
WithoutStage == RemoveAt(channel, Min(Places({"stage"})))

\* The last piece grows by a token.
Grown(n) == [channel EXCEPT ![Max(Places({"token"}))].text = Append(@, n)]

(***************************************************************************)
(* A token joins the piece at the end of the channel, if the time and the  *)
(* length of the piece allow, which is left open, or the channel is full;  *)
(* in a full channel it joins the last piece wherever that is.             *)
(***************************************************************************)
PutToken(n) ==
    LET atEnd == Len(channel) > 0 /\ channel[Len(channel)].type = "token"
        piece == Event("token", <<n>>)
        joined == IF Places({"token"}) = {} THEN {} ELSE {Grown(n)}
    IN  IF ~Full THEN {Append(channel, piece)} \union (IF atEnd THEN joined ELSE {})
        ELSE IF joined # {} THEN joined
        ELSE IF Places({"stage"}) # {} THEN {Append(WithoutStage, piece)}
        ELSE {channel}

\* Mutant: a stage takes the place of whatever is first.
PutStageForcing ==
    Append(IF Full THEN Tail(channel) ELSE channel, Event("stage", <<>>))

\* A stage takes the place of an older one, never that of a piece.
PutStage ==
    IF ~Full THEN Append(channel, Event("stage", <<>>))
    ELSE IF Places({"stage"}) # {} THEN Append(WithoutStage, Event("stage", <<>>))
    ELSE channel

\* _make_terminal_room_locked: a stage goes, or the first piece of the answer.
Room ==
    IF ~Full THEN channel
    ELSE IF Places({"stage"}) # {} THEN WithoutStage
    ELSE IF Places({"token"}) # {} THEN RemoveAt(channel, Min(Places({"token"})))
    ELSE Tail(channel)

-------------------------------------------------------------------------------
\* The thread of the turn.

\* emit_token, which raises when the turn is cancelled.
Say ==
    /\ ending = "none" /\ ~cancelled /\ said < MaxTokens
    /\ said' = said + 1
    /\ channel' \in PutToken(said + 1)
    /\ UNCHANGED <<staged, hungUp, ending, cancelled, link, wire, panel, discarded>>

\* progress, likewise.
ReportStage ==
    /\ ending = "none" /\ ~cancelled /\ staged < MaxStages
    /\ staged' = staged + 1
    /\ channel' = PutStage
    /\ UNCHANGED <<said, hungUp, ending, cancelled, link, wire, panel, discarded>>

\* emit_terminal, once; a cancellation may come too late for a result or an error.
Finish ==
    /\ ending = "none"
    /\ ending' \in (IF cancelled THEN Terminal ELSE Terminal \ {"cancelled"})
    /\ channel' = Append(Room, Event(ending', <<>>))
    /\ discarded' = {n \in 1..said :
                        /\ \E i \in Places({"token"}) : n \in Range(channel[i].text)
                        /\ \A i \in 1..Len(Room) : n \notin Range(Room[i].text)}
    /\ UNCHANGED <<said, staged, hungUp, cancelled, link, wire, panel>>

\* Mutant: the sentinel is only put by the path of an error.
HangUpOnError ==
    /\ ending = "error" /\ ~hungUp
    /\ hungUp' = TRUE
    /\ UNCHANGED <<said, staged, channel, ending, cancelled, link, wire, panel, discarded>>

\* put(None), at the end of _run_record.
HangUp ==
    /\ ending # "none" /\ ~hungUp
    /\ hungUp' = TRUE
    /\ UNCHANGED <<said, staged, channel, ending, cancelled, link, wire, panel, discarded>>

\* The deadline, or a request to cancel.
CancelTurn ==
    /\ ending = "none" /\ ~cancelled
    /\ cancelled' = TRUE
    /\ UNCHANGED <<said, staged, channel, hungUp, ending, link, wire, panel, discarded>>

-------------------------------------------------------------------------------
\* The response body and the connection.

Send ==
    /\ link = "open" /\ channel # <<>> /\ Len(wire) < MaxWire
    /\ wire' = Append(wire, Head(channel))
    /\ channel' = Tail(channel)
    /\ UNCHANGED <<said, staged, hungUp, ending, cancelled, link, panel, discarded>>

\* get() returns None; the cancellation in the finally finds the turn over.
EndBody ==
    /\ link = "open" /\ channel = <<>> /\ hungUp
    /\ link' = "ended"
    /\ UNCHANGED <<said, staged, channel, hungUp, ending, cancelled, wire, panel, discarded>>

\* The browser has gone, or the connection breaks: the body's finally cancels the turn.
Cut ==
    /\ link = "open"
    /\ link' = "cut" /\ wire' = <<>>
    /\ cancelled' = (cancelled \/ ending = "none")
    /\ UNCHANGED <<said, staged, channel, hungUp, ending, panel, discarded>>

-------------------------------------------------------------------------------
\* The panel.

\* The catch of handleSend keeps what was shown and what waits for its frame.
Closed(status) == [panel EXCEPT !.status = status, !.shown = @ \o panel.buffer, !.buffer = <<>>]

\* The panel after an event has been read.
Seen(e) ==
    CASE e.type = "token" -> [panel EXCEPT !.buffer = @ \o e.text]
      [] e.type = "stage" -> panel
      [] e.type = "result" -> [panel EXCEPT !.result = TRUE]
      [] e.type = "error" -> Closed("failed")
      [] e.type = "cancelled" -> Closed("stopped")

Read ==
    /\ panel.status = "reading" /\ wire # <<>>
    /\ panel' = Seen(Head(wire))
    /\ wire' = Tail(wire)
    /\ UNCHANGED <<said, staged, channel, hungUp, ending, cancelled, link, discarded>>

\* requestAnimationFrame
Frame ==
    /\ panel.status = "reading" /\ panel.buffer # <<>>
    /\ panel' = [panel EXCEPT !.shown = @ \o panel.buffer, !.buffer = <<>>]
    /\ UNCHANGED <<said, staged, channel, hungUp, ending, cancelled, link, wire, discarded>>

\* The reader is done: the stored answer replaces what was shown.
Conclude ==
    /\ panel.status = "reading" /\ wire = <<>> /\ link # "open"
    /\ panel' = IF link = "ended" /\ panel.result
                THEN [panel EXCEPT !.status = "completed", !.shown = <<>>, !.buffer = <<>>]
                ELSE Closed("failed")
    /\ UNCHANGED <<said, staged, channel, hungUp, ending, cancelled, link, wire, discarded>>

\* The Stop button, or the request's timeout in the browser.
Abort ==
    /\ panel.status = "reading"
    /\ panel' \in {Closed("stopped"), Closed("timed out")}
    /\ UNCHANGED <<said, staged, channel, hungUp, ending, cancelled, link, wire, discarded>>

-------------------------------------------------------------------------------
TurnThread == Say \/ ReportStage \/ Finish \/ HangUp
Body == Send \/ EndBody
Browser == Read \/ Frame \/ Conclude

StreamNext == TurnThread \/ Body \/ Browser \/ CancelTurn \/ Cut \/ Abort

StreamSpec == StreamInit /\ [][StreamNext]_streamVars

\* Threads run, generation is bounded, and the browser reads until the stream is over.
StreamFairness ==
    /\ WF_streamVars(TurnThread) /\ WF_streamVars(Body) /\ WF_streamVars(Browser)

-------------------------------------------------------------------------------
StreamTypeOK ==
    /\ said \in 0..MaxTokens /\ staged \in 0..MaxStages
    /\ Len(channel) <= MaxItems /\ Len(wire) <= MaxWire
    /\ \A e \in Range(channel \o wire) : e.type \in Terminal \union {"token", "stage"}
    /\ ending \in Terminal \union {"none"} /\ link \in {"open", "ended", "cut"}
    /\ panel.status \in {"reading", "completed", "failed", "stopped", "timed out"}

TextOf(events) == FlattenSeq([i \in 1..Len(events) |-> events[i].text])

\* The answer without the piece that made room for the end.
Kept == Only([n \in 1..said |-> n], (1..said) \ discarded)

(***************************************************************************)
(* No word is lost, doubled or out of order on the way, whichever pieces   *)
(* were joined and stages dropped under pressure; what the panel keeps of  *)
(* a turn that failed is all that was generated.  The one exception is     *)
(* made for the terminal event: a slow reader may miss one piece, when the *)
(* answer is over, and the kept text of a failed turn then has a hole.     *)
(***************************************************************************)
TextIsWhole ==
    /\ panel.status = "reading" /\ link # "cut" =>
            panel.shown \o panel.buffer \o TextOf(wire) \o TextOf(channel) = Kept
    /\ panel.status = "failed" /\ link # "cut" => panel.shown = Kept
    /\ discarded # {} => ending # "none" /\ discarded = Min(discarded)..Max(discarded)

\* The terminal event gets through a full channel, once, and nothing follows it.
EndIsLast ==
    LET events == wire \o channel
    IN  \A i \in 1..Len(events) :
            events[i].type \in Terminal => i = Len(events) /\ events[i].type = ending

\* The panel says how the turn ended: the terminal event reaches a reader that stays.
EndIsKnown ==
    /\ panel.status = "completed" => ending = "result"
    /\ panel.status = "failed" => ending = "error" \/ link = "cut"

\* What is put into the channel comes out on screen, with the truth about how it ended.
StreamIsSound == TextIsWhole /\ EndIsLast /\ EndIsKnown

(***************************************************************************)
(* Every stream that has begun ends in the browser, however full the       *)
(* channel was and however slow the reader.                                *)
(***************************************************************************)
StreamEnds == (said > 0 \/ ending # "none") ~> panel.status # "reading"

=============================================================================
