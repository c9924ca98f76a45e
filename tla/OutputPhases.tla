---------------------------- MODULE OutputPhases ----------------------------
(***************************************************************************)
(* What a worker makes of the tokens of one generation: control tokens are  *)
(* filtered out, the PhaseSplitter removes the markers that switch between  *)
(* the Analysis and the Final phase, also when a marker is cut by the end   *)
(* of a piece, and the text is sent in chunks of one phase.  The desktop,   *)
(* the iOS and the Android worker have a copy each, and the copies differ.  *)
(*                                                                          *)
(* Symbols stand for stretches of text: "<" is the first half of a tag and  *)
(* "A>" or "F>" the second (<think>, </think>, <final> ...), "M" is a line  *)
(* marker (Analysis:), "nl" a newline, "c" a control token, and "t" stands  *)
(* for any other text.                                                      *)
(***************************************************************************)
EXTENDS Naturals, Sequences, FiniteSets, SequencesExt, FiniteSetsExt

CONSTANTS
    MaxText,    \* bound: symbols of a generation
    MaxToken,   \* bound: symbols of the text of a token
    MaxBytes    \* max_bytes: the length at which a chunk is sent

ASSUME OutputAssumption == MaxText \in Nat /\ MaxToken \in Nat /\ MaxBytes \in Nat \ {0}

VARIABLES
    outBuild,   \* "desktop", "ios", "android" or "android_chat"
    text,       \* the filtered text given to the splitter so far
    carry,      \* PhaseSplitter.carry
    phase,      \* PhaseSplitter.phase
    buf,        \* text not sent yet
    bufPhase,   \* its phase
    sent,       \* chunks sent: <<phase, text, done>>
    suppress,   \* Android: tokens are dropped until one says final
    cleared     \* Android: text was dropped from buf

outVars == <<outBuild, text, carry, phase, buf, bufPhase, sent, suppress, cleared>>

Symbols == {"t", "<", "A>", "F>", "nl", "M"}
Pieces == (UNION {[1..n -> Symbols] : n \in 1..MaxToken}) \cup {<<"c">>, <<"t", "c">>}
Phases == {"Analysis", "Final"}

OutInit ==
    /\ outBuild \in {"desktop", "ios", "android", "android_chat"}
    /\ text = <<>> /\ carry = <<>> /\ phase = "Final"
    /\ buf = <<>> /\ bufPhase = (IF outBuild = "android" THEN "Final" ELSE "Unknown")
    /\ sent = <<>> /\ suppress = FALSE /\ cleared = FALSE

-------------------------------------------------------------------------------
\* filter_control_tokens of the desktop worker: a control token goes, and the
\* short text before it in the piece goes with it.
FilterControlTokens(piece) ==
    SubSeq(piece, 1 + Max({0} \cup {i \in DOMAIN piece : piece[i] = "c"}), Len(piece))

\* filter_control_tokens of the iOS worker.
IosFilterControlTokens(piece) ==
    FoldLeft(LAMBDA kept, s : IF s = "c" THEN kept ELSE Append(kept, s), <<>>, piece)

\* next_marker: the first marker in rest as <<position, phase, length>>.  A line
\* marker counts at the beginning of rest and after a newline.
TagAt(s, i, half) == i < Len(s) /\ s[i] = "<" /\ s[i + 1] = half
LineAt(s, i) == s[i] = "M" /\ (i = 1 \/ s[i - 1] = "nl")
Markers(rest) ==
    {<<i, "Analysis", 2>> : i \in {j \in DOMAIN rest : TagAt(rest, j, "A>")}}
    \cup {<<i, "Final", 2>> : i \in {j \in DOMAIN rest : TagAt(rest, j, "F>")}}
    \cup {<<i, "Analysis", 1>> : i \in {j \in DOMAIN rest : LineAt(rest, j)}}
NextMarker(rest) == CHOOSE m \in Markers(rest) : \A o \in Markers(rest) : m[1] <= o[1]

\* split_tail_for_carry: the longest end of the tail that a marker, or a newline
\* and a marker, may begin with.
MarkerStarts == {<<"<">>, <<"M">>, <<"nl">>, <<"nl", "<">>, <<"nl", "M">>}

\* Variant: nothing is held back for the next piece.
NoCarry(tail) == 0

CarryLen(tail) ==
    Max({0} \cup {l \in 1..Min({2, Len(tail)}) :
                     SubSeq(tail, Len(tail) - l + 1, Len(tail)) \in MarkerStarts})

\* The loop of push: the segments of combined with their phases, the phase it
\* ends with and what is carried over.
Segments(combined, start) ==
    LET Rest(p) == SubSeq(combined, p, Len(combined))
        Seg(ph, s) == IF s = <<>> THEN <<>> ELSE <<<<ph, s>>>>
        from[p \in 1..(Len(combined) + 1)] ==
            [ph \in Phases |->
             IF p > Len(combined) THEN [out |-> <<>>, phase |-> ph, carry |-> <<>>]
             ELSE IF Markers(Rest(p)) = {}
             THEN LET n == CarryLen(Rest(p)) IN
                  [out |-> Seg(ph, SubSeq(combined, p, Len(combined) - n)), phase |-> ph,
                   carry |-> SubSeq(combined, Len(combined) - n + 1, Len(combined))]
             ELSE LET m == NextMarker(Rest(p))
                      at == p + m[1] - 1
                      next == from[at + m[3]][m[2]]
                  IN  [next EXCEPT !.out = Seg(ph, SubSeq(combined, p, at - 1)) \o @]]
    IN  from[1][start]

\* push: an empty piece changes nothing, another one follows the carry.
Push(piece) == IF piece = <<>> THEN [out |-> <<>>, phase |-> phase, carry |-> carry]
               ELSE Segments(carry \o piece, phase)

-------------------------------------------------------------------------------
(* The chunks: b is a record of buf, bufPhase and sent.                      *)

Flush(b) == [b EXCEPT !.buf = <<>>, !.sent = Append(@, <<b.phase, b.buf, FALSE>>)]
FlushIfFull(b) == IF Len(b.buf) >= MaxBytes THEN Flush(b) ELSE b

\* A segment of another phase than the buffer's sends the buffer first.
AddSegment(b, seg) ==
    LET f == IF b.buf # <<>> /\ b.phase # seg[1] THEN Flush(b) ELSE b
    IN  [f EXCEPT !.buf = @ \o seg[2], !.phase = seg[1]]

Apply(b) == buf' = b.buf /\ bufPhase' = b.phase /\ sent' = b.sent
Chunk == [buf |-> buf, phase |-> bufPhase, sent |-> sent]
Running == \A i \in DOMAIN sent : ~sent[i][3]
Splits(piece) ==
    /\ Len(text) + Len(piece) <= MaxText
    /\ text' = text \o piece
    /\ carry' = Push(piece).carry /\ phase' = Push(piece).phase

\* The loop of stream_inference_task_to_server: a full buffer is sent after
\* each segment.
DesktopToken(piece) ==
    /\ outBuild = "desktop" /\ Running
    /\ LET kept == FilterControlTokens(piece) IN
       /\ Splits(kept)
       /\ Apply(FoldLeft(LAMBDA b, seg : FlushIfFull(AddSegment(b, seg)), Chunk, Push(kept).out))
    /\ UNCHANGED <<outBuild, suppress, cleared>>

\* on_token of handle_inference_task on iOS.
IosToken(piece) ==
    /\ outBuild = "ios" /\ Running
    /\ LET kept == IosFilterControlTokens(piece) IN
       /\ Splits(kept)
       /\ Apply(FoldLeft(LAMBDA b, seg : FlushIfFull(AddSegment(b, seg)), Chunk, Push(kept).out))
    /\ UNCHANGED <<outBuild, suppress, cleared>>

\* on_token on Android: the buffer is looked at once, after the segments.  The
\* chat of a worker without a callback has none of it; the others have a copy each.
SplitToken(piece) ==
    /\ outBuild = "android" /\ Running /\ ~suppress
    /\ \A i \in DOMAIN piece : piece[i] # "c"
    /\ Splits(piece)
    /\ Apply(FlushIfFull(FoldLeft(AddSegment, Chunk, Push(piece).out)))
    /\ UNCHANGED <<outBuild, suppress, cleared>>

AndroidToken(piece) == SplitToken(piece)
CallbackToken(piece) == SplitToken(piece)
CallbackChatToken(piece) == SplitToken(piece)

\* on_token of a chat on an Android worker without a callback: no splitter.
AndroidChatToken(piece) ==
    /\ outBuild = "android_chat" /\ Running /\ ~suppress
    /\ Len(text) + Len(piece) <= MaxText /\ \A i \in DOMAIN piece : piece[i] # "c"
    /\ text' = text \o piece
    /\ Apply(FlushIfFull([Chunk EXCEPT !.buf = @ \o piece]))
    /\ UNCHANGED <<outBuild, carry, phase, suppress, cleared>>

\* token_should_be_suppressed: what is not sent yet is dropped, and all tokens
\* up to one with the word final.
AndroidSuppress ==
    /\ outBuild \in {"android", "android_chat"} /\ Running
    /\ suppress' = ~suppress
    /\ buf' = IF suppress THEN buf ELSE <<>>
    /\ cleared' = (cleared \/ buf # <<>>)
    /\ UNCHANGED <<outBuild, text, carry, phase, bufPhase, sent>>

\* The end of the generation or a cancellation: the rest of the buffer, then the
\* done chunk, with the splitter's phase or, on Android, the buffer's.
EndOutput(donePhase) ==
    /\ Running
    /\ LET b == IF buf = <<>> THEN Chunk ELSE Flush(Chunk) IN
       Apply([b EXCEPT !.sent = Append(@, <<donePhase, <<>>, TRUE>>)])
    /\ UNCHANGED <<outBuild, text, carry, phase, suppress, cleared>>

DesktopEnd == outBuild = "desktop" /\ EndOutput(phase)
IosEnd == outBuild = "ios" /\ EndOutput(phase)
AndroidEnd == outBuild = "android" /\ EndOutput(bufPhase)
AndroidChatEnd == outBuild = "android_chat" /\ EndOutput("Unknown")

\* The generation fails: what is in the buffer is dropped, and the done chunk
\* has the error.  On iOS that is possible only before the first token.
FailOutput(donePhase) ==
    /\ Running
    /\ Apply([buf |-> <<>>, phase |-> bufPhase, sent |-> Append(sent, <<donePhase, <<>>, TRUE>>)])
    /\ cleared' = (cleared \/ buf # <<>>)
    /\ UNCHANGED <<outBuild, text, carry, phase, suppress>>

DesktopFails == outBuild = "desktop" /\ FailOutput("Unknown")
IosFails == outBuild = "ios" /\ text = <<>> /\ FailOutput("Final")

OutNext ==
    \/ AndroidSuppress \/ DesktopEnd \/ IosEnd \/ AndroidEnd \/ AndroidChatEnd
    \/ DesktopFails \/ IosFails
    \/ \E piece \in Pieces : \/ DesktopToken(piece) \/ IosToken(piece)
                             \/ AndroidToken(piece) \/ CallbackToken(piece)
                             \/ AndroidChatToken(piece) \/ CallbackChatToken(piece)

OutSpec == OutInit /\ [][OutNext]_outVars

-------------------------------------------------------------------------------
(* The reference: the phases of a whole text, symbol by symbol.              *)

Phased(ph, s) == [i \in DOMAIN s |-> <<ph, s[i]>>]

Reference(whole) ==
    LET from[i \in 1..(Len(whole) + 2)] ==
            [ph \in Phases |->
             IF i > Len(whole) THEN <<>>
             ELSE IF TagAt(whole, i, "A>") THEN from[i + 2]["Analysis"]
             ELSE IF TagAt(whole, i, "F>") THEN from[i + 2]["Final"]
             ELSE IF LineAt(whole, i) THEN from[i + 1]["Analysis"]
             ELSE <<<<ph, whole[i]>>>> \o from[i + 1][ph]]
    IN  from[1]["Final"]

Delivered == FlattenSeq([i \in DOMAIN sent |-> Phased(sent[i][1], sent[i][2])])

\* What has been sent or is in the buffer is the whole text but for the carry,
\* with the right phase for each symbol, in order and once; without a splitter it
\* is the text as it came.
SplitIsReference ==
    Delivered \o Phased(bufPhase, buf) =
        IF outBuild = "android_chat" THEN Phased("Unknown", text)
        ELSE Reference(SubSeq(text, 1, Len(text) - Len(carry)))

\* PhaseSplitter and the chunks lose, repeat or mislabel nothing of a text with
\* tags and newlines, wherever the pieces are cut and the chunks are sent.
CutsDoNotMatter == ~cleared /\ ~Contains(text, "M") => SplitIsReference
===============================================================================
