----------------------------- MODULE SessionExport ---------------------------
(***************************************************************************)
(* rstream webtty sessions export (cmd/webtty_sessions.go): read the       *)
(* recorded events of a session page by page while it may still be         *)
(* recording, decrypt all of them, and only then write a transcript or the *)
(* events.  The transcript replays the terminal output on a text buffer    *)
(* and leaves out what closed alternate screens showed.                    *)
(*                                                                         *)
(* A payload is a sequence of tokens: a printable character, a control     *)
(* character or one whole escape sequence.  Escape sequences cut in two by *)
(* an event boundary, malformed ones and tabs are not modelled.            *)
(***************************************************************************)
EXTENDS Naturals, SequencesExt

CONSTANTS Recordings,  \* event sequences a session may come to record
          Options,     \* export command lines
          Keys,        \* whether SessionKey finds a key: subset of BOOLEAN
          PageSize,    \* webTTYSessionExportPageSize
          MaxSeq       \* the largest sequence number, 2^64 - 1 in the code

VARIABLES recording,   \* what the session records in the end
          recorded,    \* how many of its events the engine has by now
          opts, haskey,
          pc, events, nextSeq,
          file,        \* the export: none, opened, written
          out,         \* what was written
          atStart      \* history: recorded when the export began

vars == <<recording, recorded, opts, haskey, pc, events, nextSeq, file, out, atStart>>

-----------------------------------------------------------------------------
(* The text buffer: lines and columns count from 0 in the code. *)

Controls == {"cr", "lf", "bs", "up", "down", "right", "left", "home", "K0", "K2", "J0", "J2", "save", "restore"}
Screens == {"alt+", "alt-"}
Printable(t) == t \notin Controls \union Screens \union {"mode"}

NewBuffer == [lines |-> <<<<>>>>, row |-> 0, col |-> 0, savedRow |-> 0, savedCol |-> 0]

ensureRow(b) ==
    [b EXCEPT !.lines = IF Len(b.lines) > b.row THEN b.lines
                        ELSE b.lines \o [i \in 1..(b.row + 1 - Len(b.lines)) |-> <<>>]]

Line(b) == b.lines[b.row + 1]
Padded(line, col) == IF Len(line) >= col THEN line ELSE line \o [i \in 1..(col - Len(line)) |-> " "]

writePrintable(c, r) ==
    LET b == ensureRow(c)
        line == Padded(Line(b), b.col)
    IN  [b EXCEPT !.lines[b.row + 1] = IF b.col < Len(line) THEN [line EXCEPT ![b.col + 1] = r] ELSE Append(line, r),
                  !.col = b.col + 1]

eraseLine(c, mode) ==
    LET b == ensureRow(c)
    IN  IF mode = 2 THEN [b EXCEPT !.lines[b.row + 1] = <<>>, !.col = 0]
        ELSE [b EXCEPT !.lines[b.row + 1] = SubSeq(Line(b), 1, Min({b.col, Len(Line(b))}))]

eraseDisplay(c, mode) ==
    LET b == eraseLine(c, 0)
    IN  IF mode = 2 THEN [c EXCEPT !.lines = <<<<>>>>, !.row = 0, !.col = 0]
        ELSE [b EXCEPT !.lines = SubSeq(b.lines, 1, b.row + 1)]

applyCSI(b, t) ==
    CASE t = "up"      -> [b EXCEPT !.row = IF b.row = 0 THEN 0 ELSE b.row - 1]
      [] t = "down"    -> ensureRow([b EXCEPT !.row = b.row + 1])
      [] t = "right"   -> [b EXCEPT !.col = b.col + 1]
      [] t = "left"    -> [b EXCEPT !.col = IF b.col = 0 THEN 0 ELSE b.col - 1]
      [] t = "home"    -> ensureRow([b EXCEPT !.row = 0, !.col = 0])
      [] t = "K0"      -> eraseLine(b, 0)
      [] t = "K2"      -> eraseLine(b, 2)
      [] t = "J0"      -> eraseDisplay(b, 0)
      [] t = "J2"      -> eraseDisplay(b, 2)
      [] t = "save"    -> [b EXCEPT !.savedRow = b.row, !.savedCol = b.col]
      [] t = "restore" -> ensureRow([b EXCEPT !.row = b.savedRow, !.col = b.savedCol])

\* One step of Write; private modes have no effect on the buffer.
Put(b, t) ==
    CASE Printable(t) -> writePrintable(b, t)
      [] t = "cr" -> [b EXCEPT !.col = 0]
      [] t = "lf" -> ensureRow([b EXCEPT !.row = b.row + 1, !.col = 0])
      [] t = "bs" -> [b EXCEPT !.col = IF b.col = 0 THEN 0 ELSE b.col - 1]
      [] t \in Controls \ {"cr", "lf", "bs"} -> applyCSI(b, t)
      [] OTHER -> b

Write(b, text) == FoldLeft(Put, b, text)

\* String(): the lines, joined by newlines.
String(b) ==
    LET joined[n \in 1..Len(b.lines)] == IF n = 1 THEN b.lines[1] ELSE Append(joined[n - 1], "lf") \o b.lines[n]
    IN  joined[Len(b.lines)]

-----------------------------------------------------------------------------
(* The transcript. *)

\* webTTYTerminalTextSegments cuts a payload at its alternate screen
\* switches.  The scan keeps one offset: a private mode that is not such a
\* switch moves it past the text in front of the mode.
Scan(s, text, i) ==
    LET t == text[i]
        before == SubSeq(text, s.offset, i - 1)
    IN  IF t \in Screens
        THEN [out |-> (IF before = <<>> THEN s.out ELSE Append(s.out, before)) \o <<<<t>>>>, offset |-> i + 1]
        ELSE IF t = "mode" THEN [s EXCEPT !.offset = i + 1] ELSE s
webTTYTerminalTextSegments(text) ==
    LET scanned[n \in 0..Len(text)] ==
            IF n = 0 THEN [out |-> <<>>, offset |-> 1] ELSE Scan(scanned[n - 1], text, n)
        end == scanned[Len(text)]
        last == SubSeq(text, end.offset, Len(text))
    IN  IF last # <<>> THEN Append(end.out, last) ELSE IF end.out = <<>> THEN <<text>> ELSE end.out

Marker(t) == CASE t = "alt+" -> <<"<entered>", "lf">> [] t = "alt-" -> <<"<left>", "lf">>
               [] t = "active" -> <<"<active>", "lf">> [] OTHER -> <<"<resized>", "lf">>

Render(s, segment) ==
    LET marked == IF s.opts.modes THEN Write(s.main, Marker(segment[1])) ELSE s.main
    IN  IF segment = <<"alt+">> THEN [s EXCEPT !.main = marked, !.alternate = NewBuffer, !.inAlt = TRUE]
        ELSE IF segment = <<"alt-">> THEN [s EXCEPT !.main = marked, !.inAlt = FALSE]
        ELSE IF s.inAlt THEN [s EXCEPT !.alternate = Write(@, segment)]
        ELSE [s EXCEPT !.main = Write(@, segment)]

RenderEvent(s, e) ==
    IF e.type = "resize"
    THEN IF s.opts.resize THEN [s EXCEPT !.main = Write(@, Marker("resize"))] ELSE s
    ELSE IF e.type = "data" /\ e.text # <<>> /\ e.stream \in s.opts.streams
         THEN FoldLeft(Render, s, webTTYTerminalTextSegments(e.text))
         ELSE s

webTTYRenderSessionTextExport(es, o) ==
    LET start == [opts |-> o, main |-> NewBuffer, alternate |-> NewBuffer, inAlt |-> FALSE]
        end == FoldLeft(RenderEvent, start, es)
    IN  String(end.main) \o IF end.inAlt /\ o.active
                          THEN (IF o.modes THEN Marker("active") ELSE <<>>) \o String(end.alternate)
                          ELSE <<>>

-----------------------------------------------------------------------------
Init ==
    /\ recording \in Recordings
    /\ recorded \in 0..Len(recording)
    /\ opts \in Options
    /\ haskey \in Keys
    /\ pc = "page"
    /\ events = <<>>
    /\ nextSeq = opts.fromSeq
    /\ file = "none"
    /\ out = <<>>
    /\ atStart = recorded

\* The session goes on recording.
Record ==
    /\ recorded < Len(recording) /\ recorded' = recorded + 1
    /\ UNCHANGED <<recording, opts, haskey, pc, events, nextSeq, file, out, atStart>>

\* The engine: the first events from a sequence number on, up to a limit.
ListSessionEvents(from, limit) ==
    LET there == SelectSeq(SubSeq(recording, 1, recorded), LAMBDA e : e.seq >= from)
    IN  SubSeq(there, 1, Min({limit, Len(there)}))


\* webTTYReadAllSessionEvents: one page, and whether there is another.
ReadPage ==
    LET remaining == opts.maxEvents - Len(events)
        limit == IF opts.maxEvents > 0 THEN Min({PageSize, remaining}) ELSE PageSize
        page == ListSessionEvents(nextSeq, limit)
        lastSeq == page[Len(page)].seq
    IN  /\ pc = "page"
        /\ IF (opts.maxEvents > 0 /\ remaining = 0) \/ page = <<>>
           THEN pc' = "decrypt" /\ UNCHANGED <<events, nextSeq>>
           ELSE /\ events' = events \o page
                /\ nextSeq' = (lastSeq + 1) % (MaxSeq + 1)
                /\ pc' = IF lastSeq = MaxSeq \/ Len(page) < limit THEN "decrypt" ELSE "page"
        /\ UNCHANGED <<recording, recorded, opts, haskey, file, out, atStart>>

\* A request fails: nothing is written.
ReadFails ==
    /\ pc \in {"page", "decrypt"} /\ pc' = "failed"
    /\ UNCHANGED <<recording, recorded, opts, haskey, events, nextSeq, file, out, atStart>>

\* Every sealed payload is opened before the file is: one that cannot be ends
\* the export.
Sealed(e) == e.type = "data" /\ e.sealed /\ e.text # <<>>
DecryptEvents ==
    /\ pc = "decrypt"
    /\ IF \E i \in DOMAIN events : Sealed(events[i]) /\ ~haskey
       THEN pc' = "failed" /\ UNCHANGED file
       ELSE pc' = "write" /\ file' = "opened"
    /\ UNCHANGED <<recording, recorded, opts, haskey, events, nextSeq, out, atStart>>

WriteExport ==
    /\ pc = "write" /\ pc' = "done"
    /\ file' = "written"
    /\ out' = IF opts.format = "text" THEN webTTYRenderSessionTextExport(events, opts) ELSE events
    /\ UNCHANGED <<recording, recorded, opts, haskey, events, nextSeq, atStart>>

Next == Record \/ ReadPage \/ ReadFails \/ DecryptEvents \/ WriteExport
Spec == Init /\ [][Next]_vars

-----------------------------------------------------------------------------
TypeOK ==
    /\ pc \in {"page", "decrypt", "write", "done", "failed"}
    /\ nextSeq \in 0..MaxSeq
    /\ recorded \in 0..Len(recording)
    /\ file \in {"none", "opened", "written"}

Asked(n) == SelectSeq(SubSeq(recording, 1, n), LAMBDA e : e.seq >= opts.fromSeq)

\* An export has every event from the cursor on that was recorded when it
\* began, in order and once each, later ones only without a gap, and no more
\* than it was asked for (webTTYReadAllSessionEvents).
ExportComplete ==
    LET asked == Asked(recorded)
        least == Len(Asked(atStart))
    IN  /\ IsPrefix(events, asked)
        /\ opts.maxEvents > 0 => Len(events) <= opts.maxEvents
        /\ pc \in {"decrypt", "write", "done"} =>
               Len(events) >= IF opts.maxEvents > 0 THEN Min({least, opts.maxEvents}) ELSE least

\* The file is not touched by an export that fails, and one that is written
\* has no payload that stayed sealed (docs/006-webtty.md:429).
NothingPartial ==
    /\ pc = "failed" => file = "none"
    /\ file # "none" => haskey \/ \A i \in DOMAIN events : ~Sealed(events[i])

\* What the main screen of a terminal shows: the position of the last
\* character printed there that nothing has erased.
Cell(s, t) ==
    CASE Printable(t) -> [s EXCEPT !.cells = {x \in @ : <<x[1], x[2]>> # <<s.row, s.col>>} \union {<<s.row, s.col, t>>}, !.col = @ + 1]
      [] t = "cr" -> [s EXCEPT !.col = 0]
      [] t = "lf" -> [s EXCEPT !.row = @ + 1, !.col = 0]
      [] t \in {"bs", "left"} -> [s EXCEPT !.col = IF @ = 0 THEN 0 ELSE @ - 1]
      [] t = "up" -> [s EXCEPT !.row = IF @ = 0 THEN 0 ELSE @ - 1]
      [] t = "down" -> [s EXCEPT !.row = @ + 1]
      [] t = "right" -> [s EXCEPT !.col = @ + 1]
      [] t = "home" -> [s EXCEPT !.row = 0, !.col = 0]
      [] t = "K0" -> [s EXCEPT !.cells = {x \in @ : x[1] # s.row \/ x[2] < s.col}]
      [] t = "K2" -> [s EXCEPT !.cells = {x \in @ : x[1] # s.row}, !.col = 0]
      [] t = "J0" -> [s EXCEPT !.cells = {x \in @ : x[1] < s.row \/ (x[1] = s.row /\ x[2] < s.col)}]
      [] t = "J2" -> [s EXCEPT !.cells = {}, !.row = 0, !.col = 0]
      [] t = "save" -> [s EXCEPT !.saved = <<s.row, s.col>>]
      [] t = "restore" -> [s EXCEPT !.row = s.saved[1], !.col = s.saved[2]]
      [] OTHER -> s
Screen(text) ==
    FoldLeft(Cell, [cells |-> {}, row |-> 0, col |-> 0, saved |-> <<0, 0>>], text).cells

\* The tokens a terminal shows on its main screen: those no alternate screen
\* switch before them has diverted.
Chosen ==
    LET kept == SelectSeq(events, LAMBDA e : e.type = "data" /\ e.stream \in opts.streams)
    IN  FoldLeft(LAMBDA text, e : text \o e.text, <<>>, kept)
OnMain(text) ==
    LET diverted(i) == \E j \in 1..(i - 1) : text[j] = "alt+" /\ \A k \in (j + 1)..(i - 1) : text[k] # "alt-"
        kept[n \in 0..Len(text)] == IF n = 0 THEN <<>> ELSE IF diverted(n) THEN kept[n - 1] ELSE Append(kept[n - 1], text[n])
    IN  kept[Len(text)]

\* The cells of a text that is already laid out in lines.
Shows(text, cells) ==
    {x \in Screen(text) : x[3] # " "} = {x \in cells : x[3] # " "}

Bare == ~opts.modes /\ ~opts.resize /\ ~opts.active /\ opts.format = "text"

\* The transcript of an export shows, at every line and column, what the main
\* screen of a terminal would: the last character printed there and not
\* erased, with nothing of a closed alternate screen and nothing lost.
Transcript == pc = "done" /\ Bare => Shows(out, Screen(OnMain(Chosen)))

\* The same for output that sets no terminal mode besides the alternate
\* screen.
PlainTranscript == (\E i \in DOMAIN Chosen : Chosen[i] = "mode") \/ Transcript

=============================================================================
