------------------------------ MODULE Scanner --------------------------------
(***************************************************************************)
(* The scanner, src/sau/scanner.c, over the text buffer: it gets the       *)
(* characters of a script one by one through filters which leave out       *)
(* comments and turn blanks into markers; and it keeps frames of the last  *)
(* characters, so that they can be taken back and had again.  A character  *)
(* got after filtering is written into the buffer in front of the position *)
(* and so is the one before it on taking back: what was left out must not  *)
(* be read as text when the position goes back.                            *)
(*                                                                         *)
(* '#' has the filter the parser gives it (parser.c).  res is what the     *)
(* last filter or operation returned.  The history variables are the       *)
(* stream of CharStream, which the steps have to follow: items are the     *)
(* characters of the text, found by reading it in one piece.               *)
(***************************************************************************)
EXTENDS FileBuffer, FiniteSets

CONSTANTS
    UngetMax,   \* SAU_SCAN_UNGET_MAX
    Scripts,    \* the files: their texts and whether reading fails where they end
    MaxChar,    \* bound: number in a line, which grows on with gets of the end
    Loose       \* whether characters are taken back where the place goes wrong

VARIABLES
    s,                  \* the sauScanner with its sauFile
    items, had, told    \* history: of CharStream

vars == <<s, items, had, told>>

ASSUME UngetAssumption == UngetMax \in 1..(AreaLen - 1)
ASSUME LooseAssumption == Loose \in BOOLEAN

-----------------------------------------------------------------------------

Letters == {"a", "Q"}
Digits == {"1"}
SymChars == Letters \union Digits
Breaks == {"lf", "cr"}
PlainChars == SymChars \union {".", "!", "*", "+"}
Chars == PlainChars \union Breaks \union {"sp", "#", "/", LowChar}

NoChar == "none"    \* 0: the filter wants another character
Eof == "eof"        \* SAU_SCAN_EOF

(* A frame: sf, or an entry of the undo ring. *)
Frame(line, char, c) == [line |-> line, char |-> char, c |-> c, posup |-> FALSE]

(* sau_create_Scanner() and sauScanner_open() *)
Scanning(file) ==
    [f |-> file, sf |-> Frame(1, 0, LowChar),
     undo |-> [i \in 0..UngetMax |-> Frame(0, 0, LowChar)],
     undo_pos |-> 0, ungets |-> 0, regot |-> FALSE, error |-> FALSE,
     ws_none |-> FALSE, res |-> NoChar]

File(t, file) == [t EXCEPT !.f = file]
Result(t, c) == [t EXCEPT !.res = c]
PastLinebreak(t) == [t EXCEPT !.sf.line = @ + 1, !.sf.char = 0]

-----------------------------------------------------------------------------
(* Reading on in the file.                                                 *)

(* Past the characters that are in cs, and how many they are; g has got    *)
(* one.  The marker is in none: LowChar counts only as one of the text.    *)
RECURSIVE RunFrom(_, _, _)
RunFrom(g, cs, count) ==
    IF GotChar(g) \in cs /\ ~(GotChar(g) = LowChar /\ AfterEnd(g))
    THEN RunFrom(GetC(g), cs, count + 1)
    ELSE [f |-> Dec(g), count |-> count]
Run(f, cs) == RunFrom(GetC(f), cs, 0)

(* sauFile_geti(), the digits; failing, it goes back to where it began. *)
ReadInt(f) ==
    LET run == Run(f, Digits)
    IN  IF run.count > 0 THEN run ELSE [f |-> UnGetN(GetC(f), 1), count |-> 0]

(* sauFile_getd(): a point belongs to the number if a digit follows it. *)
Decimal(whole, tail) ==
    LET len == whole.count + tail.count + (IF tail.count > 0 THEN 1 ELSE 0)
        past == GetC(GetC(whole.f))
    IN  IF tail.count > 0 THEN [f |-> tail.f, count |-> len]
        ELSE IF ~Tried(whole.f, ".") THEN whole
        ELSE [f |-> IF len > 0 THEN Dec(Inc(UnGetN(past, 2))) ELSE UnGetN(past, 2),
              count |-> len]
DecimalFrom(whole) ==
    Decimal(whole, IF Tried(whole.f, ".") THEN Run(GetC(whole.f), Digits)
                   ELSE [f |-> whole.f, count |-> 0])
ReadDecimal(f) == DecimalFrom(Run(f, Digits))

-----------------------------------------------------------------------------
(* The filters.  Where g is given, it has got the character after.         *)

FilterInvalid(t) ==
    IF AfterEnd(t.f) THEN [t EXCEPT !.res = Eof, !.error = @ \/ t.f.error]
    ELSE Result(t, NoChar)

FilterLinebreakKeep(t, c) ==
    [t EXCEPT !.f = IF c = "lf" THEN TryC(@, "cr") ELSE @,
              !.sf.posup = TRUE, !.res = "lf"]

RECURSIVE PastBlankLines(_), PastIndent(_, _)
PastBlankLines(t) ==
    IF Tried(t.f, "lf")
    THEN PastBlankLines(PastLinebreak(File(t, TryC(GetC(t.f), "cr"))))
    ELSE IF Tried(t.f, "cr") THEN PastBlankLines(PastLinebreak(File(t, GetC(t.f))))
    ELSE PastIndent(t, Run(t.f, {"sp"}))
PastIndent(t, run) ==
    IF run.count = 0 THEN File(t, run.f)
    ELSE PastBlankLines([t EXCEPT !.f = run.f, !.sf.char = run.count])

LeftOut(t, run) == [t EXCEPT !.f = run.f, !.sf.char = @ + run.count, !.res = NoChar]

FilterWsNone(t, c) ==
    IF c \in Breaks
    THEN PastBlankLines(PastLinebreak(
            [t EXCEPT !.f = IF c = "lf" THEN TryC(@, "cr") ELSE @,
                      !.sf.posup = FALSE, !.res = NoChar]))
    ELSE LeftOut(t, Run(t.f, {"sp"}))

FilterBlank(t, c) ==
    IF t.ws_none THEN FilterWsNone(t, c)
    ELSE IF c = "sp" THEN Result(t, "sp")
    ELSE FilterLinebreakKeep(t, c)

FilterLinecomment(t) == LeftOut(t, Run(t.f, Chars \ Breaks))

RECURSIVE CommentEnd(_, _, _)
CommentEnd(g, line, char) ==
    LET c == GotChar(g)
    IN  IF c = "lf" THEN CommentEnd(GetC(TryC(g, "cr")), line + 1, 0)
        ELSE IF c = "cr" THEN CommentEnd(GetC(g), line + 1, 0)
        ELSE IF c = "*" /\ Tried(g, "/")
        THEN [f |-> GetC(g), open |-> FALSE, line |-> line, char |-> char + 2]
        ELSE IF c = LowChar /\ AfterEnd(g)
        THEN [f |-> g, open |-> TRUE, line |-> line, char |-> char + 1]
        ELSE CommentEnd(GetC(g), line, char + 1)

(* A comment which does not end is an error, at its beginning. *)
FilterBlockcomment(t, end) ==
    IF end.open THEN [FilterInvalid(File(t, end.f)) EXCEPT !.error = TRUE]
    ELSE FilterBlank([t EXCEPT !.f = end.f, !.sf.line = end.line,
                               !.sf.char = end.char], "sp")

FilterSlashcomments(t, g) ==
    CASE GotChar(g) = "*" ->
            FilterBlockcomment([t EXCEPT !.f = g, !.sf.char = @ + 1],
                               CommentEnd(GetC(g), t.sf.line, t.sf.char + 1))
      [] GotChar(g) = "/" -> FilterLinecomment([t EXCEPT !.f = g, !.sf.char = @ + 1])
      [] OTHER -> Result(File(t, Dec(g)), "/")

(* scan_filter_hashcommands() *)
FilterHashcommands(t, g) ==
    CASE GotChar(g) = "!" -> FilterLinecomment([t EXCEPT !.f = g, !.sf.char = @ + 1])
      [] GotChar(g) = "Q" -> Result(File(t, Closed(Dec(g))), Eof)
      [] OTHER -> Result(File(t, Dec(g)), "#")

HasFilter(c) == c \notin PlainChars

(* sauScanner_getfilter() and the call of what it gives *)
Filter(t, c) ==
    CASE c = LowChar -> FilterInvalid(t)
      [] c = "sp" \/ c \in Breaks -> FilterBlank(t, c)
      [] c = "/" -> FilterSlashcomments(t, GetC(t.f))
      [] c = "#" -> FilterHashcommands(t, GetC(t.f))
      [] OTHER -> Result(t, c)

-----------------------------------------------------------------------------
(* Frames, and getting one character.                                      *)

RingPos(i) == i % (UngetMax + 1)

ChangeFrame(t, offset) ==
    LET pos == RingPos(t.undo_pos + offset)
    IN  [t EXCEPT !.undo_pos = pos, !.sf = t.undo[pos]]

PreGetSetup(t) ==
    IF t.ungets = 0 THEN t
    ELSE [ChangeFrame(t, 1) EXCEPT !.ungets = @ - 1, !.regot = TRUE,
                                   !.sf.char = @ - 1]

PrepareFrame(t) ==
    LET pos == IF t.regot THEN t.undo_pos ELSE RingPos(t.undo_pos + 1)
        kept == [t EXCEPT !.regot = FALSE, !.undo_pos = pos, !.undo[pos] = t.sf]
    IN  IF t.sf.posup THEN PastLinebreak([kept EXCEPT !.sf.posup = FALSE]) ELSE kept

SetUsedc(t, c) == [t EXCEPT !.sf.c = c, !.f.buf[Wrapped(t.f.pos - 1)] = c]

RECURSIVE Settled(_)
(* The rest of the loops of sauScanner_getc() and sauScanner_filterc(),    *)
(* for a character a filter has been at.                                   *)
Settled(t) ==
    IF t.res = Eof THEN PrepareFrame(Result(t, "end"))
    ELSE IF t.res # NoChar THEN PrepareFrame(SetUsedc(t, t.res))
    ELSE LET g == GetC(t.f)
         IN  Settled(Filter([t EXCEPT !.f = g, !.sf.char = @ + 1], GotChar(g)))

(* sauScanner_getc() *)
Getc(t) ==
    LET g == GetC(t.f)
    IN  Settled(Filter([PreGetSetup(t) EXCEPT !.f = g, !.sf.char = @ + 1], GotChar(g)))

(* sauScanner_filterc(), which is given the first character *)
Filterc(t, FilterF(_)) ==
    Settled(FilterF([PreGetSetup(t) EXCEPT !.f = Inc(@), !.sf.char = @ + 1]))

(* Mutant: the character before is not written back. *)
Ungetc_AsIs(t) ==
    IF t.ungets >= UngetMax THEN t
    ELSE ChangeFrame([t EXCEPT !.f = Dec(@), !.ungets = @ + 1, !.regot = FALSE], -1)

(* sauScanner_ungetc().  Taking back more than there is is refused. *)
Ungetc(t) ==
    IF t.ungets >= UngetMax THEN t
    ELSE LET back == ChangeFrame([t EXCEPT !.f = Dec(@), !.ungets = @ + 1,
                                           !.regot = FALSE], -1)
         IN  SetUsedc(back, back.sf.c)

(* sauScanner_retc() *)
Retc(t) ==
    LET f == Updated(t.f)
    IN  IF HasFilter(CharAt(f))
        THEN Ungetc(Filterc(File(t, f), LAMBDA u : Filter(u, CharAt(f))))
        ELSE Result(File(t, f), CharAt(f))

(* A character which has no filter is got. *)
TakePlain(t) ==
    PrepareFrame([PreGetSetup(t) EXCEPT !.f = Inc(@), !.sf.char = @ + 1,
                                        !.sf.c = CharAt(t.f), !.res = CharAt(t.f)])

(* sauScanner_tryc() *)
GotOrNot(got, testc) ==
    IF got.res = testc THEN got ELSE Result(Ungetc(got), "no")
Tryc(t, testc) ==
    LET u == File(t, Updated(t.f))
        c == CharAt(u.f)
    IN  IF HasFilter(c) THEN GotOrNot(Filterc(u, LAMBDA v : Filter(v, c)), testc)
        ELSE IF c = testc THEN TakePlain(u) ELSE Result(u, "no")

(* sauScanner_get_suffc(): a letter is a suffix if nothing more follows. *)
Suffix(got, next) ==
    IF got.res \notin Letters THEN Result(Ungetc(got), "no")
    ELSE IF next.res \in SymChars THEN Result(Ungetc(next), "no")
    ELSE Result(next, got.res)
SuffixFrom(got) == Suffix(got, Retc(got))
GetSuffc(t) ==
    LET u == File(t, Updated(t.f))
        c == CharAt(u.f)
    IN  IF ~HasFilter(c) /\ c \notin Letters THEN Result(u, "no")
        ELSE SuffixFrom(IF HasFilter(c) THEN Filterc(u, LAMBDA v : Filter(v, c))
                        ELSE TakePlain(u))

(* sauScanner_skipws() *)
SkipFrom(u) ==
    IF u.res \in {"sp", "lf"}
    THEN Ungetc(Filterc(u, LAMBDA v : FilterWsNone(v, u.res)))
    ELSE u
Skipws(t) == SkipFrom(Retc(t))

-----------------------------------------------------------------------------
(* Names and numbers, read past the filters.                               *)

AdvanceFrame(t, len, c) ==
    LET prelen == 1
        reget_count == IF len - prelen > t.ungets THEN t.ungets ELSE len - prelen
        first == PrepareFrame([t EXCEPT
            !.ungets = IF reget_count > 0 THEN @ - (reget_count - 1) ELSE @,
            !.sf.char = @ + prelen])
    IN  IF len = 0 THEN t
        ELSE [first EXCEPT !.sf.char = @ + (len - prelen), !.sf.c = c]

GetRun(t, ReadF(_)) ==
    LET f == Updated(t.f)
        u == [PreGetSetup(t) EXCEPT !.f = f, !.sf.c = CharAt(f)]
        run == ReadF(f)
    IN  IF run.count = 0 THEN Result(File(u, run.f), "no")
        ELSE Result(AdvanceFrame(File(u, run.f), run.count, CharAt(run.f)),
                    run.f.buf[Wrapped(run.f.pos - 1)])

GetSymstr(t) == GetRun(t, LAMBDA f : Run(f, SymChars))
Geti(t) == GetRun(t, ReadInt)
Getd(t) == GetRun(t, ReadDecimal)

(* sauScanner_setws_level() *)
SetwsLevel(t, none) == [t EXCEPT !.ws_none = none]
-----------------------------------------------------------------------------
(* The items of a text, with no regard to the buffer.                      *)

At(text, i) == IF i \in DOMAIN text THEN text[i] ELSE "past"

(* The first place from i on where P holds, or the one past the text. *)
FirstFrom(text, i, P(_)) ==
    CHOOSE j \in i..(Len(text) + 1) :
        /\ j > Len(text) \/ P(j)
        /\ \A k \in i..(j - 1) : ~P(k)

(* Where a linebreak ends: LF CR is one, CR LF is two. *)
BreakEnds(text, i) ==
    \/ text[i] = "lf" /\ At(text, i + 1) # "cr"
    \/ text[i] = "cr"

RECURSIVE ItemsFrom(_, _, _, _, _)
ItemsFrom(text, fails, i, line, char) ==
    LET c == At(text, i)
        two == <<c, At(text, i + 1)>>
        item(d) == <<[c |-> d, place |-> [line |-> line, char |-> char + 1]]>>
        end(d) == <<[c |-> d, place |-> [line |-> 0, char |-> 0]]>>
        eol == FirstFrom(text, i, LAMBDA j : text[j] \in Breaks)
        close == FirstFrom(text, i + 2,
                    LAMBDA j : text[j] = "*" /\ At(text, j + 1) = "/") + 1
        breaks == {j \in i..close : BreakEnds(text, j)}
        last_break == CHOOSE j \in breaks : \A k \in breaks : k <= j
        at_close == IF breaks = {} THEN [line |-> line, char |-> char + close - i + 1]
                    ELSE [line |-> line + Cardinality(breaks), char |-> close - last_break]
    IN  CASE i > Len(text) -> end(IF fails THEN "failed" ELSE "end")
          [] c \in Breaks ->
                item("lf") \o ItemsFrom(text, fails,
                    IF two = <<"lf", "cr">> THEN i + 2 ELSE i + 1, line + 1, 0)
          [] c = LowChar -> ItemsFrom(text, fails, i + 1, line, char + 1)
          [] two = <<"#", "Q">> -> end("end")
          [] two \in {<<"/", "/">>, <<"#", "!">>} ->
                ItemsFrom(text, fails, eol, line, char + (eol - i))
          [] two = <<"/", "*">> ->
                IF close > Len(text) THEN end("failed")
                ELSE <<[c |-> "sp", place |-> at_close]>>
                     \o ItemsFrom(text, fails, close + 1, at_close.line, at_close.char)
          [] OTHER -> item(c) \o ItemsFrom(text, fails, i + 1, line, char + 1)

-----------------------------------------------------------------------------

Stream == INSTANCE CharStream

Place(frame) == [line |-> frame.line, char |-> frame.char]
EndOf(t) == IF t.error THEN "failed" ELSE "end"
Seen(t) == Stream!Told(IF t.res = "end" THEN EndOf(t) ELSE t.res)
Got(t) == IF t.res = "end" THEN Seen(t)
          ELSE [c |-> t.res, place |-> Place(t.undo[t.undo_pos])]

(* The item that is next, blanks left out as they are now. *)
NextItem(h) == CHOOSE i \in Stream!Coming(h, ~s.ws_none) : TRUE

(* Where the scanner loses its place, and nothing is said of what it gives *)
(* after that.  Blanks are left out past frames of the undo ring, which do *)
(* not change, when others than the last character taken back are blanks.  *)
(* (Where the parser leaves blanks out, there is none but the last.)       *)
MayLeaveOut ==
    \A k \in had.n + 1..had.n + s.ungets - 1 : items[had.got[k]].c \notin Stream!Blank
MayGet ==
    /\ \A i \in DOMAIN s.undo : s.undo[i].char < MaxChar
    /\ s.ws_none => MayLeaveOut

(* A name or number looked for in vain leaves the frame of the character   *)
(* after the position current, if that had been taken back: pre_get_setup()*)
(* moves the frame, and nothing moves it back.  So the next character got, *)
(* with more taken back, and the next one taken back have a wrong frame,   *)
(* whose character is then written over that in the buffer.                *)
(* (Read with more taken back a name or number is not right, either.)      *)
(* The parser does both: scan_num_r() takes a character back, looks for a  *)
(* number in vain, and its caller takes back the sign before (parser.c:312,*)
(* 320-324, 427); and it looks for one with two taken back, after a letter *)
(* and a blank that sauScanner_get_suffc() looked at (parser.c:1775, 1792).*)
MayRead == s.ungets > 1 => Loose
MayTakeBack == had.n > 1 /\ (s.regot => Loose)

Init ==
    /\ \E file \in Scripts :
        /\ s = Scanning(Opened(file.text, file.fails))
        /\ items = ItemsFrom(file.text, file.fails, 1, 1, 0)
    /\ Stream!Init

GetChar ==
    /\ MayGet
    /\ s' = Getc(s)
    /\ told' = Got(s')
    /\ had' = Stream!Taken(had, NextItem(had))

PeekChar ==
    /\ MayGet
    /\ s' = Retc(s)
    /\ told' = Seen(s')
    /\ had' = Stream!Seen(had, NextItem(had))

TryChar(c) ==
    /\ MayGet
    /\ s' = Tryc(s, c)
    /\ told' = IF s'.res = c THEN Got(s') ELSE Seen(s')
    /\ had' = IF s'.res = c THEN Stream!Taken(had, NextItem(had))
              ELSE Stream!Seen(had, NextItem(had))

(* The letter and what follows it are both looked at. *)
GetSuffix ==
    LET i == NextItem(had)
        h == Stream!Taken(had, i)
    IN  /\ MayGet
        /\ s' = GetSuffc(s)
        /\ told' = IF s'.res = "no" THEN Seen(s') ELSE
                   [c |-> s'.res, place |-> Place(s'.undo[s'.undo_pos])]
        /\ had' = IF items[i].c \notin Letters THEN Stream!Seen(had, i)
                  ELSE IF s'.res # "no" THEN Stream!Seen(h, NextItem(h))
                  ELSE [Stream!Seen(h, NextItem(h)) EXCEPT !.n = @ - 1]

(* The item it stops at is known by its frame. *)
SkipBlanks ==
    LET ahead == s'.undo[RingPos(s'.undo_pos + 1)]
        first == Stream!First(had)
        stops == {i \in first..Len(items) :
                    /\ items[i].c = told'.c
                    /\ told'.c \in Stream!End \/ items[i].place = Place(ahead)}
    IN  /\ MayLeaveOut
        /\ s' = Skipws(s)
        /\ told' = Seen(s')
        /\ had' = Stream!Seen(had,
                    IF items[first].c \in Stream!Blank /\ stops # {}
                    THEN CHOOSE i \in stops : \A j \in stops : i <= j
                    ELSE first)

(* The place is now that of the last character read. *)
TakeRun(Op(_)) ==
    LET read == {i \in 1..Len(items) : items[i].place = Place(s'.sf)}
    IN  /\ MayRead
        /\ s' = Op(s)
        /\ IF s'.res = "no" THEN told' = Seen(s') /\ UNCHANGED had
           ELSE /\ told' = [c |-> s'.res, place |-> Place(s'.sf)]
                /\ had' = [got |-> <<CHOOSE i \in read \union {0} : read # {} => i \in read>>,
                           n |-> 1]

TakeBack ==
    /\ MayTakeBack
    /\ s' = Ungetc(s)
    /\ had' = [had EXCEPT !.n = @ - 1]
    /\ UNCHANGED told

SetBlanks ==
    /\ \E none \in BOOLEAN : s' = SetwsLevel(s, none)
    /\ UNCHANGED <<had, told>>

Next ==
    /\ UNCHANGED items
    /\ \/ GetChar \/ PeekChar
       \/ \E c \in {"a", "lf"} : TryChar(c)
       \/ GetSuffix \/ SkipBlanks
       \/ TakeRun(GetSymstr) \/ TakeRun(Geti) \/ TakeRun(Getd)
       \/ TakeBack
       \/ SetBlanks

Spec == Init /\ [][Next]_vars

-----------------------------------------------------------------------------

(* Types: positions stay near enough to the buffer to be wrapped, and the  *)
(* place where the next area is read lies in it.                           *)
TypeOK ==
    /\ s.f.pos \in -UngetMax..BufLen
    /\ s.f.call_pos \in 0..(BufLen - 1)
    /\ s.f.end_pos \in NoEnd..(BufLen - 1)
    /\ s.f.reading = ~s.f.ended
    /\ s.f.buf \in [0..(BufLen - 1) -> Chars]
    /\ s.undo_pos \in 0..UngetMax
    /\ s.ungets \in 0..UngetMax
    /\ s.sf.c \in Chars
    /\ s.sf.line >= 0 /\ s.sf.char >= -1

(* What the scanner gives is the text: every get, look ahead, try, name,   *)
(* number and taking back is one of CharStream, and has the place it tells *)
(* -- wherever in the two areas the text lies, whatever was left out of it *)
(* and however much was taken back (sauScanner_getc(), sauScanner_retc(),  *)
(* sauScanner_tryc(), sauScanner_ungetc() and the rest).  That is so of    *)
(* calls which keep to MayLeaveOut, and with ~Loose to the rest of MayRead *)
(* and MayTakeBack, and of texts in which no linebreak is followed by a CR *)
(* (LF CR is one), unless in a comment; ToldAsWritten fails for the others.*)
GivesTheText ==
    /\ Stream!Init
    /\ [][Stream!Next(Letters, Digits, {"a", "lf"})]_Stream!vars

(* "Unget one character and jump to the previous scan frame.  The next get *)
(* will jump back and begin with the last character got."  (scanner.c:708) *)
(* And looking ahead is "without advancing the position" (scanner.c:601).  *)
(* So what is told with a place, as messages have it, stands there in the  *)
(* text, whatever was looked at or taken back before.                      *)
ToldAsWritten ==
    told.place # Stream!NoPlace => \E i \in DOMAIN items : items[i] = told

(* After the end nothing else is had, unless the end is taken back.        *)
(* doc/README.SAU says so of a #Q in the text: it "comments out the rest   *)
(* of the whole file".                                                     *)
NothingAfterTheEnd ==
    [][GetChar /\ had.got[had.n] = Len(items) => told'.c \in Stream!End]_vars

=============================================================================
