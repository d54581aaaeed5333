----------------------------- MODULE FileBuffer ------------------------------
(***************************************************************************)
(* The buffered text file, src/sau/file.c and file.h: a circular buffer of *)
(* two areas, filled one area at a time when the position comes to the     *)
(* call position.  After the end of the text stands a marker, which looks  *)
(* like a character of the lowest values; only its place tells them apart. *)
(*                                                                         *)
(* A file is a record, and an operation is an operator from file to file.  *)
(* The character an operation gets is the one before the position it       *)
(* leaves (GotChar).  pos is not always wrapped, as in the code.           *)
(***************************************************************************)
EXTENDS Integers, Sequences

CONSTANT AreaLen    \* SAU_FILE_ALEN

ASSUME AreaAssumption == AreaLen \in Nat \ {0, 1}

BufLen == 2 * AreaLen           \* SAU_FILE_BUFSIZ
LowChar == "low"                \* a character of at most SAU_FILE_MARKER
NoEnd == -1                     \* end_pos before there is a marker

Wrapped(p) == p % BufLen        \* sauFile_FIXP()
AreaStart(p) == AreaLen * (Wrapped(p) \div AreaLen)

(* sauFile_init(), as called to open.  fails: reading stops at an error    *)
(* where the text would end.                                               *)
Opened(text, fails) ==
    [pos |-> 0, call_pos |-> 0, reading |-> TRUE, ended |-> FALSE,
     error |-> FALSE, end_pos |-> NoEnd, ref |-> text, fails |-> fails,
     buf |-> [p \in 0..(BufLen - 1) |-> LowChar]]

(* sauFile_close() *)
Closed(f) ==
    IF f.ended THEN f
    ELSE [f EXCEPT !.ended = TRUE, !.reading = FALSE, !.ref = <<>>,
                   !.call_pos = Wrapped(f.pos + 1)]

(* Mutant: the call position is not wrapped. *)
Ended_PastBuffer(f, keep_len, error) ==
    LET marker == Wrapped(f.pos + keep_len)
    IN  [Closed(f) EXCEPT !.error = @ \/ error, !.end_pos = marker,
                          !.buf[marker] = LowChar, !.call_pos = marker + 1]

(* sauFile_end() *)
Ended(f, keep_len, error) ==
    LET marker == Wrapped(f.pos + keep_len)
    IN  [Closed(f) EXCEPT !.error = @ \/ error, !.end_pos = marker,
                          !.buf[marker] = LowChar,
                          !.call_pos = Wrapped(marker + 1)]

(* mode_fread() and mode_strread(): the first fills what it reads into the *)
(* buffer before it marks the end, the second after.                       *)
AreaRead(f) ==
    LET start == AreaStart(f.pos)
        len == IF Len(f.ref) < AreaLen THEN Len(f.ref) ELSE AreaLen
        filled == [f EXCEPT
            !.pos = start,
            !.ref = SubSeq(@, len + 1, Len(@)),
            !.buf = [p \in DOMAIN @ |->
                IF p \in start..(start + len - 1) THEN f.ref[p - start + 1] ELSE @[p]],
            !.call_pos = Wrapped(start + len)]
    IN  IF len < AreaLen THEN Ended(filled, len, f.fails) ELSE filled

(* sauFile_action_wrap(), which repeats the marker once the file is ended. *)
(* (It is never the callback before that.)                                 *)
MarkerRepeated(f) == Ended(f, 0, FALSE)

(* sauFile_UPDATE() *)
Updated(f) ==
    LET g == [f EXCEPT !.pos = Wrapped(@)]
    IN  IF g.pos # g.call_pos THEN g
        ELSE IF g.reading THEN AreaRead(g) ELSE MarkerRepeated(g)

Inc(f) == [f EXCEPT !.pos = @ + 1]
Dec(f) == [f EXCEPT !.pos = @ - 1]

GetC(f) == Inc(Updated(f))                  \* sauFile_GETC()
GotChar(f) == f.buf[Wrapped(f.pos - 1)]     \* what it got
CharAt(f) == f.buf[f.pos]                   \* sauFile_RETC_NC(), after an update
UnGetN(f, len) == [f EXCEPT !.pos = Wrapped(@ - len)]

(* sauFile_TRYC(): the position moves past the character if it is c. *)
TryC(f, c) == LET g == Updated(f) IN IF CharAt(g) = c THEN Inc(g) ELSE g
Tried(f, c) == CharAt(Updated(f)) = c

AfterEnd(f) == f.end_pos = Wrapped(f.pos - 1)   \* sauFile_AFTER_EOF()
=============================================================================
