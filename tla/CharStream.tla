----------------------------- MODULE CharStream ------------------------------
(***************************************************************************)
(* What the scanner promises its user, with no buffer in sight: the items  *)
(* of the text one after the other, each with its place; some can be taken *)
(* back and are then had again; what comes can be looked at beforehand.    *)
(***************************************************************************)
EXTENDS Integers, Sequences

CONSTANT UngetMax   \* how many items can be taken back

VARIABLES
    items,      \* the items of the text, the last of them its end
    had,        \* numbers of the items that can be had again, 0 at first,
                \* and how many of those are not taken back
    told        \* what the user was told last

vars == <<items, had, told>>

-----------------------------------------------------------------------------

Blank == {"sp", "lf"}
End == {"end", "failed"}
NoPlace == [line |-> 0, char |-> 0]
Told(c) == [c |-> c, place |-> NoPlace]

Following(i) == IF i < Len(items) THEN i + 1 ELSE i
First(h) == IF h.n < Len(h.got) THEN h.got[h.n + 1] ELSE Following(h.got[h.n])

(* Numbers of the items that may come next.  Blanks may be left out, the   *)
(* one that was taken back among them.                                     *)
Coming(h, blanks) ==
    IF blanks THEN {First(h)}
    ELSE {i \in First(h)..Len(items) :
            /\ items[i].c \notin Blank
            /\ \A k \in First(h)..(i - 1) : items[k].c \in Blank}

(* Only so many can be taken back: older ones are forgotten. *)
Recent(h) ==
    IF Len(h.got) <= UngetMax + 1 THEN h
    ELSE [got |-> Tail(h.got), n |-> h.n - 1]

(* What comes is settled by looking at it; blanks left out are gone.  What *)
(* is past the end is the end again, and the one before it is settled too. *)
Seen(h, i) ==
    IF h.got[h.n] = i THEN [got |-> <<i, i>>, n |-> 1]
    ELSE IF h.n < Len(h.got) /\ h.got[h.n + 1] = i THEN h
    ELSE Recent([h EXCEPT !.got = Append(SubSeq(@, 1, h.n), i)])

Taken(h, i) == [Seen(h, i) EXCEPT !.n = @ + 1]

Init ==
    /\ had = [got |-> <<0>>, n |-> 1]
    /\ told = Told("nothing")

Get(blanks) ==
    \E i \in Coming(had, blanks) :
        /\ had' = Taken(had, i)
        /\ told' = items[i]

Peek(blanks) ==
    \E i \in Coming(had, blanks) :
        /\ had' = Seen(had, i)
        /\ told' = Told(items[i].c)

(* Get, if it is this character that comes. *)
Try(blanks, c) ==
    \E i \in Coming(had, blanks) :
        /\ had' = IF items[i].c = c THEN Taken(had, i) ELSE Seen(had, i)
        /\ told' = IF items[i].c = c THEN items[i] ELSE Told("no")

(* Blanks, any number of them, are left out before the item looked at. *)
PastBlanks ==
    \E i \in First(had)..Len(items) :
        /\ \A k \in First(had)..(i - 1) : items[k].c \in Blank
        /\ had' = Seen(had, i)
        /\ told' = Told(items[i].c)

(* Get a letter, if no letter or digit follows it. *)
Single(blanks, letters, word) ==
    \E i \in Coming(had, blanks) :
        IF items[i].c \in letters
        THEN LET h == Taken(had, i)
             IN  \E j \in Coming(h, blanks) :
                    IF items[j].c \in word
                    THEN /\ had' = [Seen(h, j) EXCEPT !.n = @ - 1]
                         /\ told' = Told("no")
                    ELSE /\ had' = Seen(h, j)
                         /\ told' = items[i]
        ELSE /\ had' = Seen(had, i)
             /\ told' = Told("no")

(* As much as can be read of a name or a number: the longest of this form  *)
(* that comes, with nothing left out in it.  None of it can be taken back. *)
Comes(Form(_)) ==
    {last \in First(had)..(Len(items) - 1) :
        /\ \A i \in First(had)..(last - 1) :
              items[i + 1].place = [items[i].place EXCEPT !.char = @ + 1]
        /\ Form([k \in 1..(last - First(had) + 1) |-> items[First(had) + k - 1].c])}

(* Something of the text is left out before the next item. *)
LeftOut ==
    LET i == had.got[had.n]
        before == IF i = 0 THEN [line |-> 1, char |-> 0] ELSE items[i].place
        next == items[First(had)].place
    IN  next.char > 1 + (IF next.line = before.line THEN before.char ELSE 0)

Word(Form(_)) ==
    \/ /\ Comes(Form) = {} \/ LeftOut
       /\ told' = Told("no")
       /\ UNCHANGED had
    \/ \E last \in Comes(Form) :
          /\ \A other \in Comes(Form) : other <= last
          /\ had' = [got |-> <<last>>, n |-> 1]
          /\ told' = items[last]

Back ==
    /\ had.n > 1
    /\ had' = [had EXCEPT !.n = @ - 1]
    /\ UNCHANGED told

Next(letters, digits, tested) ==
    LET Name(s) == \A k \in DOMAIN s : s[k] \in letters \union digits
        Integer(s) == \A k \in DOMAIN s : s[k] \in digits
        Decimal(s) ==
            /\ s[Len(s)] \in digits
            /\ \E point \in 0..Len(s) :
                 \A k \in DOMAIN s : IF k = point THEN s[k] = "." ELSE s[k] \in digits
    IN  /\ UNCHANGED items
        /\ \/ \E blanks \in BOOLEAN :
                \/ Get(blanks) \/ Peek(blanks)
                \/ \E c \in tested : Try(blanks, c)
                \/ Single(blanks, letters, letters \union digits)
           \/ PastBlanks
           \/ Word(Name) \/ Word(Integer) \/ Word(Decimal)
           \/ Back
=============================================================================
